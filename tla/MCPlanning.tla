----------------------------- MODULE MCPlanning -----------------------------
(* Plans that are projected as they are (MCLedger), and sessions of edits  *)
(* that start with a plan of one alternative or of two.                    *)
EXTENDS Dashboard, MCLedger, TLC

Income(id) ==
  [id |-> id, amount |-> 600, every |-> "biweekly", start |-> 0, growth |-> 0]
Rent(id) == [id |-> id, amount |-> 90, every |-> "monthly", start |-> -20, growth |-> 0]

Savings(id, connected) ==
  [id |-> id, mode |-> "APY", value |-> 900, connected |-> connected, rate |-> 3,
   units |-> 0, price |-> 0, recur |-> 0, every |-> "monthly", synced |-> TRUE]

Stock(id) ==
  [id |-> id, mode |-> "Ticker", value |-> 160, connected |-> FALSE, rate |-> 5,
   units |-> 800, price |-> 20, recur |-> 0, every |-> "monthly", synced |-> TRUE]

Mortgage(id) ==
  [id |-> id, value |-> 130, connected |-> FALSE, rate |-> 8, pmt |-> 0, extra |-> 0,
   every |-> "monthly", extraEvery |-> "monthly", start |-> NoStart]

Household(id, connected) ==
  [id |-> id, income |-> <<Income(1)>>, expense |-> <<Rent(2)>>,
   asset |-> <<Savings(3, connected), Stock(4)>>, debt |-> <<Mortgage(5)>>]

Percent == [mode |-> "percent", amount |-> 10, freq |-> "monthly", recur |-> "monthly"]
Fixed == [mode |-> "fixed", amount |-> 70, freq |-> "biweekly", recur |-> "yearly"]

Edge(from, to, ends, form) ==
  [from |-> from, to |-> to, mode |-> form.mode, amount |-> form.amount, freq |-> form.freq,
   recur |-> form.recur, slipped |-> FALSE, ends |-> ends]

Saved == Edge(<<"income", 1>>, <<"asset", 2>>, <<1, 4>>, Percent)
Repaid == Edge(<<"asset", 1>>, <<"debt", 1>>, <<4, 5>>, Fixed)

Store(names, household, edges, autoMonthly, augments) ==
  [alternatives |-> [name \in DOMAIN names |-> [household EXCEPT !.id = names[name]]],
   activeAlt |-> "Baseline",
   altChartEnabled |-> [name \in DOMAIN names |-> TRUE],
   byAlt |-> IF edges = << >> THEN << >>
             ELSE [name \in DOMAIN names |-> [owner |-> names[name], edges |-> edges]],
   goals |-> [name \in DOMAIN names |-> {names[name]}],
   checkpoints |-> << >>, augments |-> augments, autoMonthly |-> autoMonthly,
   seed |-> 0, fingerprint |-> [none |-> TRUE]]

One == "Baseline" :> 11
Two == One @@ ("Alternative 2" :> 12)

Session(doc, edits, visits, projections, failures, isFree, canWork) ==
  [plan |-> doc, free |-> isFree, workers |-> canWork,
   left |-> [edits |-> edits, visits |-> visits, projections |-> projections,
             failures |-> failures]]

Starter == [id |-> 0, income |-> <<Income(1)>>, expense |-> << >>,
            asset |-> <<Stock(4)>>, debt |-> << >>]
Saver == [id |-> 0, income |-> << >>, expense |-> << >>,
          asset |-> <<Stock(4)>>, debt |-> << >>]

Borrower == [id |-> 0, income |-> << >>, expense |-> << >>,
             asset |-> <<Stock(4)>>, debt |-> <<Mortgage(5)>>]

MCSessions ==
  {Session(Store(One, Household(0, FALSE), <<Saved>>, FALSE, << >>), 2, 0, 1, 0, FALSE, TRUE),
   Session(Store(Two, Household(0, TRUE), <<Saved>>, TRUE, << >>), 2, 0, 1, 0, FALSE, TRUE),
   Session(Store(One, Starter, << >>, TRUE, << >>), 3, 0, 1, 0, FALSE, TRUE),
   Session(Store(One, Saver, << >>, TRUE, <<TRUE>>), 1, 2, 0, 1, FALSE, TRUE),
   Session(Store(One, Saver, << >>, FALSE, <<TRUE>>), 2, 1, 0, 0, FALSE, TRUE),
   Session(Store(One, Borrower, <<Repaid>>, FALSE, << >>), 2, 1, 0, 0, TRUE, FALSE)}

MCNewNames == [n \in 1 .. 2 |-> IF n = 1 THEN "Alternative 2" ELSE "Alternative 3"]

MCChanges ==
  <<"income", "amount">> :> {400} @@ <<"expense", "every">> :> {"weekly"}
  @@ <<"asset", "value">> :> {200} @@ <<"asset", "units">> :> {300}
  @@ <<"asset", "price">> :> {25}
  @@ <<"asset", "mode">> :> {"Ticker"}
  @@ <<"debt", "value">> :> {60} @@ <<"debt", "pmt">> :> {40}

Chosen(years, granularity) == [years |-> years, granularity |-> granularity, view |-> "likely"]
MCSettings == {Chosen(10, "monthly"), Chosen(5, "daily")}
MCFirstSettings == Chosen(10, "monthly")

MCFlowForms == {Percent, Fixed}
MCStart == [year |-> 2024, month |-> 1, day |-> 30]
MCLifeEvent == Augment("lump-sum", 0, 300, 0, 0)
=============================================================================
