------------------------------ MODULE Pipeline ------------------------------
(***************************************************************************)
(* The flows of the Pipeline Builder (frontend/src/lib/pipeline/engine.ts) *)
(* and the conversions both of its users share.  A plan has rows of four   *)
(* kinds; a node is the kind and the position of a row, as in the code's   *)
(* "asset:2".  A flow (edge) leads from a node to a node and has a fixed   *)
(* amount with a frequency, or a percentage of the income it leaves.       *)
(*                                                                         *)
(* applyFlowsToAlternative writes the flows into the rows they lead to: a  *)
(* recurring contribution, a debt payment, the amount of an expense.       *)
(* Amounts are cents; what the code adds up as fractions of a dollar is    *)
(* added in parts of MonthlyScale and rounded once, where the projection   *)
(* rounds it.  The label a flow leaves in `source` is left out.            *)
(***************************************************************************)
EXTENDS Integers, Sequences

IsSequence(s) == s \in Seq({s[i] : i \in DOMAIN s})

\* The elements of s at the positions K, in their order.
Kept(s, K) ==
  LET upTo[n \in 0 .. Len(s)] ==
        IF n = 0 THEN << >> ELSE IF n \in K THEN Append(upTo[n - 1], s[n]) ELSE upTo[n - 1]
  IN upTo[Len(s)]

\* s without its n-th element.
Removed(s, n) == [i \in 1 .. Len(s) - 1 |-> IF i < n THEN s[i] ELSE s[i + 1]]

\* The sum of a sequence of numbers.
Total(ns) ==
  LET upTo[n \in 0 .. Len(ns)] == IF n = 0 THEN 0 ELSE upTo[n - 1] + ns[n]
  IN upTo[Len(ns)]

Kinds == {"income", "expense", "asset", "debt"}

\* The rows and flows of a plan, and what their fields hold.  Text a row has beside
\* them, such as its name, is left out, and so is where a connected value came from.
Frequencies == {"monthly", "biweekly", "weekly", "yearly"}

FlowFields == {"id", "amount", "every", "start", "growth"}
AssetFields == {"id", "mode", "value", "connected", "rate", "units", "price", "recur", "every"}
DebtFields ==
  {"id", "value", "connected", "rate", "pmt", "extra", "every", "extraEvery", "start"}

FieldsOf(kind) ==
  CASE kind = "asset" -> AssetFields [] kind = "debt" -> DebtFields [] OTHER -> FlowFields

ValuesOf(field) ==
  CASE field \in {"every", "extraEvery"} -> Frequencies
    [] field = "mode"                    -> {"Manual", "APY", "Ticker"}
    [] field = "connected"               -> BOOLEAN
    [] OTHER                             -> Int

\* What was typed, whatever its sign: the screens take any number.
HasFields(row, fields) == \A x \in fields : x \in DOMAIN row /\ row[x] \in ValuesOf(x)

IsRows(kind, rows) ==
  IsSequence(rows) /\ \A n \in DOMAIN rows : HasFields(rows[n], FieldsOf(kind))

IsEdge(edge) ==
  /\ {"from", "to", "mode", "amount", "freq", "recur"} \subseteq DOMAIN edge
  /\ edge.amount \in Int
  /\ edge.freq \in Frequencies
  /\ edge.recur \in Frequencies \union {"none"}

IsEdges(edges) == IsSequence(edges) /\ \A i \in DOMAIN edges : IsEdge(edges[i])

FlowAllowed(from, to) ==
  to \in CASE from = "income"  -> Kinds
           [] from = "expense" -> {"expense", "debt"}
           [] from = "asset"   -> {"asset", "expense", "debt"}
           [] from = "debt"    -> {"debt"}

\* FPM, in parts of 600: how often a frequency falls in a month.
PerMonth(freq) ==
  CASE freq = "monthly"  -> 600
    [] freq = "biweekly" -> 1300
    [] freq = "weekly"   -> 2607
    [] freq = "yearly"   -> 50

MonthlyScale == 600 * 100

Monthly(amount, freq) == amount * PerMonth(freq) * 100

Nodes(alt) == UNION {{kind} \X DOMAIN alt[kind] : kind \in Kinds}

\* A flow whose nodes exist and may be joined; a percentage needs an income.
Counts(alt, edge) ==
  /\ {edge.from, edge.to} \subseteq Nodes(alt)
  /\ FlowAllowed(edge.from[1], edge.to[1])
  /\ edge.mode = "percent" => edge.from[1] = "income"

MonthlyFlow(alt, edge) ==
  IF edge.mode = "percent"
  THEN LET row == alt.income[edge.from[2]] IN row.amount * PerMonth(row.every) * edge.amount
  ELSE Monthly(edge.amount, edge.freq)

\* Half up, as Math.round.
Round(n, d) == (2 * n + d) \div (2 * d)

FlowsInto(alt, edges, node) ==
  Kept(edges, {i \in DOMAIN edges : edges[i].to = node /\ Counts(alt, edges[i])})

\* What flows add up to in a month, in parts of MonthlyScale, and in cents.
InAMonth(alt, flows) == Total([i \in DOMAIN flows |-> MonthlyFlow(alt, flows[i])])
Sum(alt, flows) == Round(InAMonth(alt, flows), MonthlyScale)

\* The number of the dialog in cents: the 10 of 10% is taken for ten dollars.
AmountOf(edge) == IF edge.mode = "percent" THEN edge.amount * 100 ELSE edge.amount

\* The frequency of the contribution is that of the last flow that names one.
RecurOf(flows) ==
  LET named == {i \in DOMAIN flows : flows[i].recur # "none"}
  IN IF named = {} THEN "monthly"
     ELSE flows[CHOOSE i \in named : \A j \in named : j <= i].recur

\* A row that no flow leads to keeps what an earlier flow wrote into it.
FlowIntoAsset(row, monthly, flows) ==
  IF monthly > 0
  THEN [row EXCEPT !.recur = Round(monthly, MonthlyScale), !.every = RecurOf(flows)]
  ELSE row

\* A row without a date starts when the plan does: no date is as early.
NoStart == -400000

\* A debt without a date is paid from the day its flows are applied.
FlowIntoDebt(row, sum, flows, now) ==
  IF flows = << >> THEN row
  ELSE [row EXCEPT !.extra = sum, !.extraEvery = "monthly", !.every = flows[Len(flows)].freq,
                   !.pmt = IF @ = 0 THEN AmountOf(flows[Len(flows)]) ELSE @,
                   !.start = IF @ = NoStart THEN now ELSE @]

FlowIntoExpense(row, sum, flows) ==
  IF flows = << >> THEN row ELSE [row EXCEPT !.amount = sum, !.every = "monthly"]

ApplyFlows(alt, edges, now) ==
  LET Into(kind, n) == FlowsInto(alt, edges, <<kind, n>>)
  IN [alt EXCEPT
        !.asset = [n \in DOMAIN @ |->
          FlowIntoAsset(@[n], InAMonth(alt, Into("asset", n)), Into("asset", n))],
        !.debt = [n \in DOMAIN @ |->
          FlowIntoDebt(@[n], Sum(alt, Into("debt", n)), Into("debt", n), now)],
        !.expense = [n \in DOMAIN @ |->
          FlowIntoExpense(@[n], Sum(alt, Into("expense", n)), Into("expense", n))]]
=============================================================================
