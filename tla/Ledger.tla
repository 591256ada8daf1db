------------------------------- MODULE Ledger -------------------------------
(***************************************************************************)
(* The projection of a plan (frontend/src/lib/simulation/ledger.ts):       *)
(* buildPlanLedgerScenario makes accounts and recurring flows of the rows  *)
(* of a plan and of its latest checkpoint, runLedgerScenario goes through  *)
(* the days and posts an event for every change of a balance.              *)
(*                                                                         *)
(* A run is sequential; what varies is the plan.  Amounts are cents, rates *)
(* are parts of RateDenom per day, prices and quantities parts of Micro.   *)
(* A step is one turn of a loop over the flows or the accounts of a day.   *)
(* Account 0 is the cash, the assets come next, the debts last, as the     *)
(* loops take them.  The names that pause or scale a flow are its position *)
(* among the rows of its kind; 0 stands for *.  An augment has a window of *)
(* days, its probability is 1, and at most one augment changes a plan.     *)
(***************************************************************************)
EXTENDS Pipeline

CONSTANTS
  Plans,      \* the plans that are projected
  RateDenom,  \* RATE_DENOM: what the rate of a day is divided by
  Micro       \* MICRO_SQ: units of quantity times units of price in a cent

VARIABLES
  plan,      \* the plan with the flows applied, the same in all of a run
  day,       \* days since the start
  date,      \* the date of that day
  phase,     \* where the day is
  k,         \* the flow or account that is next
  balance,   \* balances
  carry,     \* residualInterestNumerator, priceResidualNumerator of a position
  held,      \* the quantity and the price of each position
  posted,    \* the sum of the events of each account
  accrued,   \* what each account earned, in parts of RateDenom
  credited,  \* what was credited of it
  fired      \* how often each flow was due in this month

books == <<balance, carry, held, posted, accrued, credited>>
vars == <<plan, day, date, phase, k, books, fired>>

-----------------------------------------------------------------------------
(* Numbers and dates.                                                      *)

Lesser(a, b) == IF a < b THEN a ELSE b
Larger(a, b) == IF a > b THEN a ELSE b
Magnitude(n) == IF n < 0 THEN -n ELSE n

\* Half to even, away from the sign.
BankersRound(n, d) ==
  LET q == Magnitude(n) \div d
      r == Magnitude(n) % d
      rounded == IF 2 * r > d \/ (2 * r = d /\ q % 2 = 1) THEN q + 1 ELSE q
  IN IF n < 0 THEN -rounded ELSE rounded

Leap(y) == y % 4 = 0 /\ (y % 100 # 0 \/ y % 400 = 0)

DaysIn(y, m) ==
  CASE m = 2 -> IF Leap(y) THEN 29 ELSE 28
    [] m \in {4, 6, 9, 11} -> 30
    [] OTHER -> 31

IsDate(d) ==
  d \in [year : Int, month : 1 .. 12, day : 1 .. 31] /\ d.day <= DaysIn(d.year, d.month)

NextDay(d) ==
  IF d.day < DaysIn(d.year, d.month) THEN [d EXCEPT !.day = @ + 1]
  ELSE IF d.month < 12 THEN [d EXCEPT !.day = 1, !.month = @ + 1]
  ELSE [year |-> d.year + 1, month |-> 1, day |-> 1]

AddDays(d, n) ==
  LET after[m \in 0 .. n] == IF m = 0 THEN d ELSE NextDay(after[m - 1])
  IN after[n]

\* A short month never has the day.
StrictFiresOnDayOfMonth(d, target) == d.day = target

\* The last day of a short month stands for the days it does not have.
FiresOnDayOfMonth(d, target) == d.day = Lesser(target, DaysIn(d.year, d.month))

ShouldFire(flow) ==
  /\ day >= flow.start
  /\ CASE flow.every = "daily"   -> TRUE
       [] flow.every = "weekly"  -> (day - flow.start) % 7 = 0
       [] flow.every = "biweekly" -> (day - flow.start) % 14 = 0
       [] flow.every = "monthly" -> FiresOnDayOfMonth(date, flow.from.day)
       [] flow.every = "yearly"  ->
            date.month = flow.from.month /\ FiresOnDayOfMonth(date, flow.from.day)

FullYearsBetween(from, to) ==
  LET early == to.month < from.month \/ (to.month = from.month /\ to.day < from.day)
  IN Larger(0, to.year - from.year - (IF early THEN 1 ELSE 0))

GrownAmount(flow) ==
  LET years == FullYearsBetween(flow.from, date)
      power[y \in 0 .. years] ==
        IF y = 0 THEN <<1, 1>> ELSE <<power[y - 1][1] * (100 + flow.growth),
                                      power[y - 1][2] * 100>>
  IN Round(flow.amount * power[years][1], power[years][2])

-----------------------------------------------------------------------------
(* buildPlanLedgerScenario.                                                *)

NoCheckpoint == [day |-> 0, netWorth |-> 0, asset |-> << >>, debt |-> << >>]

\* The scenario works on a clone of the rows, with the flows applied to it.
Routed(p) == IF p.edges = << >> THEN p ELSE ApplyFlows(p, p.edges, p.today)

Assets == 1 .. Len(plan.asset)
Debts == Len(plan.asset) + 1 .. Len(plan.asset) + Len(plan.debt)
Accounts == {0} \union Assets \union Debts
RowOf(a) == IF a \in Assets THEN plan.asset[a] ELSE plan.debt[a - Len(plan.asset)]

\* The rows of the checkpoint that are the row of the account.
Seen(a) ==
  LET rows == IF a \in Assets THEN plan.checkpoint.asset ELSE plan.checkpoint.debt
  IN {rows[n] : n \in {m \in DOMAIN rows : rows[m].id = RowOf(a).id}}

\* The row whose value counts: the live one, or the one the checkpoint has seen.
SeedRow(a) ==
  IF RowOf(a).connected \/ Seen(a) = {} THEN RowOf(a) ELSE CHOOSE row \in Seen(a) : TRUE

IsPosition(a) ==
  /\ a \in Assets /\ ~RowOf(a).connected
  /\ SeedRow(a).mode = "Ticker" /\ SeedRow(a).units > 0 /\ SeedRow(a).price > 0

SeededBalance(a) ==
  CASE a = 0         -> 0
    [] IsPosition(a) -> BankersRound(SeedRow(a).units * SeedRow(a).price, Micro)
    [] OTHER         -> SeedRow(a).value

SumOf(f, S) ==
  Total([n \in 1 .. Len(plan.asset) + Len(plan.debt) + 1 |->
           IF n - 1 \in S THEN f[n - 1] ELSE 0])

NetWorth(b) == SumOf(b, {0} \union Assets) - SumOf(b, Debts)

\* The checkpoint's day is day 0; a row that started earlier starts with it.
StartDay(row) == Larger(0, row.start - plan.checkpoint.day)

ScenarioStart == AddDays(plan.start, plan.checkpoint.day)

Flow(kind, n, amount, every, start, growth, to) ==
  [kind |-> kind, target |-> n, amount |-> amount, every |-> every, start |-> start,
   from |-> AddDays(ScenarioStart, start), growth |-> growth, to |-> to]

Payments(n) ==
  LET row == plan.debt[n]
      Pay(amount, every) == IF amount > 0
        THEN <<Flow("debt_payment", n, amount, every, StartDay(row), 0, Len(plan.asset) + n)>>
        ELSE << >>
  IN Pay(row.pmt, row.every) \o Pay(row.extra, row.extraEvery)

\* An expense without a growth of its own grows as the plan says.
Inflation(row) == IF row.growth = 0 THEN plan.inflation ELSE row.growth

Contribution(n) ==
  LET row == plan.asset[n]
  IN IF row.recur > 0 THEN <<Flow("transfer", n, row.recur, row.every, 0, 0, n)>> ELSE << >>

Concatenated(parts) ==
  LET upTo[m \in 0 .. Len(parts)] == IF m = 0 THEN << >> ELSE upTo[m - 1] \o parts[m]
  IN upTo[Len(parts)]

RecurringFlows ==
  [n \in 1 .. Len(plan.income) |-> LET row == plan.income[n] IN
     Flow("income", n, row.amount, row.every, StartDay(row), row.growth, 0)]
  \o [n \in 1 .. Len(plan.expense) |-> LET row == plan.expense[n] IN
       Flow("expense", n, row.amount, row.every, StartDay(row), Inflation(row), 0)]
  \o Concatenated([n \in 1 .. Len(plan.asset) |-> Contribution(n)])
  \o Concatenated([n \in 1 .. Len(plan.debt) |-> Payments(n)])

-----------------------------------------------------------------------------
(* Augments.                                                               *)

\* buildIndexedAugments: the days of the augment.  One that begins before the
\* scenario is cut off at its start, one that ends before it begins is dropped.
Effective ==
  /\ plan.augment.effect # "none"
  /\ Larger(0, plan.augment.first) <= day
  /\ day <= Lesser(plan.days, Larger(0, plan.augment.last))

Effect(kind, target) ==
  Effective /\ plan.augment.effect = kind /\ plan.augment.target \in {0, target}

Scaled(n, kind, target) ==
  IF Effect(kind, target) THEN Round(n * plan.augment.halves, 2) ELSE n

Extra(kind) == IF Effective /\ plan.augment.effect = kind THEN plan.augment.halves ELSE 0

\* Only on the day the augment begins, and not when that was before the scenario.
LumpSum == IF day = plan.augment.first THEN Extra("lump-sum") ELSE 0

-----------------------------------------------------------------------------
(* runLedgerScenario.                                                      *)

NoAugment == [effect |-> "none", target |-> 0, halves |-> 0, first |-> 0, last |-> 0]

\* What a checkpoint records: the worth of that day, the assets and the debts of it.
IsCheckpoint(cp) ==
  /\ {"day", "netWorth", "asset", "debt"} \subseteq DOMAIN cp
  /\ cp.day \in Nat /\ cp.netWorth \in Int
  /\ \A n \in DOMAIN cp.asset :
       HasFields(cp.asset[n], {"id", "mode", "value", "units", "price"})
  /\ \A n \in DOMAIN cp.debt : HasFields(cp.debt[n], {"id", "value"})

\* What a plan has to be for a projection of it.
Projectable(p) ==
  /\ DOMAIN p = Kinds \union {"start", "today", "days", "inflation", "checkpoint", "edges",
                             "augment"}
  /\ IsDate(p.start) /\ p.today \in Int /\ p.days \in Nat /\ p.inflation \in Int
  /\ IsCheckpoint(p.checkpoint)
  /\ \A kind \in Kinds : IsRows(kind, p[kind])
  /\ IsEdges(p.edges)
  /\ p.augment.halves \in Int

ASSUME LedgerAssumption ==
  /\ RateDenom \in Nat \ {0} /\ Micro \in Nat \ {0}
  /\ \A p \in Plans : Projectable(p)

Unbuilt == [start |-> [year |-> 2024, month |-> 1, day |-> 1], today |-> 0, days |-> 0,
            inflation |-> 0, checkpoint |-> NoCheckpoint, income |-> << >>, expense |-> << >>,
            asset |-> << >>, debt |-> << >>, edges |-> << >>,
            augment |-> NoAugment]

Init ==
  /\ plan = Unbuilt
  /\ day = 0
  /\ date = plan.start
  /\ phase = "unbuilt"
  /\ k = 1
  /\ balance = << >>
  /\ carry = << >>
  /\ held = << >>
  /\ posted = << >>
  /\ accrued = << >>
  /\ credited = << >>
  /\ fired = << >>

Nothing == [a \in Accounts |-> 0]

\* The clone of a plan, with the flows of its pipeline applied.
Clone(p) ==
  /\ phase = "unbuilt"
  /\ plan' = Routed(p)
  /\ phase' = "clone"
  /\ UNCHANGED <<day, date, k, books, fired>>

\* The scenario of the clone, before its first event.
Build ==
  /\ phase = "clone"
  /\ phase' = "seed"
  /\ date' = ScenarioStart
  /\ balance' = [a \in Accounts |-> SeededBalance(a)]
  /\ carry' = Nothing
  /\ held' = [a \in {b \in Assets : IsPosition(b)} |->
                [units |-> SeedRow(a).units, price |-> SeedRow(a).price]]
  /\ posted' = Nothing
  /\ accrued' = Nothing
  /\ credited' = Nothing
  /\ fired' = [f \in 1 .. Len(RecurringFlows) |-> 0]
  /\ UNCHANGED <<plan, day, k>>

Posts(a, delta) == posted' = [posted EXCEPT ![a] = @ + delta]

\* The balance changes by what the event says.
Books(a, delta) == balance' = [balance EXCEPT ![a] = @ + delta] /\ Posts(a, delta)

Turn(limit, next) ==
  IF k < limit THEN k' = k + 1 /\ UNCHANGED phase ELSE k' = 1 /\ phase' = next

\* What the checkpoint observed beyond its rows enters once, as cash.
SeedCheckpoint ==
  /\ phase = "seed"
  /\ phase' = "lump sum"
  /\ Books(0, IF plan.checkpoint = NoCheckpoint THEN 0
              ELSE plan.checkpoint.netWorth - NetWorth(balance))
  /\ UNCHANGED <<plan, day, date, k, carry, held, accrued, credited, fired>>

AddLumpSum ==
  /\ phase = "lump sum"
  /\ phase' = "flows"
  /\ Books(0, LumpSum)
  /\ UNCHANGED <<plan, day, date, k, carry, held, accrued, credited, fired>>

Earn(flow, amount) ==
  /\ Books(0, IF Effect("pause-income", flow.target) THEN 0
              ELSE Scaled(amount, "scale-income", flow.target))
  /\ UNCHANGED held

Spend(flow, amount) ==
  /\ Books(0, IF Effect("pause-expense", flow.target) THEN 0
              ELSE -Scaled(amount, "scale-expense", flow.target))
  /\ UNCHANGED held

\* A position buys at the price of the morning.
Contribute(flow, amount) ==
  /\ balance' = [balance EXCEPT ![0] = @ - amount, ![flow.to] = @ + amount]
  /\ posted' = [posted EXCEPT ![0] = @ - amount, ![flow.to] = @ + amount]
  /\ held' = IF flow.to \in DOMAIN held /\ amount > 0 /\ held[flow.to].price > 0
             THEN [held EXCEPT ![flow.to].units =
                     @ + BankersRound(amount * Micro, held[flow.to].price)]
             ELSE held

\* One turn of the loop over the flows; debts are paid later.
RunFlow ==
  /\ phase = "flows"
  /\ Turn(Len(RecurringFlows), "extras")
  /\ LET flow == RecurringFlows[k]
         due == k <= Len(RecurringFlows) /\ ShouldFire(flow)
     IN /\ fired' = IF due THEN [fired EXCEPT ![k] = @ + 1] ELSE fired
        /\ IF due /\ flow.kind # "debt_payment"
             THEN CASE flow.kind = "income"   -> Earn(flow, GrownAmount(flow))
                    [] flow.kind = "expense"  -> Spend(flow, GrownAmount(flow))
                    [] flow.kind = "transfer" -> Contribute(flow, GrownAmount(flow))
             ELSE UNCHANGED <<balance, posted, held>>
  /\ UNCHANGED <<plan, day, date, carry, accrued, credited>>

AddExtras ==
  /\ phase = "extras"
  /\ phase' = "accrual"
  /\ Books(0, Extra("add-income") - Extra("add-expense"))
  /\ UNCHANGED <<plan, day, date, k, carry, held, accrued, credited, fired>>

Rate(a) == IF a \in Assets THEN Scaled(RowOf(a).rate, "scale-asset", a) ELSE RowOf(a).rate

\* The remainder of the division is dropped.
DroppingAccrueInterest(a) ==
  LET numer == balance[a] * Rate(a) + carry[a]
      cents == BankersRound(numer, RateDenom)
  IN /\ Books(a, cents)
     /\ carry' = [carry EXCEPT ![a] = 0]
     /\ accrued' = [accrued EXCEPT ![a] = @ + balance[a] * Rate(a)]
     /\ credited' = [credited EXCEPT ![a] = @ + cents]
     /\ UNCHANGED held

AccrueInterest(a) ==
  LET numer == balance[a] * Rate(a) + carry[a]
      cents == BankersRound(numer, RateDenom)
  IN /\ Books(a, cents)
     /\ carry' = [carry EXCEPT ![a] = numer - cents * RateDenom]
     /\ accrued' = [accrued EXCEPT ![a] = @ + balance[a] * Rate(a)]
     /\ credited' = [credited EXCEPT ![a] = @ + cents]
     /\ UNCHANGED held

\* The price moves on, and the balance becomes the value of what is held.
ValuePosition(a) ==
  LET numer == held[a].price * Rate(a) + carry[a]
      delta == BankersRound(numer, RateDenom)
      moves == Rate(a) # 0 /\ held[a].price > 0
      price == IF moves THEN held[a].price + delta ELSE held[a].price
  IN /\ held' = [held EXCEPT ![a].price = price]
     /\ carry' = IF moves THEN [carry EXCEPT ![a] = numer - delta * RateDenom] ELSE carry
     /\ accrued' = IF moves THEN [accrued EXCEPT ![a] = @ + held[a].price * Rate(a)] ELSE accrued
     /\ credited' = IF moves THEN [credited EXCEPT ![a] = @ + delta] ELSE credited
     /\ Books(a, BankersRound(held[a].units * price, Micro) - balance[a])

\* One turn of the loop over the accounts; cash has no rate.
Accrue ==
  /\ phase = "accrual"
  /\ Turn(Len(plan.asset) + Len(plan.debt), "payments")
  /\ IF k \in DOMAIN held THEN ValuePosition(k)
     ELSE IF k \in Accounts /\ Rate(k) # 0 THEN AccrueInterest(k)
     ELSE UNCHANGED books
  /\ UNCHANGED <<plan, day, date, fired>>

\* The payment is capped by what is owed.
Payment(flow) == Lesser(GrownAmount(flow), balance[flow.to])

PayDebt ==
  /\ phase = "payments"
  /\ Turn(Len(RecurringFlows), "floor")
  /\ LET flow == RecurringFlows[k] IN
       IF /\ k <= Len(RecurringFlows) /\ flow.kind = "debt_payment" /\ ShouldFire(flow)
          /\ ~Effect("pause-debt", flow.target)
          /\ balance[flow.to] > 0
       THEN /\ balance' = [balance EXCEPT ![0] = @ - Payment(flow),
                                          ![flow.to] = @ - Payment(flow)]
            /\ posted' = [posted EXCEPT ![0] = @ - Payment(flow),
                                        ![flow.to] = @ - Payment(flow)]
       ELSE UNCHANGED <<balance, posted>>
  /\ UNCHANGED <<plan, day, date, carry, held, accrued, credited, fired>>

\* A debt is never negative at night (allowNegative is false).
FloorDebts ==
  /\ phase = "floor"
  /\ phase' = "night"
  /\ LET missing == [a \in Accounts |->
           IF a \in Debts /\ balance[a] < 0 THEN -balance[a] ELSE 0]
     IN /\ balance' = [a \in Accounts |-> balance[a] + missing[a]]
        /\ posted' = [a \in Accounts |-> posted[a] + missing[a]]
  /\ UNCHANGED <<plan, day, date, k, carry, held, accrued, credited, fired>>

NextMorning ==
  /\ phase = "night"
  /\ day < plan.days
  /\ day' = day + 1
  /\ date' = NextDay(date)
  /\ phase' = "lump sum"
  /\ fired' = IF date'.day = 1 THEN [f \in DOMAIN fired |-> 0] ELSE fired
  /\ UNCHANGED <<plan, k, books>>

Run ==
  \/ Build \/ SeedCheckpoint \/ AddLumpSum \/ RunFlow \/ AddExtras \/ Accrue
  \/ PayDebt \/ FloorDebts \/ NextMorning

Next == (\E p \in Plans : Clone(p)) \/ Run

Spec == Init /\ [][Next]_vars

-----------------------------------------------------------------------------
(* Properties.                                                             *)

\* tests/validation/ROUNDING_POLICY.md: every change of a balance is an event.
Conserved == \A a \in Accounts : balance[a] = SeededBalance(a) + posted[a]

\* The same document: residuals are carried, so that what was credited never
\* differs from what was earned by more than half a cent, however long it runs.
InterestIsExact ==
  \A a \in Accounts :
    /\ accrued[a] = credited[a] * RateDenom + carry[a]
    /\ 2 * Magnitude(carry[a]) <= RateDenom

\* tests/validation/spec/CheckpointSemantics.md: the projection starts from the
\* net worth of the checkpoint.
StartsFromCheckpoint ==
  phase = "lump sum" /\ day = 0 /\ plan.checkpoint # NoCheckpoint =>
    NetWorth(balance) = plan.checkpoint.netWorth

\* The payments of a day, the regular and the extra one and those that grew or
\* fell due together, never pay more than is owed after the interest: the floor
\* under a debt has nothing to correct.  Not so where what is owed or its rate was
\* typed negative.
DebtsNotOverpaid ==
  phase = "floor" =>
    \A d \in Debts : SeededBalance(d) >= 0 /\ RowOf(d).rate >= 0 => balance[d] >= 0

\* The books are right at every moment of every day: nothing appears or is lost
\* in a balance, a rate, a position, a checkpoint or the payments of a debt.
BooksBalance ==
  phase \notin {"unbuilt", "clone"} =>
    Conserved /\ InterestIsExact /\ StartsFromCheckpoint /\ DebtsNotOverpaid

\* A monthly flow is due exactly once in every month, whatever day it starts on
\* and however short the month is.
FiresOnceAMonth ==
  phase = "night" /\ date.day = DaysIn(date.year, date.month) =>
    \A f \in 1 .. Len(RecurringFlows) :
      RecurringFlows[f].every = "monthly" /\ day >= RecurringFlows[f].start
        => fired[f] = 1
=============================================================================
