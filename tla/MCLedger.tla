------------------------------ MODULE MCLedger ------------------------------
(* Plans that are small and differ where the code looks: short months and  *)
(* leap years, rows that start before and after the scenario, positions,   *)
(* connected rows, checkpoints, debts that are paid off, and augments that *)
(* begin before the scenario or end within it.                             *)
EXTENDS Ledger

Starts == {[year |-> 2024, month |-> 1, day |-> 30], [year |-> 2023, month |-> 1, day |-> 31]}

Row(id, amount, every, start, growth) ==
  [id |-> id, amount |-> amount, every |-> every, start |-> start, growth |-> growth]

Fund(connected, recur) ==
  [id |-> 3, mode |-> "APY", value |-> 900, connected |-> connected, rate |-> 3,
   units |-> 0, price |-> 0, recur |-> recur, every |-> "monthly"]

Shares == [id |-> 4, mode |-> "Ticker", value |-> 665, connected |-> FALSE, rate |-> 5,
           units |-> 700, price |-> 95, recur |-> 7, every |-> "biweekly"]

Loan(connected) ==
  [id |-> 5, value |-> 130, connected |-> connected, rate |-> 8, pmt |-> 55, extra |-> 9,
   every |-> "monthly", extraEvery |-> "monthly", start |-> -3]

Checkpoints ==
  {NoCheckpoint,
   [day |-> 16, netWorth |-> 2500,
    asset |-> <<[id |-> 4, mode |-> "Ticker", value |-> 648, units |-> 720, price |-> 90],
                [id |-> 3, mode |-> "APY", value |-> 950, units |-> 0, price |-> 0]>>,
    debt |-> <<[id |-> 5, value |-> 61]>>]}

Augment(effect, target, halves, first, last) ==
  [effect |-> effect, target |-> target, halves |-> halves, first |-> first, last |-> last]

Augments ==
  {Augment("none", 0, 0, 0, 0),
   Augment("lump-sum", 0, 300, 5, 5),
   Augment("lump-sum", 0, 300, -2, 5),
   Augment("pause-income", 0, 0, -4, 20),
   Augment("scale-income", 1, 3, 10, 45),
   Augment("scale-expense", 1, 1, 0, 1000),
   Augment("pause-expense", 2, 0, 0, 1000),
   Augment("scale-asset", 0, 1, 3, 40),
   Augment("add-income", 0, 4, 2, 30),
   Augment("add-expense", 0, 6, 2, 30),
   Augment("pause-debt", 1, 0, 0, 35)}

Plan(start, days, checkpoint, connected, augment) ==
  [start |-> start, today |-> 0, days |-> days, inflation |-> 3, checkpoint |-> checkpoint,
   income |-> <<Row(1, 500, "biweekly", 0, 0)>>,
   expense |-> <<Row(2, 31, "monthly", 2, 4), Row(6, 90, "yearly", -20, 10)>>,
   asset |-> <<Fund(connected, 25), Shares>>,
   debt |-> <<Loan(connected)>>,
   edges |-> << >>,
   augment |-> augment]

MCPlans ==
  {Plan(start, 62, checkpoint, connected, augment) :
     start \in Starts, checkpoint \in Checkpoints, connected \in BOOLEAN,
     augment \in Augments}
  \union
  {Plan(start, 430, checkpoint, FALSE, Augment("none", 0, 0, 0, 0)) :
     start \in Starts, checkpoint \in Checkpoints}
=============================================================================
