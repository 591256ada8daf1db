---------------------------- MODULE BillingProofs ----------------------------
(***************************************************************************)
(* Proofs about the lifecycle of Plaid items (PlaidLifecycle) and about    *)
(* the subscription that suspends and restores them (Billing), for any     *)
(* numbers of items, tasks, sweeps, handlers, days, changes and faults.    *)
(*                                                                         *)
(* The lifecycle by itself.  A row is listed by a retention sweep on the   *)
(* day its retention is 0, which is when it has been suspended for the     *)
(* whole of it.  What happens to the row under the sweep is that it is     *)
(* suspended once more, which is no matter, deleted by another sweep,      *)
(* after which nothing is removed at Plaid, or restored, which is the      *)
(* race.  And an item that was removed keeps its token only as long as     *)
(* the sweep has it in its hand.  Nothing of this is about who the tasks   *)
(* are.                                                                    *)
(*                                                                         *)
(* The subscription.  As long as no two writings of the tier cross, at     *)
(* most one handler or sweep is between its writing and the end of its     *)
(* loop, and what its loop has yet to go through are all items that do not *)
(* follow the tier yet (ItemsInv).  A handler that is about to write the   *)
(* profile has read the clock as it runs, unless another cleared it        *)
(* (GraceInv).  And the profile says what the last event of those applied  *)
(* says, which is the last of all when each has been applied in its order  *)
(* (ProfileInv).                                                           *)
(***************************************************************************)
EXTENDS Billing, TLAPS


\* A row has a retention exactly while it is suspended.
Clocked == \A i \in Items : i \in suspended <=> retention[i] # Never

\* The days a row has been suspended and those left make up the retention.
\* They may be more: the row can be suspended twice.
Counted == \A i \in suspended : held[i] + retention[i] >= RetentionDays

\* What a sweep has listed is overdue, unless it was deleted or restored since.
ListedOverdue ==
  \A s \in Sweeps, i \in Items :
    i \in todo[s] \/ hand[s] = i =>
      \/ i \notin token
      \/ i \in raced
      \/ i \in suspended /\ held[i] = RetentionDays

\* A sweep is about to delete the token of an item that it removed.
RemovedInHand ==
  \A i \in token \ live :
    \/ i \in raced
    \/ faults > 0
    \/ \E s \in Sweeps : task[s] = "delete" /\ hand[s] = i

\* The item whose token a sweep is about to delete is gone.
GoneBeforeToken ==
  \A s \in Sweeps : task[s] = "delete" => hand[s] \notin live \/ faults > 0

\* What holds throughout of the rows, the loops and the items at Plaid.
IndInv ==
  /\ TypeOK /\ Clocked /\ Counted /\ ListedOverdue /\ RemovedInHand
  /\ GoneBeforeToken /\ RevokedIsGone

-----------------------------------------------------------------------------
\* The inductive invariant holds at the start.
LEMMA InitIndInv == Init => IndInv
  BY PlaidLifecycleAssumption
  DEF Init, IndInv, TypeOK, Clocked, Counted, ListedOverdue, RemovedInHand, Processes,
      GoneBeforeToken, RevokedIsGone, Never

(***************************************************************************)
(* Loops.                                                                  *)
(***************************************************************************)

\* A loop that starts, ends or breaks off writes no row, and what a sweep lists
\* when it starts is overdue.
LEMMA LoopIndInv ==
  ASSUME IndInv, NEW p \in Processes,
         \/ StartSuspend(p) /\ p \in Tasks
         \/ StartRestore(p) /\ p \in Tasks
         \/ StartRevoke(p)
         \/ Finish(p)
         \/ Abandon(p)
  PROVE  IndInv'
<1> USE PlaidLifecycleAssumption DEF Never, rows, history, Processes
<1>1. TypeOK'
  BY DEF IndInv, TypeOK, StartSuspend, StartRestore, StartRevoke, Start, Expired, Finish,
         Abandon, Leave
<1>2. Clocked' /\ Counted'
  BY DEF IndInv, Clocked, Counted, StartSuspend, StartRestore, StartRevoke, Start,
         Finish, Abandon, Leave
<1>3. ListedOverdue'
  <2>1. ASSUME NEW i \in Expired PROVE i \in suspended /\ held[i] = RetentionDays
    <3>1. i \in Items /\ retention[i] = 0 /\ held[i] \in 0 .. RetentionDays
      BY DEF IndInv, TypeOK, Expired
    <3>2. i \in suspended
      BY <3>1 DEF IndInv, Clocked
    <3>3. held[i] + retention[i] >= RetentionDays
      BY <3>2 DEF IndInv, Counted
    <3> QED BY <3>1, <3>2, <3>3
  <2> QED BY <2>1 DEF IndInv, TypeOK, ListedOverdue, StartSuspend, StartRestore,
                      StartRevoke, Start, Finish, Abandon, Leave
<1>4. RemovedInHand'
  BY DEF IndInv, TypeOK, RemovedInHand, StartSuspend, StartRestore, StartRevoke, Start,
         Finish, Abandon, Leave
<1>5. GoneBeforeToken' /\ RevokedIsGone'
  BY DEF IndInv, TypeOK, GoneBeforeToken, RevokedIsGone, StartSuspend, StartRestore,
         StartRevoke, Start, Finish, Abandon, Leave
<1> QED BY <1>1, <1>2, <1>3, <1>4, <1>5 DEF IndInv

(***************************************************************************)
(* Suspending and restoring.                                               *)
(***************************************************************************)

\* A row that is suspended starts with the whole of its retention; one that was
\* suspended already is given more of it, and is as overdue as before.
LEMMA SuspendIndInv ==
  ASSUME IndInv, NEW p \in Tasks, NEW i \in Items, Suspend(p, i)
  PROVE  IndInv'
<1> USE PlaidLifecycleAssumption DEF Never, Processes
<1>1. TypeOK'
  BY DEF IndInv, TypeOK, Suspend, TakeUp
<1>2. Clocked' /\ Counted'
  BY DEF IndInv, TypeOK, Clocked, Counted, Suspend, TakeUp
<1>3. ListedOverdue'
  BY DEF IndInv, TypeOK, ListedOverdue, Suspend, TakeUp
<1>4. RemovedInHand'
  BY DEF IndInv, TypeOK, RemovedInHand, Suspend, TakeUp
<1>5. GoneBeforeToken' /\ RevokedIsGone'
  BY DEF IndInv, TypeOK, GoneBeforeToken, RevokedIsGone, Suspend, TakeUp
<1> QED BY <1>1, <1>2, <1>3, <1>4, <1>5 DEF IndInv

\* A row restored under a sweep is noted as such.
LEMMA RestoreIndInv ==
  ASSUME IndInv, NEW p \in Tasks, NEW i \in Items, Restore(p, i)
  PROVE  IndInv'
<1> USE PlaidLifecycleAssumption DEF Never, Processes
<1>1. TypeOK'
  BY DEF IndInv, TypeOK, Restore, TakeUp
<1>2. Clocked' /\ Counted'
  BY DEF IndInv, TypeOK, Clocked, Counted, Restore, TakeUp
<1>3. ListedOverdue'
  <2>1. /\ raced \subseteq raced'
        /\ \A s \in Sweeps : todo'[s] = todo[s] /\ hand'[s] = hand[s]
        /\ (\E s \in Sweeps : i \in todo[s] \/ hand[s] = i) => i \in raced'
    BY DEF IndInv, TypeOK, Restore, TakeUp, Listed
  <2> QED BY <2>1 DEF IndInv, TypeOK, ListedOverdue, Restore
<1>4. RemovedInHand'
  BY DEF IndInv, TypeOK, RemovedInHand, Restore, TakeUp
<1>5. GoneBeforeToken' /\ RevokedIsGone'
  BY DEF IndInv, TypeOK, GoneBeforeToken, RevokedIsGone, Restore, TakeUp
<1> QED BY <1>1, <1>2, <1>3, <1>4, <1>5 DEF IndInv

\* A catch-up sync has to do with no row.
LEMMA CatchUpIndInv ==
  ASSUME IndInv, NEW p \in Tasks, CatchUp(p)
  PROVE  IndInv'
<1> USE PlaidLifecycleAssumption DEF CatchUp, GoOn, rows, history, Processes
<1>1. TypeOK'
  BY DEF IndInv, TypeOK
<1>2. Clocked' /\ Counted'
  BY DEF IndInv, Clocked, Counted
<1>3. ListedOverdue'
  BY DEF IndInv, TypeOK, ListedOverdue
<1>4. RemovedInHand'
  BY DEF IndInv, TypeOK, RemovedInHand
<1>5. GoneBeforeToken' /\ RevokedIsGone'
  BY DEF IndInv, TypeOK, GoneBeforeToken, RevokedIsGone
<1> QED BY <1>1, <1>2, <1>3, <1>4, <1>5 DEF IndInv

(***************************************************************************)
(* Revoking.                                                               *)
(***************************************************************************)

\* The sweep that removes an item has it in its hand to delete the token.
LEMMA RemoveIndInv ==
  ASSUME IndInv, NEW p \in Sweeps, NEW i \in Items, RemoveAtPlaid(p, i)
  PROVE  IndInv'
<1> USE PlaidLifecycleAssumption DEF RemoveAtPlaid, TakeUp, rows, history, Processes
<1>1. TypeOK'
  BY DEF IndInv, TypeOK
<1>2. Clocked' /\ Counted'
  BY DEF IndInv, Clocked, Counted
<1>3. ListedOverdue'
  BY DEF IndInv, TypeOK, ListedOverdue
<1>4. RemovedInHand'
  <2>1. task'[p] = "delete" /\ hand'[p] = i /\ live \ {i} \subseteq live'
    BY DEF IndInv, TypeOK
  <2>2. \A s \in Sweeps : task[s] = "delete" => task'[s] = "delete" /\ hand'[s] = hand[s]
    BY DEF IndInv, TypeOK
  <2> QED BY <2>1, <2>2 DEF IndInv, RemovedInHand
<1>5. GoneBeforeToken' /\ RevokedIsGone'
  BY DEF IndInv, TypeOK, GoneBeforeToken, RevokedIsGone
<1> QED BY <1>1, <1>2, <1>3, <1>4, <1>5 DEF IndInv

\* A row that is deleted is no sweep's matter any more.
LEMMA DeleteIndInv ==
  ASSUME IndInv, NEW p \in Sweeps, DeleteToken(p)
  PROVE  IndInv'
<1> USE PlaidLifecycleAssumption DEF DeleteToken, GoOn, history, Never, Processes
<1>1. TypeOK'
  <2>1. retention' \in [Items -> 0 .. Never]
    <3>1. Never \in 0 .. Never
      OBVIOUS
    <3> QED BY <3>1 DEF IndInv, TypeOK
  <2>2. task' \in [Processes -> {"none", "suspend", "restore", "catchUp", "revoke",
                                 "delete"}]
    BY DEF IndInv, TypeOK
  <2>3. hand' \in [Processes -> Items \union {NoItem}]
    BY DEF IndInv, TypeOK
  <2> QED BY <2>1, <2>2, <2>3 DEF IndInv, TypeOK
<1>2. Clocked' /\ Counted'
  BY DEF IndInv, TypeOK, Clocked, Counted
<1>3. ListedOverdue'
  BY DEF IndInv, TypeOK, ListedOverdue
<1>4. RemovedInHand'
  BY DEF IndInv, TypeOK, RemovedInHand
<1>5. GoneBeforeToken' /\ RevokedIsGone'
  BY DEF IndInv, TypeOK, GoneBeforeToken, RevokedIsGone
<1> QED BY <1>1, <1>2, <1>3, <1>4, <1>5 DEF IndInv

\* A row that is skipped, or whose token cannot be read, costs a fault.
LEMMA SkipIndInv ==
  ASSUME IndInv, NEW p \in Sweeps, SkipRow(p) \/ \E i \in Items : Unreadable(p, i)
  PROVE  IndInv'
<1> USE PlaidLifecycleAssumption
    DEF SkipRow, Unreadable, TakeUp, GoOn, rows, history, Processes
<1>1. TypeOK'
  BY DEF IndInv, TypeOK
<1>2. Clocked' /\ Counted'
  BY DEF IndInv, Clocked, Counted
<1>3. ListedOverdue'
  BY DEF IndInv, TypeOK, ListedOverdue
<1>4. RemovedInHand'
  BY DEF IndInv, TypeOK, RemovedInHand
<1>5. GoneBeforeToken' /\ RevokedIsGone'
  BY DEF IndInv, TypeOK, GoneBeforeToken, RevokedIsGone
<1> QED BY <1>1, <1>2, <1>3, <1>4, <1>5 DEF IndInv

-----------------------------------------------------------------------------
\* A day takes from the retention of a row what it adds to its suspension.
LEMMA TickIndInv ==
  ASSUME IndInv, Tick
  PROVE  IndInv'
<1> USE PlaidLifecycleAssumption DEF Tick, loops, Never, Processes
<1>1. TypeOK'
  BY DEF IndInv, TypeOK
<1>2. Clocked' /\ Counted'
  BY DEF IndInv, TypeOK, Clocked, Counted
<1>3. ListedOverdue'
  BY DEF IndInv, TypeOK, ListedOverdue
<1>4. RemovedInHand'
  BY DEF IndInv, RemovedInHand
<1>5. GoneBeforeToken' /\ RevokedIsGone'
  BY DEF IndInv, TypeOK, GoneBeforeToken, RevokedIsGone
<1> QED BY <1>1, <1>2, <1>3, <1>4, <1>5 DEF IndInv

\* The daily sync has to do with no row, and a stuttering step with nothing.
LEMMA RestIndInv ==
  ASSUME IndInv, ScheduledSync \/ UNCHANGED vars
  PROVE  IndInv'
<1>1. /\ UNCHANGED <<rows, live, loops, faults, history>>
      /\ behind' \subseteq behind
  BY DEF ScheduledSync, vars
<1> QED BY <1>1 DEF IndInv, TypeOK, Clocked, Counted, ListedOverdue, RemovedInHand,
                    GoneBeforeToken, RevokedIsGone, rows, loops, history, Processes

\* Every step keeps the inductive invariant.
LEMMA NextIndInv == IndInv /\ [Next]_vars => IndInv'
<1> SUFFICES ASSUME IndInv, [Next]_vars PROVE IndInv'
  OBVIOUS
<1>1. CASE \E p \in Tasks :
             StartSuspend(p) \/ StartRestore(p) \/ TaskStep(p) \/ Abandon(p)
  BY <1>1, LoopIndInv, SuspendIndInv, RestoreIndInv, CatchUpIndInv DEF TaskStep, Processes
<1>2. CASE \E p \in Sweeps :
             \/ SweepStep(p)
             \/ SkipRow(p) \/ (\E i \in Items : Unreadable(p, i)) \/ Abandon(p)
  BY <1>2, LoopIndInv, RemoveIndInv, DeleteIndInv, SkipIndInv DEF SweepStep, Processes
<1>3. CASE Tick
  BY <1>3, TickIndInv
<1>4. CASE ScheduledSync \/ UNCHANGED vars
  BY <1>4, RestIndInv
<1> QED BY <1>1, <1>2, <1>3, <1>4 DEF Next

-----------------------------------------------------------------------------
\* The inductive invariant holds throughout.
LEMMA Inductive == Spec => []IndInv
  BY InitIndInv, NextIndInv, PTL DEF Spec

\* The rows and loops stay of their types.
THEOREM TypeCorrect == Spec => []TypeOK
<1>1. IndInv => TypeOK
  BY DEF IndInv
<1> QED BY <1>1, Inductive, PTL

\* The token of a connected item works: however suspensions, restorations and
\* any number of retention sweeps interleave, an item with a token in use
\* exists at Plaid, unless it was restored under a sweep or a sweep failed.
THEOREM TokensWork == Spec => []TokensInUseWork
<1>1. IndInv => TokensInUseWork
  BY DEF IndInv, TypeOK, ListedOverdue, RemovedInHand, TokensInUseWork
<1> QED BY <1>1, Inductive, PTL

\* What Plaid bills can be ended: an item that Plaid has is one with a token,
\* unless something failed.
THEOREM RevokedAreGone == Spec => []RevokedIsGone
<1>1. IndInv => RevokedIsGone
  BY DEF IndInv
<1> QED BY <1>1, Inductive, PTL

\* Tokens in use and items at Plaid go together.
THEOREM TokensAreMatched == Spec => []TokensMatchItems
<1>1. TokensInUseWork /\ RevokedIsGone => TokensMatchItems
  BY DEF TokensMatchItems
<1> QED BY <1>1, TokensWork, RevokedAreGone, PTL

\* A downgraded user's items are kept for the whole retention: none is removed
\* at Plaid before, unless it was restored under a sweep.
THEOREM RetentionIsKept == Spec => RetentionKept
<1> DEFINE Kept == \A i \in live \ live' : held[i] = RetentionDays \/ i \in raced
<1>1. IndInv /\ [Next]_vars => [Kept]_vars
  <2> SUFFICES ASSUME IndInv, Next PROVE Kept
    BY DEF vars
  <2>1. ASSUME NEW p \in Sweeps, NEW i \in Items, RemoveAtPlaid(p, i)
        PROVE  Kept
    <3>1. i \in todo[p] /\ live' = IF i \in token THEN live \ {i} ELSE live
      BY <2>1 DEF RemoveAtPlaid, TakeUp
    <3>2. i \in token => held[i] = RetentionDays \/ i \in raced
      BY <3>1 DEF IndInv, ListedOverdue
    <3> QED BY <3>1, <3>2
  <2>2. ASSUME ~ \E p \in Sweeps, i \in Items : RemoveAtPlaid(p, i)
        PROVE  live' = live
    BY <2>2 DEF Next, StartSuspend, StartRestore, StartRevoke, Start, TaskStep, Suspend,
                Restore, CatchUp, Finish, Abandon, Leave, SweepStep, DeleteToken, SkipRow,
                Unreadable, ScheduledSync, Tick
  <2> QED BY <2>1, <2>2
<1> QED BY <1>1, Inductive, PTL DEF Spec, RetentionKept

-----------------------------------------------------------------------------
(***************************************************************************)
(* The subscription: what holds throughout.                                *)
(***************************************************************************)

\* The statuses of a subscription.
Statuses == {"active", "past_due", "canceled"}

\* The events about it.
EventKinds == {Failed, Paid} \union {Changed(s) : s \in Statuses}

\* What a handler reads of a profile.
Profiles ==
  [status : Statuses \union {"none"}, tier : {"paid", "free", "none"},
   grace : 0 .. NoGrace]

\* Where a handler can be, and where a grace sweep can.
HandlerStages == {"idle", "received", "loaded", "suspend", "restore", "looping", "done"}
SweepStages == {"idle", "listed", "suspend", "looping"}

\* The events, what became of them, and the subscription.
EventsTyped ==
  /\ subscription \in Statuses
  /\ events \in Seq(EventKinds) /\ Len(events) <= 2 * MaxChanges
  /\ outcome \in [1 .. 2 * MaxChanges -> {"absent", "received", "processed", "error"}]
  /\ \A e \in DOMAIN outcome : outcome[e] # "absent" => e \in DOMAIN events

\* The profile.
ProfileTyped == status \in Statuses /\ tier \in {"paid", "free"} /\ grace \in 0 .. NoGrace

\* Where the handlers and sweeps are, and what a handler has in its hands.
StagesTyped ==
  /\ DOMAIN stage = Actors
  /\ \A h \in Handlers : stage[h] \in HandlerStages
  /\ \A g \in GraceSweeps : stage[g] \in SweepStages
  /\ \A p \in Actors : stage[p] = "looping" <=> task[p] # "none"
  /\ DOMAIN event = Handlers /\ \A h \in Handlers : event[h] \in 0 .. Len(events)
  /\ \A h \in Handlers : event[h] = 0 <=> stage[h] = "idle"
  /\ DOMAIN read = Handlers /\ \A h \in Handlers : read[h] \in Profiles

\* All of it.
Typed == EventsTyped /\ ProfileTyped /\ StagesTyped

\* An actor has written the tier and is not through with the items.
Working(p) == stage[p] \in {"suspend", "restore", "looping"}

\* Unless two writings of the tier crossed, one actor at most is at work on the
\* items, for the tier as it is, and has all of them before it that do not
\* follow the tier; while nobody is, each does.
ItemsInv ==
  Unhampered =>
    /\ \A p, q \in Actors : Working(p) /\ Working(q) => p = q
    /\ (\A p \in Actors : ~Working(p)) => \A i \in token : i \in suspended <=> tier = "free"
    /\ \A p \in Actors :
         /\ stage[p] = "suspend" => tier = "free"
         /\ stage[p] = "restore" => tier = "paid"
         /\ stage[p] = "looping" =>
              \/ /\ task[p] = "suspend" /\ tier = "free"
                 /\ token \ suspended \subseteq todo[p]
              \/ /\ task[p] \in {"restore", "catchUp"} /\ tier = "paid"
                 /\ suspended \subseteq todo[p]

\* A clock runs while the user is past_due, and a handler that is about to write
\* the profile read it as it runs, or read that there is none, in which case one
\* that runs was started today.
GraceInv ==
  /\ status # "past_due" => grace = NoGrace
  /\ \A h \in Handlers : read[h].grace # NoGrace => read[h].status = "past_due"
  /\ ~overtaken => \A h \in Handlers : stage[h] = "loaded" =>
       IF read[h].grace = NoGrace
       THEN grace \in {NoGrace, GraceDays}
       ELSE grace = read[h].grace

\* The n-th event; before the first, the subscription was active.
LastOf(n) == IF n = 0 THEN Changed("active") ELSE events[n]

\* The last event is that of the subscription as it is; no event is processed
\* beyond the last one applied; and the profile says what the last one applied
\* does, when that is of the subscription and none was applied after a later one.
ProfileInv ==
  /\ LastOf(Len(events)) = Changed(subscription)
  /\ applied \in 0 .. Len(events)
  /\ \A e \in DOMAIN events : outcome[e] = "processed" => e <= applied
  /\ \A h \in Handlers : Working(h) \/ stage[h] = "done" => event[h] <= applied
  /\ ~disorder => \A s \in Statuses : LastOf(applied) = Changed(s) =>
       /\ status = s
       /\ s = "active" => grace = NoGrace /\ (tier = "paid" \/ late)
       /\ s = "canceled" => tier = "free"

-----------------------------------------------------------------------------
(***************************************************************************)
(* The lifecycle under the subscription, and the types.                    *)
(***************************************************************************)

\* What holds of the lifecycle holds when handlers and grace sweeps drive it.
LEMMA BillingIndInv ==
  ASSUME IndInv, [BillingNext]_billingVars
  PROVE  IndInv'
<1> USE BillingAssumption DEF Actors
<1>1. ASSUME NEW p \in Tasks, StartLoop(p) \/ LoopStep(p) \/ EndLoop(p)
      PROVE  IndInv'
  BY <1>1, LoopIndInv, SuspendIndInv, RestoreIndInv, CatchUpIndInv
  DEF StartLoop, LoopStep, EndLoop, Processes
<1>2. ASSUME faults < MaxFaults, faults' = faults + 1,
             UNCHANGED <<rows, live, behind, loops, history>>
      PROVE  IndInv'
  <2>1. TypeOK'
    BY <1>2, PlaidLifecycleAssumption DEF IndInv, TypeOK, rows, loops, history
  <2>2. Clocked' /\ Counted' /\ ListedOverdue'
    BY <1>2 DEF IndInv, Clocked, Counted, ListedOverdue, rows, loops, history
  <2>3. faults' > 0
    BY <1>2 DEF IndInv, TypeOK
  <2>4. RemovedInHand' /\ GoneBeforeToken' /\ RevokedIsGone'
    BY <1>2, <2>3 DEF RemovedInHand, GoneBeforeToken, RevokedIsGone
  <2> QED BY <2>1, <2>2, <2>4 DEF IndInv
<1>3. ASSUME NEW p \in Tasks, Stop(p)
      PROVE  IndInv'
  BY <1>2, <1>3, LoopIndInv DEF Stop, Processes
<1>4. CASE DayPasses
  BY <1>4, TickIndInv DEF DayPasses
<1>5. CASE UNCHANGED plaidVars
  BY <1>5, RestIndInv DEF plaidVars
<1>6. CASE UNCHANGED billingVars
  BY <1>5, <1>6 DEF billingVars
<1>7. ASSUME NEW h \in Handlers, HandlerStep(h) \/ Throw(h)
      PROVE  IndInv'
  <2>1. h \in Tasks
    OBVIOUS
  <2> QED BY <1>1, <1>3, <1>5, <1>7, <2>1
          DEF HandlerStep, Throw, LoadProfile, ApplyChanged, ApplyFailed, ApplyPaid,
              Acknowledge
<1>8. ASSUME NEW g \in GraceSweeps, GraceStep(g) \/ SweepThrows(g)
      PROVE  IndInv'
  <2>1. g \in Tasks
    OBVIOUS
  <2> QED BY <1>1, <1>3, <1>5, <1>8, <2>1 DEF GraceStep, SweepThrows, List, Downgrade
<1>9. ASSUME NEW s, SubscriptionChanges(s) PROVE IndInv'
  BY <1>5, <1>9 DEF SubscriptionChanges
<1>10. ASSUME NEW e, Replay(e) \/ \E h \in Handlers : Receive(h, e) PROVE IndInv'
  BY <1>5, <1>6, <1>10 DEF Replay, Receive
<1> QED BY <1>4, <1>6, <1>7, <1>8, <1>9, <1>10 DEF BillingNext

\* One sequence behind another.
LEMMA Appended ==
  ASSUME NEW S, NEW a \in Seq(S), NEW b \in Seq(S)
  PROVE  /\ a \o b \in Seq(S) /\ Len(a \o b) = Len(a) + Len(b)
         /\ \A i \in 1 .. Len(a) + Len(b) :
              (a \o b)[i] = IF i <= Len(a) THEN a[i] ELSE b[i - Len(a)]
  OBVIOUS

\* What Stripe tells of a change ends with the subscription as it is now.
LEMMA Told ==
  ASSUME Typed, NEW s \in Statuses, SubscriptionChanges(s)
  PROVE  /\ events' \in Seq(EventKinds) /\ Len(events') \in Nat /\ Len(events) \in Nat
         /\ Len(events) < Len(events') /\ Len(events') <= 2 * MaxChanges
         /\ DOMAIN events = 1 .. Len(events) /\ DOMAIN events' = 1 .. Len(events')
         /\ \A e \in DOMAIN events : events'[e] = events[e]
         /\ events'[Len(events')] = Changed(s)
<1>1. events \in Seq(EventKinds) /\ Len(events) <= 2 * MaxChanges - 2
  BY DEF Typed, EventsTyped, SubscriptionChanges
<1>2. EventsOf(s) \in Seq(EventKinds) /\ EventsOf(s)[Len(EventsOf(s))] = Changed(s)
      /\ Len(EventsOf(s)) \in 1 .. 2
  <2> DEFINE c == Changed(s)
  <2>1. c \in EventKinds /\ Failed \in EventKinds /\ Paid \in EventKinds
    BY DEF EventKinds
  <2>2. EventsOf(s) \in {<<Failed, c>>, <<Paid, c>>, <<c>>}
    BY DEF EventsOf, Statuses
  <2> HIDE DEF c
  <2>3. EventsOf(s) \in Seq(EventKinds) /\ EventsOf(s)[Len(EventsOf(s))] = c
        /\ Len(EventsOf(s)) \in 1 .. 2
    <3>1. \A a \in EventKinds :
            <<a, c>> \in Seq(EventKinds) /\ Len(<<a, c>>) = 2 /\ <<a, c>>[2] = c
      BY <2>1
    <3>2. <<c>> \in Seq(EventKinds) /\ Len(<<c>>) = 1 /\ <<c>>[1] = c
      BY <2>1
    <3>3. CASE EventsOf(s) = <<c>>
      BY <3>2, <3>3
    <3>4. ASSUME NEW a \in EventKinds, EventsOf(s) = <<a, c>>
          PROVE  EventsOf(s) \in Seq(EventKinds) /\ EventsOf(s)[Len(EventsOf(s))] = c
                 /\ Len(EventsOf(s)) \in 1 .. 2
      BY <3>1, <3>4
    <3> QED BY <2>1, <2>2, <3>3, <3>4
  <2> QED BY <2>3 DEF c
<1>3. events' = events \o EventsOf(s)
  BY DEF SubscriptionChanges
<1>4. PICK new \in Seq(EventKinds) : new = EventsOf(s)
  BY <1>2
<1>5. Len(events) \in Nat /\ Len(new) \in 1 .. 2 /\ new[Len(new)] = Changed(s)
  BY <1>1, <1>2, <1>4
<1>6. events' \in Seq(EventKinds) /\ Len(events') = Len(events) + Len(new)
      /\ \A i \in 1 .. Len(events) + Len(new) :
           events'[i] = IF i <= Len(events) THEN events[i] ELSE new[i - Len(events)]
  <2>1. events' = events \o new
    BY <1>3, <1>4
  <2>2. /\ events \o new \in Seq(EventKinds) /\ Len(events \o new) = Len(events) + Len(new)
        /\ \A i \in 1 .. Len(events) + Len(new) :
             (events \o new)[i] = IF i <= Len(events) THEN events[i] ELSE new[i - Len(events)]
    BY <1>1, <1>4, Appended
  <2> QED BY <2>1, <2>2
<1>7. events'[Len(events')] = Changed(s)
  <2>1. \A n \in Nat, m \in 1 .. 2 : n + m \in 1 .. n + m /\ ~(n + m <= n) /\ (n + m) - n = m
    OBVIOUS
  <2> QED BY <1>5, <1>6, <2>1
<1>8. DOMAIN events = 1 .. Len(events) /\ DOMAIN events' = 1 .. Len(events')
  BY <1>1, <1>6
<1>9. Len(events') \in Nat /\ Len(events) < Len(events') /\ Len(events') <= 2 * MaxChanges
  <2>1. \A n \in Nat, m \in 1 .. 2, M \in Nat :
          n <= 2 * M - 2 => n + m \in Nat /\ n < n + m /\ n + m <= 2 * M
    OBVIOUS
  <2> QED BY <1>1, <1>5, <1>6, <2>1, BillingAssumption
<1>10. \A e \in DOMAIN events : events'[e] = events[e]
  BY <1>5, <1>6, <1>8, <1>9
<1> QED BY <1>5, <1>6, <1>7, <1>8, <1>9, <1>10

\* The types hold at the start.
LEMMA InitTyped == BillingInit => Typed
<1> SUFFICES ASSUME BillingInit PROVE Typed
  OBVIOUS
<1> USE BillingAssumption DEF BillingInit, Init, Actors, Processes
<1>1. events \in Seq(EventKinds) /\ Len(events) = 0
  OBVIOUS
<1>2. read \in [Handlers -> Profiles]
  BY DEF Unread, Profiles, NoGrace, Statuses
<1>3. NoGrace \in 0 .. NoGrace
  BY DEF NoGrace
<1>4. DOMAIN event = Handlers /\ \A h \in Handlers : event[h] \in 0 .. Len(events)
  BY <1>1
<1>5. Len(events) <= 2 * MaxChanges
  BY <1>1
<1>6. outcome \in [1 .. 2 * MaxChanges -> {"absent", "received", "processed", "error"}]
      /\ \A e \in DOMAIN outcome : outcome[e] = "absent"
  OBVIOUS
<1>7. \A p \in Actors : stage[p] = "idle" /\ task[p] = "none"
  OBVIOUS
<1>8. \A h \in Handlers : h \in Actors /\ event[h] = 0
  OBVIOUS
<1>9. subscription = "active" /\ status = "active" /\ tier = "paid" /\ grace = NoGrace
      /\ DOMAIN stage = Actors /\ crossed = FALSE /\ disorder = FALSE /\ late = FALSE
      /\ overtaken = FALSE /\ \A g \in GraceSweeps : g \in Actors
  OBVIOUS
<1> QED BY ONLY <1>1, <1>2, <1>3, <1>4, <1>5, <1>6, <1>7, <1>8, <1>9
        DEF Typed, EventsTyped, ProfileTyped, StagesTyped, Statuses, HandlerStages, SweepStages

\* The grace period a handler writes.
LEMMA GraceTyped ==
  /\ NoGrace \in Nat /\ GraceDays \in 0 .. NoGrace /\ GraceDays # NoGrace
  /\ NoGrace \in 0 .. NoGrace
  /\ \A r \in Profiles : GraceOf(r) \in 0 .. NoGrace /\ GraceOf(r) # NoGrace
  BY BillingAssumption DEF NoGrace, GraceOf, Profiles

\* An actor goes on to another stage, in no loop.
LEMMA StageSet ==
  ASSUME Typed, NEW p \in Actors, NEW s, GoTo(p, s), events' = events,
         s = "looping" <=> task'[p] # "none", \A q \in Actors \ {p} : task'[q] = task[q],
         p \in Handlers =>
           /\ s \in HandlerStages
           /\ event'[p] \in 0 .. Len(events) /\ (event'[p] = 0 <=> s = "idle")
           /\ read'[p] \in Profiles,
         p \in GraceSweeps => s \in SweepStages,
         DOMAIN event' = Handlers, DOMAIN read' = Handlers,
         \A q \in Handlers \ {p} : event'[q] = event[q] /\ read'[q] = read[q]
  PROVE  StagesTyped'
<1>1. /\ DOMAIN stage' = Actors /\ stage'[p] = s
      /\ \A q \in Actors : q # p => stage'[q] = stage[q]
  BY DEF Typed, StagesTyped, GoTo
<1>2. Handlers \subseteq Actors /\ GraceSweeps \subseteq Actors
  BY DEF Actors
<1>3. /\ DOMAIN event' = Handlers /\ \A h \in Handlers : event'[h] \in 0 .. Len(events')
      /\ \A h \in Handlers : event'[h] = 0 <=> stage'[h] = "idle"
  BY <1>1, <1>2 DEF Typed, StagesTyped
<1>4. DOMAIN read' = Handlers /\ \A h \in Handlers : read'[h] \in Profiles
  BY <1>1, <1>2 DEF Typed, StagesTyped
<1>5. /\ \A h \in Handlers : stage'[h] \in HandlerStages
      /\ \A g \in GraceSweeps : stage'[g] \in SweepStages
      /\ \A q \in Actors : stage'[q] = "looping" <=> task'[q] # "none"
  BY <1>1, <1>2 DEF Typed, StagesTyped
<1> QED BY <1>1, <1>3, <1>4, <1>5 DEF StagesTyped

\* What is not written stays typed.
LEMMA Untouched ==
  ASSUME Typed
  PROVE  /\ UNCHANGED <<subscription, events, outcome>> => EventsTyped'
         /\ UNCHANGED <<status, tier, grace>> => ProfileTyped'
         /\ UNCHANGED <<events, stage, event, read, task>> => StagesTyped'
  BY DEF Typed, EventsTyped, ProfileTyped, StagesTyped


\* An event of the subscription carries its status, and no other event does.
LEMMA OfSubscription ==
  ASSUME NEW e \in EventKinds
  PROVE  /\ e.type = "customer.subscription" => e.status \in Statuses /\ e = Changed(e.status)
         /\ e.type # "customer.subscription" => \A s : e # Changed(s)
<1>1. CASE e = Failed \/ e = Paid
  <2>1. e.type # "customer.subscription"
    BY <1>1 DEF Failed, Paid
  <2> QED BY <2>1 DEF Changed
<1>2. ASSUME NEW s \in Statuses, e = Changed(s)
      PROVE  e.type = "customer.subscription" /\ e.status \in Statuses /\ e = Changed(e.status)
  BY <1>2 DEF Changed
<1>3. e = Failed \/ e = Paid \/ \E s \in Statuses : e = Changed(s)
  BY DEF EventKinds
<1> QED BY <1>1, <1>2, <1>3

\* A handler in no loop goes on to another stage.
LEMMA HandlerSet ==
  ASSUME Typed, NEW h \in Handlers, NEW s \in HandlerStages \ {"looping"}, GoTo(h, s),
         UNCHANGED <<events, task>>, task[h] = "none",
         event'[h] \in 0 .. Len(events), event'[h] = 0 <=> s = "idle",
         read'[h] \in Profiles, DOMAIN event' = Handlers, DOMAIN read' = Handlers,
         \A q \in Handlers \ {h} : event'[q] = event[q] /\ read'[q] = read[q]
  PROVE  StagesTyped'
  BY StageSet, BillingAssumption DEF Actors

\* So does a sweep.
LEMMA SweepSet ==
  ASSUME Typed, NEW g \in GraceSweeps, NEW s \in SweepStages \ {"looping"}, GoTo(g, s),
         UNCHANGED <<events, task, event, read>>, task[g] = "none"
  PROVE  StagesTyped'
<1>1. DOMAIN event' = Handlers /\ DOMAIN read' = Handlers
  BY DEF Typed, StagesTyped
<1> QED BY <1>1, StageSet, BillingAssumption DEF Actors

\* An actor in no loop.
LEMMA NoTask ==
  ASSUME Typed, NEW p \in Actors, stage[p] # "looping"
  PROVE  task[p] = "none"
  BY DEF Typed, StagesTyped

\* A handler that writes the profile.
LEMMA ApplyTyped ==
  ASSUME Typed, NEW h \in Handlers, ApplyChanged(h) \/ ApplyFailed(h) \/ ApplyPaid(h)
  PROVE  Typed'
<1>1. /\ UNCHANGED <<subscription, events, outcome, event, read, task>>
      /\ stage[h] \in {"received", "loaded"}
  BY DEF ApplyChanged, ApplyFailed, ApplyPaid, plaidVars, vars, loops
<1>2. h \in Actors /\ stage[h] # "looping" /\ stage[h] # "idle"
  BY <1>1 DEF Actors
<1>3. DOMAIN event = Handlers /\ DOMAIN read = Handlers /\ read[h] \in Profiles
      /\ event[h] \in 0 .. Len(events) /\ event[h] # 0
  BY <1>2 DEF Typed, StagesTyped
<1>4. ASSUME NEW s \in {"done", "suspend", "restore"}, GoTo(h, s) PROVE StagesTyped'
  <2>1. task[h] = "none"
    BY <1>2, NoTask
  <2>2. s \in HandlerStages \ {"looping"} /\ s # "idle"
    BY DEF HandlerStages
  <2> QED BY <1>1, <1>3, <1>4, <2>1, <2>2, HandlerSet
<1>5. CASE ApplyChanged(h)
  <2> DEFINE e == events[event[h]]
  <2>1. e \in EventKinds /\ e.type = "customer.subscription"
    <3>1. events \in Seq(EventKinds) /\ Len(events) \in Nat
      BY DEF Typed, EventsTyped
    <3>2. event[h] \in 1 .. Len(events)
      BY <1>3, <3>1
    <3>3. e \in EventKinds
      BY <3>1, <3>2
    <3>4. events[event[h]].type = "customer.subscription"
      BY <1>5 DEF ApplyChanged
    <3> QED BY <3>3, <3>4
  <2>2. e.status \in Statuses
    BY <2>1, OfSubscription
  <2>3. status' \in Statuses /\ grace' \in 0 .. NoGrace /\ tier' \in {"paid", "free"}
    BY <1>3, <1>5, <2>2, GraceTyped DEF ApplyChanged, TierOf
  <2>4. read[h].tier = tier' \/ tier' = "free" \/ tier' = "paid"
    BY <2>3
  <2>5. \E s \in {"done", "suspend", "restore"} : GoTo(h, s)
    BY <1>5, <2>3, Zenon DEF ApplyChanged, AfterTier
  <2> QED BY <1>1, <1>4, <2>3, <2>5, Untouched DEF Typed, ProfileTyped
<1>6. CASE ApplyFailed(h)
  <2>1. status' \in Statuses /\ grace' \in 0 .. NoGrace /\ tier' = tier /\ GoTo(h, "done")
    BY <1>3, <1>6, GraceTyped DEF ApplyFailed, Statuses
  <2> QED BY <1>1, <1>4, <2>1, Untouched DEF Typed, ProfileTyped
<1>7. CASE ApplyPaid(h)
  <2>1. status' = status /\ grace' \in 0 .. NoGrace /\ tier' = tier /\ GoTo(h, "done")
    BY <1>7, GraceTyped DEF ApplyPaid
  <2> QED BY <1>1, <1>4, <2>1, Untouched DEF Typed, ProfileTyped
<1> QED BY <1>5, <1>6, <1>7

\* An actor that stops is in no loop any more.
LEMMA StoppedTask ==
  ASSUME Typed, IndInv, NEW p \in Actors, Stop(p)
  PROVE  task'[p] = "none" /\ \A q \in Actors \ {p} : task'[q] = task[q]
  BY BillingAssumption
  DEF Stop, Abandon, Leave, IndInv, TypeOK, Processes, loops

\* A handler that ends, with its event and its reading forgotten.
LEMMA IdleTyped ==
  ASSUME Typed, NEW h \in Handlers, Forget(h), GoTo(h, "idle"), events' = events,
         \/ task'[h] = "none" /\ \A q \in Actors \ {h} : task'[q] = task[q]
         \/ task' = task /\ stage[h] # "looping"
  PROVE  StagesTyped'
<1>1. task'[h] = "none" /\ \A q \in Actors \ {h} : task'[q] = task[q]
  BY NoTask DEF Actors
<1>2. DOMAIN event = Handlers /\ DOMAIN read = Handlers /\ Len(events) \in Nat
  BY DEF Typed, StagesTyped, EventsTyped
<1>3. Unread \in Profiles
  BY GraceTyped DEF Unread, Profiles
<1>4. /\ event' = [event EXCEPT ![h] = 0] /\ read' = [read EXCEPT ![h] = Unread]
  BY DEF Forget
<1>5. "idle" \in HandlerStages /\ h \in Actors /\ h \notin GraceSweeps
  BY BillingAssumption DEF HandlerStages, Actors
<1>6. /\ event'[h] = 0 /\ read'[h] \in Profiles /\ DOMAIN event' = Handlers
      /\ DOMAIN read' = Handlers
      /\ \A q \in Handlers \ {h} : event'[q] = event[q] /\ read'[q] = read[q]
  BY <1>2, <1>3, <1>4
<1> QED BY <1>1, <1>2, <1>5, <1>6, StageSet

\* A step of a loop over the items.
LEMMA LoopTyped ==
  ASSUME Typed, IndInv, NEW p \in Actors, StartLoop(p) \/ LoopStep(p) \/ EndLoop(p)
  PROVE  StagesTyped'
<1>1. task \in [Processes -> {"none", "suspend", "restore", "catchUp", "revoke", "delete"}]
      /\ p \in Processes
  BY BillingAssumption DEF IndInv, TypeOK, Processes
<1>2. /\ UNCHANGED <<events, event, read>>
      /\ DOMAIN event = Handlers /\ DOMAIN read = Handlers
  BY DEF StartLoop, LoopStep, EndLoop, untouched, Typed, StagesTyped
<1>3. p \in Handlers => event[p] \in 0 .. Len(events) /\ (event[p] = 0 <=> stage[p] = "idle")
                        /\ read[p] \in Profiles
  BY DEF Typed, StagesTyped
<1>4. CASE StartLoop(p)
  <2>1. GoTo(p, "looping") /\ stage[p] # "idle"
    BY <1>4 DEF StartLoop
  <2>2. task'[p] # "none" /\ \A q \in Actors \ {p} : task'[q] = task[q]
    <3>1. \E kind \in {"suspend", "restore"} : task' = [task EXCEPT ![p] = kind]
      BY <1>4, Zenon DEF StartLoop, StartSuspend, StartRestore, Start
    <3> QED BY <1>1, <3>1
  <2> QED BY <1>2, <1>3, <2>1, <2>2, StageSet DEF HandlerStages, SweepStages
<1>5. CASE LoopStep(p)
  <2>1. stage' = stage
    BY <1>5 DEF LoopStep
  <2>2. \A q \in Actors : task'[q] # "none" <=> task[q] # "none"
    BY <1>1, <1>5, BillingAssumption
    DEF LoopStep, Suspend, Restore, CatchUp, GoOn, TakeUp, Processes
  <2> QED BY <1>2, <2>1, <2>2 DEF Typed, StagesTyped
<1>6. CASE EndLoop(p)
  <2>1. GoTo(p, IF p \in Handlers THEN "done" ELSE "idle") /\ task[p] # "none"
    BY <1>6 DEF EndLoop, Finish
  <2>2. task'[p] = "none" /\ \A q \in Actors \ {p} : task'[q] = task[q]
    BY <1>1, <1>6 DEF EndLoop, Finish, Leave
  <2>3. stage[p] # "idle"
    BY <2>1 DEF Typed, StagesTyped
  <2>4. CASE p \in Handlers
    BY <1>2, <1>3, <2>1, <2>2, <2>3, <2>4, StageSet, BillingAssumption DEF HandlerStages
  <2>5. CASE p \notin Handlers
    BY <1>2, <2>1, <2>2, <2>5, StageSet DEF SweepStages
  <2> QED BY <2>4, <2>5
<1> QED BY <1>4, <1>5, <1>6

\* Every step keeps the types.
LEMMA TypedStep ==
  ASSUME IndInv, Typed, [BillingNext]_billingVars
  PROVE  Typed'
<1>1. ASSUME NEW s \in Statuses, SubscriptionChanges(s) PROVE Typed'
  <2>1. /\ subscription' = s
        /\ UNCHANGED <<outcome, status, tier, grace, stage, event, read, task>>
    BY <1>1 DEF SubscriptionChanges, profile, plaidVars, vars, loops
  <2>2. EventsTyped'
    BY <1>1, <2>1, Told DEF Typed, EventsTyped
  <2>3. \A h \in Handlers : event[h] \in 0 .. Len(events')
    BY <1>1, Told DEF Typed, StagesTyped
  <2>4. StagesTyped'
    BY <2>1, <2>3 DEF Typed, StagesTyped
  <2> QED BY <2>1, <2>2, <2>4, Untouched DEF Typed
<1>2. ASSUME NEW h \in Handlers, NEW e \in DOMAIN events, Receive(h, e) PROVE Typed'
  <2>1. /\ UNCHANGED <<subscription, events, status, tier, grace, read, task>>
        /\ stage[h] = "idle" /\ event' = [event EXCEPT ![h] = e]
        /\ outcome' = [outcome EXCEPT ![e] = "received"] /\ GoTo(h, "received")
    BY <1>2 DEF Receive, profile, plaidVars, vars, loops
  <2>2. EventsTyped'
    BY <2>1 DEF Typed, EventsTyped
  <2>3. e # 0 /\ e \in 0 .. Len(events)
    BY DEF Typed, EventsTyped
  <2>4. task[h] = "none"
    BY <2>1, NoTask DEF Actors
  <2>5. "received" \in HandlerStages \ {"looping"}
    BY DEF HandlerStages
  <2>6. DOMAIN event = Handlers /\ DOMAIN read = Handlers /\ read[h] \in Profiles
    BY DEF Typed, StagesTyped
  <2>7. StagesTyped'
    BY <2>1, <2>3, <2>4, <2>5, <2>6, HandlerSet
  <2> QED BY <2>1, <2>2, <2>7, Untouched DEF Typed
<1>3. ASSUME NEW h \in Handlers, LoadProfile(h) PROVE Typed'
  <2> DEFINE r == [status |-> status, tier |-> tier, grace |-> grace]
  <2>1. /\ UNCHANGED <<subscription, events, outcome, status, tier, grace, event, task>>
        /\ stage[h] = "received" /\ read' = [read EXCEPT ![h] = r] /\ GoTo(h, "loaded")
    BY <1>3 DEF LoadProfile, profile, plaidVars, vars, loops
  <2>2. r \in Profiles
    BY DEF Typed, ProfileTyped, Profiles
  <2> HIDE DEF r
  <2>3. DOMAIN event = Handlers /\ DOMAIN read = Handlers /\ event[h] \in 0 .. Len(events)
        /\ event[h] # 0
    BY <2>1 DEF Typed, StagesTyped
  <2>4. task[h] = "none"
    BY <2>1, NoTask DEF Actors
  <2>5. "loaded" \in HandlerStages \ {"looping"}
    BY DEF HandlerStages
  <2>6. StagesTyped'
    BY <2>1, <2>2, <2>3, <2>4, <2>5, HandlerSet
  <2> QED BY <2>1, <2>6, Untouched DEF Typed
<1>4. ASSUME NEW h \in Handlers, Acknowledge(h) PROVE Typed'
  <2>1. /\ UNCHANGED <<subscription, events, status, tier, grace, task>>
        /\ stage[h] = "done" /\ outcome' = [outcome EXCEPT ![event[h]] = "processed"]
        /\ Forget(h) /\ GoTo(h, "idle")
    BY <1>4 DEF Acknowledge, profile, plaidVars, vars, loops
  <2>2. EventsTyped'
    <3>1. event[h] \in 1 .. Len(events) /\ DOMAIN events = 1 .. Len(events)
      BY <2>1 DEF Typed, EventsTyped, StagesTyped
    <3> QED BY <2>1, <3>1 DEF Typed, EventsTyped
  <2>3. StagesTyped'
    BY <2>1, IdleTyped
  <2> QED BY <2>1, <2>2, <2>3, Untouched DEF Typed
<1>5. ASSUME NEW h \in Handlers, Throw(h) PROVE Typed'
  <2>1. /\ UNCHANGED <<subscription, events, status, tier, grace>>
        /\ Forget(h) /\ GoTo(h, "idle") /\ Stop(h) /\ stage[h] # "idle"
        /\ outcome' \in {outcome, [outcome EXCEPT ![event[h]] = "error"]}
    BY <1>5 DEF Throw, Stop, profile
  <2>2. EventsTyped'
    <3>1. event[h] \in 1 .. Len(events) /\ DOMAIN events = 1 .. Len(events)
      BY <2>1 DEF Typed, EventsTyped, StagesTyped
    <3> QED BY <2>1, <3>1 DEF Typed, EventsTyped
  <2>3. StagesTyped'
    BY <2>1, StoppedTask, IdleTyped DEF Actors
  <2> QED BY <2>1, <2>2, <2>3, Untouched DEF Typed
<1>6. ASSUME NEW g \in GraceSweeps, SweepThrows(g) PROVE Typed'
  <2>1. /\ UNCHANGED <<subscription, events, outcome, status, tier, grace, event, read>>
        /\ GoTo(g, "idle") /\ Stop(g)
    BY <1>6 DEF SweepThrows, Stop, untouched, profile
  <2>2. StagesTyped'
    <3>1. task'[g] = "none" /\ \A q \in Actors \ {g} : task'[q] = task[q]
      BY <2>1, StoppedTask DEF Actors
    <3>2. "idle" \in SweepStages /\ DOMAIN event' = Handlers /\ DOMAIN read' = Handlers
          /\ g \in Actors /\ g \notin Handlers
      BY <2>1, BillingAssumption DEF SweepStages, Actors, Typed, StagesTyped
    <3> QED BY <2>1, <3>1, <3>2, StageSet
  <2> QED BY <2>1, <2>2, Untouched DEF Typed
<1>7. ASSUME NEW g \in GraceSweeps, List(g) \/ Downgrade(g) PROVE Typed'
  <2>1. /\ UNCHANGED <<subscription, events, outcome, status, grace, event, read, task>>
        /\ stage[g] \in {"idle", "listed"} /\ tier' \in {tier, "free"}
        /\ \E s \in {"listed", "suspend"} : GoTo(g, s)
    BY <1>7 DEF List, Downgrade, profile, plaidVars, vars, loops
  <2>2. StagesTyped'
    <3>1. task[g] = "none"
      BY <2>1, NoTask DEF Actors
    <3> QED BY <2>1, <3>1, SweepSet DEF SweepStages
  <2>3. ProfileTyped'
    BY <2>1 DEF Typed, ProfileTyped
  <2> QED BY <2>1, <2>2, <2>3, Untouched DEF Typed
<1>8. ASSUME NEW p \in Actors, StartLoop(p) \/ LoopStep(p) \/ EndLoop(p) PROVE Typed'
  <2>1. UNCHANGED <<subscription, events, outcome, status, tier, grace, event, read>>
    BY <1>8 DEF StartLoop, LoopStep, EndLoop, untouched, profile
  <2>2. StagesTyped'
    BY <1>8, LoopTyped
  <2> QED BY <2>1, <2>2, Untouched DEF Typed
<1>9. CASE DayPasses
  <2>1. /\ UNCHANGED <<subscription, events, outcome, status, tier, stage, event, read, task>>
        /\ grace' = IF grace \in {0, NoGrace} THEN grace ELSE grace - 1
    BY <1>9 DEF DayPasses, Tick, loops
  <2>2. ProfileTyped'
    BY <2>1, GraceTyped DEF Typed, ProfileTyped
  <2> QED BY <2>1, <2>2, Untouched DEF Typed
<1>10. CASE UNCHANGED billingVars
  BY <1>10, Untouched DEF Typed, billingVars, profile, plaidVars, vars, loops
<1> QED BY <1>1, <1>2, <1>3, <1>4, <1>5, <1>6, <1>7, <1>8, <1>9, <1>10, ApplyTyped
        DEF BillingNext, HandlerStep, GraceStep, Replay, Actors, Statuses

-----------------------------------------------------------------------------
(***************************************************************************)
(* The items follow the tier.                                              *)
(***************************************************************************)

\* A step that neither writes the tier nor goes through the items.
LEMMA ItemsQuiet ==
  ASSUME ItemsInv, UNCHANGED <<token, suspended, tier, task, todo, crossed, faults>>,
         \A p \in Actors : stage'[p] = stage[p] \/ (~Working(p) /\ ~Working(p)')
  PROVE  ItemsInv'
  BY DEF ItemsInv, Unhampered, Working

\* Whoever writes the tier while nobody else is at work goes through the items when it
\* changed.
LEMMA TierWritten ==
  ASSUME ItemsInv, Typed, Typed', NEW p \in Actors, ~Working(p), NEW s, GoTo(p, s),
         UNCHANGED <<token, suspended, faults>>, ~crossed' => ~crossed /\ ~Unsettled(p),
         \/ ~crossed' => tier' = tier /\ s \notin {"suspend", "restore", "looping"}
         \/ tier' = "free" /\ s = "suspend"
         \/ tier' = "paid" /\ s = "restore"
  PROVE  ItemsInv'
<1> SUFFICES ASSUME Unhampered' PROVE ItemsInv'
  BY DEF ItemsInv
<1>1. Unhampered /\ \A q \in Actors : ~Working(q)
  BY DEF Unhampered, Unsettled, Working
<1>2. \A i \in token : i \in suspended <=> tier = "free"
  BY <1>1 DEF ItemsInv
<1>3. stage'[p] = s /\ \A q \in Actors \ {p} : stage'[q] = stage[q]
  BY DEF GoTo, Typed, StagesTyped
<1>4. \A q \in Actors \ {p} : ~Working(q)'
  BY <1>1, <1>3 DEF Working
<1> QED BY <1>1, <1>2, <1>3, <1>4 DEF ItemsInv, Unhampered, Working

\* A loop over the items starts, goes on or ends.
LEMMA LoopItems ==
  ASSUME IndInv, Typed, Typed', ItemsInv, NEW p \in Actors,
         StartLoop(p) \/ LoopStep(p) \/ EndLoop(p)
  PROVE  ItemsInv'
<1>1. UNCHANGED <<tier, crossed>>
  BY DEF StartLoop, LoopStep, EndLoop, untouched, profile
<1>2. faults' = faults /\ token' = token
  BY DEF StartLoop, LoopStep, EndLoop, StartSuspend, StartRestore, Start, Suspend, Restore,
         CatchUp, GoOn, Finish, Leave, rows
<1> SUFFICES ASSUME Unhampered, Unhampered' PROVE ItemsInv'
  BY <1>1, <1>2 DEF ItemsInv, Unhampered
<1>3. Working(p)
  <2>1. task[p] # "none" \/ stage[p] \in {"suspend", "restore"}
    BY DEF StartLoop, LoopStep, EndLoop, Suspend, Restore, CatchUp, TakeUp, Finish
  <2> QED BY <2>1 DEF Typed, StagesTyped, Working
<1>4. \A q \in Actors \ {p} : ~Working(q)
  BY <1>3 DEF ItemsInv
<1>5. \A q \in Actors \ {p} : stage'[q] = stage[q]
  BY DEF StartLoop, LoopStep, EndLoop, GoTo, Typed, StagesTyped
<1>6. \A q \in Actors \ {p} : ~Working(q)'
  BY <1>4, <1>5 DEF Working
<1>7. /\ task \in [Processes -> {"none", "suspend", "restore", "catchUp", "revoke", "delete"}]
      /\ todo \in [Processes -> SUBSET Items] /\ p \in Processes
      /\ suspended \subseteq token /\ token \subseteq Items
  BY BillingAssumption DEF IndInv, TypeOK, Processes
<1>8. ASSUME stage'[p] = "looping",
             \/ task'[p] = "suspend" /\ tier = "free" /\ token \ suspended' \subseteq todo'[p]
             \/ task'[p] \in {"restore", "catchUp"} /\ tier = "paid"
                /\ suspended' \subseteq todo'[p]
      PROVE  ItemsInv'
  <2>1. Working(p)'
    BY <1>8 DEF Working
  <2> QED BY <1>1, <1>2, <1>6, <1>8, <2>1 DEF ItemsInv, Working
<1>9. CASE StartLoop(p)
  <2>1. stage'[p] = "looping"
    BY <1>9 DEF StartLoop, GoTo, Typed, StagesTyped
  <2>2. \/ stage[p] = "suspend" /\ StartSuspend(p)
        \/ stage[p] = "restore" /\ StartRestore(p)
    BY <1>9, Zenon DEF StartLoop
  <2>3. suspended' = suspended
    BY <2>2 DEF StartSuspend, StartRestore, Start, rows
  <2>4. CASE stage[p] = "suspend" /\ StartSuspend(p)
    <3>1. tier = "free"
      BY <2>4 DEF ItemsInv
    <3>2. task'[p] = "suspend" /\ todo'[p] = token \ suspended
      BY <1>7, <2>4 DEF StartSuspend, Start
    <3> QED BY <1>8, <2>1, <2>3, <3>1, <3>2
  <2>5. CASE stage[p] = "restore" /\ StartRestore(p)
    <3>1. tier = "paid"
      BY <2>5 DEF ItemsInv
    <3>2. task'[p] = "restore" /\ todo'[p] = suspended
      BY <1>7, <2>5 DEF StartRestore, Start
    <3> QED BY <1>8, <2>1, <2>3, <3>1, <3>2
  <2> QED BY <2>2, <2>4, <2>5
<1>10. CASE LoopStep(p)
  <2>1. stage' = stage
    BY <1>10 DEF LoopStep
  <2>2. task[p] # "none" /\ stage[p] = "looping"
    BY <1>3, <1>10 DEF LoopStep, Suspend, Restore, CatchUp, TakeUp, Typed, StagesTyped
  <2>3. \/ task[p] = "suspend" /\ tier = "free" /\ token \ suspended \subseteq todo[p]
        \/ task[p] \in {"restore", "catchUp"} /\ tier = "paid" /\ suspended \subseteq todo[p]
    BY <2>2 DEF ItemsInv
  <2>4. ASSUME NEW i \in Items, Suspend(p, i) PROVE ItemsInv'
    <3>1. task[p] = "suspend" /\ task' = task /\ todo'[p] = todo[p] \ {i}
          /\ suspended' = suspended \union ({i} \intersect token)
      BY <1>7, <2>4 DEF Suspend, TakeUp
    <3> QED BY <1>8, <2>1, <2>2, <2>3, <3>1
  <2>5. ASSUME NEW i \in Items, Restore(p, i) PROVE ItemsInv'
    <3>1. task[p] = "restore" /\ task'[p] = "catchUp" /\ todo'[p] = todo[p] \ {i}
          /\ suspended' = suspended \ {i}
      BY <1>7, <2>5 DEF Restore, TakeUp
    <3> QED BY <1>8, <2>1, <2>2, <2>3, <3>1
  <2>6. CASE CatchUp(p)
    <3>1. task[p] = "catchUp" /\ task'[p] = "restore" /\ todo' = todo /\ suspended' = suspended
      BY <1>7, <2>6 DEF CatchUp, GoOn, rows
    <3> QED BY <1>8, <2>1, <2>2, <2>3, <3>1
  <2> QED BY <1>10, <2>4, <2>5, <2>6 DEF LoopStep
<1>11. CASE EndLoop(p)
  <2>1. task[p] \in {"suspend", "restore", "revoke"} /\ todo[p] = {} /\ suspended' = suspended
        /\ stage'[p] \in {"done", "idle"}
    BY <1>11 DEF EndLoop, Finish, Leave, rows, GoTo, Typed, StagesTyped
  <2>2. stage[p] = "looping"
    BY <2>1 DEF Typed, StagesTyped
  <2>3. \A q \in Actors : ~Working(q)'
    BY <1>6, <2>1 DEF Working
  <2>4. \A i \in token : i \in suspended <=> tier = "free"
    BY <1>7, <2>1, <2>2 DEF ItemsInv
  <2> QED BY <1>1, <1>2, <2>1, <2>3, <2>4 DEF ItemsInv, Working
<1> QED BY <1>9, <1>10, <1>11

\* Every step.
LEMMA ItemsStep ==
  ASSUME IndInv, Typed, Typed', ItemsInv, [BillingNext]_billingVars
  PROVE  ItemsInv'
<1> USE DEF Actors
<1>1. ASSUME NEW s, SubscriptionChanges(s) PROVE ItemsInv'
  BY <1>1, ItemsQuiet DEF SubscriptionChanges, profile, plaidVars, vars, rows, loops
<1>2. ASSUME NEW h \in Handlers, NEW e, Receive(h, e) PROVE ItemsInv'
  BY <1>2, ItemsQuiet
  DEF Receive, GoTo, profile, plaidVars, vars, rows, loops, Working, Typed, StagesTyped
<1>3. ASSUME NEW h \in Handlers,
             LoadProfile(h) \/ ApplyFailed(h) \/ ApplyPaid(h) \/ Acknowledge(h)
      PROVE  ItemsInv'
  <2>1. UNCHANGED <<token, suspended, tier, task, todo, crossed, faults>>
    BY <1>3
    DEF LoadProfile, ApplyFailed, ApplyPaid, Acknowledge, profile, plaidVars, vars, rows, loops
  <2>2. stage[h] \in {"received", "loaded", "done"}
    BY <1>3 DEF LoadProfile, ApplyFailed, ApplyPaid, Acknowledge
  <2>3. \E s \in {"loaded", "done", "idle"} : GoTo(h, s)
    BY <1>3, Zenon DEF LoadProfile, ApplyFailed, ApplyPaid, Acknowledge
  <2> QED BY <2>1, <2>2, <2>3, ItemsQuiet DEF GoTo, Working, Typed, StagesTyped
<1>4. ASSUME NEW h \in Handlers, ApplyChanged(h) PROVE ItemsInv'
  <2>1. UNCHANGED <<token, suspended, faults>> /\ ~Working(h)
    BY <1>4 DEF ApplyChanged, plaidVars, vars, rows, Working
  <2>2. ~crossed' => ~crossed /\ read[h].tier = tier /\ ~Unsettled(h)
    BY <1>4 DEF ApplyChanged
  <2>3. tier' \in {"paid", "free"}
    BY DEF Typed, ProfileTyped
  <2>4. AfterTier(h, read[h].tier, tier')
    BY <1>4, Zenon DEF ApplyChanged
  <2>5. \/ read[h].tier = tier' /\ GoTo(h, "done")
        \/ tier' = "free" /\ GoTo(h, "suspend")
        \/ tier' = "paid" /\ GoTo(h, "restore")
    BY <2>3, <2>4 DEF AfterTier
  <2> QED BY <2>1, <2>2, <2>5, TierWritten
<1>5. ASSUME NEW g \in GraceSweeps, List(g) PROVE ItemsInv'
  BY <1>5, ItemsQuiet
  DEF List, GoTo, profile, plaidVars, vars, rows, loops, Working, Typed, StagesTyped
<1>6. ASSUME NEW g \in GraceSweeps, Downgrade(g) PROVE ItemsInv'
  <2>1. UNCHANGED <<token, suspended, faults>> /\ ~Working(g) /\ GoTo(g, "suspend")
        /\ tier' = "free" /\ (~crossed' => ~crossed /\ ~Unsettled(g))
    BY <1>6 DEF Downgrade, plaidVars, vars, rows, Working
  <2> QED BY <2>1, TierWritten
<1>7. ASSUME NEW p \in Actors, Stop(p) PROVE ItemsInv'
  <2>1. faults \in Nat /\ faults' = faults + 1
    BY <1>7, PlaidLifecycleAssumption DEF Stop, Abandon, IndInv, TypeOK
  <2> QED BY <2>1 DEF ItemsInv, Unhampered
<1>8. CASE DayPasses
  BY <1>8, ItemsQuiet DEF DayPasses, Tick, loops
<1>9. CASE UNCHANGED billingVars
  BY <1>9, ItemsQuiet DEF billingVars, profile, plaidVars, vars, rows, loops
<1> QED BY <1>1, <1>2, <1>3, <1>4, <1>5, <1>6, <1>7, <1>8, <1>9, LoopItems
        DEF BillingNext, HandlerStep, GraceStep, Replay, Throw, SweepThrows

-----------------------------------------------------------------------------
(***************************************************************************)
(* The grace period.                                                       *)
(***************************************************************************)

\* The reading of a handler that is about to write is that of the clock as it runs.
LEMMA GraceWritten ==
  ASSUME Typed, GraceInv, NEW h \in Handlers, stage[h] = "loaded", ~overtaken,
         status' = "past_due", grace' = GraceOf(read[h])
  PROVE  /\ grace # NoGrace => grace' = grace
         /\ grace = NoGrace => grace' = GraceDays
<1>1. read[h] \in Profiles /\ (read[h].grace # NoGrace => read[h].status = "past_due")
  BY DEF Typed, StagesTyped, GraceInv
<1>2. IF read[h].grace = NoGrace THEN grace \in {NoGrace, GraceDays} ELSE grace = read[h].grace
  BY DEF GraceInv
<1>3. GraceOf(read[h]) = IF read[h].grace # NoGrace THEN read[h].grace ELSE GraceDays
  BY <1>1 DEF GraceOf
<1> QED BY <1>2, <1>3

\* A handler that writes the profile.
LEMMA GraceApplied ==
  ASSUME Typed, GraceInv, NEW h \in Handlers,
         ApplyChanged(h) \/ ApplyFailed(h) \/ ApplyPaid(h)
  PROVE  /\ GraceInv'
         /\ status' = "past_due" /\ grace # NoGrace /\ ~overtaken'
              => grace' = grace \/ grace' = NoGrace
<1>1. read' = read /\ \A k \in Handlers : stage'[k] = "loaded" => k # h /\ stage[k] = "loaded"
  <2>1. \E s \in {"done", "suspend", "restore"} : GoTo(h, s)
    <3>1. CASE ApplyChanged(h)
      <4>1. tier' \in {"paid", "free"}
        BY <3>1 DEF ApplyChanged, TierOf
      <4> QED BY <3>1, <4>1, Zenon DEF ApplyChanged, AfterTier
    <3> QED BY <3>1, Zenon DEF ApplyFailed, ApplyPaid
  <2>2. read' = read
    BY DEF ApplyChanged, ApplyFailed, ApplyPaid
  <2> QED BY <2>1, <2>2 DEF GoTo, Typed, StagesTyped, Actors
<1>2. overtaken' =
        (overtaken \/ (grace' = NoGrace /\ \E k \in Handlers \ {h} : stage[k] = "loaded"))
  BY DEF ApplyChanged, ApplyFailed, ApplyPaid, Apply
<1>3. ASSUME grace' = NoGrace
      PROVE  GraceInv'
  BY <1>1, <1>2, <1>3 DEF GraceInv
<1>4. ASSUME stage[h] = "loaded", status' = "past_due", grace' = GraceOf(read[h])
      PROVE  /\ GraceInv'
             /\ grace # NoGrace /\ ~overtaken' => grace' = grace \/ grace' = NoGrace
  <2>1. \A k \in Handlers : read'[k].grace # NoGrace => read'[k].status = "past_due"
    BY <1>1 DEF GraceInv
  <2>2. CASE overtaken'
    BY <1>4, <2>1, <2>2 DEF GraceInv
  <2>3. CASE ~overtaken'
    <3>1. ~overtaken
      BY <1>2, <2>3
    <3>2. (grace # NoGrace => grace' = grace) /\ (grace = NoGrace => grace' = GraceDays)
      BY <1>4, <3>1, GraceWritten
    <3>3. ASSUME NEW k \in Handlers, stage'[k] = "loaded"
          PROVE  IF read[k].grace = NoGrace THEN grace' \in {NoGrace, GraceDays}
                 ELSE grace' = read[k].grace
      <4>1. IF read[k].grace = NoGrace THEN grace \in {NoGrace, GraceDays}
            ELSE grace = read[k].grace
        BY <1>1, <3>1, <3>3 DEF GraceInv
      <4> QED BY <3>2, <4>1
    <3> QED BY <1>1, <1>4, <2>1, <3>2, <3>3 DEF GraceInv
  <2> QED BY <2>2, <2>3
<1>5. CASE ApplyChanged(h)
  <2>1. stage[h] = "loaded"
        /\ grace' = IF status' = "past_due" THEN GraceOf(read[h]) ELSE NoGrace
    BY <1>5 DEF ApplyChanged
  <2> QED BY <1>3, <1>4, <2>1
<1>6. CASE ApplyFailed(h)
  BY <1>4, <1>6 DEF ApplyFailed
<1>7. CASE ApplyPaid(h)
  BY <1>3, <1>7 DEF ApplyPaid
<1> QED BY <1>5, <1>6, <1>7

\* A step that writes no clock, or one by which a day passes.
LEMMA GraceQuiet ==
  ASSUME Typed, GraceInv, UNCHANGED <<status, read, overtaken>>,
         \/ grace' = grace /\ \A h \in Handlers : stage'[h] = "loaded" => stage[h] = "loaded"
         \/ AtRest /\ stage' = stage /\ (grace = NoGrace => grace' = NoGrace)
  PROVE  GraceInv'
  BY DEF GraceInv, AtRest, Actors

\* Every step keeps what is known of the clock, and no step prolongs it.
LEMMA GraceStepInv ==
  ASSUME Typed, GraceInv, [BillingNext]_billingVars
  PROVE  /\ GraceInv'
         /\ status = "past_due" /\ status' = "past_due" /\ grace # NoGrace /\ ~overtaken'
              => grace' \in 0 .. grace \union {NoGrace}
<1> DEFINE Goal ==
             /\ GraceInv'
             /\ status = "past_due" /\ status' = "past_due" /\ grace # NoGrace /\ ~overtaken'
                  => grace' \in 0 .. grace \union {NoGrace}
<1>1. grace \in Nat /\ grace \in 0 .. grace
  BY DEF Typed, ProfileTyped
<1>2. ASSUME UNCHANGED <<status, grace, read, overtaken>>,
             \A h \in Handlers : stage'[h] = "loaded" => stage[h] = "loaded"
      PROVE  Goal
  BY <1>1, <1>2, GraceQuiet
<1>3. ASSUME NEW h \in Handlers, ApplyChanged(h) \/ ApplyFailed(h) \/ ApplyPaid(h)
      PROVE  Goal
  BY <1>1, <1>3, GraceApplied
<1>4. ASSUME NEW h \in Handlers, LoadProfile(h)
      PROVE  Goal
  <2>1. /\ read' = [read EXCEPT ![h] = [status |-> status, tier |-> tier, grace |-> grace]]
        /\ GoTo(h, "loaded") /\ UNCHANGED <<status, grace, overtaken>>
    BY <1>4 DEF LoadProfile, profile, order
  <2>2. \A k \in Handlers \ {h} :
          read'[k] = read[k] /\ (stage'[k] = "loaded" => stage[k] = "loaded")
    BY <2>1 DEF GoTo, Typed, StagesTyped, Actors
  <2>3. read'[h].grace = grace /\ read'[h].status = status
    BY <2>1 DEF Typed, StagesTyped
  <2> QED BY <1>1, <2>1, <2>2, <2>3 DEF GraceInv
<1>5. ASSUME NEW h \in Handlers, Acknowledge(h) \/ Throw(h)
      PROVE  Goal
  <2>1. /\ read' = [read EXCEPT ![h] = Unread] /\ GoTo(h, "idle")
        /\ UNCHANGED <<status, grace, overtaken>>
    BY <1>5 DEF Acknowledge, Throw, Stop, Forget, profile, order
  <2>2. \A k \in Handlers \ {h} :
          read'[k] = read[k] /\ (stage'[k] = "loaded" => stage[k] = "loaded")
    BY <2>1 DEF GoTo, Typed, StagesTyped, Actors
  <2>3. read'[h].grace = NoGrace /\ stage'[h] # "loaded"
    BY <2>1 DEF Typed, StagesTyped, Unread, GoTo, Actors
  <2> QED BY <1>1, <2>1, <2>2, <2>3 DEF GraceInv
<1>6. ASSUME NEW g \in GraceSweeps, List(g) \/ Downgrade(g) \/ SweepThrows(g)
      PROVE  Goal
  <2>1. UNCHANGED <<status, grace, read, overtaken>>
        /\ \E s \in {"listed", "suspend", "idle"} : GoTo(g, s)
    BY <1>6, Zenon DEF List, Downgrade, SweepThrows, Stop, untouched, profile, order
  <2> QED BY <1>2, <2>1 DEF GoTo, Typed, StagesTyped, Actors
<1>7. ASSUME NEW p \in Actors, StartLoop(p) \/ LoopStep(p) \/ EndLoop(p)
      PROVE  Goal
  <2>1. UNCHANGED <<status, grace, read, overtaken>>
        /\ (stage' = stage \/ \E s \in {"looping", "done", "idle"} : GoTo(p, s))
    BY <1>7, Zenon DEF StartLoop, LoopStep, EndLoop, untouched, profile, order
  <2> QED BY <1>2, <2>1 DEF GoTo, Typed, StagesTyped, Actors
<1>8. ASSUME NEW h \in Handlers, NEW e, Receive(h, e) PROVE Goal
  <2>1. UNCHANGED <<status, grace, read, overtaken>> /\ GoTo(h, "received")
    BY <1>8 DEF Receive, profile, order
  <2> QED BY <1>2, <2>1 DEF GoTo, Typed, StagesTyped, Actors
<1>9. CASE DayPasses
  <2>1. AtRest /\ UNCHANGED <<status, stage, read, overtaken>>
        /\ grace' = IF grace \in {0, NoGrace} THEN grace ELSE grace - 1
    BY <1>9 DEF DayPasses, order
  <2>2. grace' \in 0 .. grace \/ grace = NoGrace
    BY <1>1, <2>1
  <2> QED BY <2>1, <2>2, GraceQuiet
<1>10. ASSUME NEW s, SubscriptionChanges(s) PROVE Goal
  BY <1>2, <1>10 DEF SubscriptionChanges, profile, order
<1>11. CASE UNCHANGED billingVars
  BY <1>2, <1>11 DEF billingVars, profile, order
<1> QED BY <1>3, <1>4, <1>5, <1>6, <1>7, <1>8, <1>9, <1>10, <1>11
        DEF BillingNext, HandlerStep, GraceStep, Replay, Actors

-----------------------------------------------------------------------------
(***************************************************************************)
(* The profile follows Stripe.                                             *)
(***************************************************************************)

\* A status the profile says.
Says(s) ==
  /\ status = s
  /\ s = "active" => grace = NoGrace /\ (tier = "paid" \/ late)
  /\ s = "canceled" => tier = "free"

\* What is known of the events that are applied stays known where none is.
LEMMA ProfileQuiet ==
  ASSUME Typed, ProfileInv, UNCHANGED <<subscription, events, applied, disorder>>,
         \A e \in DOMAIN events : outcome'[e] = "processed" =>
           outcome[e] = "processed" \/ e <= applied,
         \A h \in Handlers : Working(h)' \/ stage'[h] = "done" =>
           event'[h] = event[h] /\ (Working(h) \/ stage[h] = "done"),
         \A s \in Statuses : Says(s) => Says(s)'
  PROVE  ProfileInv'
<1>1. LastOf(Len(events))' = LastOf(Len(events)) /\ LastOf(applied)' = LastOf(applied)
  BY DEF LastOf
<1>2. \A s \in Statuses : ~disorder /\ LastOf(applied) = Changed(s) => Says(s)
  BY DEF ProfileInv, Says
<1>3. \A s \in Statuses : ~disorder' /\ LastOf(applied)' = Changed(s) => Says(s)'
  BY <1>1, <1>2
<1>4. \A h \in Handlers : Working(h)' \/ stage'[h] = "done" => event'[h] <= applied'
  BY DEF ProfileInv
<1>5. \A e \in DOMAIN events' : outcome'[e] = "processed" => e <= applied'
  BY DEF ProfileInv
<1>6. LastOf(Len(events))' = Changed(subscription)' /\ applied' \in 0 .. Len(events')
  BY <1>1 DEF ProfileInv, Changed
<1> QED BY <1>3, <1>4, <1>5, <1>6 DEF ProfileInv, Says

\* An event is applied: the profile says what it says, or it is not of the subscription.
LEMMA ProfileApplied ==
  ASSUME Typed, ProfileInv, NEW h \in Handlers,
         ApplyChanged(h) \/ ApplyFailed(h) \/ ApplyPaid(h)
  PROVE  ProfileInv'
<1> DEFINE n == event[h]
<1>1. UNCHANGED <<subscription, events, outcome, event>> /\ Apply(h) /\ stage[h] # "idle"
  BY DEF ApplyChanged, ApplyFailed, ApplyPaid
<1>2. n \in 1 .. Len(events) /\ events \in Seq(EventKinds) /\ Len(events) \in Nat
      /\ n # 0 /\ n \in Nat /\ events[n] \in EventKinds /\ DOMAIN events = 1 .. Len(events)
  BY <1>1 DEF Typed, StagesTyped, EventsTyped
<1>3. /\ applied \in 0 .. Len(events) /\ applied \in Nat
      /\ \A e \in DOMAIN events : outcome[e] = "processed" => e <= applied
  BY <1>2 DEF ProfileInv
<1>4. /\ applied' = (IF n > applied THEN n ELSE applied)
      /\ disorder' = (disorder \/ n < applied)
  BY <1>1 DEF Apply
<1> HIDE DEF n
<1>5. applied' \in 0 .. Len(events) /\ applied <= applied' /\ n <= applied'
  BY <1>2, <1>3, <1>4
<1>6. \A k \in Handlers : Working(k)' \/ stage'[k] = "done" => event[k] <= applied'
  <2>1. \E s : GoTo(h, s)
    BY Zenon DEF ApplyChanged, ApplyFailed, ApplyPaid, AfterTier
  <2>2. \A k \in Handlers \ {h} : stage'[k] = stage[k]
    BY <2>1 DEF GoTo, Typed, StagesTyped, Actors
  <2>3. \A k \in Handlers \ {h} : Working(k)' \/ stage'[k] = "done" => event[k] <= applied
    BY <2>2 DEF ProfileInv, Working
  <2>4. \A k \in Handlers : event[k] \in Nat
    BY DEF Typed, StagesTyped
  <2> QED BY <1>3, <1>5, <2>3, <2>4 DEF n
<1>7. ASSUME NEW s \in Statuses, ~disorder', LastOf(applied)' = Changed(s) PROVE Says(s)'
  <2>1. ~(n < applied)
    BY <1>4, <1>7, Zenon
  <2>a. applied' = n
    BY <1>2, <1>3, <1>4, <2>1
  <2>2. events[n] = Changed(s)
    BY <1>1, <1>2, <1>7, <2>a DEF LastOf
  <2>3. events[n].type = "customer.subscription" /\ events[n].status = s
    BY <2>2 DEF Changed
  <2>4. ApplyChanged(h)
    BY <2>3 DEF ApplyFailed, ApplyPaid, n
  <2>5. status' = s /\ grace' = (IF status' = "past_due" THEN GraceOf(read[h]) ELSE NoGrace)
        /\ tier' = TierOf(status', grace')
    BY <2>3, <2>4 DEF ApplyChanged, n
  <2> QED BY <2>5 DEF Says, TierOf
<1>8. LastOf(Len(events))' = Changed(subscription)'
  BY <1>1 DEF ProfileInv, LastOf, Changed
<1> QED BY <1>1, <1>3, <1>5, <1>6, <1>7, <1>8 DEF ProfileInv, Says

\* Every step.
LEMMA ProfileStep ==
  ASSUME Typed, ProfileInv, [BillingNext]_billingVars
  PROVE  ProfileInv'
<1> USE DEF Actors
<1>1. ASSUME NEW s \in Statuses, SubscriptionChanges(s) PROVE ProfileInv'
  <2>1. UNCHANGED <<outcome, status, tier, grace, stage, event, applied, disorder, late>>
        /\ subscription' = s
    BY <1>1 DEF SubscriptionChanges, profile, order
  <2>2. applied \in 0 .. Len(events) /\ applied \in 0 .. Len(events')
    BY <1>1, Told DEF ProfileInv
  <2>3. LastOf(applied)' = LastOf(applied)
    BY <1>1, <2>1, <2>2, Told DEF LastOf
  <2>4. LastOf(Len(events))' = Changed(subscription)'
    BY <1>1, <2>1, Told DEF LastOf
  <2>5. \A e \in DOMAIN events' : outcome[e] = "processed" => e <= applied
    <3>1. \A e \in DOMAIN events' : e \in 1 .. 2 * MaxChanges
      BY <1>1, Told, BillingAssumption
    <3>2. \A e \in DOMAIN outcome : outcome[e] = "processed" => e \in DOMAIN events
      BY DEF Typed, EventsTyped
    <3>3. DOMAIN outcome = 1 .. 2 * MaxChanges
      BY DEF Typed, EventsTyped
    <3> QED BY <3>1, <3>2, <3>3 DEF ProfileInv
  <2> QED BY <2>1, <2>2, <2>3, <2>4, <2>5 DEF ProfileInv, Working
<1>2. ASSUME NEW h \in Handlers, NEW e \in DOMAIN events, Receive(h, e) PROVE ProfileInv'
  <2>1. /\ UNCHANGED <<subscription, events, applied, disorder, status, tier, grace, late>>
        /\ outcome' = [outcome EXCEPT ![e] = "received"] /\ GoTo(h, "received")
        /\ event' = [event EXCEPT ![h] = e]
    BY <1>2 DEF Receive, profile, order
  <2>2. \A f \in DOMAIN events : outcome'[f] = "processed" => outcome[f] = "processed"
    BY <2>1 DEF Typed, EventsTyped
  <2>3. \A k \in Handlers : Working(k)' \/ stage'[k] = "done" =>
          event'[k] = event[k] /\ (Working(k) \/ stage[k] = "done")
    BY <2>1 DEF GoTo, Working, Typed, StagesTyped
  <2> QED BY <2>1, <2>2, <2>3, ProfileQuiet DEF Says
<1>3. ASSUME NEW h \in Handlers, LoadProfile(h) PROVE ProfileInv'
  <2>1. /\ UNCHANGED <<subscription, events, applied, disorder, status, tier, grace, late,
                       outcome, event>>
        /\ GoTo(h, "loaded")
    BY <1>3 DEF LoadProfile, profile, order
  <2>2. \A k \in Handlers : Working(k)' \/ stage'[k] = "done" =>
          event'[k] = event[k] /\ (Working(k) \/ stage[k] = "done")
    BY <2>1 DEF GoTo, Working, Typed, StagesTyped
  <2> QED BY <2>1, <2>2, ProfileQuiet DEF Says
<1>4. ASSUME NEW h \in Handlers, Acknowledge(h) \/ Throw(h) PROVE ProfileInv'
  <2>1. /\ UNCHANGED <<subscription, events, applied, disorder, status, tier, grace, late>>
        /\ GoTo(h, "idle") /\ event' = [event EXCEPT ![h] = 0]
    BY <1>4 DEF Acknowledge, Throw, Stop, Forget, profile, order
  <2>2. \A k \in Handlers : Working(k)' \/ stage'[k] = "done" =>
          event'[k] = event[k] /\ (Working(k) \/ stage[k] = "done")
    BY <2>1 DEF GoTo, Working, Typed, StagesTyped
  <2>3. \/ outcome' = outcome \/ outcome' = [outcome EXCEPT ![event[h]] = "error"]
        \/ stage[h] = "done" /\ outcome' = [outcome EXCEPT ![event[h]] = "processed"]
    BY <1>4 DEF Acknowledge, Throw
  <2>4. stage[h] = "done" => event[h] <= applied
    BY DEF ProfileInv
  <2>5. \A f \in DOMAIN events :
          outcome'[f] = "processed" => outcome[f] = "processed" \/ f <= applied
    <3>1. DOMAIN outcome = 1 .. 2 * MaxChanges
      BY DEF Typed, EventsTyped
    <3>2. ASSUME NEW f \in DOMAIN events, outcome'[f] = "processed"
          PROVE  outcome[f] = "processed" \/ (f = event[h] /\ stage[h] = "done")
      <4>1. f \in DOMAIN outcome
        BY <3>1, <3>2, BillingAssumption DEF Typed, EventsTyped
      <4>2. CASE outcome' = outcome
        BY <3>2, <4>2
      <4>3. CASE outcome' = [outcome EXCEPT ![event[h]] = "error"]
        BY <3>2, <4>1, <4>3
      <4>4. CASE stage[h] = "done" /\ outcome' = [outcome EXCEPT ![event[h]] = "processed"]
        BY <3>2, <4>1, <4>4
      <4> QED BY <2>3, <4>2, <4>3, <4>4
    <3> QED BY <2>4, <3>2
  <2> QED BY <2>1, <2>2, <2>5, ProfileQuiet DEF Says
<1>5. ASSUME NEW g \in GraceSweeps, List(g) \/ Downgrade(g) \/ SweepThrows(g)
      PROVE  ProfileInv'
  <2>1. UNCHANGED <<subscription, events, applied, disorder, status, grace, outcome, event>>
    BY <1>5 DEF List, Downgrade, SweepThrows, untouched, profile, order
  <2>2. \/ tier' = tier /\ late' = late
        \/ tier' = "free" /\ late' = (late \/ status = "active")
    BY <1>5 DEF List, Downgrade, SweepThrows, untouched, profile
  <2>3. \E s : GoTo(g, s)
    BY <1>5, Zenon DEF List, Downgrade, SweepThrows, Stop
  <2>4. \A k \in Handlers : stage'[k] = stage[k]
    BY <2>3, BillingAssumption DEF GoTo, Typed, StagesTyped
  <2>5. \A s \in Statuses : Says(s) => Says(s)'
    BY <2>1, <2>2 DEF Says
  <2> QED BY <2>1, <2>4, <2>5, ProfileQuiet DEF Working
<1>6. ASSUME NEW p \in Actors, StartLoop(p) \/ LoopStep(p) \/ EndLoop(p) PROVE ProfileInv'
  <2>1. UNCHANGED <<subscription, events, applied, disorder, status, tier, grace, late,
                    outcome, event>>
    BY <1>6 DEF StartLoop, LoopStep, EndLoop, untouched, profile, order
  <2>2. task[p] # "none" \/ stage[p] \in {"suspend", "restore"}
    BY <1>6
    DEF StartLoop, LoopStep, EndLoop, Suspend, Restore, CatchUp, TakeUp, Finish
  <2>3. Working(p)
    BY <2>2 DEF Typed, StagesTyped, Working
  <2>4. stage' = stage \/ \E s : GoTo(p, s)
    BY <1>6, Zenon DEF StartLoop, LoopStep, EndLoop
  <2>5. \A k \in Handlers \ {p} : stage'[k] = stage[k]
    BY <2>4 DEF GoTo, Typed, StagesTyped
  <2>6. \A k \in Handlers : Working(k)' \/ stage'[k] = "done" =>
          event'[k] = event[k] /\ (Working(k) \/ stage[k] = "done")
    BY <2>1, <2>3, <2>5 DEF Working
  <2> QED BY <2>1, <2>6, ProfileQuiet DEF Says
<1>7. CASE DayPasses
  <2>1. UNCHANGED <<subscription, events, applied, disorder, status, tier, late, outcome,
                    event, stage>> /\ (grace = NoGrace => grace' = NoGrace)
    BY <1>7 DEF DayPasses, order
  <2> QED BY <2>1, ProfileQuiet DEF Says, Working
<1>8. CASE UNCHANGED billingVars
  BY <1>8, ProfileQuiet DEF billingVars, profile, order, Says, Working
<1> QED BY <1>1, <1>2, <1>3, <1>4, <1>5, <1>6, <1>7, <1>8, ProfileApplied
        DEF BillingNext, HandlerStep, GraceStep, Replay, Statuses

-----------------------------------------------------------------------------
\* All of it, at the start and throughout.
BillingInv == IndInv /\ Typed /\ ItemsInv /\ GraceInv /\ ProfileInv

\* It holds at the start.
LEMMA InitBillingInv == BillingInit => BillingInv
<1> SUFFICES ASSUME BillingInit PROVE BillingInv
  OBVIOUS
<1>1. IndInv /\ Typed
  BY InitIndInv, InitTyped DEF BillingInit
<1>2. ItemsInv
  BY BillingAssumption DEF BillingInit, Init, ItemsInv, Working, Actors
<1>3. GraceInv
  BY DEF BillingInit, GraceInv, Unread, Actors
<1>4. ProfileInv
  <2>1. Len(events) = 0 /\ DOMAIN events = {} /\ applied = 0 /\ subscription = "active"
        /\ status = "active" /\ tier = "paid" /\ grace = NoGrace
        /\ \A h \in Handlers : stage[h] = "idle"
    BY DEF BillingInit, Actors
  <2>2. \A s \in Statuses : Changed("active") = Changed(s) => s = "active"
    BY DEF Changed
  <2> QED BY <2>1, <2>2 DEF ProfileInv, LastOf, Working
<1> QED BY <1>1, <1>2, <1>3, <1>4 DEF BillingInv

\* Every step keeps it.
LEMMA NextBillingInv == BillingInv /\ [BillingNext]_billingVars => BillingInv'
  BY BillingIndInv, TypedStep, ItemsStep, GraceStepInv, ProfileStep DEF BillingInv

\* It holds throughout.
LEMMA BillingInductive == BillingSpec => []BillingInv
  BY InitBillingInv, NextBillingInv, PTL DEF BillingSpec

\* The columns of the profile and of stripe_events, and the places of the handlers
\* and sweeps, stay of their types.
THEOREM BillingTypeCorrect == BillingSpec => []BillingTypeOK
<1>1. BillingInv => BillingTypeOK
  BY DEF BillingInv, Typed, EventsTyped, ProfileTyped, StagesTyped, BillingTypeOK, IndInv,
         Statuses
<1> QED BY <1>1, BillingInductive, PTL

\* While nobody is at work, a free user's items are all suspended and a paying
\* user's are all in use, whatever events were delivered, how often and in which
\* order, unless something failed or two writings of the tier crossed.
THEOREM ItemsAreThoseOfTheTier == BillingSpec => []ItemsFollowTier
<1>1. BillingInv => ItemsFollowTier
  BY DEF BillingInv, ItemsInv, ItemsFollowTier, AtRest, Working
<1> QED BY <1>1, BillingInductive, PTL

\* Once every event is processed, none after a later one, the profile has the
\* status that Stripe has, and the clock and the tier that go with it.
THEOREM ProfileIsThatOfStripe == BillingSpec => []ProfileFollowsStripe
<1> SUFFICES BillingInv => ProfileFollowsStripe
  BY BillingInductive, PTL
<1> SUFFICES ASSUME BillingInv, ~disorder, \A e \in DOMAIN events : outcome[e] = "processed"
             PROVE  Says(subscription)
  BY DEF ProfileFollowsStripe, Says
<1>1. subscription \in Statuses /\ Len(events) \in Nat /\ DOMAIN events = 1 .. Len(events)
  BY DEF BillingInv, Typed, EventsTyped
<1>2. applied \in 0 .. Len(events) /\ \A e \in DOMAIN events : e <= applied
  BY DEF BillingInv, ProfileInv
<1>3. applied = Len(events)
  <2>1. Len(events) = 0 \/ Len(events) \in DOMAIN events
    BY <1>1
  <2>2. Len(events) = 0 \/ Len(events) <= applied
    BY <1>2, <2>1
  <2>3. applied \in Nat /\ applied <= Len(events)
    BY <1>1, <1>2
  <2>4. \A m, n \in Nat : n <= m /\ (m = 0 \/ m <= n) => n = m
    OBVIOUS
  <2>5. Len(events) \in Nat
    BY <1>1
  <2> QED BY <2>2, <2>3, <2>4, <2>5, Zenon
<1>4. LastOf(applied) = Changed(subscription)
  BY <1>3 DEF BillingInv, ProfileInv
<1> QED BY <1>1, <1>4 DEF BillingInv, ProfileInv, Says

\* No event prolongs a clock that runs, with any number of handlers at work,
\* unless one of them went on with a clock that another had cleared.
THEOREM GraceIsKept == BillingSpec => GraceNeverExtended
<1> DEFINE Kept == /\ status = "past_due" /\ status' = "past_due"
                   /\ grace # NoGrace /\ ~overtaken'
                   => grace' \in 0 .. grace \union {NoGrace}
<1>1. BillingInv /\ [BillingNext]_billingVars => [Kept]_billingVars
  BY GraceStepInv DEF BillingInv
<1> QED BY <1>1, BillingInductive, PTL DEF BillingSpec, GraceNeverExtended
=============================================================================
