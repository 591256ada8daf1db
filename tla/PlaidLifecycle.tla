--------------------------- MODULE PlaidLifecycle ---------------------------
(***************************************************************************)
(* The lifecycle of a user's Plaid items (backend/lib/plaidLifecycle.js):  *)
(* suspended when the user is downgraded, restored when the user pays      *)
(* again, revoked when the retention of their tokens has run out.          *)
(*                                                                         *)
(* Each of the three functions reads a list of rows of plaid_tokens and    *)
(* then goes through it, one query per row, while others do the same.      *)
(*                                                                         *)
(* Time is counted in days.  A loop takes seconds, so that the deadline it *)
(* computes when it starts is as good as one computed at each row.  The    *)
(* status shown to the user (plaid_item_status.status) is left out:        *)
(* nothing here depends on it.                                             *)
(***************************************************************************)
EXTENDS Naturals

CONSTANTS
  Items,          \* the items the user has linked
  Tasks,          \* requests and sweeps that suspend or restore the user
  Sweeps,         \* runs of the retention sweep, one per backend process
  RetentionDays,  \* PLAID_TOKEN_RETENTION_DAYS
  MaxFaults,      \* how many errors and crashes happen (bound)
  NoItem          \* no item

ASSUME PlaidLifecycleAssumption ==
  /\ NoItem \notin Items
  /\ Tasks \intersect Sweeps = {}
  /\ RetentionDays \in Nat \ {0}
  /\ MaxFaults \in Nat

VARIABLES
  token,      \* the items with a row in plaid_tokens
  suspended,  \* those whose suspended_at is set
  retention,  \* retention[i]: days left until retention_expires_at, or Never
  live,       \* the items that Plaid has, and bills
  behind,     \* the items that were suspended and not synced since
  task,       \* task[p]: where p is in its loop
  todo,       \* todo[p]: the rows of the list p read, still to be gone through
  hand,       \* hand[p]: the row p is at
  faults,     \* errors and crashes so far
  held,       \* held[i]: how long i has been suspended, up to RetentionDays
  raced       \* the items restored after a retention sweep had listed them

rows == <<token, suspended, retention>>
loops == <<task, todo, hand>>
history == <<held, raced>>
vars == <<rows, live, behind, loops, faults, history>>

Processes == Tasks \union Sweeps

\* retention_expires_at is null.
Never == RetentionDays + 1

Init ==
  /\ token = Items
  /\ suspended = {}
  /\ retention = [i \in Items |-> Never]
  /\ live = Items
  /\ behind = {}
  /\ task = [p \in Processes |-> "none"]
  /\ todo = [p \in Processes |-> {}]
  /\ hand = [p \in Processes |-> NoItem]
  /\ faults = 0
  /\ held = [i \in Items |-> 0]
  /\ raced = {}

-----------------------------------------------------------------------------
(***************************************************************************)
(* Loops.                                                                  *)
(***************************************************************************)

Start(p, kind, list) ==
  /\ task[p] = "none"
  /\ task' = [task EXCEPT ![p] = kind]
  /\ todo' = [todo EXCEPT ![p] = list]
  /\ UNCHANGED <<rows, live, behind, hand, faults, history>>

\* Row i is taken from the list.
TakeUp(p, i, kind) ==
  /\ task[p] = kind
  /\ i \in todo[p]
  /\ todo' = [todo EXCEPT ![p] = @ \ {i}]

\* p is done with the row in its hand and goes on with its list.
GoOn(p, kind) ==
  /\ task' = [task EXCEPT ![p] = kind]
  /\ hand' = [hand EXCEPT ![p] = NoItem]
  /\ UNCHANGED todo

Leave(p) ==
  /\ task' = [task EXCEPT ![p] = "none"]
  /\ todo' = [todo EXCEPT ![p] = {}]
  /\ hand' = [hand EXCEPT ![p] = NoItem]
  /\ UNCHANGED <<rows, live, behind, history>>

Finish(p) ==
  /\ task[p] \in {"suspend", "restore", "revoke"}
  /\ todo[p] = {}
  /\ UNCHANGED faults
  /\ Leave(p)

\* The process stops, or a query of its loop throws: the rest of the list is
\* not gone through.
Abandon(p) ==
  /\ faults < MaxFaults
  /\ task[p] # "none"
  /\ faults' = faults + 1
  /\ Leave(p)

-----------------------------------------------------------------------------
(***************************************************************************)
(* Suspending.                                                             *)
(***************************************************************************)

\* WRONG variant: the retention of rows suspended before starts again.
StartSuspendAll(p) == Start(p, "suspend", token)

\* The rows that are not suspended yet.
StartSuspend(p) == Start(p, "suspend", token \ suspended)

\* The update finds the row unless it is gone; it does not check that the row
\* is still not suspended.
Suspend(p, i) ==
  /\ TakeUp(p, i, "suspend")
  /\ suspended' = suspended \union ({i} \intersect token)
  /\ retention' = [retention EXCEPT ![i] = IF i \in token THEN RetentionDays ELSE @]
  /\ behind' = behind \union ({i} \intersect token)
  /\ held' = [held EXCEPT ![i] = IF i \in suspended THEN @ ELSE 0]
  /\ UNCHANGED <<token, live, task, hand, faults, raced>>

-----------------------------------------------------------------------------
(***************************************************************************)
(* Restoring.                                                              *)
(***************************************************************************)

StartRestore(p) == Start(p, "restore", suspended)

Listed(i) == \E s \in Sweeps : i \in todo[s] \/ hand[s] = i

\* WRONG variant: the suspension is cleared and the retention is not.
RestoreKeepsRetention(p, i) ==
  /\ TakeUp(p, i, "restore")
  /\ suspended' = suspended \ {i}
  /\ task' = [task EXCEPT ![p] = "catchUp"]
  /\ hand' = [hand EXCEPT ![p] = i]
  /\ held' = [held EXCEPT ![i] = 0]
  /\ raced' = IF Listed(i) THEN raced \union {i} ELSE raced
  /\ UNCHANGED <<token, retention, live, behind, faults>>

\* The suspension and the retention of a row are cleared.
Restore(p, i) ==
  /\ TakeUp(p, i, "restore")
  /\ suspended' = suspended \ {i}
  /\ retention' = [retention EXCEPT ![i] = Never]
  /\ task' = [task EXCEPT ![p] = "catchUp"]
  /\ hand' = [hand EXCEPT ![p] = i]
  /\ held' = [held EXCEPT ![i] = 0]
  /\ raced' = IF Listed(i) THEN raced \union {i} ELSE raced
  /\ UNCHANGED <<token, live, behind, faults>>

\* Nothing is enqueued for a user with any suspended row.
SyncAllowed == suspended = {}

\* A sync of the restored item is enqueued; an error of enqueueing is logged.
CatchUp(p) ==
  /\ task[p] = "catchUp"
  /\ behind' = IF SyncAllowed THEN behind \ {hand[p]} ELSE behind
  /\ GoOn(p, "restore")
  /\ UNCHANGED <<rows, live, faults, history>>

\* The daily schedule enqueues a sync of each item that is not suspended.
ScheduledSync ==
  /\ SyncAllowed
  /\ behind \intersect token # {}
  /\ behind' = behind \ token
  /\ UNCHANGED <<rows, live, loops, faults, history>>

-----------------------------------------------------------------------------
(***************************************************************************)
(* Revoking.                                                               *)
(***************************************************************************)

\* WRONG variant: the last day of the retention counts as past it.
ExpiredDayEarly == {i \in token : retention[i] <= 1}

Expired == {i \in token : retention[i] = 0}

StartRevoke(p) == Start(p, "revoke", Expired)

\* The item is removed at Plaid, with its token if there is one still.  That
\* the item is gone already is no error.
RemoveAtPlaid(p, i) ==
  /\ TakeUp(p, i, "revoke")
  /\ task' = [task EXCEPT ![p] = "delete"]
  /\ hand' = [hand EXCEPT ![p] = i]
  /\ live' = IF i \in token THEN live \ {i} ELSE live
  /\ UNCHANGED <<rows, behind, faults, history>>

\* The token cannot be read, for good or because the query failed this once:
\* the row is deleted all the same, and the item is not removed.
Unreadable(p, i) ==
  /\ faults < MaxFaults
  /\ TakeUp(p, i, "revoke")
  /\ task' = [task EXCEPT ![p] = "delete"]
  /\ hand' = [hand EXCEPT ![p] = i]
  /\ faults' = faults + 1
  /\ UNCHANGED <<rows, live, behind, history>>

\* The row is deleted, whatever became of it since it was listed.
DeleteToken(p) ==
  /\ task[p] = "delete"
  /\ token' = token \ {hand[p]}
  /\ suspended' = suspended \ {hand[p]}
  /\ retention' = [retention EXCEPT ![hand[p]] = Never]
  /\ GoOn(p, "revoke")
  /\ UNCHANGED <<live, behind, faults, history>>

\* Plaid fails for another reason, or the deletion throws: the row stays for
\* the next sweep and this one goes on with the next row.
SkipRow(p) ==
  /\ faults < MaxFaults
  /\ \/ \E i \in Items :
          TakeUp(p, i, "revoke") /\ UNCHANGED <<task, hand>>
     \/ task[p] = "delete" /\ GoOn(p, "revoke")
  /\ faults' = faults + 1
  /\ UNCHANGED <<rows, live, behind, history>>

-----------------------------------------------------------------------------
\* A day passes.
Tick ==
  /\ retention' = [i \in Items |-> IF retention[i] \in {0, Never} THEN retention[i]
                                   ELSE retention[i] - 1]
  /\ held' = [i \in Items |-> IF i \in suspended /\ held[i] < RetentionDays
                              THEN held[i] + 1 ELSE held[i]]
  /\ UNCHANGED <<token, suspended, live, behind, loops, faults, raced>>

\* The rest of the loops, however they were started.
TaskStep(p) ==
  \/ \E i \in Items : Suspend(p, i) \/ Restore(p, i)
  \/ CatchUp(p)
  \/ Finish(p)

SweepStep(p) ==
  \/ StartRevoke(p)
  \/ \E i \in Items : RemoveAtPlaid(p, i)
  \/ DeleteToken(p)
  \/ Finish(p)

Next ==
  \/ \E p \in Tasks :
       StartSuspend(p) \/ StartRestore(p) \/ TaskStep(p) \/ Abandon(p)
  \/ \E p \in Sweeps :
       \/ SweepStep(p)
       \/ SkipRow(p) \/ (\E i \in Items : Unreadable(p, i)) \/ Abandon(p)
  \/ ScheduledSync
  \/ Tick

\* Queries return or throw, the sweep and the daily sync are on timers of
\* server.js, and days pass between a user's downgrades and upgrades.
Fairness ==
  /\ \A p \in Tasks : WF_vars(TaskStep(p))
  /\ \A p \in Sweeps : WF_vars(SweepStep(p))
  /\ WF_vars(ScheduledSync)
  /\ WF_vars(Tick)

Spec == Init /\ [][Next]_vars
FairSpec == Spec /\ Fairness

-----------------------------------------------------------------------------
(***************************************************************************)
(* Properties.                                                             *)
(***************************************************************************)

TypeOK ==
  /\ token \subseteq Items
  /\ suspended \subseteq token
  /\ retention \in [Items -> 0 .. Never]
  /\ live \subseteq Items
  /\ behind \subseteq Items
  /\ task \in [Processes -> {"none", "suspend", "restore", "catchUp", "revoke", "delete"}]
  /\ todo \in [Processes -> SUBSET Items]
  /\ hand \in [Processes -> Items \union {NoItem}]
  /\ faults \in 0 .. MaxFaults
  /\ held \in [Items -> 0 .. RetentionDays]
  /\ raced \subseteq Items

\* An item is removed at Plaid only when it has been suspended for the whole
\* retention, or when it was restored under a sweep that had listed it.
RetentionKept ==
  [][\A i \in live \ live' : held[i] = RetentionDays \/ i \in raced]_vars

\* The item of a token in use exists at Plaid, but for that race and for a
\* sweep that failed between removing the item and deleting its token.
TokensInUseWork ==
  \A i \in token \ suspended : i \in live \/ i \in raced \/ faults > 0

\* The converse: an item that Plaid still has, and bills, has a token to remove
\* it with, however often it is suspended and restored under the sweep, unless
\* something failed.
RevokedIsGone == \A i \in live : i \in token \/ faults > 0

\* So the tokens in use and the items at Plaid go together.
TokensMatchItems == TokensInUseWork /\ RevokedIsGone

\* No item stays suspended for good: it is restored, or its token is deleted,
\* sweeps that failed half-way included.
SuspensionEnds ==
  \A i \in Items : i \in suspended ~> i \notin suspended

\* A restored item is synced again, unless it is suspended or removed first,
\* even if the restoring of another item failed and keeps the user suspended:
\* the retention of that one ends.
RestoredIsSynced ==
  \A i \in Items :
    i \in behind \ suspended ~> (i \notin behind \/ i \in suspended \/ i \notin token)

\* So no item is stuck, suspended or restored.
ItemsMoveOn == SuspensionEnds /\ RestoredIsSynced
=============================================================================
