----------------------------- MODULE PlanStore -----------------------------
(***************************************************************************)
(* The plan of a user on the server (backend/lib/planHandlers.js): one row *)
(* of the table plans, and a rolling history in plan_revisions.            *)
(*                                                                         *)
(* A plan document is its version, 0 for the empty plan.  A call of PUT    *)
(* /api/plan is a record of calls; its handler reads the row, later upserts *)
(* it without a condition, files a revision, and deletes the old ones it has *)
(* looked up, so that calls interleave.  The revision is filed and the old *)
(* ones are looked up with the upsert here: nothing else reads that table. *)
(* client_saved_at is a time stamp, different for every call;              *)
(* base_client_saved_at is 0 when the client sent none.  A revision is its *)
(* place among all that were filed, which is the order of created_at.      *)
(***************************************************************************)
EXTENDS Naturals, Sequences, FiniteSets

CONSTANTS
  Clients,   \* who calls
  NoClient,  \* a caller that is gone and will not see the answer
  Kinds,     \* what the caller wants the save for
  Keep,      \* PLAN_REVISION_KEEP
  MaxFaults  \* how many queries and calls fail (bound)

ASSUME PlanStoreAssumption ==
  /\ NoClient \notin Clients
  /\ Keep \in Nat \ {0}
  /\ MaxFaults \in Nat

VARIABLES
  row,        \* the row of plans: its version and its client_saved_at
  filed,      \* the revisions filed so far, the oldest first (history)
  revisions,  \* those of them in plan_revisions
  stale,      \* those a call found to be old, with its stamp
  calls,      \* the calls that are not answered yet
  faults      \* queries and calls that failed so far

store == <<row, filed, revisions, stale>>
storeVars == <<store, calls, faults>>

\* No row: client_saved_at is 0 there and nowhere else.
NoRow == [ver |-> 0, savedAt |-> 0]

Calls == [by : Clients \union {NoClient}, kind : Kinds, ver : Nat, base : Nat,
          stamp : Nat \ {0},
          at : {"sent", "checked", "pruning", "saved", "conflict", "failed"}]

StoreTypeOK ==
  /\ row = NoRow \/ row \in [ver : Nat, savedAt : Nat \ {0}]
  /\ filed \in Seq([ver : Nat, savedAt : Nat \ {0}])
  /\ revisions \subseteq DOMAIN filed
  /\ stale \subseteq (Nat \ {0}) \X DOMAIN filed
  /\ calls \subseteq Calls
  /\ faults \in 0 .. MaxFaults

StoreInit ==
  /\ row = NoRow
  /\ filed = << >>
  /\ revisions = {}
  /\ stale = {}
  /\ calls = {}
  /\ faults = 0

Advance(c, where) == (calls \ {c}) \union {[c EXCEPT !.at = where]}

Fault == faults < MaxFaults /\ faults' = faults + 1

-----------------------------------------------------------------------------
(* The handler of PUT /api/plan.                                           *)

\* The server has moved on from the state the edit was based on.
MovedOn(c) == row # NoRow /\ c.base # 0 /\ row.savedAt # c.base

CheckConflict(c) ==
  /\ c.at = "sent"
  /\ calls' = Advance(c, IF MovedOn(c) THEN "conflict" ELSE "checked")
  /\ UNCHANGED <<store, faults>>

Saved(c) == [ver |-> c.ver, savedAt |-> c.stamp]

\* WRONG variant: of the oldest first.
OldAscending(rs) == {n \in rs : Cardinality({m \in rs : m < n}) >= Keep}

\* The revisions other than the Keep newest of rs: what range(keep, keep + 100) of
\* the newest first selects.
Old(rs) == {n \in rs : Cardinality({m \in rs : m > n}) >= Keep}

\* The revision is filed and the old ones looked up; a look that fails is not
\* reported.
FileRevision(c) ==
  /\ filed' = Append(filed, Saved(c))
  /\ revisions' = revisions \union {Len(filed) + 1}
  /\ \/ /\ stale' = stale \union ({c.stamp} \X Old(revisions'))
        /\ calls' = Advance(c, IF Old(revisions') = {} THEN "saved" ELSE "pruning")
        /\ UNCHANGED faults
     \/ /\ UNCHANGED stale
        /\ calls' = Advance(c, "saved")
        /\ Fault

\* The row is upserted without a condition.  An insert of the revision that fails is
\* reported, and the row stays.
Upsert(c) ==
  /\ c.at = "checked"
  /\ row' = Saved(c)
  /\ \/ FileRevision(c)
     \/ /\ UNCHANGED <<filed, revisions, stale>>
        /\ calls' = Advance(c, "failed")
        /\ Fault

\* The old revisions are deleted; a deletion that fails is not reported.
Prune(c) ==
  /\ c.at = "pruning"
  /\ \/ /\ revisions' = {n \in revisions : <<c.stamp, n>> \notin stale}
        /\ UNCHANGED faults
     \/ UNCHANGED revisions /\ Fault
  /\ stale' = {p \in stale : p[1] # c.stamp}
  /\ calls' = Advance(c, "saved")
  /\ UNCHANGED <<row, filed>>

\* The call does not arrive, is refused (invalid, too large, beyond the tier),
\* a query of its fails, or its answer is lost: what was written stays.
Fail(c) ==
  /\ c.at # "failed"
  /\ Fault
  /\ calls' = Advance(c, "failed")
  /\ UNCHANGED store

Handle(c) == CheckConflict(c) \/ Upsert(c) \/ Prune(c)

Answered(c) == c.at \in {"saved", "conflict", "failed"}

-----------------------------------------------------------------------------
(* The store by itself, for any clients.                                   *)

Send(by, kind, ver, base, stamp) ==
  calls' = calls \union {[by |-> by, kind |-> kind, ver |-> ver, base |-> base,
                          stamp |-> stamp, at |-> "sent"]}

\* Clients send calls, give them up, and take the answers; a call of GET
\* /api/plan, which changes nothing, may fail too.
ClientStep ==
  /\ \/ \E by \in Clients, kind \in Kinds, ver, base \in Nat, stamp \in Nat \ {0} :
          Send(by, kind, ver, base, stamp) /\ UNCHANGED faults
     \/ \E c \in calls : Answered(c) /\ calls' = calls \ {c} /\ UNCHANGED faults
     \/ \E t \in Clients :
          /\ calls' = {IF c.by = t THEN [c EXCEPT !.by = NoClient] ELSE c : c \in calls}
          /\ UNCHANGED faults
     \/ Fault /\ UNCHANGED calls
  /\ UNCHANGED store

ServerStep == \E c \in calls : Handle(c) \/ Fail(c)

StoreSpec == StoreInit /\ [][ServerStep \/ ClientStep]_storeVars

-----------------------------------------------------------------------------
\* A revision is in the table, or Keep are that were filed after it.
Recoverable(n) == n \in revisions \/ Cardinality({m \in revisions : m > n}) >= Keep

\* A save that is answered as saved has filed its revision, and of all that were
\* filed the last Keep are in the table: whatever handlers interleave between
\* looking up old revisions and deleting them, and whichever queries fail, each
\* of the last Keep saves can be restored, also one that another device's save,
\* checked before it, has overwritten without a conflict (planHandlers.js:26-64).
SavedIsKept ==
  /\ \A c \in calls : c.at = "saved" => \E n \in DOMAIN filed : filed[n] = Saved(c)
  /\ \A n \in DOMAIN filed : Recoverable(n)
=============================================================================
