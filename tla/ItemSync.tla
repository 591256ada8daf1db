------------------------------ MODULE ItemSync ------------------------------
(***************************************************************************)
(* Importing the transactions of one Plaid item: the sync workflow         *)
(* (backend/lib/plaidWorkflows/transactionsSyncWorkflow.js), the per-item  *)
(* lock it takes (backend/models/plaidWebhook.js), and the two ways it     *)
(* writes what it fetched, the stored procedure of the baseline migration  *)
(* and the older sequence of queries.                                      *)
(*                                                                         *)
(* Plaid's side is a history: bank[n] maps each transaction to its level   *)
(* at position n, 0 before it is posted, then its versions, then Gone when *)
(* it is removed, for good.  A cursor is a position in that history.       *)
(*                                                                         *)
(* The row of plaid_item_status is hasRow, lockLeft (the time left until   *)
(* sync_locked_until) and coolLeft (until cooldown_until); the cursor is a *)
(* column of plaid_tokens; store is the table transactions.  The health    *)
(* columns of the row, the record of sync runs, the archive snapshot and   *)
(* the circuit breaker only matter here as steps that may throw.           *)
(***************************************************************************)
EXTENDS SyncWorkers, Naturals, Sequences, FiniteSets

CONSTANTS
  Txs,              \* transactions
  Gone,             \* the level of a removed transaction; versions lie below
  Recent,           \* the transactions dated inside the backfill window
  LockSeconds,      \* PLAID_SYNC_LOCK_SECONDS
  CooldownSeconds,  \* PLAID_SYNC_COOLDOWN_SECONDS
  MaxEvents,        \* how often the bank's data changes (bound)
  MaxFaults         \* how many errors and crashes happen (bound)

ASSUME ItemSyncAssumption ==
  /\ Gone \in Nat /\ Gone >= 2
  /\ Recent \subseteq Txs
  /\ LockSeconds \in Nat \ {0}
  /\ CooldownSeconds \in Nat \ {0}
  /\ MaxEvents \in Nat
  /\ MaxFaults \in Nat

VARIABLES
  bank,      \* Plaid's history of the item
  known,     \* the transactions whose account has a row in accounts
  atomic,    \* PLAID_SYNC_USE_RPC_APPLY
  cursor,    \* transactions_sync_cursor, as a position of bank
  store,     \* store[t]: the version of t in the database, 0 if it has no row
  hasRow,    \* plaid_item_status has a row for the item
  lockLeft,  \* time left on the item's lock, 0 if it is free
  coolLeft,  \* time left of the item's cooldown, 0 if there is none
  pc,        \* pc[w]: where worker w is in its sync
  sawRow,    \* sawRow[w]: it read a status row when it looked at the lock
  lease,     \* lease[w]: time left of the lock it is about to write
  base,      \* base[w]: the cursor it read
  next,      \* next[w]: the cursor Plaid gave it
  upserts,   \* upserts[w]: the versions it is going to store, 0 for none
  removed,   \* removed[w]: the transactions it is going to delete
  faults,    \* errors and crashes so far
  missed,    \* transactions skipped because their account was not known yet
  window,    \* a lock expired under a sync, before or after it was written, or
             \* was taken between another worker's look at it and its update, or
             \* was released again by a sync that had released its own before
  overlap,   \* two syncs of the item ran at once
  gap        \* a sync applied updates from a cursor ahead of the stored one

row == <<hasRow, lockLeft, coolLeft>>
local == <<sawRow, lease, base, next, upserts, removed>>
history == <<missed, window, overlap, gap>>
vars == <<bank, known, atomic, cursor, store, row, pc, local, faults, history>>

Levels == 0 .. Gone
Versions == 1 .. (Gone - 1)
NoUpserts == [t \in Txs |-> 0]

\* The last position of the bank's history.
Latest == Len(bank)

\* What the database shows for a transaction of level l.
Shown(l) == IF l = Gone THEN 0 ELSE l

\* Between taking the lock and giving it back.  A sync that gave it back and was
\* not told so is "unanswered".
SyncPc == {"locked", "fetching", "fetched", "applying", "deleting", "advancing",
           "applied", "failing"}
Syncing(w) == pc[w] \in SyncPc

Init ==
  /\ bank = << [t \in Txs |-> 0] >>
  /\ known \in SUBSET Txs
  /\ atomic \in BOOLEAN
  /\ cursor = 1
  /\ store = [t \in Txs |-> 0]
  /\ hasRow \in BOOLEAN
  /\ lockLeft = 0
  /\ coolLeft = 0
  /\ pc = [w \in Workers |-> "idle"]
  /\ sawRow = [w \in Workers |-> FALSE]
  /\ lease = [w \in Workers |-> 0]
  /\ base = [w \in Workers |-> 1]
  /\ next = [w \in Workers |-> 1]
  /\ upserts = [w \in Workers |-> NoUpserts]
  /\ removed = [w \in Workers |-> {}]
  /\ faults = 0
  /\ missed = {}
  /\ window = FALSE
  /\ overlap = FALSE
  /\ gap = FALSE

-----------------------------------------------------------------------------
(***************************************************************************)
(* The surroundings: the bank, the accounts table and the clock.           *)
(***************************************************************************)

\* A transaction is posted, modified or removed.
BankChanges(t, l) ==
  /\ Latest <= MaxEvents
  /\ l \in Levels
  /\ bank[Latest][t] # Gone
  /\ \/ l = bank[Latest][t] + 1 /\ l \in Versions
     \/ l = Gone /\ bank[Latest][t] # 0
  /\ bank' = Append(bank, [bank[Latest] EXCEPT ![t] = l])
  /\ UNCHANGED <<known, atomic, cursor, store, row, pc, local, faults, history>>

\* The accounts of the item are read from Plaid and upserted, as every sync
\* job does once the transactions are in.
RefreshAccounts ==
  /\ known # Txs
  /\ known' = Txs
  /\ UNCHANGED <<bank, atomic, cursor, store, row, pc, local, faults, history>>

\* A webhook, a new link or the record of a sync that failed before it had the
\* lock creates the status row.
CreateRow ==
  /\ ~hasRow
  /\ hasRow' = TRUE
  /\ UNCHANGED <<bank, known, atomic, cursor, store, lockLeft, coolLeft, pc, local,
                 faults, history>>

Left(time, d) == IF time > d THEN time - d ELSE 0

\* WRONG variant: a lock never expires.
ElapseKeepsLock(d) ==
  /\ coolLeft' = Left(coolLeft, d)
  /\ UNCHANGED <<bank, known, atomic, cursor, store, hasRow, lockLeft, pc, local, faults,
                 history>>

\* Time passes.  Nothing renews a lock, whatever its holder is doing.
Elapse(d) ==
  /\ lockLeft' = Left(lockLeft, d)
  /\ coolLeft' = Left(coolLeft, d)
  /\ lease' = [w \in Workers |-> Left(lease[w], d)]
  /\ window' = \/ window
               \/ lockLeft # 0 /\ lockLeft' = 0 /\ \E w \in Workers : Syncing(w)
  /\ UNCHANGED <<bank, known, atomic, cursor, store, hasRow, pc, sawRow, base, next,
                 upserts, removed, faults, missed, overlap, gap>>

\* Time moves to the end of the lock or of the cooldown.
Tick == \E d \in {lockLeft, coolLeft} \ {0} : Elapse(d)

-----------------------------------------------------------------------------
(***************************************************************************)
(* The lock.                                                               *)
(***************************************************************************)

\* WRONG variant: a refused sync releases the lock, as if it had it.
SeeFreeOrRelease(w) ==
  /\ pc[w] = "idle"
  /\ coolLeft = 0
  /\ IF lockLeft = 0
     THEN /\ pc' = [pc EXCEPT ![w] = "locking"]
          /\ sawRow' = [sawRow EXCEPT ![w] = hasRow]
          /\ lease' = [lease EXCEPT ![w] = LockSeconds]
          /\ UNCHANGED row
     ELSE /\ lockLeft' = 0
          /\ coolLeft' = CooldownSeconds
          /\ UNCHANGED <<hasRow, pc, sawRow, lease>>
  /\ UNCHANGED <<bank, known, atomic, cursor, store, base, next, upserts, removed,
                 faults, history>>

\* The worker reads the row: no cooldown and no lock stand in its way.  When
\* one does, the sync is refused and the row stays as it is.  The end of the
\* lock is set by the clock at this moment, not when it is written.
SeeFree(w) ==
  /\ pc[w] = "idle"
  /\ coolLeft = 0
  /\ lockLeft = 0
  /\ pc' = [pc EXCEPT ![w] = "locking"]
  /\ sawRow' = [sawRow EXCEPT ![w] = hasRow]
  /\ lease' = [lease EXCEPT ![w] = LockSeconds]
  /\ UNCHANGED <<bank, known, atomic, cursor, store, row, base, next, upserts,
                 removed, faults, history>>

\* The update of the row has no condition on what was read: it takes the lock
\* even if somebody else took it meanwhile.
TakeLock(w) ==
  /\ pc[w] = "locking"
  /\ sawRow[w] \/ ~hasRow
  /\ hasRow' = TRUE
  /\ lockLeft' = lease[w]
  /\ lease' = [lease EXCEPT ![w] = 0]
  /\ pc' = [pc EXCEPT ![w] = "locked"]
  /\ window' = (window \/ lockLeft # 0 \/ lease[w] = 0)
  /\ overlap' = (overlap \/ \E v \in Workers \ {w} : Syncing(v))
  /\ UNCHANGED <<bank, known, atomic, cursor, store, coolLeft, sawRow, base, next,
                 upserts, removed, faults, missed, gap>>

\* The worker saw no row, and inserting one fails since there is one now.
InsertCollides(w) ==
  /\ pc[w] = "locking"
  /\ ~sawRow[w] /\ hasRow
  /\ pc' = [pc EXCEPT ![w] = "idle"]
  /\ lease' = [lease EXCEPT ![w] = 0]
  /\ UNCHANGED <<bank, known, atomic, cursor, store, row, sawRow, base, next, upserts,
                 removed, faults, history>>

\* The worker has no sync any more.
Leave(w) ==
  /\ pc' = [pc EXCEPT ![w] = "idle"]
  /\ lease' = [lease EXCEPT ![w] = 0]
  /\ sawRow' = [sawRow EXCEPT ![w] = FALSE]
  /\ base' = [base EXCEPT ![w] = 1]
  /\ next' = [next EXCEPT ![w] = 1]
  /\ upserts' = [upserts EXCEPT ![w] = NoUpserts]
  /\ removed' = [removed EXCEPT ![w] = {}]
  /\ UNCHANGED <<bank, known, atomic, cursor, store, missed, overlap, gap>>

\* The lock is cleared, whoever holds it, after a sync that succeeded ...
ReleaseSuccess(w) ==
  /\ pc[w] = "applied"
  /\ lockLeft' = 0
  /\ coolLeft' = 0
  /\ UNCHANGED <<hasRow, faults, window>>
  /\ Leave(w)

\* ... or one that failed, which starts the item's cooldown.  lockAcquired still
\* says that the lock is the worker's where its first release was not answered.
ReleaseFailure(w) ==
  /\ pc[w] \in {"failing", "unanswered"}
  /\ lockLeft' = 0
  /\ coolLeft' = CooldownSeconds
  /\ window' = \/ window
               \/ pc[w] = "unanswered" /\ \E v \in Workers \ {w} : Syncing(v)
  /\ UNCHANGED <<hasRow, faults>>
  /\ Leave(w)

\* The release after a success is written and its answer is lost: it throws, and
\* the sync goes on as one that failed.
ReleaseUnanswered(w) ==
  /\ faults < MaxFaults
  /\ pc[w] = "applied"
  /\ lockLeft' = 0
  /\ coolLeft' = 0
  /\ faults' = faults + 1
  /\ pc' = [pc EXCEPT ![w] = "unanswered"]
  /\ UNCHANGED <<bank, known, atomic, cursor, store, hasRow, local, history>>

-----------------------------------------------------------------------------
(***************************************************************************)
(* The sync.                                                               *)
(***************************************************************************)

ReadCursor(w) ==
  /\ pc[w] = "locked"
  /\ base' = [base EXCEPT ![w] = cursor]
  /\ pc' = [pc EXCEPT ![w] = "fetching"]
  /\ UNCHANGED <<bank, known, atomic, cursor, store, row, sawRow, lease, next,
                 upserts, removed, faults, history>>

\* What /transactions/sync answers between two positions.
Updated(b, n) == {t \in Txs : bank[n][t] # bank[b][t] /\ bank[n][t] \in Versions}
Removed(b, n) == {t \in Txs : bank[n][t] # bank[b][t] /\ bank[n][t] = Gone}

\* All pages up to the bank's last position; a mutation during pagination
\* starts over from the same cursor, with what was collected dropped.
FetchPages(w) ==
  /\ pc[w] = "fetching"
  /\ next' = [next EXCEPT ![w] = Latest]
  /\ upserts' = [upserts EXCEPT ![w] =
                   [t \in Txs |-> IF t \in Updated(base[w], Latest)
                                  THEN bank[Latest][t] ELSE 0]]
  /\ removed' = [removed EXCEPT ![w] = Removed(base[w], Latest)]
  /\ pc' = [pc EXCEPT ![w] = "fetched"]
  /\ UNCHANGED <<bank, known, atomic, cursor, store, row, sawRow, lease, base,
                 faults, history>>

\* /transactions/get over the backfill window, some time later: of two
\* versions of a transaction its own wins.
FetchWindow(w) ==
  /\ pc[w] = "fetched"
  /\ upserts' = [upserts EXCEPT ![w] =
                   [t \in Txs |-> IF t \in Recent /\ bank[Latest][t] \in Versions
                                  THEN bank[Latest][t] ELSE upserts[w][t]]]
  /\ pc' = [pc EXCEPT ![w] = "applying"]
  /\ UNCHANGED <<bank, known, atomic, cursor, store, row, sawRow, lease, base,
                 next, removed, faults, history>>

\* The rows of worker w's upserts, as they are when it writes them: those of
\* an account without a row are skipped.
Upserted(w) == {t \in known : upserts[w][t] # 0}
Skipped(w) == {t \in Txs \ known : upserts[w][t] # 0}

StoreUpserts(w, s) == [t \in Txs |-> IF t \in Upserted(w) THEN upserts[w][t] ELSE s[t]]
DeleteRemoved(w, s) == [t \in Txs |-> IF t \in removed[w] THEN 0 ELSE s[t]]
MissedAfter(w) == (missed \ Upserted(w)) \union Skipped(w)

\* WRONG variant: the procedure ignores the removed transactions.
ApplyAtomicKeepsRemoved(w) ==
  /\ pc[w] = "applying"
  /\ atomic
  /\ store' = StoreUpserts(w, store)
  /\ cursor' = next[w]
  /\ missed' = MissedAfter(w)
  /\ gap' = (gap \/ base[w] > cursor)
  /\ pc' = [pc EXCEPT ![w] = "applied"]
  /\ UNCHANGED <<bank, known, atomic, row, local, faults, window, overlap>>

\* plaid_apply_transactions_sync: upserts, then deletions, then the cursor,
\* unconditionally, in one transaction.
ApplyAtomic(w) ==
  /\ pc[w] = "applying"
  /\ atomic
  /\ store' = DeleteRemoved(w, StoreUpserts(w, store))
  /\ cursor' = next[w]
  /\ missed' = MissedAfter(w) \ removed[w]
  /\ gap' = (gap \/ base[w] > cursor)
  /\ pc' = [pc EXCEPT ![w] = "applied"]
  /\ UNCHANGED <<bank, known, atomic, row, local, faults, window, overlap>>

\* The same as separate queries, when the procedure is switched off.
ApplyUpserts(w) ==
  /\ pc[w] = "applying"
  /\ ~atomic
  /\ store' = StoreUpserts(w, store)
  /\ missed' = MissedAfter(w)
  /\ pc' = [pc EXCEPT ![w] = "deleting"]
  /\ UNCHANGED <<bank, known, atomic, cursor, row, local, faults, window, overlap, gap>>

ApplyDeletions(w) ==
  /\ pc[w] = "deleting"
  /\ store' = DeleteRemoved(w, store)
  /\ missed' = missed \ removed[w]
  /\ pc' = [pc EXCEPT ![w] = "advancing"]
  /\ UNCHANGED <<bank, known, atomic, cursor, row, local, faults, window, overlap, gap>>

AdvanceCursor(w) ==
  /\ pc[w] = "advancing"
  /\ cursor' = IF next[w] # base[w] THEN next[w] ELSE cursor
  /\ gap' = (gap \/ base[w] > cursor)
  /\ pc' = [pc EXCEPT ![w] = "applied"]
  /\ UNCHANGED <<bank, known, atomic, store, row, local, faults, missed, window, overlap>>

\* Some step of a sync that holds the lock throws: a query, Plaid, the circuit
\* breaker; or the snapshot and the bookkeeping after the updates are in, up to
\* the release.  Of a query that was written and not answered the write is a step
\* before.
Throw(w) ==
  /\ faults < MaxFaults
  /\ Syncing(w) /\ pc[w] # "failing"
  /\ faults' = faults + 1
  /\ pc' = [pc EXCEPT ![w] = "failing"]
  /\ UNCHANGED <<bank, known, atomic, cursor, store, row, local, history>>

\* The process stops, or gives up after an error in taking the lock or in releasing
\* it after an error.
Crash(w) ==
  /\ faults < MaxFaults
  /\ pc[w] # "idle"
  /\ faults' = faults + 1
  /\ UNCHANGED <<row, window>>
  /\ Leave(w)

SyncStep(w) ==
  \/ SeeFree(w) \/ TakeLock(w) \/ InsertCollides(w)
  \/ ReadCursor(w) \/ FetchPages(w) \/ FetchWindow(w)
  \/ ApplyAtomic(w) \/ ApplyUpserts(w) \/ ApplyDeletions(w) \/ AdvanceCursor(w)
  \/ ReleaseSuccess(w) \/ ReleaseFailure(w)

Next ==
  \/ \E t \in Txs, l \in Levels : BankChanges(t, l)
  \/ RefreshAccounts
  \/ CreateRow
  \/ Tick
  \/ \E w \in Workers : SyncStep(w) \/ Throw(w) \/ ReleaseUnanswered(w) \/ Crash(w)

\* The scheduler and the queue keep asking for syncs, calls return or throw,
\* and time passes.
Fairness ==
  /\ \A w \in Workers : WF_vars(SyncStep(w))
  /\ WF_vars(Tick)

Spec == Init /\ [][Next]_vars
FairSpec == Spec /\ Fairness

-----------------------------------------------------------------------------
(***************************************************************************)
(* Properties.                                                             *)
(***************************************************************************)

TypeOK ==
  /\ bank \in Seq([Txs -> Levels]) /\ Latest \in 1 .. (MaxEvents + 1)
  /\ known \subseteq Txs
  /\ atomic \in BOOLEAN
  /\ cursor \in 1 .. Latest
  /\ store \in [Txs -> {0} \union Versions]
  /\ hasRow \in BOOLEAN
  /\ lockLeft \in 0 .. LockSeconds
  /\ coolLeft \in 0 .. CooldownSeconds
  /\ pc \in [Workers -> SyncPc \union {"idle", "locking", "unanswered"}]
  /\ sawRow \in [Workers -> BOOLEAN]
  /\ lease \in [Workers -> 0 .. LockSeconds]
  /\ base \in [Workers -> 1 .. Latest]
  /\ next \in [Workers -> 1 .. Latest]
  /\ upserts \in [Workers -> [Txs -> {0} \union Versions]]
  /\ removed \in [Workers -> SUBSET Txs]
  /\ faults \in 0 .. MaxFaults
  /\ missed \subseteq Txs
  /\ window \in BOOLEAN /\ overlap \in BOOLEAN /\ gap \in BOOLEAN

\* Two syncs of the item run at once only if a lock expired under a sync that
\* was still going, or was taken between another worker's look at the row and
\* its update, or was cleared under its holder by a sync that released twice,
\* its first release not having been answered: refused and failed syncs, cooldowns,
\* crashes and all other releases open no other way in.
OverlapNeedsWindow == overlap => window

\* The database never lags its cursor: each transaction is stored as the bank
\* showed it at the cursor or later, so what the next sync is told brings it
\* up to date.  Exceptions: one skipped because its account was unknown, and
\* the damage of a sync that applied from ahead of the stored cursor.
NeverBehind(t) == \E n \in cursor .. Latest : store[t] = Shown(bank[n][t])
NothingSkipped == atomic /\ ~gap => \A t \in Txs \ missed : NeverBehind(t)

\* With separate queries the same needs syncs that never overlap at all.
NothingSkippedStepwise == ~overlap => \A t \in Txs \ missed : NeverBehind(t)

\* Both, whichever way updates are applied.
NothingIsSkipped == NothingSkipped /\ NothingSkippedStepwise

\* Only overlapping syncs apply from ahead of the stored cursor.
GapNeedsOverlap == gap => overlap

\* The cursor only moves forward, as long as syncs of the item did not overlap.
CursorAdvances == [][overlap \/ cursor' >= cursor]_vars

\* Once the bank's data rests, the database shows it and goes on showing it,
\* through errors and crashes, unless syncs overlapped: a lock left behind by
\* a crash expires, and a failed sync is made up for by the next.
Imported(t) == t \in missed \/ store[t] = Shown(bank[Latest][t])
EventuallyImported == <>overlap \/ <>[](\A t \in Txs : Imported(t))
=============================================================================
