---------------------------- MODULE SyncPipeline ----------------------------
(***************************************************************************)
(* The job queue and the item sync together: processPlaidSyncJob           *)
(* (backend/lib/plaidSyncService.js) run by the workers of SyncJobs, each  *)
(* job being one sync of the item of ItemSync, under one clock.            *)
(*                                                                         *)
(* The item is the only one of its user, whose connections are not         *)
(* suspended, and the stored procedure is in use, as it is unless an       *)
(* environment variable says otherwise.  The item's jobs have the keys     *)
(* sync_item (webhooks, the schedule) and sync_all (the refresh button) of *)
(* each 15-minute bucket.                                                  *)
(***************************************************************************)
EXTENDS JobTable, ItemSync

CONSTANTS Callers, Delays, MaxAttempts, MaxCrashes

\* As in SyncJobs: a job that is not there has no key, and delays are seconds.
ASSUME PipelineAssumption ==
  /\ NoJob \notin Jobs /\ NoKey \notin Keys
  /\ MaxAttempts \in Nat \ {0} /\ MaxCrashes \in Nat /\ Delays \subseteq Nat

VARIABLES
  now, attempts, runAfter, seen, asking, lost, crashes,
  announced   \* announced[j]: the bank's last position when j was last asked for

Queue == INSTANCE SyncJobs

queueVars ==
  <<now, status, attempts, runAfter, key, at, job, seen, asking, lost, crashes>>
itemVars == vars
pipelineVars == <<queueVars, itemVars, announced>>

PipelineInit ==
  /\ Queue!Init
  /\ Init /\ atomic
  /\ announced = [j \in Jobs |-> 0]

-----------------------------------------------------------------------------
(***************************************************************************)
(* Asking for a sync.  The bank's webhooks come after its data changed, so *)
(* whoever asks now asks for the bank's last position.                     *)
(***************************************************************************)

Accept(c, j, k, d) ==
  /\ Queue!Insert(c, j, k, d)
  /\ announced' = [announced EXCEPT ![j] = Latest]
  /\ UNCHANGED itemVars

Collide(c, j, k) ==
  /\ Queue!Collide(c, j, k)
  /\ UNCHANGED <<itemVars, announced>>

\* The caller is answered with the active job of its key.  A queued job will
\* still read the cursor; a running one may be past that, so it is not asked
\* for more than before.
Coalesce(c) ==
  /\ Queue!Lookup(c)
  /\ announced' = [j \in Jobs |-> IF status[j] = "queued" /\ key[j] = asking[c]
                                  THEN Latest ELSE announced[j]]
  /\ UNCHANGED itemVars

-----------------------------------------------------------------------------
(***************************************************************************)
(* A worker runs its job.                                                  *)
(***************************************************************************)

\* The queue's part of a tick, before and after the run.
QueueStep(w) ==
  /\ \/ \E j \in Jobs : Queue!Select(w, j)
     \/ Queue!Claim(w) \/ Queue!LoseClaim(w)
     \/ Queue!Complete(w)
     \/ Queue!ReadAttempts(w)
     \/ Queue!Requeue(w) \/ Queue!RequeueCollides(w) \/ Queue!GiveUp(w)
  /\ UNCHANGED <<itemVars, announced>>

\* The item's variables but the count of errors and crashes, which here
\* counts those of the queue too (bound).
itemButFaults ==
  <<bank, known, atomic, cursor, store, hasRow, lockLeft, coolLeft, pc, sawRow, lease,
    base, next, upserts, removed, missed, window, overlap, gap>>

Fault == faults < MaxFaults /\ faults' = faults + 1

CompletionThrows(w) ==
  /\ Queue!CompleteThrows(w)
  /\ Fault
  /\ UNCHANGED <<itemButFaults, announced>>

\* A step of the sync that does not end it.
RunStep(w) ==
  /\ at[w] = "running"
  /\ \/ SeeFree(w) \/ TakeLock(w)
     \/ ReadCursor(w) \/ FetchPages(w) \/ FetchWindow(w)
     \/ ApplyAtomic(w)
     \/ Throw(w) \/ ReleaseUnanswered(w)
  /\ UNCHANGED <<queueVars, announced>>

\* A run returned, threw, or threw an error marked noRetry.
Ends(w, outcome) ==
  /\ Queue!RunEnds(w, outcome)
  /\ UNCHANGED announced

\* A query throws before the sync has looked at its lock.
EndsEarly(w) ==
  /\ pc[w] = "idle"
  /\ Ends(w, "failing")
  /\ Fault
  /\ UNCHANGED itemButFaults

\* The item is locked by another sync, which is never retried.
RefusedByLock(w) ==
  /\ pc[w] = "idle"
  /\ coolLeft = 0 /\ lockLeft # 0
  /\ Ends(w, "refusing")
  /\ UNCHANGED itemVars

\* WRONG variant: a run refused by the cooldown counts as done.
RefusedByCooldownCompletes(w) ==
  /\ pc[w] = "idle"
  /\ coolLeft # 0
  /\ Queue!RunEnds(w, "completing")
  /\ UNCHANGED <<itemVars, announced>>

\* The item is in its cooldown, which is never retried either.
RefusedByCooldown(w) ==
  /\ pc[w] = "idle"
  /\ coolLeft # 0
  /\ Queue!RunEnds(w, "refusing")
  /\ UNCHANGED <<itemVars, announced>>

\* Taking the lock fails on the row somebody inserted meanwhile, or throws.
LockThrows(w) ==
  /\ pc[w] = "locking"
  /\ InsertCollides(w) \/ Crash(w)
  /\ Ends(w, "failing")

Succeeds(w) ==
  /\ ReleaseSuccess(w)
  /\ Ends(w, "completing")

\* The sync threw, and gives its lock back if that works, whether or not it has
\* done so before; an open circuit breaker is an error never to be retried.
Fails(w, outcome) ==
  /\ pc[w] \in {"failing", "unanswered"}
  /\ ReleaseFailure(w) \/ Crash(w)
  /\ outcome \in {"failing", "refusing"}
  /\ Ends(w, outcome)

\* The process stops: its job stays running and its lock stays taken.
Disappears(w) ==
  /\ Queue!Abandon(w)
  /\ Fault
  /\ Leave(w)
  /\ UNCHANGED <<hasRow, lockLeft, coolLeft, window, announced>>

-----------------------------------------------------------------------------
(***************************************************************************)
(* The surroundings.                                                       *)
(***************************************************************************)

Surroundings ==
  /\ \/ \E t \in Txs, l \in Levels : BankChanges(t, l)
     \/ RefreshAccounts
     \/ CreateRow
  /\ UNCHANGED <<queueVars, announced>>

\* Time moves to the next instant somebody waits for.
ClockTick ==
  \E d \in Queue!Waits \union ({lockLeft, coolLeft} \ {0}) :
    /\ Queue!Elapse(d)
    /\ Elapse(d)
    /\ UNCHANGED announced

Rest == Queue!Quiescent /\ UNCHANGED pipelineVars

PipelineNext ==
  \/ \E c \in Callers, j \in Jobs, k \in Keys :
       (\E d \in Delays : Accept(c, j, k, d)) \/ Collide(c, j, k)
  \/ \E c \in Callers : Coalesce(c)
  \/ \E w \in Workers :
       \/ QueueStep(w) \/ CompletionThrows(w)
       \/ RunStep(w)
       \/ EndsEarly(w) \/ RefusedByLock(w) \/ RefusedByCooldown(w) \/ LockThrows(w)
       \/ \E outcome \in {"failing", "refusing"} : Fails(w, outcome)
       \/ Succeeds(w)
       \/ Disappears(w)
  \/ Surroundings
  \/ ClockTick
  \/ Rest

PipelineSpec == PipelineInit /\ [][PipelineNext]_pipelineVars

-----------------------------------------------------------------------------
(***************************************************************************)
(* Properties.                                                             *)
(***************************************************************************)

\* Two syncs of the item run at once only if jobs of two different keys were
\* accepted.  The lock alone does not prevent it (OverlapNeedsWindow): within
\* one key it is the queue's index, and that a worker that disappears leaves
\* its job running, that keep the syncs apart.
OverlapNeedsTwoKeys ==
  overlap => \E i, j \in Jobs : key[i] # key[j] /\ NoKey \notin {key[i], key[j]}

\* When a job is completed, the database shows each transaction as the bank
\* did when the job was asked for, or later: a webhook that found the job
\* still queued is not lost by being coalesced into it.
AnnouncedIsImported ==
  ~overlap =>
    \A j \in Jobs, t \in Txs \ missed :
      status[j] = "completed" =>
        \E n \in announced[j] .. Latest : store[t] = Shown(bank[n][t])
=============================================================================
