------------------------------ MODULE SyncJobs ------------------------------
(***************************************************************************)
(* The Plaid sync job queue (backend/models/plaidSyncJobs.js) and the      *)
(* workers that poll it (backend/lib/plaidSyncWorker.js).                  *)
(*                                                                         *)
(* The rows of the table plaid_sync_jobs are the functions over Jobs; what *)
(* a worker keeps in memory is the functions over Workers.  Every await of *)
(* the code is a point where other workers and callers run, so claiming a  *)
(* job is two steps (select a candidate, update it if it is still queued), *)
(* and so is failing one (read its attempts, write the outcome).           *)
(*                                                                         *)
(* What a job does is abstracted to its outcome: it returns, it throws an  *)
(* error that may be retried, or it throws one marked noRetry.             *)
(*                                                                         *)
(* The columns lock_owner and locked_until are left out: the code writes   *)
(* them and never reads them.                                              *)
(***************************************************************************)
EXTENDS JobTable, FiniteSets

CONSTANTS
  Callers,      \* requests, webhooks and schedulers that enqueue jobs
  Delays,       \* delays callers ask for, in seconds (0, or 30 for a webhook)
  MaxAttempts,  \* max_attempts of a job
  MaxCrashes    \* how often a worker may disappear (bound)

ASSUME NoJobAssumption == NoJob \notin Jobs
ASSUME NoKeyAssumption == NoKey \notin Keys
ASSUME BoundsAssumption ==
  /\ MaxAttempts \in Nat \ {0}
  /\ MaxCrashes \in Nat
  /\ Delays \subseteq Nat

VARIABLES
  now,        \* the clock, in seconds
  attempts,   \* attempts[j]: column attempts
  runAfter,   \* runAfter[j]: column run_after
  seen,       \* seen[w]: the attempts it read with the candidate
  asking,     \* asking[c]: the key whose insert collided, while c looks it up
  lost,       \* jobs whose worker disappeared while it held them
  crashes     \* workers that disappeared so far

rows == <<status, attempts, runAfter, key>>
vars == <<now, status, attempts, runAfter, key, at, job, seen, asking, lost, crashes>>

JobStatus == {"absent", "queued", "running", "completed", "failed"}
Active == {"queued", "running"}
Terminal == {"completed", "failed"}

Init ==
  /\ now = 0
  /\ status = [j \in Jobs |-> "absent"]
  /\ attempts = [j \in Jobs |-> 0]
  /\ runAfter = [j \in Jobs |-> 0]
  /\ key = [j \in Jobs |-> NoKey]
  /\ at = [w \in Workers |-> "idle"]
  /\ job = [w \in Workers |-> NoJob]
  /\ seen = [w \in Workers |-> 0]
  /\ asking = [c \in Callers |-> NoKey]
  /\ lost = {}
  /\ crashes = 0

-----------------------------------------------------------------------------
(***************************************************************************)
(* Enqueueing.                                                             *)
(***************************************************************************)

\* WRONG variant: the index covers queued jobs only.
KeyFreeOfQueued(k, j) == \A i \in Jobs \ {j} : key[i] = k => status[i] # "queued"

\* The partial unique index over dedupe_key lets job j be active with key k.
KeyFree(k, j) == \A i \in Jobs \ {j} : key[i] = k => status[i] \notin Active

\* The insert succeeds.
Insert(c, j, k, d) ==
  /\ asking[c] = NoKey
  /\ status[j] = "absent"
  /\ KeyFree(k, j)
  /\ status' = [status EXCEPT ![j] = "queued"]
  /\ attempts' = [attempts EXCEPT ![j] = 0]
  /\ runAfter' = [runAfter EXCEPT ![j] = now + d]
  /\ key' = [key EXCEPT ![j] = k]
  /\ UNCHANGED <<now, at, job, seen, asking, lost, crashes>>

\* The insert collides with an active job of the key (error 23505).
Collide(c, j, k) ==
  /\ asking[c] = NoKey
  /\ status[j] = "absent"
  /\ ~KeyFree(k, j)
  /\ asking' = [asking EXCEPT ![c] = k]
  /\ UNCHANGED <<now, rows, at, job, seen, lost, crashes>>

\* The caller looks the active job up and returns it; if it ended meanwhile,
\* the caller gets the insert's error.  Neither changes the queue.
Lookup(c) ==
  /\ asking[c] # NoKey
  /\ asking' = [asking EXCEPT ![c] = NoKey]
  /\ UNCHANGED <<now, rows, at, job, seen, lost, crashes>>

-----------------------------------------------------------------------------
(***************************************************************************)
(* A worker's tick.                                                        *)
(***************************************************************************)

\* The queued jobs that are due, those with the earliest run_after first.
Due == {j \in Jobs : status[j] = "queued" /\ runAfter[j] <= now}
Candidates == {j \in Due : \A i \in Due : runAfter[j] <= runAfter[i]}

\* The candidate is read, with its attempts.
Select(w, j) ==
  /\ at[w] = "idle"
  /\ j \in Candidates
  /\ at' = [at EXCEPT ![w] = "selected"]
  /\ job' = [job EXCEPT ![w] = j]
  /\ seen' = [seen EXCEPT ![w] = attempts[j]]
  /\ UNCHANGED <<now, rows, asking, lost, crashes>>

\* The update "where status = queued" finds the row: the job is claimed.  It
\* writes the attempts read with the candidate plus one, and checks neither
\* the attempts nor run_after again.
Claim(w) ==
  /\ at[w] = "selected"
  /\ status[job[w]] = "queued"
  /\ status' = [status EXCEPT ![job[w]] = "running"]
  /\ attempts' = [attempts EXCEPT ![job[w]] = seen[w] + 1]
  /\ at' = [at EXCEPT ![w] = "running"]
  /\ UNCHANGED <<now, runAfter, key, job, seen, asking, lost, crashes>>

\* The tick is over: what the worker remembers of it is gone.
EndTick(w) ==
  /\ at' = [at EXCEPT ![w] = "idle"]
  /\ job' = [job EXCEPT ![w] = NoJob]
  /\ seen' = [seen EXCEPT ![w] = 0]
  /\ UNCHANGED <<now, asking>>

\* WRONG variant: the candidate is run although the update found no row.
LoseClaimAndRun(w) ==
  /\ at[w] = "selected"
  /\ status[job[w]] # "queued"
  /\ at' = [at EXCEPT ![w] = "running"]
  /\ UNCHANGED <<now, rows, job, seen, asking, lost, crashes>>

\* Somebody else claimed it first: the tick ends with nothing claimed.
LoseClaim(w) ==
  /\ at[w] = "selected"
  /\ status[job[w]] # "queued"
  /\ UNCHANGED <<rows, lost, crashes>>
  /\ EndTick(w)

\* The job's run ends: it returned, threw, or threw with noRetry.
RunEnds(w, outcome) ==
  /\ at[w] = "running"
  /\ outcome \in {"completing", "failing", "refusing"}
  /\ at' = [at EXCEPT ![w] = outcome]
  /\ UNCHANGED <<now, rows, job, seen, asking, lost, crashes>>

\* The job is marked completed.
Complete(w) ==
  /\ at[w] = "completing"
  /\ status' = [status EXCEPT ![job[w]] = "completed"]
  /\ UNCHANGED <<attempts, runAfter, key, lost, crashes>>
  /\ EndTick(w)

\* Marking it completed throws, before or after the row was written: the same
\* catch that handles a failed run handles it, and the job is failed.
CompleteThrows(w) ==
  /\ at[w] = "completing"
  /\ \/ UNCHANGED status
     \/ status' = [status EXCEPT ![job[w]] = "completed"]
  /\ at' = [at EXCEPT ![w] = "failing"]
  /\ UNCHANGED <<now, attempts, runAfter, key, job, seen, asking, lost, crashes>>

\* Failing a job reads its attempts to decide between a retry and the end.
ReadAttempts(w) ==
  /\ at[w] \in {"failing", "refusing"}
  /\ LET retryAllowed == at[w] = "failing" /\ attempts[job[w]] < MaxAttempts
     IN  at' = [at EXCEPT ![w] = IF retryAllowed THEN "requeue" ELSE "giveUp"]
  /\ UNCHANGED <<now, rows, job, seen, asking, lost, crashes>>

\* The delay before a retry, in seconds: attempts squared, from 5 to 60.
Backoff(n) == IF n * n < 5 THEN 5 ELSE IF n * n > 60 THEN 60 ELSE n * n

\* WRONG variant: the job to retry keeps the status running.
RequeueKeepsStatus(w) ==
  /\ at[w] = "requeue"
  /\ KeyFree(key[job[w]], job[w])
  /\ runAfter' = [runAfter EXCEPT ![job[w]] = now + Backoff(seen[w] + 1)]
  /\ UNCHANGED <<status, attempts, key, lost, crashes>>
  /\ EndTick(w)

\* The job goes back to the queue.
Requeue(w) ==
  /\ at[w] = "requeue"
  /\ KeyFree(key[job[w]], job[w])
  /\ status' = [status EXCEPT ![job[w]] = "queued"]
  /\ runAfter' = [runAfter EXCEPT ![job[w]] = now + Backoff(seen[w] + 1)]
  /\ UNCHANGED <<attempts, key, lost, crashes>>
  /\ EndTick(w)

\* The index refuses the update: a job that was in fact recorded as completed
\* has a successor with its key.  The tick ends with an error.
RequeueCollides(w) ==
  /\ at[w] = "requeue"
  /\ ~KeyFree(key[job[w]], job[w])
  /\ UNCHANGED <<rows, lost, crashes>>
  /\ EndTick(w)

\* The job is failed for good.
GiveUp(w) ==
  /\ at[w] = "giveUp"
  /\ status' = [status EXCEPT ![job[w]] = "failed"]
  /\ UNCHANGED <<attempts, runAfter, key, lost, crashes>>
  /\ EndTick(w)

\* The process stops, or a query of the tick throws where nothing handles it:
\* the worker starts over, and the row stays as it was.
Abandon(w) ==
  /\ crashes < MaxCrashes
  /\ at[w] # "idle"
  /\ crashes' = crashes + 1
  /\ lost' = IF Holds(w) THEN lost \union {job[w]} ELSE lost
  /\ UNCHANGED rows
  /\ EndTick(w)

-----------------------------------------------------------------------------
(***************************************************************************)
(* Time.                                                                   *)
(***************************************************************************)

\* How long until the run_after of the queued jobs that are not due yet.
Waits == {runAfter[j] - now : j \in {i \in Jobs : status[i] = "queued" /\ runAfter[i] > now}}

Elapse(d) ==
  /\ now' = now + d
  /\ UNCHANGED <<rows, at, job, seen, asking, lost, crashes>>

\* Time moves to an instant some queued job waits for (bound: it moves only
\* then, so the clock stops growing once no job waits).
Tick == \E d \in Waits : Elapse(d)

-----------------------------------------------------------------------------
Enqueue(c) ==
  \/ \E j \in Jobs, k \in Keys, d \in Delays : Insert(c, j, k, d)
  \/ \E j \in Jobs, k \in Keys : Collide(c, j, k)
  \/ Lookup(c)

RunJob(w) == \E outcome \in {"completing", "failing", "refusing"} : RunEnds(w, outcome)

\* What a worker does between two polls, whatever its job's outcome.
WorkerStep(w) ==
  \/ \E j \in Jobs : Select(w, j)
  \/ Claim(w) \/ LoseClaim(w)
  \/ RunJob(w)
  \/ Complete(w) \/ CompleteThrows(w)
  \/ ReadAttempts(w)
  \/ Requeue(w) \/ RequeueCollides(w) \/ GiveUp(w)

\* Nothing is left to do: the job ids are used up, and each job has ended or
\* was lost with its worker.
Quiescent ==
  /\ \A j \in Jobs : status[j] \in Terminal \/ j \in lost
  /\ \A w \in Workers : at[w] = "idle"
  /\ \A c \in Callers : asking[c] = NoKey

Rest == Quiescent /\ UNCHANGED vars

Next ==
  \/ \E c \in Callers : Enqueue(c)
  \/ \E w \in Workers : WorkerStep(w) \/ Abandon(w)
  \/ Tick
  \/ Rest

\* setInterval keeps the worker polling, and every query and every run of a
\* job returns or throws.  Nothing makes a process stop, or a caller call.
Fairness ==
  /\ \A w \in Workers : WF_vars(WorkerStep(w))
  /\ WF_vars(Tick)

Spec == Init /\ [][Next]_vars
FairSpec == Spec /\ Fairness

-----------------------------------------------------------------------------
(***************************************************************************)
(* Properties.                                                             *)
(***************************************************************************)

TypeOK ==
  /\ now \in Nat
  /\ status \in [Jobs -> JobStatus]
  /\ attempts \in [Jobs -> 0 .. MaxAttempts]
  /\ runAfter \in [Jobs -> Nat]
  /\ key \in [Jobs -> Keys \union {NoKey}]
  /\ at \in [Workers -> HoldingPc \union {"idle", "selected"}]
  /\ job \in [Workers -> Jobs \union {NoJob}]
  /\ seen \in [Workers -> 0 .. MaxAttempts]
  /\ asking \in [Callers -> Keys \union {NoKey}]
  /\ lost \subseteq Jobs
  /\ crashes \in 0 .. MaxCrashes

\* A job is in the hands of at most one worker, from its claim to the end of
\* the tick: although the claim is a select followed by an update, and the
\* worker of a job whose completion went unacknowledged fails it afterwards.
ExclusiveExecution ==
  \A v, w \in Workers :
    /\ Holds(v) /\ Holds(w) /\ job[v] = job[w] => v = w
    /\ Holds(w) => status[job[w]] \notin {"absent", "queued"}

\* No two jobs of one deduplication key are queued or running, retries of a
\* job that was recorded as completed included.
OneActiveJobPerKey ==
  \A i, j \in Jobs :
    status[i] \in Active /\ status[j] \in Active /\ key[i] = key[j] => i = j

\* A job that is queued ends, completed or failed, unless its worker
\* disappears while it holds it: nothing takes such a job up again.
QueuedJobsEnd ==
  \A j \in Jobs :
    status[j] = "queued" ~> (status[j] \in Terminal \/ j \in lost)
=============================================================================
