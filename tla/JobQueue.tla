------------------------------ MODULE JobQueue ------------------------------
(***************************************************************************)
(* What the Plaid sync job queue promises, whatever it is built from.      *)
(*                                                                         *)
(* A job belongs to at most one runner; only its runner can end it or put  *)
(* it back; at most one job of a deduplication key is queued or running;   *)
(* a job that failed never runs again.  A runner that disappears takes its *)
(* job with it: the promise is at most one run at a time, not that every   *)
(* job is run.                                                             *)
(***************************************************************************)
EXTENDS Naturals

CONSTANTS
  Workers,  \* the polling workers, one per backend process
  Jobs,     \* job identifiers
  Keys,     \* deduplication keys: one per (user, item, 15-minute bucket)
  NoJob,    \* not a job
  NoKey     \* the key of a job that is not there yet

VARIABLES
  status,   \* status[j]: where job j is in its life
  key,      \* key[j]: its deduplication key
  running   \* running[w]: the job worker w is responsible for, or NoJob

vars == <<status, key, running>>

Active == {"queued", "running"}

\* No other queued or running job has the key k.
KeyFree(k, j) == \A i \in Jobs \ {j} : key[i] = k => status[i] \notin Active

Init ==
  /\ status = [j \in Jobs |-> "absent"]
  /\ key = [j \in Jobs |-> NoKey]
  /\ running = [w \in Workers |-> NoJob]

\* A job is accepted, unless its key already has one on its way.
Submit(j, k) ==
  /\ status[j] = "absent"
  /\ KeyFree(k, j)
  /\ status' = [status EXCEPT ![j] = "queued"]
  /\ key' = [key EXCEPT ![j] = k]
  /\ UNCHANGED running

\* A worker with nothing to do takes a queued job, which nobody else has.
Take(w, j) ==
  /\ running[w] = NoJob
  /\ status[j] = "queued"
  /\ \A v \in Workers : running[v] # j
  /\ status' = [status EXCEPT ![j] = "running"]
  /\ running' = [running EXCEPT ![w] = j]
  /\ UNCHANGED key

\* The success of a job is recorded before its worker knows that it is.
Record(w) ==
  /\ running[w] # NoJob
  /\ status[running[w]] \in {"running", "completed"}
  /\ status' = [status EXCEPT ![running[w]] = "completed"]
  /\ UNCHANGED <<key, running>>

\* The worker ends its job, successfully or not, or puts it back in the queue.
Settle(w) ==
  /\ running[w] # NoJob
  /\ LET j == running[w] IN
       /\ status[j] \in {"running", "completed"}
       /\ \/ status' = [status EXCEPT ![j] = "completed"]
          \/ status' = [status EXCEPT ![j] = "failed"]
          \/ /\ KeyFree(key[j], j)
             /\ status' = [status EXCEPT ![j] = "queued"]
  /\ running' = [running EXCEPT ![w] = NoJob]
  /\ UNCHANGED key

\* The worker disappears: nobody is responsible for its job any more.
Drop(w) ==
  /\ running[w] # NoJob
  /\ running' = [running EXCEPT ![w] = NoJob]
  /\ UNCHANGED <<status, key>>

Next ==
  \/ \E j \in Jobs, k \in Keys : Submit(j, k)
  \/ \E w \in Workers, j \in Jobs : Take(w, j)
  \/ \E w \in Workers : Record(w) \/ Settle(w) \/ Drop(w)

Spec == Init /\ [][Next]_vars
=============================================================================
