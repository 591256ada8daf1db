------------------------------ MODULE JobTable ------------------------------
(***************************************************************************)
(* The table plaid_sync_jobs as the promise of JobQueue sees it: the state *)
(* and the key of each job, and which worker has which job in its hands.   *)
(* SyncJobs says how they change; SyncPipeline runs the same table with    *)
(* what the jobs do.                                                       *)
(***************************************************************************)
EXTENDS SyncWorkers, Naturals

CONSTANTS
  Jobs,         \* job identifiers: bounds the number of jobs ever inserted
  Keys,         \* deduplication keys, sync_item:<user>:<item>:<bucket>
  NoJob,        \* not a job
  NoKey         \* the key of a job that is not there yet

VARIABLES
  status,     \* status[j]: column status; "absent" before the insert
  key,        \* key[j]: column dedupe_key
  at,         \* at[w]: where worker w is in its tick
  job         \* job[w]: the candidate it selected or the job it holds

\* A worker between the claim of its job and the end of its tick.
HoldingPc == {"running", "completing", "failing", "refusing", "requeue", "giveUp"}
Holds(w) == at[w] \in HoldingPc

Abstract == INSTANCE JobQueue WITH
  running <- [w \in Workers |-> IF Holds(w) THEN job[w] ELSE NoJob]

\* The queue with two-step claims and two-step failures is a job queue.
RefinesJobQueue == Abstract!Spec
=============================================================================
