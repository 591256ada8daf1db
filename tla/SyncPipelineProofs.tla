------------------------- MODULE SyncPipelineProofs -------------------------
(***************************************************************************)
(* Proofs about the queue (SyncJobs), the sync of one item (ItemSync) and  *)
(* both together (SyncPipeline), for every number of workers, jobs, keys,  *)
(* transactions, versions and faults.                                      *)
(*                                                                         *)
(* The queue: a job is held once, the keys in use are used once, and each  *)
(* step is one of an abstract queue.  The item: types, the lock, the       *)
(* cursor, what Plaid told a sync, and so what the database shows, each    *)
(* layer resting on the one before.  Together: what keeps the syncs of an  *)
(* item apart, and that a job recorded as completed imported what it was   *)
(* asked for.                                                              *)
(***************************************************************************)
EXTENDS SyncPipeline, TLAPS

(***************************************************************************)
(* The queue: its invariants, and that it implements JobQueue.  Queue!Spec *)
(* is the specification of SyncJobs, for every value of its constants.     *)
(***************************************************************************)

\* A worker that is not idle has a job in its hands.
JobInHand == \A w \in Workers : at[w] # "idle" => job[w] \in Jobs

\* A job that can still be claimed, and a claim or a retry that is about to be
\* written, have an attempt left.  The claim writes what it read with the
\* candidate, so this has to hold of the read too.
AttemptLeft ==
  /\ \A j \in Jobs : status[j] = "queued" => attempts[j] < MaxAttempts
  /\ \A w \in Workers : at[w] = "selected" => seen[w] < MaxAttempts
  /\ \A w \in Workers : at[w] = "requeue" => attempts[job[w]] < MaxAttempts

\* A job is held once, and meanwhile it is running or recorded as completed.
HeldOnce ==
  /\ \A v, w \in Workers : Queue!Holds(v) /\ Queue!Holds(w) /\ job[v] = job[w] => v = w
  /\ \A w \in Workers : Queue!Holds(w) => status[job[w]] \in {"running", "completed"}

\* The inductive invariant.
QueueInv == Queue!TypeOK /\ JobInHand /\ AttemptLeft /\ HeldOnce /\ Queue!OneActiveJobPerKey

-----------------------------------------------------------------------------
\* The inductive invariant holds at the start.
LEMMA InitQueueInv == Queue!Init => QueueInv
  BY PipelineAssumption
  DEF Queue!Init, QueueInv, Queue!TypeOK, JobInHand, AttemptLeft, HeldOnce,
      Queue!OneActiveJobPerKey,
      Queue!JobStatus, Queue!Active, Queue!HoldingPc, Queue!Holds

\* Enqueueing a job keeps it.
LEMMA EnqueueQueueInv ==
  ASSUME QueueInv, NEW c \in Callers, Queue!Enqueue(c)
  PROVE  QueueInv'
<1> USE PipelineAssumption
  DEF QueueInv, Queue!JobStatus, Queue!Active, Queue!HoldingPc, Queue!Holds
<1>1. ASSUME NEW j \in Jobs, NEW k \in Keys, NEW d \in Delays, Queue!Insert(c, j, k, d)
      PROVE  QueueInv'
  <2>1. Queue!TypeOK'
    BY <1>1 DEF Queue!Insert, Queue!TypeOK
  <2>2. JobInHand'
    BY <1>1 DEF Queue!Insert, JobInHand
  <2>3. AttemptLeft'
    BY <1>1 DEF Queue!Insert, AttemptLeft, Queue!TypeOK, JobInHand
  <2>4. HeldOnce'
    BY <1>1 DEF Queue!Insert, HeldOnce, Queue!TypeOK, JobInHand
  <2>5. Queue!OneActiveJobPerKey'
    BY <1>1 DEF Queue!Insert, Queue!KeyFree, Queue!OneActiveJobPerKey, Queue!TypeOK
  <2> QED BY <2>1, <2>2, <2>3, <2>4, <2>5
<1>2. ASSUME NEW j \in Jobs, NEW k \in Keys, Queue!Collide(c, j, k)
      PROVE  QueueInv'
  BY <1>2
  DEF Queue!Collide, Queue!rows, Queue!TypeOK, JobInHand, AttemptLeft, HeldOnce,
      Queue!OneActiveJobPerKey
<1>3. CASE Queue!Lookup(c)
  BY <1>3
  DEF Queue!Lookup, Queue!rows, Queue!TypeOK, JobInHand, AttemptLeft, HeldOnce,
      Queue!OneActiveJobPerKey
<1> QED BY <1>1, <1>2, <1>3 DEF Queue!Enqueue

\* So does every step of a worker's tick.
LEMMA WorkerQueueInv ==
  ASSUME QueueInv, NEW w \in Workers, Queue!WorkerStep(w) \/ Queue!Abandon(w)
  PROVE  QueueInv'
<1> USE PipelineAssumption
  DEF QueueInv, Queue!JobStatus, Queue!Active, Queue!HoldingPc, Queue!Holds
<1>1. ASSUME NEW j \in Jobs, Queue!Select(w, j)
      PROVE  QueueInv'
  <2>1. j \in Jobs /\ status[j] = "queued"
    BY <1>1 DEF Queue!Select, Queue!Candidates, Queue!Due
  <2>2. Queue!TypeOK'
    BY <1>1 DEF Queue!Select, Queue!rows, Queue!TypeOK
  <2>3. JobInHand' /\ HeldOnce' /\ Queue!OneActiveJobPerKey'
    BY <1>1
    DEF Queue!Select, Queue!rows, Queue!TypeOK, JobInHand, HeldOnce,
        Queue!OneActiveJobPerKey
  <2>4. AttemptLeft'
    BY <1>1, <2>1 DEF Queue!Select, Queue!rows, Queue!TypeOK, AttemptLeft
  <2> QED BY <2>2, <2>3, <2>4
<1>2. CASE Queue!Claim(w)
  <2>1. job[w] \in Jobs /\ status[job[w]] = "queued" /\ seen[w] + 1 \in 0 .. MaxAttempts
    BY <1>2 DEF Queue!Claim, JobInHand, AttemptLeft, Queue!TypeOK
  <2>2. Queue!TypeOK'
    BY <1>2, <2>1 DEF Queue!Claim, Queue!TypeOK
  <2>3. JobInHand'
    BY <1>2 DEF Queue!Claim, JobInHand, Queue!TypeOK
  <2>4. \A v \in Workers : Queue!Holds(v) => job[v] # job[w]
    BY <2>1 DEF HeldOnce
  <2>5. AttemptLeft'
    BY <1>2, <2>1, <2>4 DEF Queue!Claim, AttemptLeft, Queue!TypeOK
  <2>6. HeldOnce'
    BY <1>2, <2>1, <2>4 DEF Queue!Claim, HeldOnce, JobInHand, Queue!TypeOK
  <2>7. Queue!OneActiveJobPerKey'
    BY <1>2, <2>1 DEF Queue!Claim, Queue!OneActiveJobPerKey, Queue!TypeOK
  <2> QED BY <2>2, <2>3, <2>5, <2>6, <2>7
<1>3. CASE Queue!LoseClaim(w) \/ Queue!RequeueCollides(w) \/ Queue!Abandon(w)
  <2>1. /\ UNCHANGED Queue!rows /\ Queue!EndTick(w)
        /\ lost' \subseteq lost \union {job[w]} /\ (lost' = lost \/ job[w] \in Jobs)
        /\ crashes' \in 0 .. MaxCrashes
    BY <1>3
    DEF Queue!LoseClaim, Queue!RequeueCollides, Queue!Abandon, Queue!TypeOK, JobInHand
  <2>2. Queue!TypeOK'
    BY <2>1 DEF Queue!rows, Queue!EndTick, Queue!TypeOK
  <2>3. JobInHand' /\ AttemptLeft'
    BY <2>1 DEF Queue!rows, Queue!EndTick, JobInHand, AttemptLeft, Queue!TypeOK
  <2>4. HeldOnce' /\ Queue!OneActiveJobPerKey'
    BY <2>1 DEF Queue!rows, Queue!EndTick, HeldOnce, Queue!OneActiveJobPerKey, Queue!TypeOK
  <2> QED BY <2>2, <2>3, <2>4
<1>4. CASE Queue!RunJob(w)
  <2>1. PICK outcome \in {"completing", "failing", "refusing"} : Queue!RunEnds(w, outcome)
    BY <1>4 DEF Queue!RunJob
  <2> QED
    BY <2>1
    DEF Queue!RunEnds, Queue!rows, Queue!TypeOK, JobInHand, AttemptLeft, HeldOnce,
        Queue!OneActiveJobPerKey
<1>5. ASSUME NEW s \in {"completed", "failed"},
             Queue!Holds(w), status' = [status EXCEPT ![job[w]] = s],
             UNCHANGED <<attempts, runAfter, key, lost, crashes>>, Queue!EndTick(w)
      PROVE  QueueInv'
  <2>1. job[w] \in Jobs
    BY <1>5 DEF JobInHand
  <2>2. Queue!TypeOK'
    BY <1>5, <2>1 DEF Queue!EndTick, Queue!TypeOK
  <2>3. JobInHand' /\ AttemptLeft'
    BY <1>5, <2>1 DEF Queue!EndTick, JobInHand, AttemptLeft, Queue!TypeOK
  <2>4. \A v \in Workers \ {w} : Queue!Holds(v) => job[v] # job[w]
    BY <1>5 DEF HeldOnce
  <2>5. HeldOnce'
    BY <1>5, <2>1, <2>4 DEF Queue!EndTick, HeldOnce, JobInHand, Queue!TypeOK
  <2>6. Queue!OneActiveJobPerKey'
    BY <1>5, <2>1 DEF Queue!EndTick, Queue!OneActiveJobPerKey, Queue!TypeOK
  <2> QED BY <2>2, <2>3, <2>5, <2>6
<1>6. CASE Queue!Complete(w)
  BY <1>5, <1>6 DEF Queue!Complete
<1>7. CASE Queue!GiveUp(w)
  BY <1>5, <1>7 DEF Queue!GiveUp
<1>8. CASE Queue!CompleteThrows(w)
  <2>1. job[w] \in Jobs
    BY <1>8 DEF Queue!CompleteThrows, JobInHand
  <2>2. Queue!TypeOK'
    BY <1>8, <2>1 DEF Queue!CompleteThrows, Queue!TypeOK
  <2>3. JobInHand' /\ AttemptLeft'
    BY <1>8, <2>1 DEF Queue!CompleteThrows, JobInHand, AttemptLeft, Queue!TypeOK
  <2>4. HeldOnce'
    BY <1>8, <2>1 DEF Queue!CompleteThrows, HeldOnce, JobInHand, Queue!TypeOK
  <2>5. Queue!OneActiveJobPerKey'
    BY <1>8, <2>1 DEF Queue!CompleteThrows, Queue!OneActiveJobPerKey, Queue!TypeOK
  <2> QED BY <2>2, <2>3, <2>4, <2>5
<1>9. CASE Queue!ReadAttempts(w)
  <2>1. Queue!TypeOK' /\ JobInHand' /\ Queue!OneActiveJobPerKey'
    BY <1>9
    DEF Queue!ReadAttempts, Queue!rows, Queue!TypeOK, JobInHand, Queue!OneActiveJobPerKey
  <2>2. AttemptLeft'
    BY <1>9 DEF Queue!ReadAttempts, Queue!rows, Queue!TypeOK, AttemptLeft
  <2>3. HeldOnce'
    BY <1>9 DEF Queue!ReadAttempts, Queue!rows, Queue!TypeOK, HeldOnce
  <2> QED BY <2>1, <2>2, <2>3
<1>10. CASE Queue!Requeue(w)
  <2>1. job[w] \in Jobs /\ attempts[job[w]] < MaxAttempts
    BY <1>10 DEF Queue!Requeue, JobInHand, AttemptLeft
  <2>2. now + Queue!Backoff(seen[w] + 1) \in Nat
    BY DEF Queue!Backoff, Queue!TypeOK
  <2>3. Queue!TypeOK'
    BY <1>10, <2>1, <2>2 DEF Queue!Requeue, Queue!EndTick, Queue!TypeOK
  <2>4. JobInHand' /\ AttemptLeft'
    BY <1>10, <2>1 DEF Queue!Requeue, Queue!EndTick, JobInHand, AttemptLeft, Queue!TypeOK
  <2>5. \A v \in Workers \ {w} : Queue!Holds(v) => job[v] # job[w]
    BY <1>10 DEF Queue!Requeue, HeldOnce
  <2>6. HeldOnce'
    BY <1>10, <2>1, <2>5 DEF Queue!Requeue, Queue!EndTick, HeldOnce, JobInHand, Queue!TypeOK
  <2>7. Queue!OneActiveJobPerKey'
    BY <1>10, <2>1
    DEF Queue!Requeue, Queue!KeyFree, Queue!EndTick, Queue!OneActiveJobPerKey, Queue!TypeOK
  <2> QED BY <2>3, <2>4, <2>6, <2>7
<1> QED BY <1>1, <1>2, <1>3, <1>4, <1>6, <1>7, <1>8, <1>9, <1>10 DEF Queue!WorkerStep

\* Every step keeps the inductive invariant.
LEMMA NextQueueInv == QueueInv /\ [Queue!Next]_(Queue!vars) => QueueInv'
<1> SUFFICES ASSUME QueueInv, [Queue!Next]_(Queue!vars) PROVE QueueInv'
  OBVIOUS
<1>1. ASSUME NEW c \in Callers, Queue!Enqueue(c) PROVE QueueInv'
  BY <1>1, EnqueueQueueInv
<1>2. ASSUME NEW w \in Workers, Queue!WorkerStep(w) \/ Queue!Abandon(w) PROVE QueueInv'
  BY <1>2, WorkerQueueInv
<1>3. CASE Queue!Tick
  <2>1. PICK d \in Queue!Waits : Queue!Elapse(d)
    BY <1>3 DEF Queue!Tick
  <2>2. d \in Nat
    BY DEF Queue!Waits, QueueInv, Queue!TypeOK
  <2> QED
    BY <2>1, <2>2
    DEF Queue!Elapse, QueueInv, Queue!rows, Queue!TypeOK, JobInHand, AttemptLeft, HeldOnce,
                      Queue!OneActiveJobPerKey, Queue!Holds
<1>4. CASE UNCHANGED Queue!vars
  BY <1>4
  DEF Queue!vars, Queue!rows, QueueInv, Queue!TypeOK, JobInHand, AttemptLeft, HeldOnce,
              Queue!OneActiveJobPerKey, Queue!Holds
<1> QED BY <1>1, <1>2, <1>3, <1>4 DEF Queue!Next, Queue!Rest

\* The inductive invariant holds in every state of every behaviour.
LEMMA QueueInvHolds == Queue!Spec => []QueueInv
  BY InitQueueInv, NextQueueInv, PTL DEF Queue!Spec

-----------------------------------------------------------------------------
\* The rows and the workers' memory keep their types: attempts never exceed
\* max_attempts, although a claim writes attempts it read earlier.
THEOREM QueueTyped == Queue!Spec => []Queue!TypeOK
<1>1. QueueInv => Queue!TypeOK
  BY DEF QueueInv
<1> QED BY <1>1, QueueInvHolds, PTL

\* A claimed job has one worker: claimNextPlaidSyncJob is exclusive.
THEOREM Exclusion == Queue!Spec => []Queue!ExclusiveExecution
<1>1. QueueInv => Queue!ExclusiveExecution
  BY DEF QueueInv, HeldOnce, Queue!ExclusiveExecution
<1> QED BY <1>1, QueueInvHolds, PTL

\* The partial unique index keeps one active job per key through inserts,
\* retries and recorded completions.
THEOREM Deduplication == Queue!Spec => []Queue!OneActiveJobPerKey
<1>1. QueueInv => Queue!OneActiveJobPerKey
  BY DEF QueueInv
<1> QED BY <1>1, QueueInvHolds, PTL

-----------------------------------------------------------------------------
(***************************************************************************)
(* The queue's refinement of JobQueue.                                      *)
(***************************************************************************)

\* JobTable and the queue say in the same words who holds a job.
USE DEF Holds, HoldingPc, Queue!Holds, Queue!HoldingPc

\* Whom the abstract queue sees running what.
Running == [w \in Workers |-> IF Queue!Holds(w) THEN job[w] ELSE NoJob]

\* A step that changes neither the rows nor who holds what is a stutter.
LEMMA SameHolders ==
  ASSUME UNCHANGED <<status, key>>,
         \A w \in Workers :
           Queue!Holds(w)' = Queue!Holds(w) /\ (Queue!Holds(w) => job'[w] = job[w])
  PROVE  UNCHANGED Abstract!vars
<1>1. Running' = Running
  BY DEF Running
<1> QED BY <1>1 DEF Abstract!vars, Running

\* The initial states of the queue are initial states of JobQueue.
LEMMA InitRefines == Queue!Init => Abstract!Init
  BY DEF Queue!Init, Abstract!Init, Queue!Holds, Queue!HoldingPc

\* A step of a worker's tick is a step of JobQueue or a stutter.
LEMMA WorkerRefines ==
  ASSUME QueueInv, NEW w \in Workers, Queue!WorkerStep(w) \/ Queue!Abandon(w)
  PROVE  Abstract!Next \/ UNCHANGED Abstract!vars
<1> USE DEF Queue!Holds, Queue!HoldingPc
<1>1. /\ job \in [Workers -> Jobs \union {NoJob}]
      /\ at \in [Workers -> Queue!HoldingPc \union {"idle", "selected"}]
      /\ status \in [Jobs -> Queue!JobStatus]
  BY DEF QueueInv, Queue!TypeOK
<1>2. at[w] # "idle" => job[w] \in Jobs /\ job[w] # NoJob
  BY PipelineAssumption DEF QueueInv, JobInHand
<1>3. Queue!Holds(w) => status[job[w]] \in {"running", "completed"}
  BY DEF QueueInv, HeldOnce
<1>4. CASE \/ (\E j \in Jobs : Queue!Select(w, j)) \/ Queue!LoseClaim(w)
           \/ Queue!RunJob(w) \/ Queue!ReadAttempts(w)
  BY <1>1, <1>4, SameHolders
  DEF Queue!Select, Queue!LoseClaim, Queue!RunJob, Queue!RunEnds, Queue!ReadAttempts,
      Queue!EndTick, Queue!rows
<1>5. CASE Queue!Claim(w)
  <2>1. \A v \in Workers : Running[v] # job[w]
    BY <1>2, <1>5, PipelineAssumption DEF Running, Queue!Claim, QueueInv, HeldOnce
  <2>2. Running[w] = NoJob /\ Running' = [Running EXCEPT ![w] = job[w]]
    BY <1>1, <1>5 DEF Running, Queue!Claim
  <2>3. PICK j \in Jobs : j = job[w]
    BY <1>2, <1>5 DEF Queue!Claim
  <2>4. Abstract!Take(w, j)
    BY <1>5, <2>1, <2>2, <2>3 DEF Abstract!Take, Running, Queue!Claim
  <2> QED BY <2>4 DEF Abstract!Next
<1>6. ASSUME Queue!EndTick(w) PROVE Running' = [Running EXCEPT ![w] = NoJob]
  <2>1. /\ at'[w] = "idle" /\ job'[w] = NoJob
        /\ \A v \in Workers \ {w} : at'[v] = at[v] /\ job'[v] = job[v]
    BY <1>1, <1>6 DEF Queue!EndTick
  <2> QED BY <2>1 DEF Running
<1>7. Queue!Holds(w) => Running[w] = job[w]
  BY DEF Running
<1>8. ASSUME NEW s \in {"completed", "failed"},
             Queue!Holds(w), status' = [status EXCEPT ![job[w]] = s], key' = key,
             Queue!EndTick(w)
      PROVE  Abstract!Settle(w)
  BY <1>2, <1>3, <1>6, <1>7, <1>8 DEF Abstract!Settle, Running
<1>9. CASE Queue!Complete(w) \/ Queue!GiveUp(w)
  BY <1>8, <1>9 DEF Queue!Complete, Queue!GiveUp, Abstract!Next
<1>10. CASE Queue!CompleteThrows(w)
  <2>1. Running' = Running
    BY <1>1, <1>10 DEF Queue!CompleteThrows, Running
  <2>2. CASE UNCHANGED status
    BY <2>1, <2>2, <1>10 DEF Queue!CompleteThrows, Abstract!vars, Running
  <2>3. CASE status' = [status EXCEPT ![job[w]] = "completed"]
    <3>1. Abstract!Record(w)
      BY <1>2, <1>3, <1>7, <1>10, <2>1, <2>3
      DEF Queue!CompleteThrows, Abstract!Record, Running
    <3> QED BY <3>1 DEF Abstract!Next
  <2> QED BY <1>10, <2>2, <2>3 DEF Queue!CompleteThrows
<1>11. CASE Queue!Requeue(w)
  <2>1. Abstract!KeyFree(key[job[w]], job[w])
    BY <1>11
    DEF Queue!Requeue, Queue!KeyFree, Queue!Active, Abstract!KeyFree, Abstract!Active
  <2>2. Abstract!Settle(w)
    BY <1>2, <1>3, <1>6, <1>7, <1>11, <2>1 DEF Queue!Requeue, Abstract!Settle, Running
  <2> QED BY <2>2 DEF Abstract!Next
<1>12. CASE Queue!RequeueCollides(w) \/ Queue!Abandon(w)
  <2>1. CASE Queue!Holds(w)
    <3>1. Abstract!Drop(w)
      BY <1>2, <1>6, <1>7, <1>12, <2>1
      DEF Queue!RequeueCollides, Queue!Abandon, Queue!rows, Abstract!Drop, Running
    <3> QED BY <3>1 DEF Abstract!Next
  <2>2. CASE ~Queue!Holds(w)
    BY <1>1, <1>12, <2>2, SameHolders
    DEF Queue!RequeueCollides, Queue!Abandon, Queue!EndTick, Queue!rows
  <2> QED BY <2>1, <2>2
<1> QED BY <1>4, <1>5, <1>9, <1>10, <1>11, <1>12 DEF Queue!WorkerStep

\* Every step of the queue is a step of JobQueue or a stutter.
LEMMA NextRefines ==
  QueueInv /\ [Queue!Next]_(Queue!vars) => [Abstract!Next]_(Abstract!vars)
<1> SUFFICES ASSUME QueueInv, [Queue!Next]_(Queue!vars)
             PROVE  Abstract!Next \/ UNCHANGED Abstract!vars
  OBVIOUS
<1>1. ASSUME NEW c \in Callers, NEW j \in Jobs, NEW k \in Keys, NEW d \in Delays,
             Queue!Insert(c, j, k, d)
      PROVE  Abstract!Next
  <2>1. Abstract!KeyFree(k, j)
    BY <1>1
    DEF Queue!Insert, Queue!KeyFree, Queue!Active, Abstract!KeyFree, Abstract!Active
  <2>2. Running' = Running
    BY <1>1 DEF Queue!Insert, Running, Queue!Holds
  <2>3. Abstract!Submit(j, k)
    BY <1>1, <2>1, <2>2 DEF Queue!Insert, Abstract!Submit, Running
  <2> QED BY <2>3 DEF Abstract!Next
<1>2. ASSUME NEW c \in Callers,
             (\E j \in Jobs, k \in Keys : Queue!Collide(c, j, k)) \/ Queue!Lookup(c)
      PROVE  UNCHANGED Abstract!vars
  BY <1>2, SameHolders DEF Queue!Collide, Queue!Lookup, Queue!rows, Queue!Holds
<1>3. ASSUME NEW w \in Workers, Queue!WorkerStep(w) \/ Queue!Abandon(w)
      PROVE  Abstract!Next \/ UNCHANGED Abstract!vars
  BY <1>3, WorkerRefines
<1>4. CASE Queue!Tick \/ Queue!Rest \/ UNCHANGED Queue!vars
  BY <1>4, SameHolders
  DEF Queue!Tick, Queue!Elapse, Queue!Rest, Queue!vars, Queue!rows, Queue!Holds
<1> QED BY <1>1, <1>2, <1>3, <1>4 DEF Queue!Next, Queue!Enqueue

\* The queue and its workers implement JobQueue, whatever the interleaving of
\* their queries and whenever a worker disappears.
THEOREM Refinement == Queue!Spec => RefinesJobQueue
<1>1. Queue!Init => Abstract!Init
  BY InitRefines
<1>2. QueueInv /\ [Queue!Next]_(Queue!vars) => [Abstract!Next]_(Abstract!vars)
  BY NextRefines
<1> QED BY <1>1, <1>2, QueueInvHolds, PTL
  DEF Queue!Spec, RefinesJobQueue, Abstract!Spec

HIDE DEF Holds, HoldingPc, Queue!Holds, Queue!HoldingPc

USE ItemSyncAssumption

-----------------------------------------------------------------------------
(***************************************************************************)
(* The steps the invariants withstand: those of Next, and what else happens *)
(* to the item where its syncs are jobs of a queue (SyncPipeline).  There  *)
(* time passes by any amount, the errors counted are not all the item's,   *)
(* and a worker may be gone wherever it is.                                *)
(***************************************************************************)

TimePasses == \E d \in Nat : Elapse(d)

Elsewhere ==
  /\ faults' \in 0 .. MaxFaults
  /\ UNCHANGED <<bank, known, atomic, cursor, store, row, pc, local, history>>

Vanish(w) == Leave(w) /\ UNCHANGED <<row, window>> /\ faults' \in 0 .. MaxFaults

Steps == Next \/ TimePasses \/ Elsewhere \/ \E w \in Workers : Vanish(w)

\* The steps of the item by itself are steps of it in the pipeline.
LEMMA NextSteps == [Next]_vars => [Steps]_vars
  BY DEF Steps

-----------------------------------------------------------------------------
(***************************************************************************)
(* Types.                                                                  *)
(***************************************************************************)

\* One more position at the end of a history leaves the earlier ones alone.
LEMMA AppendFacts ==
  ASSUME NEW S, NEW s \in Seq(S), NEW e \in S
  PROVE  /\ Append(s, e) \in Seq(S)
         /\ Len(Append(s, e)) = Len(s) + 1
         /\ \A i \in 1 .. Len(s) : Append(s, e)[i] = s[i]
         /\ Append(s, e)[Len(s) + 1] = e
  OBVIOUS

\* The bank's history only grows, by one position.
LEMMA BankGrows ==
  ASSUME TypeOK, NEW t \in Txs, NEW l \in Levels, BankChanges(t, l)
  PROVE  /\ bank' \in Seq([Txs -> Levels])
         /\ Latest' = Latest + 1
         /\ Latest' \in 1 .. (MaxEvents + 1)
         /\ \A i \in 1 .. Latest : bank'[i] = bank[i]
         /\ bank'[Latest'] = [bank[Latest] EXCEPT ![t] = l]
<1> DEFINE e == [bank[Latest] EXCEPT ![t] = l]
<1>1. bank \in Seq([Txs -> Levels]) /\ Latest \in 1 .. (MaxEvents + 1) /\ Latest <= MaxEvents
      /\ bank' = Append(bank, e)
  BY DEF TypeOK, BankChanges
<1>2. e \in [Txs -> Levels]
  BY <1>1 DEF Latest
<1> HIDE DEF e
<1>3. /\ Append(bank, e) \in Seq([Txs -> Levels])
      /\ Len(Append(bank, e)) = Len(bank) + 1
      /\ \A i \in 1 .. Len(bank) : Append(bank, e)[i] = bank[i]
      /\ Append(bank, e)[Len(bank) + 1] = e
  BY <1>1, <1>2, AppendFacts
<1> QED BY <1>1, <1>3 DEF Latest, e

\* A position of the history is a function to levels.
LEMMA BankAt ==
  ASSUME TypeOK, NEW n \in 1 .. Latest
  PROVE  bank[n] \in [Txs -> Levels]
  BY DEF TypeOK, Latest

\* The types, at first
LEMMA InitTypeOK == Init => TypeOK
<1> SUFFICES ASSUME Init PROVE TypeOK
  OBVIOUS
<1>1. bank \in Seq([Txs -> Levels]) /\ Latest = 1
  BY DEF Init, Latest, Levels
<1>2. NoUpserts \in [Txs -> {0} \union Versions]
  BY DEF NoUpserts
<1>3. /\ atomic \in BOOLEAN /\ hasRow \in BOOLEAN
      /\ window \in BOOLEAN /\ overlap \in BOOLEAN /\ gap \in BOOLEAN
  BY Zenon DEF Init
<1>4. sawRow \in [Workers -> BOOLEAN]
  BY Zenon DEF Init
<1>5. /\ known \subseteq Txs /\ cursor \in 1 .. Latest /\ store \in [Txs -> {0} \union Versions]
      /\ lockLeft \in 0 .. LockSeconds /\ coolLeft \in 0 .. CooldownSeconds
      /\ Latest \in 1 .. (MaxEvents + 1) /\ faults \in 0 .. MaxFaults /\ missed \subseteq Txs
  BY <1>1 DEF Init
<1>6. /\ pc \in [Workers -> SyncPc \union {"idle", "locking", "unanswered"}]
      /\ lease \in [Workers -> 0 .. LockSeconds]
      /\ base \in [Workers -> 1 .. Latest] /\ next \in [Workers -> 1 .. Latest]
      /\ removed \in [Workers -> SUBSET Txs]
  BY <1>1 DEF Init
<1>7. upserts \in [Workers -> [Txs -> {0} \union Versions]]
  BY <1>2 DEF Init
<1> QED BY <1>1, <1>3, <1>4, <1>5, <1>6, <1>7 DEF TypeOK

\* What a worker leaves behind and what time does keep the types.
LEMMA LeaveTypeOK ==
  ASSUME TypeOK, NEW w \in Workers, Leave(w),
         hasRow' \in BOOLEAN, lockLeft' \in 0 .. LockSeconds,
         coolLeft' \in 0 .. CooldownSeconds, faults' \in 0 .. MaxFaults,
         window' \in BOOLEAN
  PROVE  TypeOK'
  BY DEF Leave, TypeOK, Latest, NoUpserts, SyncPc

\* and of what a sync writes.
LEMMA ApplyTypeOK ==
  ASSUME TypeOK, NEW w \in Workers
  PROVE  /\ StoreUpserts(w, store) \in [Txs -> {0} \union Versions]
         /\ DeleteRemoved(w, store) \in [Txs -> {0} \union Versions]
         /\ DeleteRemoved(w, StoreUpserts(w, store)) \in [Txs -> {0} \union Versions]
         /\ MissedAfter(w) \subseteq Txs
  BY DEF TypeOK, StoreUpserts, DeleteRemoved, MissedAfter, Upserted, Skipped

\* Every step keeps the types.
LEMMA NextTypeOK == TypeOK /\ [Steps]_vars => TypeOK'
<1> SUFFICES ASSUME TypeOK, [Steps]_vars PROVE TypeOK'
  OBVIOUS
<1> USE DEF row, local, history
<1>1. ASSUME NEW t \in Txs, NEW l \in Levels, BankChanges(t, l) PROVE TypeOK'
  <2>1. Latest' = Latest + 1 /\ Latest' \in 1 .. (MaxEvents + 1)
        /\ bank' \in Seq([Txs -> Levels])
    BY <1>1, BankGrows
  <2> QED BY <1>1, <2>1 DEF BankChanges, TypeOK
<1>2. CASE RefreshAccounts \/ CreateRow
  BY <1>2 DEF RefreshAccounts, CreateRow, TypeOK, Latest
<1>3. CASE Tick \/ TimePasses
  <2>1. PICK d \in Nat : Elapse(d)
    BY <1>3 DEF Tick, TimePasses, TypeOK
  <2> QED BY <2>1 DEF Elapse, Left, TypeOK, Latest
<1>4. ASSUME NEW w \in Workers, SeeFree(w) \/ InsertCollides(w) \/ ReadCursor(w) \/ Throw(w)
                               \/ ReleaseUnanswered(w)
      PROVE  TypeOK'
  <2>1. CASE SeeFree(w)
    BY <2>1 DEF SeeFree, TypeOK, Latest, SyncPc
  <2>2. CASE InsertCollides(w)
    BY <2>2 DEF InsertCollides, TypeOK, Latest, SyncPc
  <2>3. CASE ReadCursor(w)
    BY <2>3 DEF ReadCursor, TypeOK, Latest, SyncPc
  <2>4. CASE Throw(w)
    BY <2>4 DEF Throw, TypeOK, Latest, SyncPc
  <2>5. CASE ReleaseUnanswered(w)
    BY <2>5 DEF ReleaseUnanswered, TypeOK, Latest, SyncPc
  <2> QED BY <1>4, <2>1, <2>2, <2>3, <2>4, <2>5
<1>5. ASSUME NEW w \in Workers, TakeLock(w) PROVE TypeOK'
  <2>1. window' \in BOOLEAN /\ overlap' \in BOOLEAN
    BY <1>5, Zenon DEF TakeLock
  <2> QED BY <1>5, <2>1 DEF TakeLock, TypeOK, Latest, SyncPc
<1>10. ASSUME NEW w \in Workers,
             ReleaseSuccess(w) \/ ReleaseFailure(w) \/ Crash(w) \/ Vanish(w)
      PROVE  TypeOK'
  <2>1. /\ Leave(w)
        /\ hasRow' = hasRow
        /\ lockLeft' \in {0, lockLeft}
        /\ coolLeft' \in {0, CooldownSeconds, coolLeft}
        /\ \/ faults' = faults \/ (faults' = faults + 1 /\ faults < MaxFaults)
           \/ faults' \in 0 .. MaxFaults
    BY <1>10 DEF ReleaseSuccess, ReleaseFailure, Crash, Vanish
  <2>2. hasRow' \in BOOLEAN
    BY <2>1, Zenon DEF TypeOK
  <2>4. window' = window \/ window' \in BOOLEAN
    BY <1>10, Zenon DEF ReleaseSuccess, ReleaseFailure, Crash, Vanish
  <2>5. window' \in BOOLEAN
    BY <2>4, Zenon DEF TypeOK
  <2>3. /\ lockLeft' \in 0 .. LockSeconds
        /\ coolLeft' \in 0 .. CooldownSeconds
        /\ faults' \in 0 .. MaxFaults
    BY <2>1 DEF TypeOK
  <2> QED BY <2>1, <2>2, <2>3, <2>5, LeaveTypeOK
<1>6. ASSUME NEW w \in Workers, FetchPages(w) PROVE TypeOK'
  <2>1. Latest \in 1 .. Latest
    BY DEF TypeOK
  <2>2. [t \in Txs |-> IF t \in Updated(base[w], Latest) THEN bank[Latest][t] ELSE 0]
          \in [Txs -> {0} \union Versions]
    BY DEF Updated
  <2>3. Removed(base[w], Latest) \subseteq Txs
    BY DEF Removed
  <2> QED BY <1>6, <2>1, <2>2, <2>3 DEF FetchPages, TypeOK, Latest, SyncPc
<1>7. ASSUME NEW w \in Workers, FetchWindow(w) PROVE TypeOK'
  <2>1. [t \in Txs |-> IF t \in Recent /\ bank[Latest][t] \in Versions
                       THEN bank[Latest][t] ELSE upserts[w][t]]
          \in [Txs -> {0} \union Versions]
    BY DEF TypeOK
  <2> QED BY <1>7, <2>1 DEF FetchWindow, TypeOK, Latest, SyncPc
<1>8. ASSUME NEW w \in Workers,
             ApplyAtomic(w) \/ ApplyUpserts(w) \/ ApplyDeletions(w) \/ AdvanceCursor(w)
      PROVE  TypeOK'
  <2>1. CASE ApplyAtomic(w)
    <3>1. gap' \in BOOLEAN
      BY <2>1, Zenon DEF ApplyAtomic
    <3>2. missed' \subseteq Txs /\ store' \in [Txs -> {0} \union Versions]
      BY <2>1, ApplyTypeOK DEF ApplyAtomic
    <3> QED BY <2>1, <3>1, <3>2 DEF ApplyAtomic, TypeOK, Latest, SyncPc
  <2>2. CASE ApplyUpserts(w)
    BY <2>2, ApplyTypeOK DEF ApplyUpserts, TypeOK, Latest, SyncPc
  <2>3. CASE ApplyDeletions(w)
    BY <2>3, ApplyTypeOK DEF ApplyDeletions, TypeOK, Latest, SyncPc
  <2>4. CASE AdvanceCursor(w)
    <3>1. gap' \in BOOLEAN
      BY <2>4, Zenon DEF AdvanceCursor
    <3> QED BY <2>4, <3>1 DEF AdvanceCursor, TypeOK, Latest, SyncPc
  <2> QED BY <1>8, <2>1, <2>2, <2>3, <2>4
<1>9. CASE UNCHANGED vars \/ Elsewhere
  BY <1>9 DEF vars, Elsewhere, TypeOK, Latest
<1> QED
  BY <1>1, <1>2, <1>3, <1>4, <1>5, <1>6, <1>7, <1>8, <1>9, <1>10
  DEF Steps, Next, SyncStep

\* The row, the cursor, the stored transactions and the memory of the syncs
\* keep their types; the cursor is a position the bank has reached.
THEOREM TypeInvariant == Spec => []TypeOK
  BY InitTypeOK, NextTypeOK, NextSteps, PTL DEF Spec

-----------------------------------------------------------------------------
(***************************************************************************)
(* The lock.                                                               *)
(***************************************************************************)

\* Without an overlap one sync runs at a time ...
AtMostOne == ~overlap => \A v, w \in Workers : Syncing(v) /\ Syncing(w) => v = w

\* ... and without a window a sync that runs has the lock.
LockHeld == ~window => \A w \in Workers : Syncing(w) => lockLeft # 0

LockInv == AtMostOne /\ LockHeld /\ OverlapNeedsWindow

\* The steps of a sync between the lock and its release.
MiddleStep(w) ==
  \/ ReadCursor(w) \/ FetchPages(w) \/ FetchWindow(w)
  \/ ApplyAtomic(w) \/ ApplyUpserts(w) \/ ApplyDeletions(w) \/ AdvanceCursor(w)
  \/ Throw(w)

\* The steps that end a sync, or the attempt to get the lock.
EndStep(w) ==
  \/ ReleaseSuccess(w) \/ ReleaseFailure(w) \/ ReleaseUnanswered(w)
  \/ InsertCollides(w) \/ Crash(w) \/ Vanish(w)

\* The steps that are no worker's.
OutsideStep ==
  \/ \E t \in Txs, l \in Levels : BankChanges(t, l)
  \/ RefreshAccounts
  \/ CreateRow
  \/ Elsewhere
  \/ UNCHANGED vars

\* A step is of one of these kinds.
LEMMA StepKinds ==
  ASSUME TypeOK, [Steps]_vars
  PROVE  \/ OutsideStep \/ TimePasses
         \/ \E w \in Workers : SeeFree(w) \/ TakeLock(w) \/ MiddleStep(w) \/ EndStep(w)
<1>1. Tick => TimePasses
  BY DEF Tick, TimePasses, TypeOK
<1> QED BY <1>1 DEF Steps, Next, SyncStep, OutsideStep, MiddleStep, EndStep

\* In the middle of a sync only its own worker moves, and it keeps the lock.
LEMMA MiddleFacts ==
  ASSUME TypeOK, NEW w \in Workers, MiddleStep(w)
  PROVE  /\ Syncing(w) /\ Syncing(w)'
         /\ \A v \in Workers \ {w} : pc'[v] = pc[v]
         /\ UNCHANGED <<lockLeft, window, overlap>>
  BY DEF MiddleStep, ReadCursor, FetchPages, FetchWindow, ApplyAtomic, ApplyUpserts,
         ApplyDeletions, AdvanceCursor, Throw, TypeOK, Syncing, SyncPc, row, history

\* At its end its worker syncs no more and the others are where they were.  Who
\* clears the lock is a worker that synced, or one whose release was not answered:
\* what that takes from another is a window.
LEMMA EndFacts ==
  ASSUME TypeOK, NEW w \in Workers, EndStep(w)
  PROVE  /\ ~Syncing(w)'
         /\ \A v \in Workers \ {w} : pc'[v] = pc[v]
         /\ UNCHANGED overlap /\ (window => window')
         /\ \/ lockLeft' = lockLeft \/ Syncing(w) \/ window'
            \/ \A v \in Workers \ {w} : ~Syncing(v)
  BY DEF EndStep, ReleaseSuccess, ReleaseFailure, ReleaseUnanswered, InsertCollides, Crash,
         Vanish, Leave, TypeOK, Syncing, SyncPc, row, history

\* Every step keeps the invariant of the lock.
LEMMA NextLockInv == TypeOK /\ LockInv /\ [Steps]_vars => LockInv'
<1> SUFFICES ASSUME TypeOK, LockInv, [Steps]_vars PROVE LockInv'
  OBVIOUS
<1> USE DEF LockInv, AtMostOne, LockHeld, OverlapNeedsWindow
<1>1. CASE OutsideStep
  <2>1. UNCHANGED <<pc, lockLeft, window, overlap>>
    BY <1>1
    DEF OutsideStep, BankChanges, RefreshAccounts, CreateRow, Elsewhere, vars, row, history
  <2> QED BY <2>1 DEF Syncing
<1>2. CASE TimePasses
  <2>1. PICK d \in Nat : Elapse(d)
    BY <1>2 DEF TimePasses
  <2>2. UNCHANGED <<pc, overlap>> /\ (window => window')
    BY <2>1 DEF Elapse
  <2>3. AtMostOne' /\ OverlapNeedsWindow'
    BY <2>2 DEF Syncing
  <2>4. ASSUME ~window', NEW w \in Workers, Syncing(w)' PROVE lockLeft' # 0
    BY <2>1, <2>2, <2>4 DEF Elapse, Syncing
  <2> QED BY <2>3, <2>4
<1>3. ASSUME NEW w \in Workers, SeeFree(w) PROVE LockInv'
  BY <1>3 DEF SeeFree, TypeOK, Syncing, SyncPc, row, history
<1>4. ASSUME NEW w \in Workers, TakeLock(w) PROVE LockInv'
  <2>1. /\ \A v \in Workers \ {w} : pc'[v] = pc[v]
        /\ (overlap \/ \E v \in Workers \ {w} : Syncing(v)) <=> overlap'
        /\ (window \/ lockLeft # 0 \/ lease[w] = 0) <=> window'
        /\ lockLeft' = lease[w]
    BY <1>4 DEF TakeLock, TypeOK
  <2>2. AtMostOne'
    BY <2>1 DEF Syncing
  <2>3. LockHeld'
    BY <2>1
  <2>4. OverlapNeedsWindow'
    BY <2>1
  <2> QED BY <2>2, <2>3, <2>4
<1>5. ASSUME NEW w \in Workers, MiddleStep(w) PROVE LockInv'
  <2>1. \A v \in Workers : Syncing(v)' => Syncing(v)
    BY <1>5, MiddleFacts DEF Syncing
  <2> QED BY <1>5, <2>1, MiddleFacts
<1>6. ASSUME NEW w \in Workers, EndStep(w) PROVE LockInv'
  <2>1. \A v \in Workers : Syncing(v)' => Syncing(v) /\ v # w
    BY <1>6, EndFacts DEF Syncing
  <2>2. AtMostOne' /\ OverlapNeedsWindow'
    BY <1>6, <2>1, EndFacts
  <2>3. ASSUME ~window', NEW v \in Workers, Syncing(v)' PROVE lockLeft' # 0
    BY <1>6, <2>1, <2>3, EndFacts
  <2> QED BY <2>2, <2>3
<1> QED BY <1>1, <1>2, <1>3, <1>4, <1>5, <1>6, StepKinds

\* The lock, at first
LEMMA InitLockInv == Init => LockInv
  BY DEF Init, LockInv, AtMostOne, LockHeld, OverlapNeedsWindow, Syncing, SyncPc

\* and always.
LEMMA LockInvHolds == Spec => []LockInv
  BY InitLockInv, NextLockInv, NextSteps, TypeInvariant, PTL DEF Spec

\* Two syncs of an item overlap only through an expired lock, between a look at
\* the row and the update, or through the second release of a sync whose first
\* was not answered: acquirePlaidItemSyncLock and the releases of the workflow
\* let them overlap in no other way.
THEOREM OverlapWindow == Spec => []OverlapNeedsWindow
<1>1. LockInv => OverlapNeedsWindow
  BY DEF LockInv
<1> QED BY <1>1, LockInvHolds, PTL

-----------------------------------------------------------------------------
(***************************************************************************)
(* The cursor.                                                             *)
(***************************************************************************)

\* A sync that has read the cursor and not yet stored one, and of those the
\* ones that have Plaid's answer.
HasBase(w) == pc[w] \in {"fetching", "fetched", "applying", "deleting", "advancing"}
HasNews(w) == pc[w] \in {"fetched", "applying", "deleting", "advancing"}

\* Without an overlap nobody else moves the cursor under a sync, and what Plaid
\* answers is never behind what it was asked.
BaseIsCursor == ~overlap => \A w \in Workers : HasBase(w) => base[w] = cursor
NewsAhead == \A w \in Workers : HasNews(w) => base[w] <= next[w]

CursorInv == BaseIsCursor /\ NewsAhead /\ GapNeedsOverlap

\* Steps that leave the cursor and what the syncs know of it alone.
LEMMA SameCursor ==
  ASSUME CursorInv,
         UNCHANGED <<cursor, gap>>, overlap => overlap',
         \A w \in Workers : HasBase(w)' => HasBase(w) /\ base'[w] = base[w],
         \A w \in Workers : HasNews(w)' => HasNews(w) /\ next'[w] = next[w]
  PROVE  CursorInv'
<1>1. \A w \in Workers : HasNews(w) => HasBase(w)
  BY DEF HasNews, HasBase
<1>2. BaseIsCursor'
  BY DEF CursorInv, BaseIsCursor
<1>3. NewsAhead'
  <2>1. \A w \in Workers : HasNews(w)' => HasBase(w)'
    BY DEF HasNews, HasBase
  <2> QED BY <2>1 DEF CursorInv, NewsAhead
<1>4. GapNeedsOverlap'
  BY DEF CursorInv, GapNeedsOverlap
<1> QED BY <1>2, <1>3, <1>4 DEF CursorInv

\* A sync that stores its cursor.
LEMMA StoreCursor ==
  ASSUME TypeOK, LockInv, CursorInv, NEW w \in Workers,
         HasNews(w), pc' = [pc EXCEPT ![w] = "applied"],
         cursor' \in {next[w], cursor},
         gap' <=> (gap \/ base[w] > cursor),
         UNCHANGED <<base, next, overlap>>
  PROVE  CursorInv' /\ (overlap \/ cursor' >= cursor)
<1>1. ASSUME ~overlap
      PROVE  base[w] = cursor /\ \A v \in Workers \ {w} : ~HasBase(v)
  BY <1>1 DEF CursorInv, BaseIsCursor, LockInv, AtMostOne, HasBase, HasNews, Syncing, SyncPc
<1>2. ASSUME NEW v \in Workers, HasBase(v)'
      PROVE  v # w /\ HasBase(v)
  BY <1>2 DEF HasBase, TypeOK
<1>3. BaseIsCursor'
  BY <1>1, <1>2 DEF BaseIsCursor
<1>4. NewsAhead'
  BY DEF CursorInv, NewsAhead, HasNews, TypeOK
<1>5. base[w] \in Nat /\ cursor \in Nat /\ next[w] \in Nat /\ base[w] <= next[w]
  BY DEF CursorInv, NewsAhead, TypeOK
<1>6. GapNeedsOverlap'
  BY <1>1, <1>5 DEF CursorInv, GapNeedsOverlap
<1> QED BY <1>1, <1>3, <1>4, <1>5, <1>6 DEF CursorInv

\* Every step keeps the invariant, and moves the cursor backwards only after
\* syncs overlapped.
LEMMA NextCursorInv ==
  ASSUME TypeOK, LockInv, CursorInv, [Steps]_vars
  PROVE  CursorInv' /\ (overlap \/ cursor' >= cursor)
<1>1. cursor \in Nat
  BY DEF TypeOK
<1>2. CASE OutsideStep \/ TimePasses
  <2>1. UNCHANGED <<pc, cursor, base, next, gap, overlap>>
    BY <1>2 DEF OutsideStep, TimePasses, Elapse, BankChanges, RefreshAccounts, CreateRow,
                Elsewhere, vars, local, history
  <2> QED BY <1>1, <2>1, SameCursor DEF HasBase, HasNews
<1>3. ASSUME NEW w \in Workers, SeeFree(w) \/ FetchWindow(w) \/ Throw(w) \/ InsertCollides(w)
                                \/ ApplyUpserts(w) \/ ApplyDeletions(w)
                                \/ ReleaseUnanswered(w)
      PROVE  CursorInv' /\ cursor' = cursor
  <2>1. UNCHANGED <<cursor, base, next, gap, overlap>>
    BY <1>3 DEF SeeFree, FetchWindow, Throw, InsertCollides, ApplyUpserts, ApplyDeletions,
                ReleaseUnanswered,
                local, history
  <2>2. \A v \in Workers : (HasBase(v)' => HasBase(v)) /\ (HasNews(v)' => HasNews(v))
    BY <1>3 DEF SeeFree, FetchWindow, Throw, InsertCollides, ApplyUpserts, ApplyDeletions,
                ReleaseUnanswered,
                HasBase, HasNews, TypeOK
  <2> QED BY <2>1, <2>2, SameCursor
<1>4. ASSUME NEW w \in Workers, TakeLock(w) PROVE CursorInv' /\ cursor' = cursor
  <2>1. UNCHANGED <<cursor, base, next, gap>> /\ (overlap => overlap')
    BY <1>4 DEF TakeLock
  <2>2. \A v \in Workers : (HasBase(v)' => HasBase(v)) /\ (HasNews(v)' => HasNews(v))
    BY <1>4 DEF TakeLock, HasBase, HasNews, TypeOK
  <2> QED BY <2>1, <2>2, SameCursor
<1>5. ASSUME NEW w \in Workers,
             ReleaseSuccess(w) \/ ReleaseFailure(w) \/ Crash(w) \/ Vanish(w)
      PROVE  CursorInv' /\ cursor' = cursor
  <2>1. Leave(w)
    BY <1>5 DEF ReleaseSuccess, ReleaseFailure, Crash, Vanish
  <2>2. UNCHANGED <<cursor, gap, overlap>>
    BY <2>1 DEF Leave
  <2>3. \A v \in Workers : (HasBase(v)' => HasBase(v) /\ base'[v] = base[v])
                           /\ (HasNews(v)' => HasNews(v) /\ next'[v] = next[v])
    BY <2>1 DEF Leave, HasBase, HasNews, TypeOK
  <2> QED BY <2>2, <2>3, SameCursor
<1>6. ASSUME NEW w \in Workers, ReadCursor(w) PROVE CursorInv' /\ cursor' = cursor
  <2>1. /\ UNCHANGED <<cursor, next, gap, overlap>>
        /\ base'[w] = cursor /\ pc'[w] = "fetching"
        /\ \A v \in Workers \ {w} : base'[v] = base[v] /\ pc'[v] = pc[v]
    BY <1>6 DEF ReadCursor, TypeOK, history
  <2>2. BaseIsCursor'
    BY <2>1 DEF CursorInv, BaseIsCursor, HasBase
  <2>3. NewsAhead' /\ GapNeedsOverlap'
    BY <2>1 DEF CursorInv, NewsAhead, GapNeedsOverlap, HasNews
  <2> QED BY <2>1, <2>2, <2>3 DEF CursorInv
<1>7. ASSUME NEW w \in Workers, FetchPages(w) PROVE CursorInv' /\ cursor' = cursor
  <2>1. /\ UNCHANGED <<cursor, base, gap, overlap>>
        /\ next'[w] = Latest /\ pc[w] = "fetching" /\ pc'[w] = "fetched"
        /\ \A v \in Workers \ {w} : next'[v] = next[v] /\ pc'[v] = pc[v]
    BY <1>7 DEF FetchPages, TypeOK, history
  <2>2. base[w] <= Latest
    BY DEF TypeOK
  <2>3. BaseIsCursor'
    BY <2>1 DEF CursorInv, BaseIsCursor, HasBase
  <2>4. NewsAhead' /\ GapNeedsOverlap'
    BY <2>1, <2>2 DEF CursorInv, NewsAhead, GapNeedsOverlap, HasNews
  <2> QED BY <2>1, <2>3, <2>4 DEF CursorInv
<1>8. ASSUME NEW w \in Workers, ApplyAtomic(w) \/ AdvanceCursor(w)
      PROVE  CursorInv' /\ (overlap \/ cursor' >= cursor)
  <2>1. /\ HasNews(w)
        /\ pc' = [pc EXCEPT ![w] = "applied"]
        /\ cursor' \in {next[w], cursor}
        /\ gap' <=> (gap \/ base[w] > cursor)
        /\ UNCHANGED <<base, next, overlap>>
    BY <1>8 DEF ApplyAtomic, AdvanceCursor, HasNews, local
  <2> QED BY <2>1, StoreCursor
<1> QED
  BY <1>1, <1>2, <1>3, <1>4, <1>5, <1>6, <1>7, <1>8, StepKinds DEF MiddleStep, EndStep

\* The cursor, at first
LEMMA InitCursorInv == Init => CursorInv
  BY DEF Init, CursorInv, BaseIsCursor, NewsAhead, GapNeedsOverlap, HasBase, HasNews

\* and always.
LEMMA CursorInvHolds == Spec => []CursorInv
<1>1. TypeOK /\ LockInv /\ CursorInv /\ [Next]_vars => CursorInv'
  BY NextCursorInv, NextSteps
<1> QED BY <1>1, InitCursorInv, LockInvHolds, TypeInvariant, PTL DEF Spec

\* Updates are applied from a cursor ahead of the stored one only after two
\* syncs of the item overlapped.
THEOREM GapOverlap == Spec => []GapNeedsOverlap
<1>1. CursorInv => GapNeedsOverlap
  BY DEF CursorInv
<1> QED BY <1>1, CursorInvHolds, PTL

\* As long as no two syncs of the item overlapped its cursor moves forward
\* only, through failures, crashes and either way of applying the updates.
THEOREM CursorMonotone == Spec => CursorAdvances
<1>1. TypeOK /\ LockInv /\ CursorInv /\ [Next]_vars => [overlap \/ cursor' >= cursor]_vars
  BY NextCursorInv, NextSteps
<1> QED
  BY <1>1, CursorInvHolds, LockInvHolds, TypeInvariant, PTL DEF Spec, CursorAdvances

-----------------------------------------------------------------------------
(***************************************************************************)
(* What Plaid tells a sync.                                                *)
(***************************************************************************)

\* The level of a transaction only rises.
Monotone ==
  \A t \in Txs : \A m, n \in 1 .. Latest : m <= n => bank[m][t] <= bank[n][t]

\* What a sync removes is gone at the cursor it was given; what it stores is a
\* version the bank showed there or later; what it leaves alone is at that
\* cursor what it was at the cursor it asked from.
NewsTrue ==
  \A w \in Workers : HasNews(w) =>
    \A t \in Txs :
      /\ t \in removed[w] => bank[next[w]][t] = Gone
      /\ upserts[w][t] # 0 => \E m \in next[w] .. Latest : upserts[w][t] = bank[m][t]
      /\ t \notin removed[w] /\ upserts[w][t] = 0 => bank[next[w]][t] = bank[base[w]][t]

\* With the stored procedure there are no separate deletions and cursor.
AtomicPc == atomic => \A w \in Workers : pc[w] \notin {"deleting", "advancing"}

NewsInv == Monotone /\ NewsTrue /\ AtomicPc

\* Steps that leave the history and the news of the syncs alone.
LEMMA SameNews ==
  ASSUME NewsInv, UNCHANGED <<bank, atomic>>,
         \A w \in Workers : HasNews(w)' =>
           /\ HasNews(w)
           /\ base'[w] = base[w] /\ next'[w] = next[w]
           /\ upserts'[w] = upserts[w] /\ removed'[w] = removed[w],
         atomic => \A w \in Workers : pc'[w] \in {"deleting", "advancing"} => pc'[w] = pc[w]
  PROVE  NewsInv'
<1>1. Monotone'
  BY DEF NewsInv, Monotone, Latest
<1>2. NewsTrue'
  BY DEF NewsInv, NewsTrue, Latest
<1>3. AtomicPc'
  BY DEF NewsInv, AtomicPc
<1> QED BY <1>1, <1>2, <1>3 DEF NewsInv

\* The bank's changes keep what is known of the earlier positions.
LEMMA BankNews ==
  ASSUME TypeOK, NewsInv, NEW t \in Txs, NEW l \in Levels, BankChanges(t, l)
  PROVE  NewsInv'
<1>1. /\ Latest \in Nat /\ Latest >= 1 /\ Latest' = Latest + 1
      /\ \A i \in 1 .. Latest : bank'[i] = bank[i]
      /\ bank'[Latest'] = [bank[Latest] EXCEPT ![t] = l]
  BY BankGrows DEF TypeOK
<1>2. UNCHANGED <<pc, atomic, base, next, upserts, removed>>
  BY DEF BankChanges, local
<1>3. bank[Latest] \in [Txs -> Levels]
  BY <1>1, BankAt
<1>4. bank[Latest][t] \in Nat /\ l \in Nat /\ bank[Latest][t] <= l
  BY <1>3 DEF BankChanges, Levels, Versions
<1>5. Monotone'
  <2> SUFFICES ASSUME NEW u \in Txs, NEW m \in 1 .. Latest', NEW n \in 1 .. Latest', m <= n
               PROVE  bank'[m][u] <= bank'[n][u]
    BY DEF Monotone
  <2>1. CASE n <= Latest
    BY <1>1, <2>1 DEF NewsInv, Monotone
  <2>2. ASSUME NEW i \in 1 .. Latest PROVE bank[i][u] <= bank'[Latest'][u]
    <3>1. bank[i][u] <= bank[Latest][u] /\ bank[i][u] \in Nat /\ bank[Latest][u] \in Nat
      BY <1>1, <1>3, BankAt DEF NewsInv, Monotone, Levels
    <3>2. bank'[Latest'][u] = IF u = t THEN l ELSE bank[Latest][u]
      BY <1>1, <1>3
    <3> QED BY <1>4, <3>1, <3>2
  <2>3. CASE n = Latest' /\ m <= Latest
    <3>1. m \in 1 .. Latest
      BY <1>1, <2>3
    <3>2. bank[m][u] <= bank'[Latest'][u]
      BY <2>2, <3>1
    <3>3. bank'[m] = bank[m]
      BY <1>1, <3>1
    <3> QED BY <2>3, <3>2, <3>3
  <2>4. CASE n = Latest' /\ m = Latest'
    <3>1. bank'[Latest'][u] \in Nat
      BY <1>1, <1>3, <1>4 DEF Levels
    <3> QED BY <2>4, <3>1
  <2> QED BY <1>1, <2>1, <2>3, <2>4
<1>6. NewsTrue'
  <2> SUFFICES ASSUME NEW w \in Workers, HasNews(w)', NEW u \in Txs
               PROVE  /\ u \in removed[w] => bank'[next[w]][u] = Gone
                      /\ upserts[w][u] # 0 =>
                           \E m \in next[w] .. Latest' : upserts[w][u] = bank'[m][u]
                      /\ u \notin removed[w] /\ upserts[w][u] = 0 =>
                           bank'[next[w]][u] = bank'[base[w]][u]
    BY <1>2 DEF NewsTrue
  <2>1. HasNews(w) /\ next[w] \in 1 .. Latest /\ base[w] \in 1 .. Latest
    BY <1>2 DEF HasNews, TypeOK
  <2>2. bank'[next[w]] = bank[next[w]] /\ bank'[base[w]] = bank[base[w]]
    BY <1>1, <2>1
  <2>3. ASSUME upserts[w][u] # 0
        PROVE  \E m \in next[w] .. Latest' : upserts[w][u] = bank'[m][u]
    <3>1. PICK m \in next[w] .. Latest : upserts[w][u] = bank[m][u]
      BY <2>1, <2>3 DEF NewsInv, NewsTrue
    <3> QED BY <1>1, <2>1, <3>1
  <2> QED BY <2>1, <2>2, <2>3 DEF NewsInv, NewsTrue
<1>7. AtomicPc'
  BY <1>2 DEF NewsInv, AtomicPc
<1> QED BY <1>5, <1>6, <1>7 DEF NewsInv

\* The answers of Plaid are what NewsTrue says.
LEMMA FetchNews ==
  ASSUME TypeOK, NewsInv, NEW w \in Workers, FetchPages(w) \/ FetchWindow(w)
  PROVE  NewsInv'
<1>1. Latest \in 1 .. Latest /\ bank[Latest] \in [Txs -> Levels]
  BY BankAt DEF TypeOK
<1>2. UNCHANGED <<bank, atomic, base>> /\ pc'[w] \in {"fetched", "applying"}
      /\ \A v \in Workers \ {w} : /\ pc'[v] = pc[v] /\ next'[v] = next[v]
                                  /\ upserts'[v] = upserts[v] /\ removed'[v] = removed[v]
  BY DEF FetchPages, FetchWindow, TypeOK
<1>3. ASSUME NEW u \in Txs
      PROVE  /\ u \in removed'[w] => bank[next'[w]][u] = Gone
             /\ upserts'[w][u] # 0 =>
                  \E m \in next'[w] .. Latest : upserts'[w][u] = bank[m][u]
             /\ u \notin removed'[w] /\ upserts'[w][u] = 0 =>
                  bank[next'[w]][u] = bank[base[w]][u]
  <2>1. CASE FetchPages(w)
    <3>1. /\ next'[w] = Latest
          /\ removed'[w] = Removed(base[w], Latest)
          /\ upserts'[w][u] = IF u \in Updated(base[w], Latest) THEN bank[Latest][u] ELSE 0
      BY <2>1 DEF FetchPages, TypeOK
    <3>2. base[w] \in 1 .. Latest /\ bank[base[w]] \in [Txs -> Levels]
      BY BankAt DEF TypeOK
    <3>3. bank[base[w]][u] <= bank[Latest][u]
      BY <1>1, <3>2 DEF NewsInv, Monotone
    <3>4. bank[Latest][u] \in Versions \/ bank[Latest][u] = Gone \/ bank[Latest][u] = 0
      BY <1>1 DEF Levels, Versions
    <3>5. bank[Latest][u] = 0 => bank[base[w]][u] = 0
      BY <3>2, <3>3 DEF Levels
    <3> QED BY <1>1, <3>1, <3>4, <3>5 DEF Updated, Removed, Versions
  <2>2. CASE FetchWindow(w)
    <3>1. /\ HasNews(w) /\ next'[w] = next[w] /\ removed'[w] = removed[w]
          /\ next[w] \in 1 .. Latest
          /\ upserts'[w][u] = IF u \in Recent /\ bank[Latest][u] \in Versions
                              THEN bank[Latest][u] ELSE upserts[w][u]
      BY <2>2 DEF FetchWindow, HasNews, TypeOK
    <3>2. CASE u \in Recent /\ bank[Latest][u] \in Versions
      BY <1>1, <3>1, <3>2 DEF NewsInv, NewsTrue, Versions
    <3>3. CASE ~(u \in Recent /\ bank[Latest][u] \in Versions)
      BY <3>1, <3>3 DEF NewsInv, NewsTrue
    <3> QED BY <3>2, <3>3
  <2> QED BY <2>1, <2>2
<1>4. Monotone' /\ AtomicPc'
  BY <1>2 DEF NewsInv, Monotone, AtomicPc, Latest
<1>5. NewsTrue'
  <2> SUFFICES ASSUME NEW v \in Workers, HasNews(v)', NEW u \in Txs
               PROVE  /\ u \in removed'[v] => bank[next'[v]][u] = Gone
                      /\ upserts'[v][u] # 0 =>
                           \E m \in next'[v] .. Latest : upserts'[v][u] = bank[m][u]
                      /\ u \notin removed'[v] /\ upserts'[v][u] = 0 =>
                           bank[next'[v]][u] = bank[base[v]][u]
    BY <1>2 DEF NewsTrue, Latest
  <2>1. CASE v = w
    BY <1>3, <2>1
  <2>2. CASE v # w
    BY <1>2, <2>2 DEF NewsInv, NewsTrue, HasNews
  <2> QED BY <2>1, <2>2
<1> QED BY <1>4, <1>5 DEF NewsInv

\* Every step keeps what is known of the news.
LEMMA NextNewsInv == TypeOK /\ NewsInv /\ [Steps]_vars => NewsInv'
<1> SUFFICES ASSUME TypeOK, NewsInv, [Steps]_vars PROVE NewsInv'
  OBVIOUS
<1>1. ASSUME NEW t \in Txs, NEW l \in Levels, BankChanges(t, l) PROVE NewsInv'
  BY <1>1, BankNews
<1>2. CASE RefreshAccounts \/ CreateRow \/ Tick \/ TimePasses \/ Elsewhere \/ UNCHANGED vars
  <2>1. UNCHANGED <<bank, atomic, pc, base, next, upserts, removed>>
    BY <1>2 DEF Tick, TimePasses, Elapse, RefreshAccounts, CreateRow, Elsewhere, vars, local
  <2> QED BY <2>1, SameNews DEF HasNews
<1>3. ASSUME NEW w \in Workers, FetchPages(w) \/ FetchWindow(w) PROVE NewsInv'
  BY <1>3, FetchNews
<1>4. ASSUME NEW w \in Workers,
             \/ SeeFree(w) \/ TakeLock(w) \/ InsertCollides(w) \/ ReadCursor(w)
             \/ Throw(w) \/ ReleaseUnanswered(w)
      PROVE  NewsInv'
  <2>1. /\ UNCHANGED <<bank, atomic, next, upserts, removed>>
        /\ pc'[w] \in {"locking", "locked", "idle", "fetching", "failing", "unanswered"}
        /\ \A v \in Workers \ {w} : pc'[v] = pc[v] /\ base'[v] = base[v]
    BY <1>4 DEF SeeFree, TakeLock, InsertCollides, ReadCursor, Throw, ReleaseUnanswered,
                TypeOK, local
  <2> QED BY <2>1, SameNews DEF HasNews
<1>5. ASSUME NEW w \in Workers,
             ReleaseSuccess(w) \/ ReleaseFailure(w) \/ Crash(w) \/ Vanish(w)
      PROVE  NewsInv'
  <2>1. Leave(w)
    BY <1>5 DEF ReleaseSuccess, ReleaseFailure, Crash, Vanish
  <2>2. /\ UNCHANGED <<bank, atomic>> /\ pc'[w] = "idle"
        /\ \A v \in Workers \ {w} : /\ pc'[v] = pc[v]
                                    /\ base'[v] = base[v] /\ next'[v] = next[v]
                                    /\ upserts'[v] = upserts[v] /\ removed'[v] = removed[v]
    BY <2>1 DEF Leave, TypeOK
  <2> QED BY <2>2, SameNews DEF HasNews
<1>6. ASSUME NEW w \in Workers,
             ApplyAtomic(w) \/ ApplyUpserts(w) \/ ApplyDeletions(w) \/ AdvanceCursor(w)
      PROVE  NewsInv'
  <2>1. /\ UNCHANGED <<bank, atomic, base, next, upserts, removed>>
        /\ HasNews(w) /\ (atomic => pc'[w] = "applied")
        /\ \A v \in Workers \ {w} : pc'[v] = pc[v]
    BY <1>6 DEF ApplyAtomic, ApplyUpserts, ApplyDeletions, AdvanceCursor, NewsInv, AtomicPc,
                HasNews, TypeOK, local
  <2> QED BY <2>1, SameNews DEF HasNews
<1> QED
  BY <1>1, <1>2, <1>3, <1>4, <1>5, <1>6 DEF Steps, Next, SyncStep

\* What Plaid tells, at first
LEMMA InitNewsInv == Init => NewsInv
  BY DEF Init, NewsInv, Monotone, NewsTrue, AtomicPc, HasNews, Latest

\* and always.
LEMMA NewsInvHolds == Spec => []NewsInv
  BY InitNewsInv, NextNewsInv, NextSteps, TypeInvariant, PTL DEF Spec

-----------------------------------------------------------------------------
(***************************************************************************)
(* What the database shows.                                                *)
(***************************************************************************)

\* Transaction t is stored as the bank showed it at position c or later.
Since(c, t) == \E n \in c .. Latest : store[t] = Shown(bank[n][t])

StoreInv ==
  /\ NothingSkipped
  /\ NothingSkippedStepwise
  /\ ~overlap => \A w \in Workers : pc[w] = "deleting" =>
       \A t \in Txs \ (missed \union removed[w]) : Since(next[w], t)
  /\ ~overlap => \A w \in Workers : pc[w] = "advancing" =>
       \A t \in Txs \ missed : Since(next[w], t)

\* What a sync leaves alone is as good at its new cursor as at the old one.
LEMMA Untouched ==
  ASSUME TypeOK, NewsInv, NEW w \in Workers, HasNews(w), base[w] <= next[w],
         base[w] <= cursor, NEW t \in Txs, NeverBehind(t),
         t \notin removed[w], upserts[w][t] = 0
  PROVE  Since(next[w], t)
<1>1. /\ base[w] \in 1 .. Latest /\ next[w] \in 1 .. Latest /\ cursor \in 1 .. Latest
      /\ Latest \in Nat
  BY DEF TypeOK
<1>2. bank[next[w]][t] = bank[base[w]][t]
  BY DEF NewsInv, NewsTrue
<1>3. PICK n \in cursor .. Latest : store[t] = Shown(bank[n][t])
  BY DEF NeverBehind
<1>4. CASE n >= next[w]
  BY <1>1, <1>3, <1>4 DEF Since
<1>5. CASE n < next[w]
  <2>1. bank[base[w]][t] <= bank[n][t] /\ bank[n][t] <= bank[next[w]][t]
    BY <1>1, <1>5 DEF NewsInv, Monotone
  <2>2. bank[base[w]][t] \in Nat /\ bank[n][t] \in Nat
    BY <1>1, BankAt DEF Levels
  <2>3. bank[n][t] = bank[next[w]][t]
    BY <1>2, <2>1, <2>2
  <2> QED BY <1>1, <1>3, <2>3 DEF Since
<1> QED BY <1>1, <1>4, <1>5

\* What a sync stores or deletes is what the bank shows at its new cursor or
\* later.
LEMMA Touched ==
  ASSUME TypeOK, NewsInv, NEW w \in Workers, HasNews(w), NEW t \in Txs
  PROVE  /\ upserts[w][t] # 0 => \E n \in next[w] .. Latest : upserts[w][t] = Shown(bank[n][t])
         /\ t \in removed[w] => 0 = Shown(bank[next[w]][t]) /\ next[w] \in next[w] .. Latest
<1>1. upserts[w][t] \in {0} \union Versions /\ next[w] \in 1 .. Latest /\ Latest \in Nat
  BY DEF TypeOK
<1>2. ASSUME upserts[w][t] # 0
      PROVE  \E n \in next[w] .. Latest : upserts[w][t] = Shown(bank[n][t])
  <2>1. PICK n \in next[w] .. Latest : upserts[w][t] = bank[n][t]
    BY <1>2 DEF NewsInv, NewsTrue
  <2>2. Shown(bank[n][t]) = upserts[w][t]
    BY <1>1, <1>2, <2>1 DEF Shown, Versions
  <2> QED BY <2>2
<1>3. ASSUME t \in removed[w]
      PROVE  0 = Shown(bank[next[w]][t]) /\ next[w] \in next[w] .. Latest
  BY <1>1, <1>3 DEF NewsInv, NewsTrue, Shown
<1> QED BY <1>2, <1>3

\* Steps that leave the stored rows and the cursor alone.
LEMMA SameStore ==
  ASSUME StoreInv, UNCHANGED <<bank, store, cursor, missed, gap, atomic>>, overlap => overlap',
         \A w \in Workers : pc'[w] \in {"deleting", "advancing"} =>
           pc'[w] = pc[w] /\ next'[w] = next[w] /\ removed'[w] = removed[w]
  PROVE  StoreInv'
<1>1. Latest' = Latest
  BY DEF Latest
<1>2. \A t \in Txs : NeverBehind(t)' <=> NeverBehind(t)
  BY <1>1 DEF NeverBehind
<1>3. NothingSkipped' /\ NothingSkippedStepwise'
  BY <1>2 DEF StoreInv, NothingSkipped, NothingSkippedStepwise
<1>4. ~overlap' => \A w \in Workers : pc'[w] = "deleting" =>
        \A t \in Txs \ (missed' \union removed'[w]) : Since(next[w], t)'
  BY <1>1 DEF StoreInv, Since
<1>5. ~overlap' => \A w \in Workers : pc'[w] = "advancing" =>
        \A t \in Txs \ missed' : Since(next[w], t)'
  BY <1>1 DEF StoreInv, Since
<1> QED BY <1>3, <1>4, <1>5 DEF StoreInv

\* A change at the bank adds a position and takes none away.
LEMMA BankStore ==
  ASSUME TypeOK, StoreInv, NEW u \in Txs, NEW l \in Levels, BankChanges(u, l)
  PROVE  StoreInv'
<1>1. /\ Latest' = Latest + 1 /\ Latest \in Nat
      /\ \A i \in 1 .. Latest : bank'[i] = bank[i]
  <2>1. Latest \in Nat
    BY DEF TypeOK
  <2> QED BY <2>1, BankGrows
<1>2. UNCHANGED <<store, cursor, missed, gap, overlap, atomic, pc, next, removed>>
  BY DEF BankChanges, local, history
<1>3. ASSUME NEW c \in 1 .. Latest, NEW t \in Txs,
             \E n \in c .. Latest : store[t] = Shown(bank[n][t])
      PROVE  \E n \in c .. Latest' : store'[t] = Shown(bank'[n][t])
  <2>1. PICK n \in c .. Latest : store[t] = Shown(bank[n][t])
    BY <1>3
  <2>2. n \in c .. Latest' /\ bank'[n] = bank[n]
    BY <1>1, <2>1
  <2>3. Shown(bank'[n][t]) = Shown(bank[n][t])
    BY <2>2
  <2> QED BY <1>2, <2>1, <2>2, <2>3
<1>4. cursor \in 1 .. Latest /\ \A w \in Workers : next[w] \in 1 .. Latest
  BY DEF TypeOK
<1>5. \A t \in Txs : NeverBehind(t) => NeverBehind(t)'
  BY <1>2, <1>3, <1>4 DEF NeverBehind
<1>6. \A w \in Workers, t \in Txs : Since(next[w], t) => Since(next[w], t)'
  BY <1>2, <1>3, <1>4 DEF Since
<1>7. NothingSkipped' /\ NothingSkippedStepwise'
  BY <1>2, <1>5 DEF StoreInv, NothingSkipped, NothingSkippedStepwise
<1> QED BY <1>2, <1>6, <1>7 DEF StoreInv

\* The stored procedure brings everything up to the cursor it stores.
LEMMA AtomicStore ==
  ASSUME TypeOK, LockInv, CursorInv, NewsInv, StoreInv, NEW w \in Workers, ApplyAtomic(w)
  PROVE  StoreInv'
<1>1. HasNews(w) /\ base[w] <= next[w]
  BY DEF ApplyAtomic, HasNews, CursorInv, NewsAhead
<1>2. /\ UNCHANGED <<bank, atomic, next, removed, overlap>> /\ atomic
      /\ cursor' = next[w] /\ pc' = [pc EXCEPT ![w] = "applied"]
      /\ gap' <=> (gap \/ base[w] > cursor)
      /\ base[w] \in Nat /\ cursor \in Nat
  <2>1. base[w] \in Nat /\ cursor \in Nat
    BY DEF TypeOK
  <2>2. /\ UNCHANGED <<bank, atomic, next, removed, overlap>> /\ atomic
        /\ cursor' = next[w] /\ pc' = [pc EXCEPT ![w] = "applied"]
    BY DEF ApplyAtomic, local
  <2>3. gap' <=> (gap \/ base[w] > cursor)
    BY DEF ApplyAtomic
  <2> QED BY <2>1, <2>2, <2>3
<1>3. ASSUME base[w] <= cursor, NEW t \in Txs \ missed',
             t \notin missed => NeverBehind(t)
      PROVE  NeverBehind(t)'
  <2> SUFFICES \E n \in next[w] .. Latest : store'[t] = Shown(bank[n][t])
    BY <1>2 DEF NeverBehind, Latest
  <2>1. store'[t] = IF t \in removed[w] THEN 0
                    ELSE IF t \in Upserted(w) THEN upserts[w][t] ELSE store[t]
    BY DEF ApplyAtomic, DeleteRemoved, StoreUpserts
  <2>2. CASE t \in removed[w]
    BY <1>1, <2>1, <2>2, Touched
  <2>3. CASE t \notin removed[w] /\ t \in Upserted(w)
    BY <1>1, <2>1, <2>3, Touched DEF Upserted
  <2>4. CASE t \notin removed[w] /\ t \notin Upserted(w)
    <3>1. t \notin missed /\ upserts[w][t] = 0
      BY <2>4 DEF ApplyAtomic, MissedAfter, Skipped, Upserted
    <3>2. Since(next[w], t)
      BY <1>1, <1>3, <2>4, <3>1, Untouched
    <3> QED BY <2>1, <2>4, <3>2 DEF Since
  <2> QED BY <2>2, <2>3, <2>4
<1>4. NothingSkipped'
  BY <1>2, <1>3 DEF StoreInv, NothingSkipped
<1>5. ~overlap => base[w] <= cursor
  BY <1>1, <1>2 DEF CursorInv, BaseIsCursor, HasNews, HasBase
<1>6. NothingSkippedStepwise'
  BY <1>2, <1>3, <1>5 DEF StoreInv, NothingSkippedStepwise
<1>7. \A v \in Workers : pc'[v] \notin {"deleting", "advancing"}
  BY <1>2 DEF NewsInv, AtomicPc, TypeOK
<1> QED BY <1>4, <1>6, <1>7 DEF StoreInv

\* Separate queries do so in three steps, each of which leaves what the next
\* one relies on: nothing is behind the old cursor at any time, and nothing
\* but the deletions is behind the new one once the upserts are in.
LEMMA StepwiseStore ==
  ASSUME TypeOK, LockInv, CursorInv, NewsInv, StoreInv, NEW w \in Workers,
         ApplyUpserts(w) \/ ApplyDeletions(w) \/ AdvanceCursor(w)
  PROVE  StoreInv'
<1>1. HasNews(w) /\ Syncing(w) /\ base[w] <= next[w] /\ ~atomic
  BY DEF ApplyUpserts, ApplyDeletions, AdvanceCursor, HasNews, Syncing, SyncPc, CursorInv,
         NewsAhead, NewsInv, AtomicPc
<1>2. /\ UNCHANGED <<bank, atomic, base, next, upserts, removed, overlap>>
      /\ \A v \in Workers \ {w} : pc'[v] = pc[v]
      /\ base[w] \in Nat /\ next[w] \in 1 .. Latest /\ Latest \in Nat
  <2>1. base[w] \in Nat /\ next[w] \in 1 .. Latest /\ Latest \in Nat
    BY DEF TypeOK
  <2> QED
    BY <2>1 DEF ApplyUpserts, ApplyDeletions, AdvanceCursor, TypeOK, local
<1>3. NothingSkipped'
  BY <1>1, <1>2 DEF NothingSkipped
<1>4. CASE overlap
  BY <1>2, <1>3, <1>4 DEF StoreInv, NothingSkippedStepwise
<1>5. CASE ~overlap
  <2>1. base[w] = cursor /\ \A v \in Workers \ {w} : ~Syncing(v)
    BY <1>1, <1>5 DEF CursorInv, BaseIsCursor, HasNews, HasBase, LockInv, AtMostOne
  <2>2. \A v \in Workers \ {w} : pc'[v] \notin {"deleting", "advancing"}
    BY <1>2, <2>1 DEF Syncing, SyncPc
  <2>3. CASE ApplyUpserts(w)
    <3>1. cursor' = cursor /\ pc'[w] = "deleting" /\ Latest' = Latest
      BY <1>2, <2>3 DEF ApplyUpserts, TypeOK, Latest
    <3>2. ASSUME NEW t \in Txs \ missed'
          PROVE  /\ \E n \in cursor .. Latest : store'[t] = Shown(bank[n][t])
                 /\ t \notin removed[w] =>
                      \E n \in next[w] .. Latest : store'[t] = Shown(bank[n][t])
      <4>1. store'[t] = IF t \in Upserted(w) THEN upserts[w][t] ELSE store[t]
        BY <2>3 DEF ApplyUpserts, StoreUpserts
      <4>2. CASE t \in Upserted(w)
        BY <1>1, <1>2, <2>1, <4>1, <4>2, Touched DEF Upserted
      <4>3. CASE t \notin Upserted(w)
        <5>1. t \notin missed /\ upserts[w][t] = 0
          BY <2>3, <4>3 DEF ApplyUpserts, MissedAfter, Skipped, Upserted
        <5>2. NeverBehind(t)
          BY <1>5, <5>1 DEF StoreInv, NothingSkippedStepwise
        <5>3. t \notin removed[w] => Since(next[w], t)
          BY <1>1, <1>2, <2>1, <5>1, <5>2, Untouched
        <5> QED BY <4>1, <4>3, <5>2, <5>3 DEF NeverBehind, Since
      <4> QED BY <4>2, <4>3
    <3>3. NothingSkippedStepwise'
      BY <1>2, <3>1, <3>2 DEF NothingSkippedStepwise, NeverBehind
    <3>4. \A v \in Workers : pc'[v] = "deleting" =>
            \A t \in Txs \ (missed' \union removed'[v]) : Since(next[v], t)'
      BY <1>2, <2>2, <3>1, <3>2 DEF Since
    <3>5. \A v \in Workers : pc'[v] # "advancing"
      BY <2>2, <3>1
    <3> QED BY <1>3, <3>3, <3>4, <3>5 DEF StoreInv
  <2>4. CASE ApplyDeletions(w)
    <3>1. cursor' = cursor /\ pc[w] = "deleting" /\ pc'[w] = "advancing" /\ Latest' = Latest
      BY <1>2, <2>4 DEF ApplyDeletions, TypeOK, Latest
    <3>2. ASSUME NEW t \in Txs \ missed'
          PROVE  /\ \E n \in cursor .. Latest : store'[t] = Shown(bank[n][t])
                 /\ \E n \in next[w] .. Latest : store'[t] = Shown(bank[n][t])
      <4>1. store'[t] = IF t \in removed[w] THEN 0 ELSE store[t]
        BY <2>4 DEF ApplyDeletions, DeleteRemoved
      <4>2. CASE t \in removed[w]
        <5>1. next[w] \in cursor .. Latest
          BY <1>1, <1>2, <2>1
        <5> QED BY <1>1, <4>1, <4>2, <5>1, Touched
      <4>3. CASE t \notin removed[w]
        <5>1. t \notin missed
          BY <2>4, <4>3 DEF ApplyDeletions
        <5>2. NeverBehind(t) /\ Since(next[w], t)
          BY <1>5, <3>1, <4>3, <5>1 DEF StoreInv, NothingSkippedStepwise
        <5> QED BY <4>1, <4>3, <5>2 DEF NeverBehind, Since
      <4> QED BY <4>2, <4>3
    <3>3. NothingSkippedStepwise'
      BY <1>2, <3>1, <3>2 DEF NothingSkippedStepwise, NeverBehind
    <3>4. \A v \in Workers : pc'[v] = "advancing" =>
            \A t \in Txs \ missed' : Since(next[v], t)'
      BY <1>2, <2>2, <3>1, <3>2 DEF Since
    <3>5. \A v \in Workers : pc'[v] # "deleting"
      BY <2>2, <3>1
    <3> QED BY <1>3, <3>3, <3>4, <3>5 DEF StoreInv
  <2>5. CASE AdvanceCursor(w)
    <3>1. /\ UNCHANGED <<store, missed>> /\ Latest' = Latest
          /\ pc[w] = "advancing" /\ pc'[w] = "applied" /\ cursor' = next[w]
      BY <1>2, <2>1, <2>5 DEF AdvanceCursor, TypeOK, Latest
    <3>2. \A t \in Txs \ missed : Since(next[w], t)
      BY <1>5, <3>1 DEF StoreInv
    <3>3. NothingSkippedStepwise'
      BY <1>2, <3>1, <3>2 DEF NothingSkippedStepwise, NeverBehind, Since
    <3>4. \A v \in Workers : pc'[v] \notin {"deleting", "advancing"}
      BY <2>2, <3>1
    <3> QED BY <1>3, <3>3, <3>4 DEF StoreInv
  <2> QED BY <2>3, <2>4, <2>5
<1> QED BY <1>4, <1>5

\* Every step keeps the invariant of the stored rows.
LEMMA NextStoreInv ==
  TypeOK /\ LockInv /\ CursorInv /\ NewsInv /\ StoreInv /\ [Steps]_vars => StoreInv'
<1> SUFFICES ASSUME TypeOK, LockInv, CursorInv, NewsInv, StoreInv, [Steps]_vars
             PROVE  StoreInv'
  OBVIOUS
<1>1. ASSUME NEW t \in Txs, NEW l \in Levels, BankChanges(t, l) PROVE StoreInv'
  BY <1>1, BankStore
<1>2. CASE RefreshAccounts \/ CreateRow \/ Tick \/ TimePasses \/ Elsewhere \/ UNCHANGED vars
  <2>1. UNCHANGED <<bank, atomic, pc, cursor, store, next, removed, missed, gap, overlap>>
    BY <1>2 DEF Tick, TimePasses, Elapse, RefreshAccounts, CreateRow, Elsewhere, vars, local,
                history
  <2> QED BY <2>1, SameStore
<1>3. ASSUME NEW w \in Workers,
             \/ SeeFree(w) \/ TakeLock(w) \/ InsertCollides(w) \/ ReadCursor(w)
             \/ Throw(w) \/ ReleaseUnanswered(w)
      PROVE  StoreInv'
  <2>1. /\ UNCHANGED <<bank, atomic, cursor, store, next, removed, missed, gap>>
        /\ overlap => overlap'
    <3>1. CASE TakeLock(w)
      BY <3>1 DEF TakeLock
    <3>2. CASE SeeFree(w) \/ InsertCollides(w) \/ ReadCursor(w) \/ Throw(w)
               \/ ReleaseUnanswered(w)
      BY <3>2 DEF SeeFree, InsertCollides, ReadCursor, Throw, ReleaseUnanswered, local,
                  history
    <3> QED BY <1>3, <3>1, <3>2
  <2>2. pc'[w] \notin {"deleting", "advancing"} /\ \A v \in Workers \ {w} : pc'[v] = pc[v]
    BY <1>3 DEF SeeFree, TakeLock, InsertCollides, ReadCursor, Throw, ReleaseUnanswered,
                TypeOK
  <2> QED BY <2>1, <2>2, SameStore
<1>4. ASSUME NEW w \in Workers,
             \/ ReleaseSuccess(w) \/ ReleaseFailure(w) \/ Crash(w) \/ Vanish(w)
             \/ FetchPages(w) \/ FetchWindow(w)
      PROVE  StoreInv'
  <2>1. UNCHANGED <<bank, atomic, cursor, store, missed, gap, overlap>>
    BY <1>4 DEF ReleaseSuccess, ReleaseFailure, Crash, Vanish, Leave, FetchPages,
           FetchWindow, history
  <2>2. /\ pc'[w] \notin {"deleting", "advancing"}
        /\ \A v \in Workers \ {w} :
             pc'[v] = pc[v] /\ next'[v] = next[v] /\ removed'[v] = removed[v]
    BY <1>4 DEF ReleaseSuccess, ReleaseFailure, Crash, Vanish, Leave, FetchPages,
           FetchWindow, TypeOK
  <2> QED BY <2>1, <2>2, SameStore
<1>5. ASSUME NEW w \in Workers, ApplyAtomic(w) PROVE StoreInv'
  BY <1>5, AtomicStore
<1>6. ASSUME NEW w \in Workers, ApplyUpserts(w) \/ ApplyDeletions(w) \/ AdvanceCursor(w)
      PROVE  StoreInv'
  BY <1>6, StepwiseStore
<1> QED
  BY <1>1, <1>2, <1>3, <1>4, <1>5, <1>6 DEF Steps, Next, SyncStep

\* What the database shows, at first.
LEMMA InitStoreInv == Init => StoreInv
<1> SUFFICES ASSUME Init PROVE StoreInv
  OBVIOUS
<1>1. Latest = 1 /\ cursor = 1 /\ bank[1] = [t \in Txs |-> 0] /\ store = [t \in Txs |-> 0]
  BY DEF Init, Latest
<1>2. \A t \in Txs : NeverBehind(t)
  BY <1>1 DEF NeverBehind, Shown
<1>3. \A w \in Workers : pc[w] = "idle"
  BY DEF Init
<1> QED BY <1>2, <1>3 DEF StoreInv, NothingSkipped, NothingSkippedStepwise

\* All that is known of an item and its syncs, however they are started.
ItemInv == TypeOK /\ LockInv /\ CursorInv /\ NewsInv /\ StoreInv

\* All of it together, at first
LEMMA InitItemInv == Init => ItemInv
  BY InitTypeOK, InitLockInv, InitCursorInv, InitNewsInv, InitStoreInv DEF ItemInv

\* and kept by every step.
LEMMA StepsItemInv ==
  ItemInv /\ [Steps]_vars => ItemInv' /\ (overlap \/ cursor' >= cursor)
  BY NextTypeOK, NextLockInv, NextCursorInv, NextNewsInv, NextStoreInv DEF ItemInv

\* What the database shows, always.
LEMMA StoreInvHolds == Spec => []StoreInv
  BY InitStoreInv, NextStoreInv, NextSteps, NewsInvHolds, CursorInvHolds, LockInvHolds,
     TypeInvariant, PTL DEF Spec

\* With the stored procedure the database never lags its cursor, overlapping
\* syncs included, unless one of them applied from ahead of the stored cursor.
THEOREM NoSkip == Spec => []NothingSkipped
<1>1. StoreInv => NothingSkipped
  BY DEF StoreInv
<1> QED BY <1>1, StoreInvHolds, PTL

\* With separate queries it does not either, wherever a sync fails or its
\* process stops, unless two syncs of the item overlapped.
THEOREM NoSkipStepwise == Spec => []NothingSkippedStepwise
<1>1. StoreInv => NothingSkippedStepwise
  BY DEF StoreInv
<1> QED BY <1>1, StoreInvHolds, PTL

\* Whichever way updates are applied, the database never lags its cursor.
THEOREM NoneSkipped == Spec => []NothingIsSkipped
<1>1. StoreInv => NothingIsSkipped
  BY DEF StoreInv, NothingIsSkipped
<1> QED BY <1>1, StoreInvHolds, PTL

-----------------------------------------------------------------------------
(***************************************************************************)
(* The queue and the item together.                                        *)
(***************************************************************************)

\* The types of what the argument is about.
Types ==
  /\ status \in [Jobs -> Queue!JobStatus]
  /\ key \in [Jobs -> Keys \union {NoKey}]
  /\ at \in [Workers -> Queue!HoldingPc \union {"idle", "selected"}]
  /\ job \in [Workers -> Jobs \union {NoJob}]
  /\ pc \in [Workers -> SyncPc \union {"idle", "locking", "unanswered"}]

\* A worker that is not idle has a job in its hands, and two that hold one
\* hold two.
OwnJob ==
  /\ \A w \in Workers : at[w] # "idle" => job[w] \in Jobs
  /\ \A v, w \in Workers : Queue!Holds(v) /\ Queue!Holds(w) /\ job[v] = job[w] => v = w

\* Held jobs are running or recorded as completed; those that are being run
\* are running.
HeldRows ==
  \A w \in Workers :
    /\ Queue!Holds(w) => status[job[w]] \in {"running", "completed"}
    /\ at[w] = "running" => status[job[w]] = "running"

\* The jobs that were accepted are those that have a key.
Keyed == \A j \in Jobs : status[j] = "absent" <=> key[j] = NoKey

\* A worker is in a sync only while it runs its job.
SyncsRun == \A w \in Workers : pc[w] # "idle" => at[w] = "running"

\* The inductive invariant.
IndInv ==
  /\ Types /\ OwnJob /\ HeldRows /\ Keyed /\ SyncsRun
  /\ Queue!OneActiveJobPerKey
  /\ OverlapNeedsTwoKeys

-----------------------------------------------------------------------------
\* The inductive invariant holds at the start.
LEMMA InitIndInv == PipelineInit => IndInv
  BY PipelineAssumption
  DEF PipelineInit, Queue!Init, Init, IndInv, Types, OwnJob, HeldRows, Keyed, SyncsRun,
      Queue!OneActiveJobPerKey, OverlapNeedsTwoKeys, Queue!JobStatus, Queue!Active,
      Queue!HoldingPc, Queue!Holds

\* It depends on six of the variables only.
LEMMA Unaffected ==
  ASSUME IndInv, UNCHANGED <<status, key, at, job, pc, overlap>>
  PROVE  IndInv'
  BY DEF IndInv, Types, OwnJob, HeldRows, Keyed, SyncsRun, Queue!OneActiveJobPerKey,
         OverlapNeedsTwoKeys, Queue!Holds

\* Accepting a job keeps it: its key was free, and no job had it as its own.
LEMMA AcceptIndInv ==
  ASSUME IndInv, NEW c \in Callers, NEW j \in Jobs, NEW k \in Keys, NEW d \in Delays,
         Accept(c, j, k, d)
  PROVE  IndInv'
<1> USE DEF IndInv, Queue!JobStatus, Queue!Active, Queue!HoldingPc, Queue!Holds
<1>1. /\ status[j] = "absent" /\ key[j] = NoKey
      /\ status' = [status EXCEPT ![j] = "queued"] /\ key' = [key EXCEPT ![j] = k]
      /\ UNCHANGED <<at, job, pc, overlap>>
      /\ \A i \in Jobs \ {j} : key[i] = k => status[i] \notin {"queued", "running"}
  BY DEF Accept, Queue!Insert, Queue!KeyFree, itemVars, vars, row, local, history, Keyed
<1>2. Types'
  BY <1>1 DEF Types
<1>3. OwnJob' /\ SyncsRun'
  BY <1>1 DEF OwnJob, SyncsRun
<1>4. HeldRows'
  BY <1>1 DEF HeldRows, OwnJob, Types
<1>5. Keyed'
  BY <1>1, PipelineAssumption DEF Keyed, Types
<1>6. Queue!OneActiveJobPerKey'
  BY <1>1 DEF Queue!OneActiveJobPerKey, Types
<1>7. OverlapNeedsTwoKeys'
  BY <1>1 DEF OverlapNeedsTwoKeys, Types
<1> QED BY <1>2, <1>3, <1>4, <1>5, <1>6, <1>7

-----------------------------------------------------------------------------
(***************************************************************************)
(* A worker.  Its steps either move it along, with the rows as they are,   *)
(* or write the row of the job in its hands.                               *)
(***************************************************************************)

\* A worker that is not syncing ends its tick, or goes on holding its job,
\* without running it.
LEMMA MoveIndInv ==
  ASSUME IndInv, NEW w \in Workers, NEW p, NEW j \in Jobs \union {NoJob},
         at' = [at EXCEPT ![w] = p], job' = [job EXCEPT ![w] = j],
         \/ p = "idle"
         \/ p = "selected" /\ j \in Jobs
         \/ p \in Queue!HoldingPc \ {"running"} /\ Queue!Holds(w) /\ j = job[w],
         pc' = [pc EXCEPT ![w] = "idle"],
         UNCHANGED <<status, key, overlap>>
  PROVE  IndInv'
<1> USE DEF IndInv, Queue!JobStatus, Queue!Active, Queue!HoldingPc, Queue!Holds
<1>1. Types'
  BY DEF Types
<1>2. OwnJob'
  BY DEF OwnJob, Types
<1>3. HeldRows'
  BY DEF HeldRows, OwnJob, Types
<1>4. SyncsRun'
  BY DEF SyncsRun, Types
<1>5. Keyed' /\ Queue!OneActiveJobPerKey' /\ OverlapNeedsTwoKeys'
  BY DEF Keyed, Queue!OneActiveJobPerKey, OverlapNeedsTwoKeys
<1> QED BY <1>1, <1>2, <1>3, <1>4, <1>5

\* A worker that holds a job it does not run writes its status: completed,
\* failed, or queued if the job's key is free.  Its tick ends, or goes on to
\* the failure of the job it completed.
LEMMA SettleIndInv ==
  ASSUME IndInv, NEW w \in Workers, NEW s \in {"completed", "failed", "queued"},
         Queue!Holds(w), at[w] # "running",
         s = "queued" => Queue!KeyFree(key[job[w]], job[w]),
         status' = [status EXCEPT ![job[w]] = s],
         \/ Queue!EndTick(w)
         \/ s = "completed" /\ at' = [at EXCEPT ![w] = "failing"] /\ job' = job,
         UNCHANGED <<key, pc, overlap>>
  PROVE  IndInv'
<1> USE DEF IndInv, Queue!JobStatus, Queue!Active, Queue!HoldingPc, Queue!Holds
<1>1. job[w] \in Jobs /\ status[job[w]] \in {"running", "completed"}
  BY DEF OwnJob, HeldRows
<1>2. \A v \in Workers \ {w} : Queue!Holds(v) => job[v] # job[w]
  BY DEF OwnJob
<1>3. Types'
  BY <1>1 DEF Types, Queue!EndTick
<1>4. OwnJob'
  BY DEF OwnJob, Queue!EndTick, Types
<1>5. HeldRows'
  BY <1>1, <1>2 DEF HeldRows, OwnJob, Queue!EndTick, Types
<1>6. Keyed'
  BY <1>1 DEF Keyed, Types
<1>7. SyncsRun'
  BY DEF SyncsRun, Queue!EndTick, Types
<1>8. Queue!OneActiveJobPerKey'
  BY <1>1 DEF Queue!OneActiveJobPerKey, Queue!KeyFree, Types
<1>9. OverlapNeedsTwoKeys'
  BY DEF OverlapNeedsTwoKeys
<1> QED BY <1>3, <1>4, <1>5, <1>6, <1>7, <1>8, <1>9

\* A claim takes a queued job, which nobody holds.
LEMMA ClaimIndInv ==
  ASSUME IndInv, NEW w \in Workers, Queue!Claim(w), UNCHANGED <<pc, overlap>>
  PROVE  IndInv'
<1> USE DEF IndInv, Queue!JobStatus, Queue!Active, Queue!HoldingPc, Queue!Holds
<1>1. /\ job[w] \in Jobs /\ status[job[w]] = "queued"
      /\ status' = [status EXCEPT ![job[w]] = "running"]
      /\ at[w] = "selected" /\ at' = [at EXCEPT ![w] = "running"]
      /\ UNCHANGED <<key, job>>
  BY DEF Queue!Claim, OwnJob
<1>2. \A v \in Workers : Queue!Holds(v) => job[v] # job[w]
  BY <1>1 DEF HeldRows
<1>3. Types'
  BY <1>1 DEF Types
<1>4. OwnJob'
  BY <1>1, <1>2 DEF OwnJob, Types
<1>5. HeldRows'
  BY <1>1, <1>2 DEF HeldRows, OwnJob, Types
<1>6. Keyed' /\ SyncsRun'
  BY <1>1 DEF Keyed, SyncsRun, Types
<1>7. Queue!OneActiveJobPerKey'
  BY <1>1 DEF Queue!OneActiveJobPerKey, Types
<1>8. OverlapNeedsTwoKeys'
  BY <1>1 DEF OverlapNeedsTwoKeys
<1> QED BY <1>3, <1>4, <1>5, <1>6, <1>7, <1>8

\* The queue's part of a tick.
LEMMA QueueStepIndInv ==
  ASSUME IndInv, NEW w \in Workers, QueueStep(w) \/ CompletionThrows(w)
  PROVE  IndInv'
<1> USE DEF IndInv, Queue!HoldingPc, Queue!Holds
<1>1. UNCHANGED <<pc, overlap>>
  BY DEF QueueStep, CompletionThrows, itemVars, vars, row, local, history, itemButFaults
<1>2. at[w] # "running" => pc' = [pc EXCEPT ![w] = "idle"]
  BY <1>1 DEF SyncsRun, Types
<1>3. ASSUME NEW j \in Jobs, Queue!Select(w, j) PROVE IndInv'
  BY <1>1, <1>2, <1>3, MoveIndInv DEF Queue!Select, Queue!rows
<1>4. CASE Queue!Claim(w)
  BY <1>1, <1>4, ClaimIndInv
<1>5. CASE Queue!LoseClaim(w) \/ Queue!RequeueCollides(w)
  BY <1>1, <1>2, <1>5, MoveIndInv
  DEF Queue!LoseClaim, Queue!RequeueCollides, Queue!EndTick, Queue!rows
<1>6. CASE Queue!ReadAttempts(w)
  <2>1. PICK p \in {"requeue", "giveUp"} : at' = [at EXCEPT ![w] = p]
    BY <1>6 DEF Queue!ReadAttempts
  <2>2. job' = [job EXCEPT ![w] = job[w]] /\ job[w] \in Jobs /\ UNCHANGED <<status, key>>
        /\ at[w] \in {"failing", "refusing"}
    BY <1>6 DEF Queue!ReadAttempts, Queue!rows, Types, OwnJob
  <2> QED BY <1>1, <1>2, <2>1, <2>2, MoveIndInv
<1>7. CASE Queue!Complete(w)
  BY <1>1, <1>7, SettleIndInv DEF Queue!Complete
<1>8. CASE Queue!GiveUp(w)
  BY <1>1, <1>8, SettleIndInv DEF Queue!GiveUp
<1>9. CASE Queue!Requeue(w)
  BY <1>1, <1>9, SettleIndInv DEF Queue!Requeue
<1>10. CASE Queue!CompleteThrows(w)
  <2>1. CASE UNCHANGED status
    <3>1. job' = [job EXCEPT ![w] = job[w]] /\ job[w] \in Jobs
      BY <1>10 DEF Queue!CompleteThrows, Types, OwnJob
    <3> QED BY <1>1, <1>2, <1>10, <2>1, <3>1, MoveIndInv DEF Queue!CompleteThrows
  <2>2. CASE status' = [status EXCEPT ![job[w]] = "completed"]
    BY <1>1, <1>10, <2>2, SettleIndInv DEF Queue!CompleteThrows
  <2> QED BY <1>10, <2>1, <2>2 DEF Queue!CompleteThrows
<1> QED
  BY <1>3, <1>4, <1>5, <1>6, <1>7, <1>8, <1>9, <1>10 DEF QueueStep, CompletionThrows

\* A step of a sync.  Taking the lock while another worker syncs is an
\* overlap: the two run two jobs, which are active, so their keys differ.
LEMMA SyncStepIndInv ==
  ASSUME IndInv, NEW w \in Workers, RunStep(w)
  PROVE  IndInv'
<1> USE DEF IndInv
<1>1. at[w] = "running" /\ UNCHANGED <<status, key, at, job>>
  BY DEF RunStep, queueVars
<1>2. PICK p \in SyncPc \union {"idle", "locking", "unanswered"} :
        pc' = [pc EXCEPT ![w] = p]
  BY DEF RunStep, SeeFree, TakeLock, ReadCursor, FetchPages,
         FetchWindow, ApplyAtomic, Throw, ReleaseUnanswered, SyncPc
<1>3. Types' /\ OwnJob' /\ HeldRows' /\ Keyed' /\ SyncsRun' /\ Queue!OneActiveJobPerKey'
  BY <1>1, <1>2 DEF Types, OwnJob, HeldRows, Keyed, SyncsRun, Queue!OneActiveJobPerKey,
                    Queue!Holds
<1>4. OverlapNeedsTwoKeys'
  <2>1. CASE UNCHANGED overlap \/ overlap
    BY <1>1, <2>1 DEF OverlapNeedsTwoKeys
  <2>2. ASSUME NEW v \in Workers \ {w}, Syncing(v)
        PROVE  OverlapNeedsTwoKeys'
    <3>1. at[v] = "running"
      BY <2>2 DEF Syncing, SyncPc, SyncsRun
    <3>2. job[v] \in Jobs /\ job[w] \in Jobs /\ job[v] # job[w]
      BY <1>1, <3>1 DEF OwnJob, Queue!Holds, Queue!HoldingPc
    <3>3. status[job[v]] = "running" /\ status[job[w]] = "running"
      BY <1>1, <3>1 DEF HeldRows
    <3>4. key[job[v]] # key[job[w]]
      BY <3>2, <3>3 DEF Queue!OneActiveJobPerKey, Queue!Active
    <3>5. key[job[v]] # NoKey /\ key[job[w]] # NoKey
      BY <3>2, <3>3 DEF Keyed
    <3>6. PICK i, j \in Jobs : key[i] # key[j] /\ NoKey \notin {key[i], key[j]}
      BY <3>2, <3>4, <3>5
    <3> QED BY <1>1, <3>6 DEF OverlapNeedsTwoKeys
  <2>3. UNCHANGED overlap \/ TakeLock(w)
    BY DEF RunStep, SeeFree, ReadCursor, FetchPages,
           FetchWindow, ApplyAtomic, Throw, ReleaseUnanswered, history
  <2>4. CASE TakeLock(w) /\ ~overlap
    <3>1. CASE \E v \in Workers \ {w} : Syncing(v)
      BY <2>2, <3>1
    <3>2. CASE ~\E v \in Workers \ {w} : Syncing(v)
      <4>1. ~overlap'
        BY <2>4, <3>2 DEF TakeLock
      <4> QED BY <4>1 DEF OverlapNeedsTwoKeys
    <3> QED BY <3>1, <3>2
  <2> QED BY <2>1, <2>3, <2>4
<1> QED BY <1>3, <1>4

\* A run that ends leaves its sync, if it was in one.
LEMMA RunEndsIndInv ==
  ASSUME IndInv, NEW w \in Workers, NEW outcome, Queue!RunEnds(w, outcome),
         pc' = [pc EXCEPT ![w] = "idle"], UNCHANGED overlap
  PROVE  IndInv'
<1>1. /\ at[w] = "running" /\ job[w] \in Jobs
      /\ outcome \in {"completing", "failing", "refusing"}
      /\ at' = [at EXCEPT ![w] = outcome] /\ job' = [job EXCEPT ![w] = job[w]]
      /\ UNCHANGED <<status, key>>
  BY DEF Queue!RunEnds, Queue!rows, IndInv, Types, OwnJob
<1> QED BY <1>1, MoveIndInv DEF Queue!HoldingPc, Queue!Holds

\* However a run ends, by its outcome or with the process.
LEMMA EndIndInv ==
  ASSUME IndInv, NEW w \in Workers,
         \/ EndsEarly(w) \/ RefusedByLock(w) \/ RefusedByCooldown(w) \/ LockThrows(w)
         \/ \E outcome \in {"failing", "refusing"} : Fails(w, outcome)
         \/ Succeeds(w)
         \/ Disappears(w)
  PROVE  IndInv'
<1>1. pc[w] = "idle" => pc = [pc EXCEPT ![w] = "idle"]
  BY DEF IndInv, Types
<1>2. CASE EndsEarly(w)
  BY <1>1, <1>2, RunEndsIndInv DEF EndsEarly, Ends, itemButFaults
<1>3. CASE RefusedByLock(w)
  BY <1>1, <1>3, RunEndsIndInv DEF RefusedByLock, Ends, itemVars, vars, row, local, history
<1>4. CASE RefusedByCooldown(w)
  BY <1>1, <1>4, RunEndsIndInv DEF RefusedByCooldown, itemVars, vars, row, local, history
<1>5. CASE LockThrows(w)
  BY <1>5, RunEndsIndInv
  DEF LockThrows, Ends, InsertCollides, Crash, Leave, history
<1>6. ASSUME NEW outcome \in {"failing", "refusing"}, Fails(w, outcome)
      PROVE  IndInv'
  BY <1>6, RunEndsIndInv
  DEF Fails, Ends, ReleaseFailure, Crash, Leave, history
<1>7. CASE Succeeds(w)
  BY <1>7, RunEndsIndInv DEF Succeeds, Ends, ReleaseSuccess, Leave, history
<1>8. CASE Disappears(w)
  BY <1>8, MoveIndInv
  DEF Disappears, Queue!Abandon, Queue!EndTick, Queue!rows, Leave, history
<1> QED BY <1>2, <1>3, <1>4, <1>5, <1>6, <1>7, <1>8

\* Every step keeps the inductive invariant.
LEMMA NextIndInv == IndInv /\ [PipelineNext]_pipelineVars => IndInv'
<1> SUFFICES ASSUME IndInv, [PipelineNext]_pipelineVars PROVE IndInv'
  OBVIOUS
<1>1. ASSUME NEW c \in Callers, NEW j \in Jobs, NEW k \in Keys, NEW d \in Delays,
             Accept(c, j, k, d)
      PROVE  IndInv'
  BY <1>1, AcceptIndInv
<1>2. ASSUME NEW c \in Callers,
             (\E j \in Jobs, k \in Keys : Collide(c, j, k)) \/ Coalesce(c)
      PROVE  IndInv'
  BY <1>2, Unaffected
  DEF Collide, Coalesce, Queue!Collide, Queue!Lookup, Queue!rows, itemVars, vars, row,
      local, history
<1>3. ASSUME NEW w \in Workers, QueueStep(w) \/ CompletionThrows(w) PROVE IndInv'
  BY <1>3, QueueStepIndInv
<1>4. ASSUME NEW w \in Workers, RunStep(w) PROVE IndInv'
  BY <1>4, SyncStepIndInv
<1>5. ASSUME NEW w \in Workers,
             \/ EndsEarly(w) \/ RefusedByLock(w) \/ RefusedByCooldown(w) \/ LockThrows(w)
             \/ \E outcome \in {"failing", "refusing"} : Fails(w, outcome)
             \/ Succeeds(w)
             \/ Disappears(w)
      PROVE  IndInv'
  BY <1>5, EndIndInv
<1>6. CASE Surroundings
  BY <1>6, Unaffected
  DEF Surroundings, BankChanges, RefreshAccounts, CreateRow, history,
      queueVars
<1>7. CASE ClockTick
  BY <1>7, Unaffected DEF ClockTick, Queue!Elapse, Queue!rows, Elapse
<1>8. CASE UNCHANGED pipelineVars
  BY <1>8, Unaffected DEF pipelineVars, queueVars, itemVars, vars, row, local, history
<1> QED BY <1>1, <1>2, <1>3, <1>4, <1>5, <1>6, <1>7, <1>8 DEF PipelineNext, Rest

\* Two syncs of an item overlap only through two keys: neither crashed
\* workers, retries, nor locks that expire bring two syncs of one key together.
THEOREM SyncsApart == PipelineSpec => []OverlapNeedsTwoKeys
<1>1. IndInv => OverlapNeedsTwoKeys
  BY DEF IndInv
<1> QED BY <1>1, InitIndInv, NextIndInv, PTL DEF PipelineSpec

-----------------------------------------------------------------------------
(***************************************************************************)
(* The item under the queue.  Every step is, seen from the item, one of    *)
(* the steps its invariants withstand.                                     *)
(***************************************************************************)

\* The clock and the delays are numbers of seconds.
Clock ==
  /\ now \in Nat
  /\ runAfter \in [Jobs -> Nat]
  /\ attempts \in [Jobs -> Nat]
  /\ seen \in [Workers -> Nat]

\* The clocks agree, at first
LEMMA InitClock == PipelineInit => Clock
  BY DEF PipelineInit, Queue!Init, Clock

\* A run that ends, however it does, leaves the clock and the rows alone.
LEMMA EndsClock ==
  ASSUME Clock, NEW w \in Workers,
         \/ EndsEarly(w) \/ RefusedByLock(w) \/ RefusedByCooldown(w) \/ LockThrows(w)
         \/ \E outcome \in {"failing", "refusing"} : Fails(w, outcome)
         \/ Succeeds(w)
         \/ Disappears(w)
  PROVE  Clock'
<1>1. UNCHANGED <<now, runAfter, attempts>>
      /\ (UNCHANGED seen \/ seen' = [seen EXCEPT ![w] = 0])
  BY DEF EndsEarly, RefusedByLock, RefusedByCooldown, LockThrows, Fails, Succeeds, Ends,
         Disappears, Queue!RunEnds, Queue!Abandon, Queue!EndTick, Queue!rows
<1> QED BY <1>1 DEF Clock

\* under the steps of the queue
LEMMA QueueStepClock ==
  ASSUME Clock, NEW w \in Workers, QueueStep(w) \/ CompletionThrows(w)
  PROVE  Clock'
<1>1. ASSUME NEW j \in Jobs, Queue!Select(w, j) PROVE Clock'
  BY <1>1 DEF Queue!Select, Queue!rows, Clock
<1>2. CASE Queue!Claim(w)
  <2>1. seen[w] + 1 \in Nat /\ attempts' = [attempts EXCEPT ![job[w]] = seen[w] + 1]
    BY <1>2 DEF Queue!Claim, Clock
  <2>2. attempts' \in [Jobs -> Nat]
    BY <2>1 DEF Clock
  <2> QED BY <1>2, <2>2 DEF Queue!Claim, Clock
<1>3. CASE Queue!LoseClaim(w) \/ Queue!RequeueCollides(w)
  BY <1>3 DEF Queue!LoseClaim, Queue!RequeueCollides, Queue!EndTick, Queue!rows, Clock
<1>4. CASE Queue!Complete(w) \/ Queue!GiveUp(w)
  BY <1>4 DEF Queue!Complete, Queue!GiveUp, Queue!EndTick, Clock
<1>5. CASE Queue!ReadAttempts(w) \/ Queue!CompleteThrows(w)
  BY <1>5 DEF Queue!ReadAttempts, Queue!CompleteThrows, Queue!rows, Clock
<1>6. CASE Queue!Requeue(w)
  <2>1. now + Queue!Backoff(seen[w] + 1) \in Nat
    BY DEF Clock, Queue!Backoff
  <2> QED BY <1>6, <2>1 DEF Queue!Requeue, Queue!EndTick, Clock
<1> QED BY <1>1, <1>2, <1>3, <1>4, <1>5, <1>6 DEF QueueStep, CompletionThrows

\* Time moves by whole seconds.
LEMMA TickSeconds ==
  ASSUME Clock, TypeOK, ClockTick
  PROVE  \E d \in Nat : Queue!Elapse(d) /\ Elapse(d)
<1>1. PICK d \in Queue!Waits \union ({lockLeft, coolLeft} \ {0}) :
        Queue!Elapse(d) /\ Elapse(d)
  BY DEF ClockTick
<1>2. CASE d \in Queue!Waits
  BY <1>1, <1>2 DEF Queue!Waits, Clock
<1>3. CASE d \in {lockLeft, coolLeft}
  BY <1>1, <1>3, ItemSyncAssumption DEF TypeOK
<1> QED BY <1>1, <1>2, <1>3

\* and under all.
LEMMA NextClock == TypeOK /\ Clock /\ [PipelineNext]_pipelineVars => Clock'
<1> SUFFICES ASSUME TypeOK, Clock, [PipelineNext]_pipelineVars PROVE Clock'
  OBVIOUS
<1>1. ASSUME NEW c \in Callers, NEW j \in Jobs, NEW k \in Keys, NEW d \in Delays,
             Accept(c, j, k, d)
      PROVE  Clock'
  <2>1. now + d \in Nat
    BY PipelineAssumption DEF Clock
  <2> QED BY <1>1, <2>1 DEF Accept, Queue!Insert, Clock
<1>2. ASSUME NEW c \in Callers,
             (\E j \in Jobs, k \in Keys : Collide(c, j, k)) \/ Coalesce(c)
      PROVE  Clock'
  BY <1>2 DEF Collide, Coalesce, Queue!Collide, Queue!Lookup, Queue!rows, Clock
<1>3. ASSUME NEW w \in Workers, QueueStep(w) \/ CompletionThrows(w) PROVE Clock'
  BY <1>3, QueueStepClock
<1>4. ASSUME NEW w \in Workers,
             \/ EndsEarly(w) \/ RefusedByLock(w) \/ RefusedByCooldown(w) \/ LockThrows(w)
             \/ \E outcome \in {"failing", "refusing"} : Fails(w, outcome)
             \/ Succeeds(w)
             \/ Disappears(w)
      PROVE  Clock'
  BY <1>4, EndsClock
<1>5. CASE ClockTick
  BY <1>5, TickSeconds DEF Queue!Elapse, Queue!rows, Clock
<1>6. ASSUME NEW w \in Workers, RunStep(w) PROVE Clock'
  BY <1>6 DEF RunStep, queueVars, Clock
<1>7. CASE Surroundings \/ UNCHANGED pipelineVars
  BY <1>7 DEF Surroundings, pipelineVars, queueVars, Clock
<1> QED BY <1>1, <1>2, <1>3, <1>4, <1>5, <1>6, <1>7 DEF PipelineNext, Rest

\* Seen from the item, every step is one of its own, or time passing, or an
\* error elsewhere, or a worker that is gone.
LEMMA ItemAlone ==
  ASSUME UNCHANGED itemVars
  PROVE  [Steps]_vars
  BY DEF itemVars, vars, row, local, history

\* Somewhere else something failed.
LEMMA ItemElsewhere ==
  ASSUME TypeOK, Fault, UNCHANGED itemButFaults
  PROVE  Steps
<1>1. faults' \in 0 .. MaxFaults
  BY ItemSyncAssumption DEF Fault, TypeOK
<1> QED
  BY <1>1 DEF itemButFaults, Steps, Elsewhere, row, local, history

\* The steps of a sync that holds the lock, or is about to.
LEMMA SyncStepItem ==
  ASSUME NEW w \in Workers, RunStep(w)
  PROVE  Next
  BY DEF RunStep, SyncStep, Next

\* However a run ends, the item sees a release, a crash, an error, or nothing.
LEMMA EndItem ==
  ASSUME TypeOK, NEW w \in Workers,
         \/ EndsEarly(w) \/ RefusedByLock(w) \/ RefusedByCooldown(w) \/ LockThrows(w)
         \/ \E outcome \in {"failing", "refusing"} : Fails(w, outcome)
         \/ Succeeds(w)
         \/ Disappears(w)
  PROVE  [Steps]_vars
<1>1. CASE EndsEarly(w)
  BY <1>1, ItemElsewhere DEF EndsEarly
<1>2. CASE RefusedByLock(w) \/ RefusedByCooldown(w)
  BY <1>2, ItemAlone DEF RefusedByLock, RefusedByCooldown
<1>3. Crash(w) \/ InsertCollides(w) \/ ReleaseFailure(w) \/ ReleaseSuccess(w) => Next
  BY DEF SyncStep, Next
<1>7. CASE LockThrows(w) \/ Succeeds(w)
           \/ \E outcome \in {"failing", "refusing"} : Fails(w, outcome)
  BY <1>3, <1>7 DEF LockThrows, Succeeds, Fails, Steps
<1>8. CASE Disappears(w)
  <2>1. faults' \in 0 .. MaxFaults
    BY <1>8, ItemSyncAssumption DEF Disappears, Fault, TypeOK
  <2>2. Vanish(w)
    BY <1>8, <2>1 DEF Disappears, Vanish, row
  <2> QED BY <2>2 DEF Steps
<1> QED BY <1>1, <1>2, <1>7, <1>8

\* What happens around the item.
LEMMA SurroundingsItem ==
  ASSUME Surroundings
  PROVE  Next
  BY DEF Surroundings, Next

\* Every step of the pipeline is one of the item, or leaves it alone.
LEMMA ItemSteps == TypeOK /\ Clock /\ [PipelineNext]_pipelineVars => [Steps]_vars
<1> SUFFICES ASSUME TypeOK, Clock, [PipelineNext]_pipelineVars PROVE [Steps]_vars
  OBVIOUS
<1>1. ASSUME NEW c \in Callers,
             \/ \E j \in Jobs, k \in Keys :
                  (\E d \in Delays : Accept(c, j, k, d)) \/ Collide(c, j, k)
             \/ Coalesce(c)
      PROVE  [Steps]_vars
  <2>1. UNCHANGED itemVars
    BY <1>1 DEF Accept, Collide, Coalesce
  <2> QED BY <2>1, ItemAlone
<1>2. ASSUME NEW w \in Workers, QueueStep(w) PROVE [Steps]_vars
  BY <1>2, ItemAlone DEF QueueStep
<1>3. ASSUME NEW w \in Workers, CompletionThrows(w) PROVE [Steps]_vars
  BY <1>3, ItemElsewhere DEF CompletionThrows
<1>4. ASSUME NEW w \in Workers, RunStep(w) PROVE [Steps]_vars
  BY <1>4, SyncStepItem DEF Steps
<1>5. ASSUME NEW w \in Workers,
             \/ EndsEarly(w) \/ RefusedByLock(w) \/ RefusedByCooldown(w) \/ LockThrows(w)
             \/ \E outcome \in {"failing", "refusing"} : Fails(w, outcome)
             \/ Succeeds(w)
             \/ Disappears(w)
      PROVE  [Steps]_vars
  BY <1>5, EndItem
<1>6. CASE Surroundings
  BY <1>6, SurroundingsItem DEF Steps
<1>7. CASE ClockTick
  <2>1. PICK d \in Nat : Elapse(d)
    BY <1>7, TickSeconds
  <2>2. Elapse(d)
    BY <2>1 DEF Elapse, Left, Syncing, SyncPc
  <2> QED BY <2>2 DEF Steps, TimePasses
<1>8. CASE UNCHANGED pipelineVars
  BY <1>8, ItemAlone DEF pipelineVars
<1> QED BY <1>1, <1>2, <1>3, <1>4, <1>5, <1>6, <1>7, <1>8 DEF PipelineNext, Rest

-----------------------------------------------------------------------------
(***************************************************************************)
(* What a job was asked for.                                               *)
(***************************************************************************)

\* The worker fetched updates and has not applied them yet.
HasPages(w) == pc[w] \in {"fetched", "applying"}

\* Jobs are asked for positions the bank has reached.
AsksForPast == announced \in [Jobs -> 0 .. Latest]

\* What was fetched reaches what the job was asked for: a job is only asked for
\* more while it is queued.
NewsReach == \A w \in Workers : HasPages(w) => announced[job[w]] <= next[w]

\* Unless syncs overlapped, so does the cursor once it is applied ...
AppliedReach ==
  ~overlap =>
    \A w \in Workers :
      at[w] = "completing" \/ pc[w] = "applied" => announced[job[w]] <= cursor

\* ... and ever after.
CompletedReach ==
  ~overlap => \A j \in Jobs : status[j] = "completed" => announced[j] <= cursor

Informed == AsksForPast /\ NewsReach /\ AppliedReach /\ CompletedReach /\ atomic

\* How far the news of a job have come, at first
LEMMA InitInformed == PipelineInit => Informed
  BY DEF PipelineInit, Queue!Init, Init, Latest, Informed, AsksForPast, NewsReach,
         AppliedReach, CompletedReach, HasPages

\* What it is about.
reach == <<announced, status, at, job, pc, next, cursor, overlap, atomic, bank>>

\* when nothing moves
LEMMA SameReach ==
  ASSUME Informed, UNCHANGED reach
  PROVE  Informed'
  BY DEF reach, Informed, AsksForPast, NewsReach, AppliedReach, CompletedReach, HasPages,
         Latest

\* Only a job that nobody has claimed is asked for more.
LEMMA AskInformed ==
  ASSUME IndInv, Informed, NEW asked \in SUBSET Jobs,
         TypeOK,
         \A j \in asked : status[j] \in {"absent", "queued"},
         announced' = [j \in Jobs |-> IF j \in asked THEN Latest ELSE announced[j]],
         \A j \in Jobs : status'[j] = status[j] \/ status'[j] = "queued",
         UNCHANGED <<at, job, pc, next, cursor, overlap, atomic, bank>>
  PROVE  Informed'
<1> USE DEF Informed
<1>1. Latest' = Latest /\ Latest \in Nat
  BY DEF Latest, TypeOK
<1>2. AsksForPast'
  BY <1>1 DEF AsksForPast
<1>3. \A w \in Workers :
        Queue!Holds(w) => job[w] \in Jobs /\ announced'[job[w]] = announced[job[w]]
  BY DEF IndInv, OwnJob, HeldRows, Queue!Holds, Queue!HoldingPc
<1>4. \A w \in Workers : pc[w] # "idle" \/ at[w] = "completing" => Queue!Holds(w)
  BY DEF IndInv, SyncsRun, Queue!Holds, Queue!HoldingPc
<1>5. NewsReach'
  BY <1>3, <1>4 DEF NewsReach, HasPages
<1>6. AppliedReach'
  BY <1>3, <1>4 DEF AppliedReach
<1>7. CompletedReach'
  BY DEF CompletedReach
<1> QED BY <1>2, <1>5, <1>6, <1>7

\* The queue's part of a tick records a job as completed only after a run that
\* returned.
LEMMA QueueInformed ==
  ASSUME IndInv, Informed, NEW w \in Workers, pc[w] = "idle",
         NEW p, NEW i, p # "completing",
         at' = [at EXCEPT ![w] = p], job' = [job EXCEPT ![w] = i],
         \A j \in Jobs : status'[j] = "completed" =>
           status[j] = "completed" \/ (at[w] = "completing" /\ j = job[w]),
         UNCHANGED <<announced, pc, next, cursor, overlap, atomic, bank>>
  PROVE  Informed'
<1> USE DEF Informed
<1>1. \A v \in Workers \ {w} : at'[v] = at[v] /\ job'[v] = job[v]
  BY DEF IndInv, Types
<1>2. at'[w] # "completing"
  BY DEF IndInv, Types
<1>3. AsksForPast'
  BY DEF AsksForPast, Latest
<1>4. NewsReach'
  BY <1>1 DEF NewsReach, HasPages
<1>5. AppliedReach'
  BY <1>1, <1>2 DEF AppliedReach
<1>6. CompletedReach'
  BY DEF CompletedReach, AppliedReach
<1> QED BY <1>3, <1>4, <1>5, <1>6

\* under the steps of the queue
LEMMA QueueStepInformed ==
  ASSUME IndInv, Informed, NEW w \in Workers, QueueStep(w) \/ CompletionThrows(w)
  PROVE  Informed'
<1>1. UNCHANGED <<announced, pc, next, cursor, overlap, atomic, bank>>
  BY DEF QueueStep, CompletionThrows, itemVars, vars, row, local, history, itemButFaults
<1>2. at[w] # "running" => pc[w] = "idle"
  BY DEF IndInv, SyncsRun
<1>3. job = [job EXCEPT ![w] = job[w]] /\ status \in [Jobs -> Queue!JobStatus]
  BY DEF IndInv, Types
<1>4. ASSUME NEW j \in Jobs, Queue!Select(w, j) PROVE Informed'
  <2>1. "selected" # "completing"
    OBVIOUS
  <2> QED BY <1>1, <1>2, <1>4, <2>1, QueueInformed DEF Queue!Select, Queue!rows
<1>5. CASE Queue!Claim(w)
  BY <1>1, <1>2, <1>3, <1>5, QueueInformed DEF Queue!Claim
<1>6. CASE Queue!LoseClaim(w) \/ Queue!RequeueCollides(w)
  BY <1>1, <1>2, <1>6, QueueInformed
  DEF Queue!LoseClaim, Queue!RequeueCollides, Queue!EndTick, Queue!rows
<1>7. CASE Queue!Complete(w) \/ Queue!GiveUp(w) \/ Queue!Requeue(w)
  <2>1. at[w] \in {"completing", "giveUp", "requeue"}
        /\ at' = [at EXCEPT ![w] = "idle"] /\ job' = [job EXCEPT ![w] = NoJob]
    BY <1>7 DEF Queue!Complete, Queue!GiveUp, Queue!Requeue, Queue!EndTick
  <2>2. \A j \in Jobs : status'[j] = "completed" =>
          status[j] = "completed" \/ (at[w] = "completing" /\ j = job[w])
    BY <1>3, <1>7 DEF Queue!Complete, Queue!GiveUp, Queue!Requeue
  <2> QED BY <1>1, <1>2, <2>1, <2>2, QueueInformed
<1>8. CASE Queue!ReadAttempts(w)
  <2>1. PICK p \in {"requeue", "giveUp"} : at' = [at EXCEPT ![w] = p]
    BY <1>8 DEF Queue!ReadAttempts
  <2>2. at[w] # "running" /\ UNCHANGED <<job, status>>
    BY <1>8 DEF Queue!ReadAttempts, Queue!rows
  <2> QED BY <1>1, <1>2, <1>3, <2>1, <2>2, QueueInformed
<1>9. CASE Queue!CompleteThrows(w)
  <2>1. \A j \in Jobs : status'[j] = "completed" =>
          status[j] = "completed" \/ (at[w] = "completing" /\ j = job[w])
    BY <1>3, <1>9 DEF Queue!CompleteThrows
  <2> QED BY <1>1, <1>2, <1>3, <1>9, <2>1, QueueInformed DEF Queue!CompleteThrows
<1> QED
  BY <1>4, <1>5, <1>6, <1>7, <1>8, <1>9 DEF QueueStep, CompletionThrows

\* A step of the sync: it fetches up to the bank's last position, applies what
\* it fetched, or changes neither what was fetched nor the cursor.
LEMMA SyncStepInformed ==
  ASSUME IndInv, ItemInv, Informed, NEW w \in Workers, RunStep(w),
         overlap \/ cursor' >= cursor
  PROVE  Informed'
<1> USE DEF Informed
<1>1. at[w] = "running" /\ UNCHANGED <<status, at, job, announced>>
  BY DEF RunStep, queueVars
<1>2. UNCHANGED <<atomic, bank>>
  BY DEF RunStep, SeeFree, TakeLock, ReadCursor, FetchPages,
         FetchWindow, ApplyAtomic, Throw, ReleaseUnanswered, history
<1>3. /\ pc \in [Workers -> SyncPc \union {"idle", "locking", "unanswered"}]
      /\ next \in [Workers -> Nat] /\ cursor \in Nat /\ announced[job[w]] \in Nat
      /\ announced[job[w]] <= Latest
      /\ \A j \in Jobs : announced[j] \in Nat
      /\ \A v \in Workers : pc[v] # "idle" \/ at[v] = "completing" => job[v] \in Jobs
  <2>1. \A v \in Workers : pc[v] # "idle" \/ at[v] = "completing" => job[v] \in Jobs
    BY DEF IndInv, SyncsRun, OwnJob
  <2>2. pc \in [Workers -> SyncPc \union {"idle", "locking", "unanswered"}] /\ job[w] \in Jobs
    BY <1>1 DEF IndInv, Types, OwnJob
  <2>3. next \in [Workers -> 1 .. Latest] /\ cursor \in 1 .. Latest
    BY DEF ItemInv, TypeOK
  <2>4. next \in [Workers -> Nat] /\ cursor \in Nat
    BY <2>3
  <2>5. Latest \in Nat
    BY DEF Latest, ItemInv, TypeOK
  <2> QED BY <2>1, <2>2, <2>4, <2>5 DEF AsksForPast
<1>4. AsksForPast'
  BY <1>1, <1>2 DEF AsksForPast, Latest
<1>5. CASE FetchPages(w)
  <2>1. next' = [next EXCEPT ![w] = Latest] /\ pc' = [pc EXCEPT ![w] = "fetched"]
        /\ UNCHANGED <<cursor, overlap>>
    BY <1>5 DEF FetchPages, history
  <2>2. NewsReach'
    BY <1>1, <1>3, <2>1 DEF NewsReach, HasPages
  <2>3. AppliedReach' /\ CompletedReach'
    BY <1>1, <1>3, <2>1 DEF AppliedReach, CompletedReach
  <2> QED BY <1>2, <1>4, <2>2, <2>3
<1>6. CASE ApplyAtomic(w)
  <2>1. pc[w] = "applying" /\ cursor' = next[w]
        /\ pc' = [pc EXCEPT ![w] = "applied"] /\ UNCHANGED <<next, overlap>>
    BY <1>6 DEF ApplyAtomic, local
  <2>2. announced[job[w]] <= cursor'
    BY <2>1 DEF NewsReach, HasPages
  <2>3. cursor' \in Nat
    BY <1>3, <2>1
  <2>4. NewsReach'
    BY <1>1, <1>3, <2>1 DEF NewsReach, HasPages
  <2>5. AppliedReach'
    <3>1. ASSUME ~overlap, NEW v \in Workers, at[v] = "completing" \/ pc[v] = "applied"
          PROVE  announced[job[v]] <= cursor'
      <4>2. cursor' >= cursor
        BY <3>1
      <4>3. job[v] \in Jobs
        BY <1>3, <3>1
      <4>1. announced[job[v]] <= cursor
        BY <3>1 DEF AppliedReach
      <4> QED BY <1>3, <2>3, <4>1, <4>2, <4>3
    <3>2. \A v \in Workers \ {w} : pc'[v] = pc[v]
      BY <1>3, <2>1
    <3> QED BY <1>1, <2>1, <2>2, <3>1, <3>2 DEF AppliedReach
  <2>6. CompletedReach'
    BY <1>1, <1>3, <2>1, <2>3 DEF CompletedReach
  <2> QED BY <1>2, <1>4, <2>4, <2>5, <2>6
<1>7. CASE SeeFree(w) \/ TakeLock(w) \/ ReadCursor(w) \/ FetchWindow(w)
           \/ Throw(w) \/ ReleaseUnanswered(w)
  <2>1. UNCHANGED <<next, cursor>>
    BY <1>7 DEF SeeFree, TakeLock, ReadCursor, FetchWindow, Throw,
                ReleaseUnanswered, local, history
  <2>7. overlap => overlap'
    <3>1. UNCHANGED overlap \/ TakeLock(w)
      BY <1>7 DEF SeeFree, ReadCursor, FetchWindow, Throw, ReleaseUnanswered, history
    <3> QED BY <3>1, Zenon DEF TakeLock
  <2>2. PICK p \in {"locking", "locked", "fetching", "applying", "failing", "unanswered"} :
          pc' = [pc EXCEPT ![w] = p] /\ (p = "applying" => pc[w] = "fetched")
    BY <1>7 DEF SeeFree, TakeLock, ReadCursor, FetchWindow, Throw, ReleaseUnanswered
  <2>3. \A v \in Workers : HasPages(v)' => HasPages(v)
    BY <1>3, <2>2 DEF HasPages
  <2>4. \A v \in Workers : pc'[v] = "applied" => pc[v] = "applied"
    BY <1>3, <2>2
  <2>5. NewsReach'
    BY <1>1, <2>1, <2>3 DEF NewsReach
  <2>6. AppliedReach' /\ CompletedReach'
    BY <1>1, <2>1, <2>4, <2>7 DEF AppliedReach, CompletedReach
  <2> QED BY <1>2, <1>4, <2>5, <2>6
<1> QED BY <1>5, <1>6, <1>7 DEF RunStep

\* A run that ends leaves its sync; it counts as done only if its updates are in.
LEMMA RunInformed ==
  ASSUME IndInv, Informed, NEW w \in Workers, NEW p,
         p = "completing" => pc[w] = "applied",
         at' = [at EXCEPT ![w] = p], job' = [job EXCEPT ![w] = job[w]] \/ p = "idle",
         \A v \in Workers \ {w} : job'[v] = job[v] /\ next'[v] = next[v],
         pc' = [pc EXCEPT ![w] = "idle"],
         UNCHANGED <<announced, status, cursor, overlap, atomic, bank>>
  PROVE  Informed'
<1> USE DEF Informed
<1>1. \A v \in Workers \ {w} : at'[v] = at[v] /\ pc'[v] = pc[v]
  BY DEF IndInv, Types
<1>2. at'[w] = p /\ pc'[w] = "idle" /\ (p = "completing" => job'[w] = job[w])
  BY DEF IndInv, Types
<1>3. AsksForPast'
  BY DEF AsksForPast, Latest
<1>4. NewsReach'
  BY <1>1, <1>2 DEF NewsReach, HasPages
<1>5. AppliedReach' /\ CompletedReach'
  BY <1>1, <1>2 DEF AppliedReach, CompletedReach
<1> QED BY <1>3, <1>4, <1>5

\* at the end of a job
LEMMA EndInformed ==
  ASSUME IndInv, TypeOK, Informed, NEW w \in Workers,
         \/ EndsEarly(w) \/ RefusedByLock(w) \/ RefusedByCooldown(w) \/ LockThrows(w)
         \/ \E outcome \in {"failing", "refusing"} : Fails(w, outcome)
         \/ Succeeds(w)
         \/ Disappears(w)
  PROVE  Informed'
<1>1. job = [job EXCEPT ![w] = job[w]]
      /\ (pc[w] = "idle" => pc = [pc EXCEPT ![w] = "idle"])
  BY DEF IndInv, Types
<1>2. ASSUME NEW p, Queue!RunEnds(w, p), UNCHANGED announced,
             p = "completing" => pc[w] = "applied",
             pc' = [pc EXCEPT ![w] = "idle"],
             \A v \in Workers \ {w} : next'[v] = next[v],
             UNCHANGED <<cursor, overlap, atomic, bank>>
      PROVE  Informed'
  <2>1. at' = [at EXCEPT ![w] = p] /\ UNCHANGED <<job, status>>
    BY <1>2 DEF Queue!RunEnds, Queue!rows
  <2> QED BY <1>1, <1>2, <2>1, RunInformed
<1>3. ASSUME Leave(w)
      PROVE  /\ pc' = [pc EXCEPT ![w] = "idle"]
             /\ \A v \in Workers \ {w} : next'[v] = next[v]
             /\ UNCHANGED <<cursor, overlap, atomic, bank>>
  BY <1>3 DEF Leave, history, TypeOK
<1>4. CASE EndsEarly(w)
  BY <1>1, <1>2, <1>4 DEF EndsEarly, Ends, itemButFaults
<1>5. CASE RefusedByLock(w) \/ RefusedByCooldown(w)
  BY <1>1, <1>2, <1>5 DEF RefusedByLock, RefusedByCooldown, Ends, itemVars, vars, row,
      local, history
<1>6. CASE LockThrows(w)
  <2>1. CASE InsertCollides(w)
    BY <1>2, <1>6, <2>1 DEF LockThrows, Ends, InsertCollides, history
  <2>2. CASE Crash(w)
    BY <1>2, <1>3, <1>6, <2>2 DEF LockThrows, Ends, Crash
  <2> QED BY <1>6, <2>1, <2>2 DEF LockThrows
<1>7. ASSUME NEW outcome \in {"failing", "refusing"}, Fails(w, outcome) PROVE Informed'
  BY <1>2, <1>3, <1>7 DEF Fails, Ends, ReleaseFailure, Crash
<1>8. CASE Succeeds(w)
  BY <1>2, <1>3, <1>8 DEF Succeeds, Ends, ReleaseSuccess
<1>9. CASE Disappears(w)
  <2>1. /\ at' = [at EXCEPT ![w] = "idle"] /\ job' = [job EXCEPT ![w] = NoJob]
        /\ UNCHANGED <<status, announced>>
    BY <1>9 DEF Disappears, Queue!Abandon, Queue!EndTick, Queue!rows
  <2>2. \A v \in Workers \ {w} : job'[v] = job[v]
    BY <2>1 DEF IndInv, Types
  <2> QED BY <1>3, <1>9, <2>1, <2>2, RunInformed DEF Disappears
<1> QED BY <1>4, <1>5, <1>6, <1>7, <1>8, <1>9

\* The bank's history grows.
LEMMA SurroundingsInformed ==
  ASSUME TypeOK, Informed, Surroundings
  PROVE  Informed'
<1>1. UNCHANGED <<announced, status, at, job, pc, next, cursor, overlap, atomic>>
  BY DEF Surroundings, queueVars, BankChanges, RefreshAccounts, CreateRow,
         local, history
<1>2. Latest \in Nat /\ Latest' \in Nat /\ Latest <= Latest'
  <2>1. Latest = Len(bank) /\ Latest' = Len(bank') /\ Len(bank) \in Nat
    BY DEF Latest, TypeOK
  <2>2. ASSUME NEW t \in Txs, NEW l \in Levels, BankChanges(t, l)
        PROVE  Len(bank') = Len(bank) + 1
    <3>1. BankChanges(t, l) /\ l \in Levels
      BY <2>2 DEF BankChanges, Latest, Levels, Versions, row, local, history
    <3> QED BY <3>1, ItemSyncAssumption, BankGrows DEF Latest
  <2>3. UNCHANGED bank => Len(bank') = Len(bank)
    OBVIOUS
  <2>4. UNCHANGED bank \/ \E t \in Txs, l \in Levels : BankChanges(t, l)
    BY DEF Surroundings, RefreshAccounts, CreateRow
  <2> QED BY <2>1, <2>2, <2>3, <2>4
<1>3. AsksForPast'
  BY <1>1, <1>2 DEF Informed, AsksForPast
<1>4. NewsReach' /\ AppliedReach' /\ CompletedReach' /\ atomic'
  BY <1>1 DEF Informed, NewsReach, AppliedReach, CompletedReach, HasPages
<1> QED BY <1>3, <1>4 DEF Informed

\* and under all.
LEMMA NextInformed ==
  ASSUME IndInv, ItemInv, Informed, [PipelineNext]_pipelineVars, overlap \/ cursor' >= cursor
  PROVE  Informed'
<1>1. TypeOK
  BY DEF ItemInv
<1>2. ASSUME NEW c \in Callers, NEW j \in Jobs, NEW k \in Keys, NEW d \in Delays,
             Accept(c, j, k, d)
      PROVE  Informed'
  <2>1. announced' = [announced EXCEPT ![j] = Latest]
    BY <1>2 DEF Accept
  <2>2. announced' = [i \in Jobs |-> IF i \in {j} THEN Latest ELSE announced[i]]
    BY <2>1 DEF Informed, AsksForPast
  <2>3. status[j] = "absent" /\ status' = [status EXCEPT ![j] = "queued"]
        /\ UNCHANGED <<at, job, pc, next, cursor, overlap, atomic, bank>>
    BY <1>2 DEF Accept, Queue!Insert, itemVars, vars, row, local, history
  <2>4. \A i \in Jobs : status'[i] = status[i] \/ status'[i] = "queued"
    BY <2>3 DEF IndInv, Types
  <2> QED BY <1>1, <2>2, <2>3, <2>4, AskInformed
<1>3. ASSUME NEW c \in Callers, Coalesce(c) PROVE Informed'
  <2> DEFINE asked == {j \in Jobs : status[j] = "queued" /\ key[j] = asking[c]}
  <2>1. announced' = [j \in Jobs |-> IF j \in asked THEN Latest ELSE announced[j]]
    BY <1>3 DEF Coalesce
  <2>2. UNCHANGED <<status, at, job, pc, next, cursor, overlap, atomic, bank>>
    BY <1>3 DEF Coalesce, Queue!Lookup, Queue!rows, itemVars, vars, row,
      local, history
  <2>3. asked \in SUBSET Jobs /\ \A j \in asked : status[j] \in {"absent", "queued"}
    OBVIOUS
  <2> HIDE DEF asked
  <2> QED BY <1>1, <2>1, <2>2, <2>3, AskInformed
<1>4. ASSUME NEW c \in Callers, NEW j \in Jobs, NEW k \in Keys, Collide(c, j, k)
      PROVE  Informed'
  BY <1>4, SameReach DEF Collide, Queue!Collide, Queue!rows, itemVars, vars, row, local,
      history, reach
<1>5. ASSUME NEW w \in Workers, QueueStep(w) \/ CompletionThrows(w) PROVE Informed'
  BY <1>5, QueueStepInformed
<1>6. ASSUME NEW w \in Workers, RunStep(w) PROVE Informed'
  BY <1>6, SyncStepInformed
<1>7. ASSUME NEW w \in Workers,
             \/ EndsEarly(w) \/ RefusedByLock(w) \/ RefusedByCooldown(w) \/ LockThrows(w)
             \/ \E outcome \in {"failing", "refusing"} : Fails(w, outcome)
             \/ Succeeds(w)
             \/ Disappears(w)
      PROVE  Informed'
  BY <1>1, <1>7, EndInformed
<1>8. CASE Surroundings
  BY <1>1, <1>8, SurroundingsInformed
<1>9. CASE ClockTick
  BY <1>9, SameReach DEF ClockTick, Queue!Elapse, Queue!rows, Elapse, reach
<1>10. CASE UNCHANGED pipelineVars
  BY <1>10, SameReach DEF pipelineVars, queueVars, itemVars, vars, row, local,
      history, reach
<1> QED BY <1>2, <1>3, <1>4, <1>5, <1>6, <1>7, <1>8, <1>9, <1>10 DEF PipelineNext, Rest

-----------------------------------------------------------------------------
\* The whole invariant: the queue's, the item's, and what relates the two.
WholeInv == IndInv /\ Clock /\ ItemInv /\ Informed

\* The whole invariant holds at first
LEMMA InitWhole == PipelineInit => WholeInv
<1> SUFFICES ASSUME PipelineInit PROVE WholeInv
  OBVIOUS
<1>1. Init
  BY DEF PipelineInit, Init, NoUpserts
<1>2. ItemInv
  BY <1>1, ItemSyncAssumption, InitItemInv
<1> QED BY <1>2, InitIndInv, InitClock, InitInformed DEF WholeInv

\* and every step keeps it.
LEMMA NextWhole == WholeInv /\ [PipelineNext]_pipelineVars => WholeInv'
<1> SUFFICES ASSUME WholeInv, [PipelineNext]_pipelineVars PROVE WholeInv'
  OBVIOUS
<1>1. IndInv /\ Clock /\ ItemInv /\ Informed /\ TypeOK
  BY DEF WholeInv, ItemInv
<1>2. [Steps]_vars
  BY <1>1, ItemSteps
<1>3. ItemInv' /\ (overlap \/ cursor' >= cursor)
  BY <1>1, <1>2, ItemSyncAssumption, StepsItemInv
<1>4. IndInv' /\ Clock' /\ Informed'
  BY <1>1, <1>3, NextIndInv, NextClock, NextInformed
<1> QED BY <1>3, <1>4 DEF WholeInv

\* Whoever asked for a sync when the bank's webhook came has the bank's data in
\* the database once the job is completed, be it a job of its own or one its
\* request was coalesced into, and however often workers crashed, runs failed
\* and were retried, or locks expired, unless syncs overlapped.
THEOREM AnnouncedImported == PipelineSpec => []AnnouncedIsImported
<1>1. WholeInv => AnnouncedIsImported
  <2> SUFFICES ASSUME WholeInv, ~overlap, NEW j \in Jobs, NEW t \in Txs \ missed,
                      status[j] = "completed"
               PROVE  \E n \in announced[j] .. Latest : store[t] = Shown(bank[n][t])
    BY DEF AnnouncedIsImported
  <2>1. announced[j] \in 0 .. Latest /\ announced[j] <= cursor
    BY DEF WholeInv, Informed, AsksForPast, CompletedReach
  <2>2. PICK n \in cursor .. Latest : store[t] = Shown(bank[n][t])
    BY DEF WholeInv, ItemInv, StoreInv, NothingSkippedStepwise,
           NeverBehind
  <2>3. Latest = Latest /\ Shown(bank[n][t]) = Shown(bank[n][t])
    BY DEF Latest, Shown
  <2>4. cursor \in Nat /\ Latest \in Nat
    BY DEF WholeInv, ItemInv, TypeOK
  <2>5. n \in announced[j] .. Latest
    BY <2>1, <2>2, <2>3, <2>4
  <2> QED BY <2>2, <2>3, <2>5
<1> QED BY <1>1, InitWhole, NextWhole, PTL DEF PipelineSpec
=============================================================================
