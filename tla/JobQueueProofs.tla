--------------------------- MODULE JobQueueProofs ---------------------------
(***************************************************************************)
(* Proofs about JobQueue, for all constants that satisfy                   *)
(* ConstantsAssumption: any number of jobs, threads, operators, retries,   *)
(* crashes, database errors and commands.                                  *)
(***************************************************************************)
EXTENDS JobQueue, FiniteSetTheorems, TLAPS

LEMMA NowIsNat ==
  ASSUME TypeOK PROVE Now \in Nat
<1> DEFINE ranks == {created[j] : j \in Jobs}
<1>1. created \in Surjection(Jobs, ranks)
  BY DEF Surjection, TypeOK
<1>2. IsFiniteSet(ranks)
  BY <1>1, ConstantsAssumption, FS_Surjection
<1> QED BY <1>2, FS_CardinalityType DEF Now

\* Repair hands out ids of absent rows, one source to each.
LEMMA RepairRowsType ==
  ASSUME NEW row \in RepairRows
  PROVE  /\ DOMAIN row \in SUBSET Absent
         /\ \A j \in DOMAIN row : row[j] \in Sources
<1>1. PICK ids \in SUBSET Absent : row \in [ids -> Orphans]
  BY DEF RepairRows
<1>2. Orphans \subseteq Sources
  BY DEF Orphans
<1> QED BY <1>1, <1>2

-----------------------------------------------------------------------------
(* Types, and the threads that hold a job *)

\* Every step, manual retries included, keeps the variables in their types and
\* the threads in step with the worker and with what they hold.
LEMMA NextKeepsTypes ==
  TypeOK /\ ThreadsInv /\ [Next]_vars => TypeOK' /\ ThreadsInv'
<1> SUFFICES ASSUME TypeOK, ThreadsInv, [Next]_vars PROVE TypeOK' /\ ThreadsInv'
  OBVIOUS
<1> USE ConstantsAssumption
    DEF TypeOK, ThreadsInv, Busy, PC, rowVars, threadVars, histVars, boundVars
<1>1. ASSUME NEW batch \in SUBSET Absent, NEW src \in [batch -> Sources],
             EnqueueJobs(batch, src)
      PROVE TypeOK' /\ ThreadsInv'
  BY <1>1, NowIsNat DEF EnqueueJobs, Status
<1>2. ASSUME NEW j \in Jobs, BackoffElapses(j) PROVE TypeOK' /\ ThreadsInv'
  BY <1>2 DEF BackoffElapses
<1>3. CASE StartWorker
  BY <1>3 DEF StartWorker
<1>4. CASE RecoverAndLaunch
  BY <1>4 DEF RecoverAndLaunch, ResetProcessing, Status
<1>5. CASE WorkerExits
  BY <1>5 DEF WorkerExits
<1>6. CASE CrashWorker
  BY <1>6 DEF CrashWorker
<1>7. ASSUME NEW t \in Threads, ThreadStep(t) PROVE TypeOK' /\ ThreadsInv'
  <2> USE DEF AtStep, Goto, LetGo, SetStatus, Exists
  <2>1. CASE ClaimNextPendingJob(t)
    <3>1. PICK j \in NextCandidates :
            /\ status' = [status EXCEPT ![j] = "processing"]
            /\ held' = [held EXCEPT ![t] = j]
            /\ readCount' = [readCount EXCEPT ![t] = retryCount[j]]
      BY <2>1 DEF ClaimNextPendingJob
    <3>2. j \in Jobs BY DEF NextCandidates
    <3> QED BY <2>1, <3>1, <3>2 DEF ClaimNextPendingJob, Status
  <2>2. CASE NoPendingJobs(t)
    BY <2>2 DEF NoPendingJobs
  <2>3. CASE ProduceFiles(t)
    <3>1. PICK d \in {"partial", "results"} : dir' = [dir EXCEPT ![source[held[t]]] = d]
      BY <2>3 DEF ProduceFiles
    <3> QED BY <2>3, <3>1 DEF ProduceFiles, Dir
  <2>4. CASE WorkflowReturns(t)
    BY <2>4 DEF WorkflowReturns
  <2>5. ASSUME NEW c \in {"error", "timeout"}, WorkflowRaises(t, c)
        PROVE TypeOK' /\ ThreadsInv'
    BY <2>5 DEF WorkflowRaises
  <2>6. CASE MarkDone(t)
    BY <2>6 DEF MarkDone, Status
  <2>7. CASE MarkFailed(t)
    BY <2>7 DEF MarkFailed, Status
  <2>8. CASE ReadRetryCount(t)
    BY <2>8 DEF ReadRetryCount
  <2>9. CASE ScheduleRetry(t)
    <3>1. retryCount' \in [Jobs -> Nat] /\ backingOff' \in [Jobs -> BOOLEAN]
      BY <2>9 DEF ScheduleRetry
    <3> QED BY <2>9, <3>1 DEF ScheduleRetry, Status
  <2>10. CASE MoveToDeadLetter(t)
    BY <2>10 DEF MoveToDeadLetter, Status
  <2>11. CASE ThreadDies(t)
    BY <2>11 DEF ThreadDies
  <2> QED BY <1>7, <2>1, <2>2, <2>3, <2>4, <2>5, <2>6, <2>7, <2>8, <2>9, <2>10, <2>11
          DEF ThreadStep
<1>8. ASSUME NEW o \in Operators, Maintenance(o) \/ ManualRetry(o)
      PROVE TypeOK' /\ ThreadsInv'
  <2> USE DEF Command, WithStatus
  <2>1. ASSUME NEW statuses \in PruneScopes, PruneSelect(o, statuses)
        PROVE TypeOK' /\ ThreadsInv'
    <3>1. statuses \in SUBSET Status
      <4>1. Finished \subseteq Status /\ {"dead_letter"} \subseteq Status
        BY DEF Finished, Status
      <4> QED BY <4>1 DEF PruneScopes
    <3>2. PICK rows \in SUBSET Jobs :
            op' = [op EXCEPT ![o] = [task |-> "prune", statuses |-> statuses, rows |-> rows]]
      BY <2>1 DEF PruneSelect
    <3>3. [task |-> "prune", statuses |-> statuses, rows |-> rows] \in
            [task : {"idle", "retry", "prune"}, statuses : SUBSET Status, rows : SUBSET Jobs]
      BY <3>1
    <3> QED BY <2>1, <3>2, <3>3 DEF PruneSelect
  <2>2. CASE PruneDelete(o)
    BY <2>2 DEF PruneDelete, Status, Idle
  <2>3. ASSUME NEW row \in RepairRows, RepairQueue(o, row)
        PROVE TypeOK' /\ ThreadsInv'
    BY <2>3, RepairRowsType, NowIsNat DEF RepairQueue, ResetProcessing, Absent, Status
  <2>4. ASSUME NEW s \in Sources, DeleteSource(o, s) \/ RunDirectly(o, s)
        PROVE TypeOK' /\ ThreadsInv'
    BY <2>4 DEF DeleteSource, RunDirectly, Dir
  <2>5. ASSUME NEW rows \in SUBSET Jobs, RetrySelect(o, rows)
        PROVE TypeOK' /\ ThreadsInv'
    BY <2>5 DEF RetrySelect, Status
  <2>6. CASE RetryUpdate(o)
    BY <2>6 DEF RetryUpdate, RetryReset, Status, Idle
  <2> QED BY <1>8, <2>1, <2>2, <2>3, <2>4, <2>5, <2>6 DEF Maintenance, ManualRetry
<1>9. CASE UNCHANGED vars
  BY <1>9 DEF vars
<1> QED BY <1>1, <1>2, <1>3, <1>4, <1>5, <1>6, <1>7, <1>8, <1>9
        DEF Next, QueueNext, Ingest, WorkerStep

\* The program starts well-typed, with no thread running.
LEMMA InitTypes == Init => TypeOK /\ ThreadsInv
BY ConstantsAssumption
   DEF Init, TypeOK, ThreadsInv, Busy, PC, Dir, Idle, Status

\* With or without manual retries, every variable keeps its type.
THEOREM TypeCorrect == Spec => []TypeOK
<1>1. Init => TypeOK /\ ThreadsInv BY InitTypes
<1>2. TypeOK /\ ThreadsInv /\ [Next]_vars => (TypeOK /\ ThreadsInv)'
  BY NextKeepsTypes
<1> QED BY <1>1, <1>2, PTL DEF Spec

-----------------------------------------------------------------------------
(* The inductive invariant of the queue without manual retries *)

\* At a thread's failing states its held job is a job.
LEMMA BusyHoldsJob ==
  ASSUME TypeOK, ThreadsInv, NEW t \in Threads, pc[t] \in Busy
  PROVE  held[t] \in Jobs
BY DEF TypeOK, ThreadsInv

\* A step that leaves the rows, the threads and the fault counters alone, and
\* forgets no failure, preserves the invariant.
LEMMA QuietStep ==
  ASSUME HeldStatusInv, ExclusiveExecution, ReadCountInv, FailsInv,
         status' = status, retryCount' = retryCount, pc' = pc, held' = held,
         readCount' = readCount, fails' = fails, crashes' = crashes, dbErrors' = dbErrors
  PROVE  HeldStatusInv' /\ ExclusiveExecution' /\ ReadCountInv' /\ FailsInv'
BY DEF HeldStatusInv, ExclusiveExecution, ReadCountInv, FailsInv, Accounted

LEMMA QueueNextKeepsIInv == IInv /\ [QueueNext]_vars => IInv'
<1> SUFFICES ASSUME IInv, [QueueNext]_vars
             PROVE HeldStatusInv' /\ ExclusiveExecution' /\ ReadCountInv' /\ FailsInv'
  BY NextKeepsTypes DEF IInv, Next
<1> DEFINE Goal == HeldStatusInv' /\ ExclusiveExecution' /\ ReadCountInv' /\ FailsInv'
<1> USE DEF rowVars, threadVars, histVars, boundVars
<1>1. ASSUME NEW batch \in SUBSET Absent, NEW src \in [batch -> Sources],
             EnqueueJobs(batch, src)
      PROVE Goal
  <2> USE <1>1 DEF EnqueueJobs, IInv
  <2>1. HeldStatusInv'
    BY BusyHoldsJob DEF HeldStatusInv, Absent, TypeOK, Busy
  <2>2. ExclusiveExecution' /\ ReadCountInv'
    BY DEF ExclusiveExecution, ReadCountInv
  <2>3. FailsInv'
    BY DEF FailsInv, Accounted, Absent, TypeOK
  <2> QED BY <2>1, <2>2, <2>3
<1>2. ASSUME NEW j \in Jobs, BackoffElapses(j) PROVE Goal
  BY <1>2, QuietStep DEF BackoffElapses, IInv
<1>3. CASE StartWorker
  BY <1>3, QuietStep DEF StartWorker, IInv
<1>4. CASE RecoverAndLaunch
  <2> USE <1>4 DEF RecoverAndLaunch, IInv
  <2>1. \A t \in Threads : held[t] = None /\ held'[t] = None /\ pc'[t] = "claim"
    BY DEF ThreadsInv, Busy
  <2>2. HeldStatusInv' /\ ExclusiveExecution' /\ ReadCountInv'
    BY <2>1 DEF HeldStatusInv, ExclusiveExecution, ReadCountInv, Busy
  <2>3. FailsInv'
    BY <2>1, ConstantsAssumption DEF FailsInv, Accounted, ResetProcessing, TypeOK
  <2> QED BY <2>2, <2>3
<1>5. CASE WorkerExits
  <2> USE <1>5 DEF WorkerExits, IInv
  <2>1. \A t \in Threads : held[t] = None /\ held'[t] = None /\ pc'[t] = "down"
    BY DEF ThreadsInv, Busy
  <2>2. HeldStatusInv' /\ ExclusiveExecution' /\ ReadCountInv'
    BY <2>1 DEF HeldStatusInv, ExclusiveExecution, ReadCountInv, Busy
  <2>3. FailsInv'
    BY <2>1, ConstantsAssumption DEF FailsInv, Accounted
  <2> QED BY <2>2, <2>3
<1>6. CASE CrashWorker
  <2> USE <1>6 DEF CrashWorker, IInv
  <2>1. \A t \in Threads : held'[t] = None /\ pc'[t] = "down"
    OBVIOUS
  <2>2. HeldStatusInv' /\ ExclusiveExecution' /\ ReadCountInv'
    BY <2>1 DEF HeldStatusInv, ExclusiveExecution, ReadCountInv, Busy
  <2>3. \A j \in Jobs : fails[j] <= Accounted(j) + 1 /\ Accounted(j)' = Accounted(j) + 1
    BY DEF FailsInv, Accounted, TypeOK
  <2>4. FailsInv'
    BY <2>1, <2>3 DEF FailsInv, Accounted, TypeOK
  <2> QED BY <2>2, <2>4
<1>7. ASSUME NEW t \in Threads, ThreadStep(t) PROVE Goal
  <2> USE DEF AtStep, Goto, LetGo, IInv
  <2>0. pc[t] \in Busy => held[t] \in Jobs
    BY BusyHoldsJob
  <2>a. \A u \in Threads : u # t /\ pc[t] \in Busy => held[u] # held[t]
    BY <2>0, ConstantsAssumption DEF ExclusiveExecution, ThreadsInv
  <2>1. CASE ClaimNextPendingJob(t)
    <3> USE <2>1 DEF ClaimNextPendingJob
    <3>1. PICK j \in NextCandidates :
            /\ status' = [status EXCEPT ![j] = "processing"]
            /\ held' = [held EXCEPT ![t] = j]
            /\ readCount' = [readCount EXCEPT ![t] = retryCount[j]]
      OBVIOUS
    <3>2. j \in Jobs /\ status[j] = "pending"
      BY DEF NextCandidates, Claimable
    <3>3. \A u \in Threads : held[u] # j
      BY <3>2, ConstantsAssumption DEF HeldStatusInv, ThreadsInv, Busy
    <3>4. HeldStatusInv'
      BY <3>1, <3>2, <3>3, BusyHoldsJob DEF HeldStatusInv, Busy, TypeOK
    <3>5. ExclusiveExecution'
      BY <3>1, <3>2, <3>3, <2>0 DEF ExclusiveExecution, TypeOK
    <3>6. ReadCountInv'
      BY <3>1, <3>2 DEF ReadCountInv, Busy, TypeOK
    <3>7. FailsInv'
      BY <3>1, <3>2, <3>3 DEF FailsInv, Accounted, Failing, TypeOK
    <3> QED BY <3>4, <3>5, <3>6, <3>7
  <2>2. CASE NoPendingJobs(t)
    <3> USE <2>2 DEF NoPendingJobs
    <3>1. HeldStatusInv' /\ ExclusiveExecution' /\ ReadCountInv'
      BY DEF HeldStatusInv, ExclusiveExecution, ReadCountInv, Busy, TypeOK
    <3>2. FailsInv'
      BY DEF FailsInv, Accounted, Failing, TypeOK
    <3> QED BY <3>1, <3>2
  <2>3. CASE ProduceFiles(t)
    BY <2>3, QuietStep DEF ProduceFiles
  <2>4. CASE WorkflowReturns(t)
    <3> USE <2>4 DEF WorkflowReturns
    <3>1. HeldStatusInv' /\ ExclusiveExecution' /\ ReadCountInv'
      BY DEF HeldStatusInv, ExclusiveExecution, ReadCountInv, Busy, TypeOK
    <3>2. FailsInv'
      BY DEF FailsInv, Accounted, Failing, TypeOK
    <3> QED BY <3>1, <3>2
  <2>5. ASSUME NEW c \in {"error", "timeout"}, WorkflowRaises(t, c) PROVE Goal
    <3> USE <2>5 DEF WorkflowRaises
    <3>1. HeldStatusInv' /\ ExclusiveExecution' /\ ReadCountInv'
      BY DEF HeldStatusInv, ExclusiveExecution, ReadCountInv, Busy, TypeOK
    <3>2. FailsInv'
      BY <2>0, <2>a DEF FailsInv, Accounted, Failing, Busy, TypeOK
    <3> QED BY <3>1, <3>2
  <2>6. CASE MarkDone(t)
    <3> USE <2>6 DEF MarkDone
    <3>1. HeldStatusInv'
      BY <2>0, <2>a, BusyHoldsJob DEF HeldStatusInv, SetStatus, Exists, Busy, TypeOK
    <3>2. ExclusiveExecution' /\ ReadCountInv'
      BY DEF ExclusiveExecution, ReadCountInv, Busy, TypeOK
    <3>3. FailsInv'
      BY <2>0, <2>a DEF FailsInv, Accounted, Failing, SetStatus, Busy, TypeOK
    <3> QED BY <3>1, <3>2, <3>3
  <2>7. CASE MarkFailed(t)
    <3> USE <2>7 DEF MarkFailed
    <3>1. HeldStatusInv'
      BY <2>0, <2>a, BusyHoldsJob DEF HeldStatusInv, SetStatus, Exists, Status, Busy, TypeOK
    <3>2. ExclusiveExecution' /\ ReadCountInv'
      BY DEF ExclusiveExecution, ReadCountInv, MayRetry, Busy, TypeOK
    <3>3. FailsInv'
      BY <2>0, <2>a DEF FailsInv, Accounted, Failing, SetStatus, Busy, TypeOK
    <3> QED BY <3>1, <3>2, <3>3
  <2>8. CASE ReadRetryCount(t)
    <3> USE <2>8 DEF ReadRetryCount
    <3>1. HeldStatusInv'
      BY DEF HeldStatusInv, Busy, TypeOK
    <3>2. ExclusiveExecution' /\ ReadCountInv'
      BY DEF ExclusiveExecution, ReadCountInv, Busy, TypeOK
    <3>3. CASE Exists(held[t])
      <4>0. held' = held /\ pc' = [pc EXCEPT ![t] = "schedule_retry"]
        BY <3>3
      <4>1. \A u \in Threads : pc'[u] \in Failing <=> pc[u] \in Failing
        BY <4>0 DEF Failing, TypeOK
      <4>2. \A u \in Threads : pc'[u] = "execute" <=> pc[u] = "execute"
        BY <4>0 DEF TypeOK
      <4> QED BY <3>1, <3>2, <4>0, <4>1, <4>2 DEF FailsInv, Accounted
    <3>4. CASE ~Exists(held[t])
      <4>1. status[held[t]] = "deleted"
        BY <3>4 DEF HeldStatusInv, Exists, Status
      <4>2. \A u \in Threads, j \in Jobs :
              held'[u] = j => held[u] = j /\ pc'[u] = pc[u]
        BY <3>4, ConstantsAssumption DEF TypeOK
      <4>3. \A u \in Threads, j \in Jobs :
              held[u] = j /\ j # held[t] => held'[u] = j /\ pc'[u] = pc[u]
        BY <3>4 DEF TypeOK
      <4> QED BY <3>1, <3>2, <2>0, <4>1, <4>2, <4>3 DEF FailsInv, Accounted
    <3> QED BY <3>3, <3>4
  <2>9. CASE ScheduleRetry(t)
    <3> USE <2>9 DEF ScheduleRetry
    <3>1. HeldStatusInv'
      BY <2>0, <2>a, BusyHoldsJob DEF HeldStatusInv, SetStatus, Exists, Busy, TypeOK
    <3>2. ExclusiveExecution' /\ ReadCountInv'
      BY <2>0, <2>a DEF ExclusiveExecution, ReadCountInv, Busy, TypeOK
    <3>3. FailsInv'
      BY <2>0, <2>a, ConstantsAssumption
         DEF FailsInv, ReadCountInv, HeldStatusInv, Accounted, Failing, SetStatus, Exists,
             Status, Busy, TypeOK
    <3> QED BY <3>1, <3>2, <3>3
  <2>10. CASE MoveToDeadLetter(t)
    <3> USE <2>10 DEF MoveToDeadLetter
    <3>1. HeldStatusInv'
      BY <2>0, <2>a, BusyHoldsJob DEF HeldStatusInv, SetStatus, Exists, Busy, TypeOK
    <3>2. ExclusiveExecution' /\ ReadCountInv'
      BY DEF ExclusiveExecution, ReadCountInv, Busy, TypeOK
    <3>3. FailsInv'
      BY <2>0, <2>a DEF FailsInv, HeldStatusInv, Accounted, Failing, SetStatus, Exists,
                       Status, Busy, TypeOK
    <3> QED BY <3>1, <3>2, <3>3
  <2>11. CASE ThreadDies(t)
    <3> USE <2>11 DEF ThreadDies
    <3>1. HeldStatusInv' /\ ExclusiveExecution' /\ ReadCountInv'
      BY DEF HeldStatusInv, ExclusiveExecution, ReadCountInv, Busy, TypeOK
    <3>2. FailsInv'
      BY DEF FailsInv, Accounted, Failing, TypeOK
    <3> QED BY <3>1, <3>2
  <2> QED BY <1>7, <2>1, <2>2, <2>3, <2>4, <2>5, <2>6, <2>7, <2>8, <2>9, <2>10, <2>11
          DEF ThreadStep
<1>8. ASSUME NEW o \in Operators, Maintenance(o) PROVE Goal
  <2> USE DEF Command, IInv
  <2>1. ASSUME NEW statuses \in PruneScopes, PruneSelect(o, statuses) PROVE Goal
    BY <2>1, QuietStep DEF PruneSelect
  <2>2. CASE PruneDelete(o)
    <3> USE <2>2 DEF PruneDelete
    <3>1. \A j \in Jobs : status'[j] \in {status[j], "deleted"}
      OBVIOUS
    <3>2. HeldStatusInv'
      BY <3>1, BusyHoldsJob DEF HeldStatusInv, Busy
    <3>3. ExclusiveExecution' /\ ReadCountInv'
      BY DEF ExclusiveExecution, ReadCountInv
    <3>4. FailsInv'
      BY <3>1 DEF FailsInv, Accounted
    <3> QED BY <3>2, <3>3, <3>4
  <2>3. ASSUME NEW row \in RepairRows, RepairQueue(o, row) PROVE Goal
    <3> USE <2>3 DEF RepairQueue
    <3>1. \A u \in Threads : held[u] = None /\ pc[u] = "down"
      BY DEF NoWorkerLock, ThreadsInv, Busy
    <3>2. HeldStatusInv' /\ ExclusiveExecution' /\ ReadCountInv'
      BY <3>1 DEF HeldStatusInv, ExclusiveExecution, ReadCountInv, Busy
    <3>3. FailsInv'
      BY <3>1, ConstantsAssumption DEF FailsInv, Accounted, ResetProcessing, TypeOK
    <3> QED BY <3>2, <3>3
  <2>4. ASSUME NEW s \in Sources, DeleteSource(o, s) \/ RunDirectly(o, s) PROVE Goal
    BY <2>4, QuietStep DEF DeleteSource, RunDirectly
  <2> QED BY <1>8, <2>1, <2>2, <2>3, <2>4 DEF Maintenance
<1>9. CASE UNCHANGED vars
  BY <1>9, QuietStep DEF vars, IInv
<1> QED BY <1>1, <1>2, <1>3, <1>4, <1>5, <1>6, <1>7, <1>8, <1>9
        DEF QueueNext, Ingest, WorkerStep

\* The empty queue with no worker satisfies the invariant.
LEMMA InitIInv == Init => IInv
<1> SUFFICES ASSUME Init PROVE IInv
  OBVIOUS
<1>1. TypeOK /\ ThreadsInv
  BY InitTypes
<1>2. HeldStatusInv /\ ExclusiveExecution /\ ReadCountInv
  BY DEF Init, HeldStatusInv, ExclusiveExecution, ReadCountInv, Busy
<1>3. FailsInv
  BY ConstantsAssumption DEF Init, FailsInv, Accounted
<1> QED BY <1>1, <1>2, <1>3 DEF IInv

\* IInv holds in every state the queue reaches without manual retries.
THEOREM InvariantHolds == QueueSpec => []IInv
BY InitIInv, QueueNextKeepsIInv, PTL DEF QueueSpec

\* However many threads, crashes, repairs and prunes: two threads never work on
\* one job.
THEOREM NoDoubleExecution == QueueSpec => []ExclusiveExecution
<1>1. IInv => ExclusiveExecution BY DEF IInv
<1> QED BY <1>1, InvariantHolds, PTL

\* The number of failed attempts of a job is bounded by MaxRetries + 1 and the
\* faults, for every MaxRetries.
THEOREM RetriesAreBounded == QueueSpec => []RetryBudget
<1>1. IInv => RetryBudget
  <2> SUFFICES ASSUME IInv, NEW j \in Jobs
               PROVE /\ retryCount[j] <= MaxRetries
                     /\ fails[j] <= MaxRetries + 1 + crashes + dbErrors
    BY DEF RetryBudget
  <2>1. /\ retryCount[j] \in Nat /\ fails[j] \in Nat
        /\ crashes \in Nat /\ dbErrors \in Nat /\ MaxRetries \in Nat
    BY ConstantsAssumption DEF IInv, TypeOK
  <2>2. retryCount[j] <= MaxRetries /\ fails[j] <= retryCount[j] + crashes + dbErrors + 1
    BY DEF IInv, FailsInv, Accounted
  <2> QED BY <2>1, <2>2
<1> QED BY <1>1, InvariantHolds, PTL

-----------------------------------------------------------------------------
(* What follows from the invariant step by step *)

\* A done or dead-letter row is never written again but by DELETE: the threads'
\* late updates hit only the row each thread still owns.
THEOREM FinalStatusIsFinal == QueueSpec => FinalStatusStays
<1> DEFINE Stays == \A j \in Jobs : status[j] \in {"done", "dead_letter"} =>
                       status'[j] \in {status[j], "deleted"}
<1>1. ASSUME IInv, [QueueNext]_vars PROVE [Stays]_vars
  <2> USE <1>1 DEF IInv, TypeOK
  <2>1. ASSUME NEW batch \in SUBSET Absent, NEW src \in [batch -> Sources],
               EnqueueJobs(batch, src)
        PROVE Stays
    BY <2>1 DEF EnqueueJobs, Absent
  <2>2. CASE RecoverAndLaunch
    BY <2>2 DEF RecoverAndLaunch, ResetProcessing
  <2>3. ASSUME NEW t \in Threads, ThreadStep(t) PROVE Stays
    <3> USE DEF AtStep, SetStatus
    <3>0. pc[t] \in Busy => held[t] \in Jobs
      BY BusyHoldsJob
    <3>1. CASE ClaimNextPendingJob(t)
      BY <3>1 DEF ClaimNextPendingJob, NextCandidates, Claimable
    <3>2. CASE MarkDone(t) \/ MarkFailed(t)
      <4>1. status[held[t]] \in {"processing", "deleted"}
        BY <3>2 DEF MarkDone, MarkFailed, HeldStatusInv
      <4> QED BY <3>2, <3>0, <4>1 DEF MarkDone, MarkFailed, Busy
    <3>3. CASE ScheduleRetry(t) \/ MoveToDeadLetter(t)
      <4>1. status[held[t]] \in {"failed", "deleted"}
        BY <3>3 DEF ScheduleRetry, MoveToDeadLetter, HeldStatusInv
      <4> QED BY <3>3, <3>0, <4>1 DEF ScheduleRetry, MoveToDeadLetter, Busy
    <3>4. CASE status' = status
      BY <3>4
    <3> QED BY <2>3, <3>1, <3>2, <3>3, <3>4
            DEF ThreadStep, NoPendingJobs, ProduceFiles, WorkflowReturns, WorkflowRaises,
                ReadRetryCount, ThreadDies, rowVars
  <2>4. ASSUME NEW o \in Operators, Maintenance(o) PROVE Stays
    <3>1. ASSUME NEW row \in RepairRows, RepairQueue(o, row) PROVE Stays
      BY <3>1, RepairRowsType DEF RepairQueue, ResetProcessing, Absent
    <3>2. CASE PruneDelete(o)
      BY <3>2 DEF PruneDelete
    <3>3. CASE status' = status
      BY <3>3
    <3> QED BY <2>4, <3>1, <3>2, <3>3 DEF Maintenance, PruneSelect, DeleteSource, RunDirectly, rowVars
  <2>5. CASE status' = status
    BY <2>5
  <2> QED BY <1>1, <2>1, <2>2, <2>3, <2>4, <2>5
          DEF QueueNext, Ingest, WorkerStep, BackoffElapses, StartWorker, WorkerExits,
              CrashWorker, rowVars, vars
<1>2. QueueSpec => [][Stays]_vars
  BY <1>1, InvariantHolds, PTL DEF QueueSpec
<1> QED BY <1>2 DEF FinalStatusStays

\* While the worker runs, no row stays in processing without a thread that works
\* on it, or one that a database error has ended.
THEOREM ProcessingHasOwner == QueueSpec => []ProcessingIsOwned
<1>1. Init => ProcessingIsOwned
  BY DEF Init, ProcessingIsOwned
<1>2. ASSUME IInv, ProcessingIsOwned, [QueueNext]_vars PROVE ProcessingIsOwned'
  <2> USE DEF IInv, rowVars, threadVars, histVars, boundVars
  <2>1. ASSUME NEW batch \in SUBSET Absent, NEW src \in [batch -> Sources],
               EnqueueJobs(batch, src)
        PROVE ProcessingIsOwned'
    BY <1>2, <2>1 DEF EnqueueJobs, ProcessingIsOwned
  <2>2. CASE RecoverAndLaunch
    BY <1>2, <2>2 DEF RecoverAndLaunch, ResetProcessing, ProcessingIsOwned
  <2>3. CASE StartWorker \/ WorkerExits \/ CrashWorker
    BY <2>3 DEF StartWorker, WorkerExits, CrashWorker, ProcessingIsOwned
  <2>4. ASSUME NEW t \in Threads, ThreadStep(t) PROVE ProcessingIsOwned'
    <3> USE DEF AtStep, Goto, LetGo, TypeOK
    <3>0. pc[t] \in Busy => held[t] \in Jobs
      BY <1>2, BusyHoldsJob
    <3>1. CASE ClaimNextPendingJob(t)
      <4>1. PICK j \in NextCandidates :
              /\ status' = [status EXCEPT ![j] = "processing"]
              /\ held' = [held EXCEPT ![t] = j]
        BY <3>1 DEF ClaimNextPendingJob
      <4>2. held[t] \notin Jobs
        BY <1>2, <3>1, ConstantsAssumption DEF ThreadsInv, ClaimNextPendingJob, Busy
      <4> QED BY <1>2, <3>1, <4>1, <4>2 DEF ClaimNextPendingJob, ProcessingIsOwned
    <3>2. CASE MarkDone(t) \/ ScheduleRetry(t) \/ MoveToDeadLetter(t)
      <4>1. held[t] \in Jobs
        BY <3>0, <3>2 DEF MarkDone, ScheduleRetry, MoveToDeadLetter, Busy
      <4>2. status'[held[t]] # "processing"
        BY <1>2, <3>2, <4>1
           DEF MarkDone, ScheduleRetry, MoveToDeadLetter, SetStatus, Exists, Status, HeldStatusInv
      <4>3. \A j \in Jobs \ {held[t]} : status'[j] = status[j]
        BY <1>2, <3>2 DEF MarkDone, ScheduleRetry, MoveToDeadLetter, SetStatus
      <4>4. /\ worker' = worker /\ held' = [held EXCEPT ![t] = None]
            /\ pc' = [pc EXCEPT ![t] = "claim"] /\ pc[t] # "ended"
        BY <3>2 DEF MarkDone, ScheduleRetry, MoveToDeadLetter
      <4> QED BY <1>2, <4>2, <4>3, <4>4 DEF ProcessingIsOwned
    <3>3. CASE MarkFailed(t)
      <4>1. \A j \in Jobs : status'[j] = "processing" => status[j] = "processing"
        BY <3>3 DEF MarkFailed, SetStatus
      <4> QED BY <1>2, <3>3, <4>1 DEF MarkFailed, ProcessingIsOwned
    <3>4. CASE ReadRetryCount(t)
      <4>1. status[held[t]] # "processing"
        BY <1>2, <3>4 DEF ReadRetryCount, HeldStatusInv
      <4> QED BY <1>2, <3>4, <4>1 DEF ReadRetryCount, ProcessingIsOwned
    <3>5. ASSUME NEW c \in {"error", "timeout"}, WorkflowRaises(t, c)
          PROVE ProcessingIsOwned'
      BY <1>2, <3>5 DEF WorkflowRaises, ProcessingIsOwned
    <3>6. CASE NoPendingJobs(t) \/ ProduceFiles(t) \/ WorkflowReturns(t) \/ ThreadDies(t)
      BY <1>2, <3>6
         DEF NoPendingJobs, ProduceFiles, WorkflowReturns, ThreadDies, ProcessingIsOwned
    <3> QED BY <2>4, <3>1, <3>2, <3>3, <3>4, <3>5, <3>6 DEF ThreadStep
  <2>5. ASSUME NEW o \in Operators, Maintenance(o) PROVE ProcessingIsOwned'
    <3>1. \A row \in RepairRows : RepairQueue(o, row) => ProcessingIsOwned'
      BY DEF RepairQueue, NoWorkerLock, ProcessingIsOwned
    <3>2. PruneDelete(o) => ProcessingIsOwned'
      BY <1>2 DEF PruneDelete, ProcessingIsOwned
    <3>3. \A statuses \in PruneScopes : PruneSelect(o, statuses) => ProcessingIsOwned'
      BY <1>2 DEF PruneSelect, ProcessingIsOwned
    <3>4. \A s \in Sources : DeleteSource(o, s) \/ RunDirectly(o, s) => ProcessingIsOwned'
      BY <1>2 DEF DeleteSource, RunDirectly, ProcessingIsOwned
    <3> QED BY <2>5, <3>1, <3>2, <3>3, <3>4 DEF Maintenance
  <2>6. CASE UNCHANGED vars \/ \E j \in Jobs : BackoffElapses(j)
    BY <1>2, <2>6 DEF vars, BackoffElapses, ProcessingIsOwned
  <2> QED BY <1>2, <2>1, <2>2, <2>3, <2>4, <2>5, <2>6 DEF QueueNext, Ingest, WorkerStep
<1> QED BY <1>1, <1>2, InvariantHolds, PTL DEF QueueSpec

-----------------------------------------------------------------------------
(* Final statuses are earned, manual retries included *)

\* The threads on their way through the failure of an attempt at j.  With
\* manual retries there may be several.
FailingOn(j) == {t \in Threads : held[t] = j /\ pc[t] \in Failing}

\* No retry is counted that is not the consequence of a failure of its own:
\* not by the row, nor by what a thread has read of it, and the failures
\* whose thread is still to count them come on top.
CountsInv ==
  /\ \A j \in Jobs : retryCount[j] + Cardinality(FailingOn(j)) <= fails[j]
  /\ \A t \in Threads, j \in Jobs : held[t] = j =>
       readCount[t] + Cardinality(FailingOn(j)) <= fails[j]

\* What the dead-letter status of j stands for.
Spent(j) == j \in timedOut \/ fails[j] > MaxRetries

\* A thread that is about to write a final status knows what the status says.
VerdictInv ==
  \A t \in Threads :
    /\ pc[t] = "mark_done" => held[t] \in succeeded
    /\ cause[t] = "timeout" => held[t] \in timedOut
    /\ pc[t] = "dead_letter" => Spent(held[t])

EarnedInv ==
  TypeOK /\ ThreadsInv /\ CountsInv /\ VerdictInv /\ FinalStatusIsEarned

LEMMA FailingOnIsFinite ==
  ASSUME NEW j
  PROVE  /\ IsFiniteSet(FailingOn(j)) /\ IsFiniteSet(FailingOn(j)')
         /\ Cardinality(FailingOn(j)) \in Nat /\ Cardinality(FailingOn(j)') \in Nat
<1>1. FailingOn(j) \in SUBSET Threads /\ FailingOn(j)' \in SUBSET Threads
  BY DEF FailingOn
<1>2. IsFiniteSet(FailingOn(j)) /\ IsFiniteSet(FailingOn(j)')
  BY <1>1, ConstantsAssumption, FS_Subset
<1> QED BY <1>2, FS_CardinalityType

\* A step in which no thread gets busy or starts to fail, and after which the
\* busy threads know what they knew before.
\* A step in which no thread takes a job or starts to fail, and after which the
\* threads know what they knew before.
LEMMA NoNewFailure ==
  ASSUME TypeOK, TypeOK', CountsInv,
         retryCount' = retryCount, fails' = fails,
         \A u \in Threads : held'[u] # None =>
           /\ held'[u] = held[u] /\ readCount'[u] = readCount[u]
           /\ pc'[u] \in Failing => pc[u] \in Failing
  PROVE  CountsInv'
<1>0. None \notin Jobs
  BY ConstantsAssumption
<1>1. \A j \in Jobs : FailingOn(j)' \subseteq FailingOn(j)
  BY <1>0 DEF FailingOn
<1>2. \A j \in Jobs : Cardinality(FailingOn(j)') <= Cardinality(FailingOn(j))
  BY <1>1, FailingOnIsFinite, FS_Subset
<1>3. \A j \in Jobs : retryCount'[j] + Cardinality(FailingOn(j)') <= fails'[j]
  BY <1>2, FailingOnIsFinite DEF CountsInv, TypeOK
<1>4. \A u \in Threads, j \in Jobs : held'[u] = j =>
        readCount'[u] + Cardinality(FailingOn(j)') <= fails'[j]
  BY <1>0, <1>2, FailingOnIsFinite DEF CountsInv, TypeOK
<1> QED BY <1>3, <1>4 DEF CountsInv

LEMMA NextKeepsCounts == EarnedInv /\ [Next]_vars => CountsInv'
<1> SUFFICES ASSUME EarnedInv, [Next]_vars PROVE CountsInv'
  OBVIOUS
<1> USE DEF EarnedInv, rowVars, threadVars, histVars, boundVars
<1>0. TypeOK' /\ ThreadsInv'
  BY NextKeepsTypes
<1>1. CASE UNCHANGED <<retryCount, fails, pc, held, readCount>>
  BY <1>0, <1>1, NoNewFailure
<1>2. ASSUME retryCount' = retryCount, fails' = fails,
             \A u \in Threads : held'[u] = None
      PROVE  CountsInv'
  BY <1>0, <1>2, NoNewFailure
<1>3. ASSUME NEW t \in Threads, ThreadStep(t) PROVE CountsInv'
  <2> USE DEF AtStep, Goto, LetGo
  <2>0. pc[t] \in Busy => held[t] \in Jobs
    BY BusyHoldsJob
  <2>1. CASE ClaimNextPendingJob(t)
    <3>1. PICK j \in NextCandidates :
            /\ held' = [held EXCEPT ![t] = j]
            /\ readCount' = [readCount EXCEPT ![t] = retryCount[j]]
            /\ pc[t] = "claim" /\ pc' = [pc EXCEPT ![t] = "execute"]
      BY <2>1 DEF ClaimNextPendingJob
    <3>2. j \in Jobs BY DEF NextCandidates
    <3>3. \A k \in Jobs : FailingOn(k)' = FailingOn(k)
      BY <3>1 DEF FailingOn, Failing, TypeOK
    <3>4. retryCount' = retryCount /\ fails' = fails
      BY <2>1 DEF ClaimNextPendingJob
    <3>5. \A u \in Threads, k \in Jobs : held'[u] = k =>
            readCount'[u] + Cardinality(FailingOn(k)) <= fails[k]
      BY <3>1, <3>2 DEF CountsInv, TypeOK
    <3> QED BY <3>3, <3>4, <3>5 DEF CountsInv
  <2>2. ASSUME NEW c \in {"error", "timeout"}, WorkflowRaises(t, c) PROVE CountsInv'
    <3>0. PICK j \in Jobs : j = held[t]
      BY <2>0, <2>2 DEF WorkflowRaises, Busy
    <3>1. /\ pc[t] = "execute" /\ pc' = [pc EXCEPT ![t] = "mark_failed"]
          /\ fails' = [fails EXCEPT ![j] = @ + 1]
          /\ held' = held /\ readCount' = readCount /\ retryCount' = retryCount
      BY <2>2, <3>0 DEF WorkflowRaises
    <3>3. FailingOn(j)' = FailingOn(j) \cup {t}
      BY <3>0, <3>1 DEF FailingOn, Failing, TypeOK
    <3>4. \A k \in Jobs \ {j} : FailingOn(k)' = FailingOn(k)
      BY <3>0, <3>1 DEF FailingOn, Failing, TypeOK
    <3>5. Cardinality(FailingOn(j)') <= Cardinality(FailingOn(j)) + 1
      <4>1. Cardinality(FailingOn(j) \cup {t}) <= Cardinality(FailingOn(j)) + 1
        <5>1. IsFiniteSet(FailingOn(j)) /\ Cardinality(FailingOn(j)) \in Nat
          BY FailingOnIsFinite
        <5>2. Cardinality(FailingOn(j) \cup {t}) =
                IF t \in FailingOn(j) THEN Cardinality(FailingOn(j))
                                      ELSE Cardinality(FailingOn(j)) + 1
          BY <5>1, FS_AddElement
        <5> QED BY <5>1, <5>2
      <4> QED BY <3>3, <4>1
    <3>6. \A k \in Jobs : Cardinality(FailingOn(k)') - fails'[k] <= Cardinality(FailingOn(k)) - fails[k]
      BY <3>1, <3>4, <3>5, FailingOnIsFinite DEF TypeOK
    <3>7. \A k \in Jobs : retryCount'[k] + Cardinality(FailingOn(k)') <= fails'[k]
      BY <1>0, <3>1, <3>6, FailingOnIsFinite DEF CountsInv, TypeOK
    <3>8. \A u \in Threads, k \in Jobs : held'[u] = k =>
            readCount'[u] + Cardinality(FailingOn(k)') <= fails'[k]
      BY <1>0, <3>1, <3>6, FailingOnIsFinite DEF CountsInv, TypeOK
    <3> QED BY <3>7, <3>8 DEF CountsInv
  <2>3. CASE ReadRetryCount(t)
    <3>1. CASE ~Exists(held[t])
      BY <1>0, <2>3, <3>1, NoNewFailure DEF ReadRetryCount, Busy, TypeOK
    <3>2. CASE Exists(held[t])
      <4>1. /\ pc[t] = "read_retry_count" /\ pc' = [pc EXCEPT ![t] = "schedule_retry"]
            /\ readCount' = [readCount EXCEPT ![t] = retryCount[held[t]]]
            /\ UNCHANGED <<held, fails, retryCount>>
        BY <2>3, <3>2 DEF ReadRetryCount
      <4>2. \A k : FailingOn(k)' = FailingOn(k)
        BY <4>1 DEF FailingOn, Failing, TypeOK
      <4>3. \A u \in Threads, k \in Jobs : held[u] = k =>
              readCount'[u] + Cardinality(FailingOn(k)) <= fails[k]
        BY <4>1 DEF CountsInv, TypeOK
      <4> QED BY <4>1, <4>2, <4>3 DEF CountsInv
    <3> QED BY <3>1, <3>2
  <2>4. CASE ScheduleRetry(t)
    <3>0. PICK j \in Jobs : j = held[t]
      BY <2>0, <2>4 DEF ScheduleRetry, Busy
    <3>1. /\ pc[t] = "schedule_retry" /\ pc' = [pc EXCEPT ![t] = "claim"]
          /\ retryCount' = [retryCount EXCEPT ![j] = IF Exists(j) THEN readCount[t] + 1 ELSE @]
          /\ held' = [held EXCEPT ![t] = None]
          /\ readCount' = [readCount EXCEPT ![t] = 0]
          /\ fails' = fails
      BY <2>4, <3>0 DEF ScheduleRetry
    <3>3. FailingOn(j)' = FailingOn(j) \ {t} /\ t \in FailingOn(j)
      BY <3>0, <3>1, ConstantsAssumption DEF FailingOn, Failing, TypeOK
    <3>4. \A k \in Jobs \ {j} : FailingOn(k)' = FailingOn(k)
      BY <3>0, <3>1, ConstantsAssumption DEF FailingOn, Failing, TypeOK
    <3>5. Cardinality(FailingOn(j)') = Cardinality(FailingOn(j)) - 1
      BY <3>3, FailingOnIsFinite, FS_RemoveElement
    <3>6. retryCount[j] + Cardinality(FailingOn(j)) <= fails[j]
      BY DEF CountsInv
    <3>7. readCount[t] + Cardinality(FailingOn(j)) <= fails[j]
      BY <3>0, <3>1 DEF CountsInv
    <3>8. retryCount'[j] + Cardinality(FailingOn(j)') <= fails[j]
      BY <3>1, <3>5, <3>6, <3>7, FailingOnIsFinite DEF TypeOK
    <3>9. \A k \in Jobs : retryCount'[k] + Cardinality(FailingOn(k)') <= fails[k]
      BY <3>1, <3>4, <3>8 DEF CountsInv, TypeOK
    <3>10. ASSUME NEW u \in Threads, NEW k \in Jobs, held'[u] = k
           PROVE  readCount'[u] + Cardinality(FailingOn(k)') <= fails'[k]
      <4>1. held[u] = k /\ readCount'[u] = readCount[u]
        BY <3>1, <3>10, ConstantsAssumption DEF TypeOK
      <4>2. Cardinality(FailingOn(k)') <= Cardinality(FailingOn(k))
        BY <3>4, <3>5, FailingOnIsFinite
      <4> QED BY <3>1, <4>1, <4>2, FailingOnIsFinite DEF CountsInv, TypeOK
    <3> QED BY <3>1, <3>9, <3>10 DEF CountsInv
  <2>5. CASE NoPendingJobs(t) \/ WorkflowReturns(t) \/ MarkDone(t) \/ MarkFailed(t)
             \/ MoveToDeadLetter(t) \/ ThreadDies(t)
    <3>1. retryCount' = retryCount /\ fails' = fails
      BY <2>5 DEF NoPendingJobs, WorkflowReturns, MarkDone, MarkFailed, MoveToDeadLetter, ThreadDies
    <3>2. ASSUME NEW u \in Threads, held'[u] # None
          PROVE  /\ held'[u] = held[u] /\ readCount'[u] = readCount[u]
                 /\ pc'[u] \in Failing => pc[u] \in Failing
      BY <2>5, <3>2 DEF NoPendingJobs, WorkflowReturns, MarkDone, MarkFailed, MoveToDeadLetter,
                        ThreadDies, Failing, TypeOK
    <3> QED BY <1>0, <3>1, <3>2, NoNewFailure
  <2>6. CASE ProduceFiles(t)
    BY <1>1, <2>6 DEF ProduceFiles
  <2> QED BY <1>3, <2>1, <2>2, <2>3, <2>4, <2>5, <2>6 DEF ThreadStep
<1>4. CASE RecoverAndLaunch \/ WorkerExits \/ CrashWorker
  BY <1>2, <1>4 DEF RecoverAndLaunch, WorkerExits, CrashWorker, ThreadsInv, Busy
<1>5. ASSUME NEW o \in Operators, Maintenance(o) \/ ManualRetry(o) PROVE CountsInv'
  BY <1>1, <1>5 DEF Maintenance, ManualRetry, PruneSelect, PruneDelete, RepairQueue,
                    DeleteSource, RunDirectly, RetrySelect, RetryUpdate
<1>6. CASE Ingest \/ (\E j \in Jobs : BackoffElapses(j)) \/ StartWorker \/ UNCHANGED vars
  BY <1>1, <1>6 DEF Ingest, EnqueueJobs, BackoffElapses, StartWorker, vars
<1> QED BY <1>3, <1>4, <1>5, <1>6 DEF Next, QueueNext, WorkerStep

\* What a thread writes last is true when it writes it, and it stays true.
LEMMA NextKeepsEarned == EarnedInv /\ [Next]_vars => EarnedInv'
<1> SUFFICES ASSUME EarnedInv, [Next]_vars PROVE VerdictInv' /\ FinalStatusIsEarned'
  BY NextKeepsTypes, NextKeepsCounts DEF EarnedInv
<1> DEFINE Goal == VerdictInv' /\ FinalStatusIsEarned'
<1> USE DEF EarnedInv, rowVars, threadVars, histVars, boundVars
<1>1. ASSUME UNCHANGED <<pc, held, cause, fails, timedOut>>,
             succeeded \subseteq succeeded',
             \A j \in Jobs :
               status'[j] # status[j] =>
                 /\ status'[j] # "dead_letter"
                 /\ status'[j] = "done" => j \in succeeded'
      PROVE  Goal
  BY <1>1 DEF VerdictInv, Spent, FinalStatusIsEarned
<1>2. ASSUME NEW batch \in SUBSET Absent, NEW src \in [batch -> Sources],
             EnqueueJobs(batch, src)
      PROVE  Goal
  BY <1>1, <1>2 DEF EnqueueJobs
<1>3. CASE StartWorker \/ (\E j \in Jobs : BackoffElapses(j)) \/ UNCHANGED vars
  BY <1>1, <1>3 DEF StartWorker, BackoffElapses, vars
<1>4. CASE RecoverAndLaunch \/ WorkerExits \/ CrashWorker
  <2>1. /\ \A u \in Threads : pc'[u] \in {"down", "claim"}
        /\ \A j \in Jobs : status'[j] # status[j] => status'[j] = "pending"
        /\ UNCHANGED <<fails, timedOut, succeeded>>
    BY <1>4 DEF RecoverAndLaunch, WorkerExits, CrashWorker, ResetProcessing, TypeOK
  <2>2. \A u \in Threads : cause'[u] = "timeout" => cause[u] = "timeout" /\ held'[u] = held[u]
    BY <1>4 DEF RecoverAndLaunch, WorkerExits, CrashWorker
  <2> QED BY <2>1, <2>2 DEF VerdictInv, FinalStatusIsEarned
<1>5. ASSUME NEW t \in Threads, ThreadStep(t) PROVE Goal
  <2> USE DEF AtStep, Goto, LetGo
  <2>0. pc[t] \in Busy => held[t] \in Jobs
    BY BusyHoldsJob
  <2>1. CASE ClaimNextPendingJob(t)
    <3>1. PICK j \in NextCandidates :
            /\ status' = [status EXCEPT ![j] = "processing"]
            /\ held' = [held EXCEPT ![t] = j]
      BY <2>1 DEF ClaimNextPendingJob
    <3>2. /\ pc[t] = "claim" /\ pc' = [pc EXCEPT ![t] = "execute"]
          /\ UNCHANGED <<cause, fails, timedOut, succeeded>>
      BY <2>1 DEF ClaimNextPendingJob
    <3>3. \A u \in Threads : cause[u] = "timeout" => held[u] # None
      BY ConstantsAssumption DEF VerdictInv, TypeOK
    <3>4. cause[t] # "timeout"
      BY <3>2, <3>3 DEF ThreadsInv, Busy
    <3> QED BY <3>1, <3>2, <3>4 DEF VerdictInv, Spent, FinalStatusIsEarned, TypeOK
  <2>2. CASE NoPendingJobs(t) \/ ThreadDies(t)
    BY <2>2 DEF NoPendingJobs, ThreadDies, VerdictInv, Spent, FinalStatusIsEarned, TypeOK
  <2>3. CASE ProduceFiles(t)
    BY <1>1, <2>3 DEF ProduceFiles
  <2>4. CASE WorkflowReturns(t)
    BY <2>4 DEF WorkflowReturns, VerdictInv, Spent, FinalStatusIsEarned, TypeOK
  <2>5. ASSUME NEW c \in {"error", "timeout"}, WorkflowRaises(t, c) PROVE Goal
    <3>1. \A j \in Jobs : fails'[j] >= fails[j]
      BY <2>5 DEF WorkflowRaises, TypeOK
    <3>2. timedOut \subseteq timedOut' /\ (c = "timeout" => held[t] \in timedOut')
      BY <2>5 DEF WorkflowRaises
    <3>3. \A j \in Jobs : Spent(j) => Spent(j)'
      BY <3>1, <3>2, ConstantsAssumption, NextKeepsTypes DEF Spent, TypeOK
    <3>4. FinalStatusIsEarned'
      BY <2>5, <3>3 DEF WorkflowRaises, FinalStatusIsEarned, Spent
    <3>5. VerdictInv'
      BY <2>0, <2>5, <3>2, <3>3, BusyHoldsJob DEF WorkflowRaises, VerdictInv, TypeOK, Busy
    <3> QED BY <3>4, <3>5
  <2>6. CASE MarkDone(t)
    BY <2>0, <2>6 DEF MarkDone, SetStatus, VerdictInv, Spent, FinalStatusIsEarned, TypeOK
  <2>7. CASE MarkFailed(t)
    <3>0. PICK j \in Jobs : j = held[t]
      BY <2>0, <2>7 DEF MarkFailed, Busy
    <3>1. ~MayRetry(t) => Spent(j)
      <4>1. t \in FailingOn(j)
        BY <2>7, <3>0 DEF MarkFailed, FailingOn, Failing
      <4>2. Cardinality(FailingOn(j)) # 0
        BY <4>1, FailingOnIsFinite, FS_EmptySet
      <4>3. readCount[t] + Cardinality(FailingOn(j)) <= fails[j]
        BY <3>0 DEF CountsInv
      <4>4. readCount[t] < fails[j]
        <5>1. /\ readCount[t] \in Nat /\ fails[j] \in Nat
              /\ Cardinality(FailingOn(j)) \in Nat
          BY FailingOnIsFinite DEF TypeOK
        <5> QED BY <4>2, <4>3, <5>1
      <4> QED BY <3>0, <4>4, ConstantsAssumption DEF MayRetry, Spent, VerdictInv, TypeOK
    <3>2. /\ UNCHANGED <<held, cause, fails, timedOut, succeeded>>
          /\ pc' = [pc EXCEPT ![t] = IF MayRetry(t) THEN "read_retry_count" ELSE "dead_letter"]
          /\ \A k \in Jobs : status'[k] \in {status[k], "failed"}
      BY <2>7, <3>0 DEF MarkFailed, SetStatus, TypeOK
    <3> QED BY <3>0, <3>1, <3>2 DEF VerdictInv, Spent, FinalStatusIsEarned, TypeOK
  <2>8. CASE ReadRetryCount(t)
    BY <2>8 DEF ReadRetryCount, VerdictInv, Spent, FinalStatusIsEarned, TypeOK
  <2>9. CASE ScheduleRetry(t)
    <3>1. \A k \in Jobs : status'[k] \in {status[k], "pending"}
      BY <2>9 DEF ScheduleRetry, SetStatus, TypeOK
    <3> QED BY <2>9, <3>1 DEF ScheduleRetry, VerdictInv, Spent, FinalStatusIsEarned, TypeOK
  <2>10. CASE MoveToDeadLetter(t)
    <3>1. \A k \in Jobs : status'[k] = status[k] \/ (status'[k] = "dead_letter" /\ Spent(k))
      BY <2>10 DEF MoveToDeadLetter, SetStatus, VerdictInv, TypeOK
    <3> QED BY <2>10, <3>1 DEF MoveToDeadLetter, VerdictInv, Spent, FinalStatusIsEarned, TypeOK
  <2> QED BY <1>5, <2>1, <2>2, <2>3, <2>4, <2>5, <2>6, <2>7, <2>8, <2>9, <2>10 DEF ThreadStep
<1>6. ASSUME NEW o \in Operators, Maintenance(o) \/ ManualRetry(o) PROVE Goal
  <2>1. CASE PruneDelete(o) \/ RetryUpdate(o)
    BY <1>1, <2>1 DEF PruneDelete, RetryUpdate, RetryReset
  <2>2. ASSUME NEW row \in RepairRows, RepairQueue(o, row) PROVE Goal
    BY <1>1, <2>2 DEF RepairQueue, ResetProcessing
  <2>3. CASE UNCHANGED <<status, pc, held, cause, fails, timedOut, succeeded>>
    BY <1>1, <2>3
  <2> QED BY <1>6, <2>1, <2>2, <2>3
          DEF Maintenance, ManualRetry, PruneSelect, DeleteSource, RunDirectly, RetrySelect
<1> QED BY <1>2, <1>3, <1>4, <1>5, <1>6 DEF Next, QueueNext, Ingest, WorkerStep

LEMMA InitEarned == Init => EarnedInv
<1> SUFFICES ASSUME Init PROVE EarnedInv
  OBVIOUS
<1>1. TypeOK /\ ThreadsInv
  BY InitTypes
<1>2. \A j \in Jobs : FailingOn(j) = {}
  BY ConstantsAssumption DEF Init, FailingOn
<1>3. \A j \in Jobs : Cardinality(FailingOn(j)) = 0
  BY <1>2, FS_EmptySet
<1>4. CountsInv
  BY <1>3, ConstantsAssumption DEF Init, CountsInv
<1> QED BY <1>1, <1>4 DEF Init, EarnedInv, VerdictInv, FinalStatusIsEarned

\* Whatever is retried by hand, and whenever: a done row's workflow has returned
\* (or repair found its results), and a dead-letter row's has timed out or failed
\* more often than MaxRetries.
THEOREM FinalStatusIsTrue == Spec => []FinalStatusIsEarned
<1>1. EarnedInv => FinalStatusIsEarned BY DEF EarnedInv
<1> QED BY <1>1, InitEarned, NextKeepsEarned, PTL DEF Spec

-----------------------------------------------------------------------------
(* Without manual retries and without a fault, no side effect happens twice *)

\* Without a fault, a job whose workflow has returned or timed out is at rest,
\* or its thread is about to write the status that puts it to rest.
SettledInv ==
  crashes = 0 /\ dbErrors = 0 =>
    /\ \A j \in succeeded :
         \/ status[j] \in {"done", "deleted"}
         \/ \E t \in Threads : held[t] = j /\ pc[t] = "mark_done"
    /\ \A j \in timedOut :
         \/ status[j] \in {"dead_letter", "deleted"}
         \/ \E t \in Threads : /\ held[t] = j /\ cause[t] = "timeout"
                               /\ pc[t] \in {"mark_failed", "dead_letter"}
    /\ \A t \in Threads : pc[t] = "execute" => held[t] \notin succeeded \cup timedOut

LEMMA QueueNextKeepsSettled == IInv /\ SettledInv /\ [QueueNext]_vars => SettledInv'
<1> SUFFICES ASSUME IInv, SettledInv, [QueueNext]_vars, crashes' = 0, dbErrors' = 0
             PROVE  SettledInv'
  BY DEF SettledInv
<1> USE DEF rowVars, threadVars, histVars, boundVars
<1>0. TypeOK /\ TypeOK' /\ None \notin Jobs
  BY NextKeepsTypes, ConstantsAssumption DEF IInv, Next
<1>a. succeeded \subseteq Jobs /\ timedOut \subseteq Jobs
  BY <1>0 DEF TypeOK
<1>b. ASSUME crashes = 0, dbErrors = 0, \A u \in Threads : pc[u] \notin Busy
      PROVE  /\ \A j \in succeeded : status[j] \in {"done", "deleted"}
             /\ \A j \in timedOut : status[j] \in {"dead_letter", "deleted"}
  BY <1>b DEF SettledInv, Busy
<1>1. ASSUME crashes' = crashes, dbErrors' = dbErrors,
             UNCHANGED <<pc, held, cause, succeeded, timedOut>>,
             \A j \in Jobs : \/ status'[j] \in {status[j], "deleted"}
                             \/ status[j] \in {"absent", "processing"}
      PROVE  SettledInv'
  <2>1. \A j \in Jobs : status[j] \in {"done", "deleted", "dead_letter"} =>
          status'[j] \in {status[j], "deleted"}
    BY <1>1
  <2>2. crashes = 0 /\ dbErrors = 0
    BY <1>1
  <2>3. ASSUME NEW j \in succeeded'
        PROVE  \/ status'[j] \in {"done", "deleted"}
               \/ \E t \in Threads : held'[t] = j /\ pc'[t] = "mark_done"
    BY <1>1, <1>a, <2>1, <2>2, <2>3 DEF SettledInv
  <2>4. ASSUME NEW j \in timedOut'
        PROVE  \/ status'[j] \in {"dead_letter", "deleted"}
               \/ \E t \in Threads : /\ held'[t] = j /\ cause'[t] = "timeout"
                                      /\ pc'[t] \in {"mark_failed", "dead_letter"}
    BY <1>1, <1>a, <2>1, <2>2, <2>4 DEF SettledInv
  <2>5. \A t \in Threads : pc'[t] = "execute" => held'[t] \notin succeeded' \cup timedOut'
    BY <1>1, <2>2 DEF SettledInv
  <2> QED BY <2>3, <2>4, <2>5 DEF SettledInv
<1>2. ASSUME NEW batch \in SUBSET Absent, NEW src \in [batch -> Sources],
             EnqueueJobs(batch, src)
      PROVE  SettledInv'
  BY <1>1, <1>2 DEF EnqueueJobs, Absent
<1>3. CASE StartWorker \/ (\E j \in Jobs : BackoffElapses(j)) \/ UNCHANGED vars
  BY <1>1, <1>3 DEF StartWorker, BackoffElapses, vars
<1>4. CASE RecoverAndLaunch \/ WorkerExits
  <2>1. \A u \in Threads : pc[u] \notin Busy /\ pc'[u] \notin Busy
    BY <1>4 DEF RecoverAndLaunch, WorkerExits, IInv, ThreadsInv, Busy
  <2>2. \A j \in Jobs : status[j] # "processing" => status'[j] = status[j]
    BY <1>4 DEF RecoverAndLaunch, WorkerExits, ResetProcessing
  <2>3. UNCHANGED <<crashes, dbErrors, succeeded, timedOut>>
    BY <1>4 DEF RecoverAndLaunch, WorkerExits
  <2>4. /\ \A j \in succeeded : status'[j] \in {"done", "deleted"}
        /\ \A j \in timedOut : status'[j] \in {"dead_letter", "deleted"}
    BY <1>a, <1>b, <2>1, <2>2, <2>3
  <2> QED BY <2>1, <2>3, <2>4 DEF SettledInv, Busy
<1>5. CASE CrashWorker
  BY <1>0, <1>5 DEF CrashWorker, TypeOK
<1>6. ASSUME NEW t \in Threads, ThreadStep(t) PROVE SettledInv'
  <2> USE DEF AtStep, Goto, LetGo
  <2>0. pc[t] \in Busy => held[t] \in Jobs
    BY BusyHoldsJob DEF IInv
  <2>a. \A u \in Threads : u # t /\ pc[t] \in Busy => held[u] # held[t]
    BY <1>0, <2>0 DEF IInv, ExclusiveExecution
  <2>b. ~ThreadDies(t) => crashes = 0 /\ dbErrors = 0
    BY <1>6 DEF ThreadStep, ClaimNextPendingJob, NoPendingJobs, ProduceFiles, WorkflowReturns,
                WorkflowRaises, MarkDone, MarkFailed, ReadRetryCount, ScheduleRetry,
                MoveToDeadLetter
  <2>1. CASE ClaimNextPendingJob(t)
    <3>1. PICK j \in NextCandidates :
            /\ status' = [status EXCEPT ![j] = "processing"]
            /\ held' = [held EXCEPT ![t] = j]
      BY <2>1 DEF ClaimNextPendingJob
    <3>2. j \in Jobs /\ status[j] = "pending"
      BY DEF NextCandidates, Claimable
    <3>3. \A u \in Threads : held[u] # j
      BY <1>0, <3>2 DEF IInv, HeldStatusInv, ThreadsInv, Busy
    <3>4. j \notin succeeded \cup timedOut
      BY <2>1, <2>b, <3>2, <3>3 DEF SettledInv, ClaimNextPendingJob
    <3>5. /\ \A i \in Jobs : i # j => status'[i] = status[i]
          /\ \A u \in Threads : u # t => held'[u] = held[u] /\ pc'[u] = pc[u]
          /\ held'[t] = j /\ pc[t] = "claim" /\ pc'[t] = "execute"
          /\ UNCHANGED <<succeeded, timedOut, cause>> /\ crashes = 0 /\ dbErrors = 0
      BY <1>0, <2>1, <3>1 DEF ClaimNextPendingJob, TypeOK, histVars, boundVars
    <3>6. succeeded \subseteq Jobs /\ timedOut \subseteq Jobs
      BY <1>0 DEF TypeOK
    <3>7. ASSUME NEW i \in succeeded
          PROVE  \/ status'[i] \in {"done", "deleted"}
                 \/ \E u \in Threads : held'[u] = i /\ pc'[u] = "mark_done"
      BY <3>4, <3>5, <3>6 DEF SettledInv
    <3>8. ASSUME NEW i \in timedOut
          PROVE  \/ status'[i] \in {"dead_letter", "deleted"}
                 \/ \E u \in Threads : /\ held'[u] = i /\ cause'[u] = "timeout"
                                       /\ pc'[u] \in {"mark_failed", "dead_letter"}
      BY <3>4, <3>5, <3>6 DEF SettledInv
    <3>9. \A u \in Threads : pc'[u] = "execute" => held'[u] \notin succeeded \cup timedOut
      BY <3>4, <3>5 DEF SettledInv
    <3> QED BY <3>5, <3>7, <3>8, <3>9 DEF SettledInv
  <2>2. CASE NoPendingJobs(t)
    BY <1>0, <2>2, <2>b DEF NoPendingJobs, SettledInv, TypeOK
  <2>3. CASE ProduceFiles(t)
    BY <1>1, <2>3 DEF ProduceFiles
  <2>4. CASE WorkflowReturns(t)
    BY <1>0, <2>0, <2>a, <2>b, <2>4 DEF WorkflowReturns, SettledInv, TypeOK, Busy
  <2>5. ASSUME NEW c \in {"error", "timeout"}, WorkflowRaises(t, c) PROVE SettledInv'
    BY <1>0, <2>0, <2>a, <2>b, <2>5 DEF WorkflowRaises, SettledInv, TypeOK, Busy
  <2>6. CASE MarkDone(t)
    BY <1>0, <2>0, <2>a, <2>b, <2>6
       DEF MarkDone, SettledInv, TypeOK, Busy, IInv, HeldStatusInv, SetStatus, Exists, Status
  <2>7. CASE MarkFailed(t)
    BY <1>0, <2>0, <2>a, <2>b, <2>7
       DEF MarkFailed, MayRetry, SettledInv, TypeOK, Busy, IInv, HeldStatusInv, SetStatus,
           Exists, Status
  <2>8. CASE ReadRetryCount(t)
    BY <1>0, <2>b, <2>8 DEF ReadRetryCount, SettledInv, TypeOK
  <2>9. CASE ScheduleRetry(t)
    BY <1>0, <2>0, <2>a, <2>b, <2>9
       DEF ScheduleRetry, SettledInv, TypeOK, Busy, IInv, HeldStatusInv, SetStatus, Exists, Status
  <2>10. CASE MoveToDeadLetter(t)
    BY <1>0, <2>0, <2>a, <2>b, <2>10
       DEF MoveToDeadLetter, SettledInv, TypeOK, Busy, IInv, HeldStatusInv, SetStatus, Exists,
           Status
  <2>11. CASE ThreadDies(t)
    BY <1>0, <2>11 DEF ThreadDies, TypeOK
  <2> QED BY <1>6, <2>1, <2>2, <2>3, <2>4, <2>5, <2>6, <2>7, <2>8, <2>9, <2>10, <2>11
          DEF ThreadStep
<1>7. ASSUME NEW o \in Operators, Maintenance(o) PROVE SettledInv'
  <2>1. CASE PruneDelete(o)
    BY <1>1, <2>1 DEF PruneDelete
  <2>2. ASSUME NEW row \in RepairRows, RepairQueue(o, row) PROVE SettledInv'
    <3>1. \A u \in Threads : pc'[u] \notin Busy /\ pc[u] \notin Busy
      BY <2>2 DEF RepairQueue, NoWorkerLock, IInv, ThreadsInv, Busy
    <3>2. \A j \in Jobs : /\ j \in DOMAIN row => status'[j] = "done"
                          /\ j \notin DOMAIN row /\ status[j] # "processing" =>
                               status'[j] = status[j]
      BY <2>2 DEF RepairQueue, ResetProcessing
    <3>3. /\ UNCHANGED <<crashes, dbErrors, timedOut>>
          /\ succeeded' = succeeded \cup DOMAIN row
      BY <2>2 DEF RepairQueue
    <3>4. \A j \in DOMAIN row : status[j] = "absent"
      BY <2>2, RepairRowsType DEF Absent
    <3>a. /\ \A j \in succeeded : status[j] \in {"done", "deleted"}
          /\ \A j \in timedOut : status[j] \in {"dead_letter", "deleted"}
      BY <1>b, <3>1, <3>3
    <3>b. DOMAIN row \subseteq Jobs
      BY RepairRowsType DEF Absent
    <3>5. /\ \A j \in succeeded' : status'[j] \in {"done", "deleted"}
          /\ \A j \in timedOut' : status'[j] \in {"dead_letter", "deleted"}
      BY <1>a, <3>a, <3>b, <3>2, <3>3, <3>4
    <3> QED BY <3>1, <3>3, <3>5 DEF SettledInv, Busy
  <2>3. CASE UNCHANGED <<status, pc, held, cause, succeeded, timedOut, crashes, dbErrors>>
    BY <1>1, <2>3
  <2> QED BY <1>7, <2>1, <2>2, <2>3 DEF Maintenance, PruneSelect, DeleteSource, RunDirectly, Command
<1> QED BY <1>2, <1>3, <1>4, <1>5, <1>6, <1>7 DEF QueueNext, Ingest, WorkerStep

\* As long as no worker dies and no database call fails, a workflow that has
\* returned or timed out is never run again.
THEOREM SideEffectsHappenOnce == QueueSpec => []NoRepeatedSideEffects
<1>1. Init => SettledInv
  BY DEF Init, SettledInv
<1>2. SettledInv => NoRepeatedSideEffects
  BY DEF SettledInv, NoRepeatedSideEffects
<1> QED BY <1>1, <1>2, QueueNextKeepsSettled, InvariantHolds, PTL DEF QueueSpec

-----------------------------------------------------------------------------
(* The queue implements JobLifecycle *)

\* Some thread works on j.
Held(j) == \E t \in Threads : held[t] = j

\* A command in progress has selected rows that have been inserted.
SelectedInv ==
  \A o \in Operators : \A j \in op[o].rows : status[j] # "absent"

LEMMA PhaseOfStatus ==
  ASSUME NEW j \in Jobs, TypeOK
  PROVE  /\ status[j] = "absent" => Phase(j) = "unknown"
         /\ status[j] = "deleted" => Phase(j) = "removed"
         /\ status[j] = "pending" => Phase(j) = "waiting"
         /\ status[j] = "processing" => Phase(j) = "attempted"
         /\ status[j] = "done" => Phase(j) = "done"
         /\ status[j] = "dead_letter" => Phase(j) = "given_up"
         /\ status[j] = "failed" /\ Held(j) => Phase(j) = "attempted"
         /\ status[j] = "failed" /\ ~Held(j) => Phase(j) = "stranded"
BY DEF Phase, Held

LEMMA PhaseOfStatusPrime ==
  ASSUME NEW j \in Jobs, TypeOK'
  PROVE  /\ status'[j] = "absent" => Phase(j)' = "unknown"
         /\ status'[j] = "deleted" => Phase(j)' = "removed"
         /\ status'[j] = "pending" => Phase(j)' = "waiting"
         /\ status'[j] = "processing" => Phase(j)' = "attempted"
         /\ status'[j] = "done" => Phase(j)' = "done"
         /\ status'[j] = "dead_letter" => Phase(j)' = "given_up"
         /\ status'[j] = "failed" /\ Held(j)' => Phase(j)' = "attempted"
         /\ status'[j] = "failed" /\ ~Held(j)' => Phase(j)' = "stranded"
BY DEF Phase, Held

\* A job whose row does not change, nor a failed row's thread, keeps its phase.
LEMMA PhaseKept ==
  ASSUME NEW j \in Jobs, TypeOK, TypeOK', status'[j] = status[j],
         status[j] = "failed" => (Held(j)' <=> Held(j))
  PROVE  Phase(j)' = Phase(j)
<1>1. status[j] \in Status \cup {"absent", "deleted"}
  BY DEF TypeOK
<1> QED BY <1>1, PhaseOfStatus, PhaseOfStatusPrime DEF Status

\* The thread of a failed row, or of one it is working on, attempts the job.
LEMMA HeldIsAttempted ==
  ASSUME IInv, NEW t \in Threads, pc[t] \in Busy
  PROVE  /\ held[t] \in Jobs /\ Held(held[t])
         /\ Exists(held[t]) => Phase(held[t]) = "attempted"
         /\ ~Exists(held[t]) => status[held[t]] = "deleted"
<1>1. held[t] \in Jobs
  BY BusyHoldsJob DEF IInv
<1>2. Held(held[t])
  BY DEF Held
<1>3. status[held[t]] \in {"processing", "failed", "deleted"}
  BY DEF IInv, HeldStatusInv, Busy
<1>4. TypeOK
  BY DEF IInv
<1> QED BY <1>1, <1>2, <1>3, <1>4, PhaseOfStatus DEF Exists, Status

\* Jobs of S move, the others stay: a Move of JobLifecycle.
LEMMA PhasesMove ==
  ASSUME NEW S \in SUBSET Jobs, NEW From, NEW to,
         \A j \in S : Phase(j) \in From /\ Phase(j)' = to,
         \A j \in Jobs \ S : Phase(j)' = Phase(j)
  PROVE  Lifecycle!Move(S, From, to)
BY DEF Lifecycle!Move

LEMMA PhasesStay ==
  ASSUME \A j \in Jobs : Phase(j)' = Phase(j), retryCount' = retryCount
  PROVE  [Lifecycle!Next]_(Lifecycle!vars)
BY DEF Lifecycle!vars

\* Repair and restart start the interrupted attempts over.
LEMMA Restarts ==
  ASSUME TypeOK, TypeOK', NEW new \in SUBSET Absent,
         \A t \in Threads : held[t] = None /\ held'[t] = None,
         status' = [j \in Jobs |-> IF j \in new THEN "done" ELSE ResetProcessing[j]],
         retryCount' = retryCount
  PROVE  Lifecycle!Next
<1> DEFINE S == WithStatus({"processing"})
<1>1. S \in SUBSET Jobs /\ new \in SUBSET Jobs
  BY DEF WithStatus, Absent
<1>2. \A j \in S : Phase(j) = "attempted"
  BY PhaseOfStatus DEF WithStatus
<1>3. \A j \in new : Phase(j) = "unknown"
  BY PhaseOfStatus DEF Absent
<1>4. \A j \in new : Phase(j)' = "done"
  BY <1>1, PhaseOfStatusPrime
<1>5. \A j \in S \ new : Phase(j)' = "waiting"
  BY PhaseOfStatusPrime DEF WithStatus, ResetProcessing
<1>6. ASSUME NEW j \in Jobs \ (S \cup new) PROVE Phase(j)' = Phase(j)
  <2>1. status'[j] = status[j]
    BY DEF WithStatus, ResetProcessing
  <2>2. ~Held(j) /\ ~Held(j)'
    BY ConstantsAssumption DEF Held
  <2> QED BY <2>1, <2>2, PhaseKept
<1>7. [j \in Jobs |-> Phase(j)]' =
        [j \in Jobs |-> IF j \in new THEN "done"
                        ELSE IF j \in S THEN "waiting" ELSE [i \in Jobs |-> Phase(i)][j]]
  BY <1>4, <1>5, <1>6
<1>8. Lifecycle!Recover(S, new)
  BY <1>1, <1>2, <1>3, <1>7 DEF Lifecycle!Recover
<1> QED BY <1>1, <1>8 DEF Lifecycle!Next

LEMMA QueueStepsAreLifecycleSteps ==
  IInv /\ SelectedInv /\ [QueueNext]_vars => [Lifecycle!Next]_(Lifecycle!vars)
<1> SUFFICES ASSUME IInv, SelectedInv, [QueueNext]_vars
             PROVE  [Lifecycle!Next]_(Lifecycle!vars)
  OBVIOUS
<1> DEFINE Goal == [Lifecycle!Next]_(Lifecycle!vars)
<1> USE DEF rowVars, threadVars, histVars, boundVars
<1>0. TypeOK /\ TypeOK' /\ None \notin Jobs
  BY NextKeepsTypes, ConstantsAssumption DEF IInv, Next
<1>1. ASSUME UNCHANGED <<status, held, retryCount>> PROVE Goal
  <2>1. \A j \in Jobs : Phase(j)' = Phase(j)
    BY <1>0, <1>1, PhaseKept DEF Held
  <2> QED BY <1>1, <2>1, PhasesStay
<1>2. ASSUME NEW batch \in SUBSET Absent, NEW src \in [batch -> Sources],
             EnqueueJobs(batch, src)
      PROVE  Goal
  <2>0. batch \in SUBSET Jobs
    BY DEF Absent
  <2>1. \A j \in batch : Phase(j) \in {"unknown"} /\ Phase(j)' = "waiting"
    BY <1>0, <1>2, PhaseOfStatus, PhaseOfStatusPrime DEF EnqueueJobs, Absent
  <2>2. \A j \in Jobs \ batch : Phase(j)' = Phase(j)
    BY <1>0, <1>2, PhaseKept DEF EnqueueJobs, Held
  <2>3. Lifecycle!Submit(batch)
    BY <1>2, <2>0, <2>1, <2>2, PhasesMove DEF Lifecycle!Submit, EnqueueJobs
  <2> QED BY <2>0, <2>3 DEF Lifecycle!Next
<1>3. CASE StartWorker \/ WorkerExits \/ (\E j \in Jobs : BackoffElapses(j)) \/ UNCHANGED vars
  BY <1>1, <1>3 DEF StartWorker, WorkerExits, BackoffElapses, vars
<1>4. CASE RecoverAndLaunch
  <2>1. \A t \in Threads : held[t] = None /\ held'[t] = None
    BY <1>4 DEF RecoverAndLaunch, IInv, ThreadsInv, Busy
  <2>2. status' = [j \in Jobs |-> IF j \in {} THEN "done" ELSE ResetProcessing[j]]
    BY <1>4 DEF RecoverAndLaunch, ResetProcessing
  <2>3. {} \in SUBSET Absent /\ retryCount' = retryCount
    BY <1>4 DEF RecoverAndLaunch
  <2>4. Lifecycle!Next
    BY <1>0, <2>1, <2>2, <2>3, Restarts
  <2> QED BY <2>4
<1>5. CASE CrashWorker
  <2> DEFINE S == {j \in Jobs : status[j] = "failed" /\ Held(j)}
  <2>1. \A j \in Jobs : ~Held(j)'
    BY <1>0, <1>5 DEF CrashWorker, Held
  <2>2. status' = status /\ retryCount' = retryCount
    BY <1>5 DEF CrashWorker
  <2>3. \A j \in S : Phase(j) \in {"attempted"} /\ Phase(j)' = "stranded"
    BY <1>0, <2>1, <2>2, PhaseOfStatus, PhaseOfStatusPrime
  <2>4. \A j \in Jobs \ S : Phase(j)' = Phase(j)
    BY <1>0, <2>1, <2>2, PhaseKept
  <2>5. Lifecycle!Strand(S)
    BY <2>2, <2>3, <2>4, PhasesMove DEF Lifecycle!Strand
  <2> QED BY <2>5 DEF Lifecycle!Next
<1>6. ASSUME NEW t \in Threads, ThreadStep(t) PROVE Goal
  <2> USE DEF AtStep, Goto, LetGo
  <2>0. ASSUME NEW j \in Jobs, held' = [held EXCEPT ![t] = None], pc[t] \in Busy => j # held[t]
        PROVE  Held(j)' <=> Held(j)
    BY <1>0, <2>0 DEF Held, TypeOK, IInv, ThreadsInv
  <2>1. CASE ClaimNextPendingJob(t)
    <3>1. PICK j \in NextCandidates :
            /\ status' = [status EXCEPT ![j] = "processing"]
            /\ held' = [held EXCEPT ![t] = j]
      BY <2>1 DEF ClaimNextPendingJob
    <3>2. j \in Jobs /\ status[j] = "pending" /\ held[t] = None /\ retryCount' = retryCount
      BY <2>1 DEF NextCandidates, Claimable, ClaimNextPendingJob, IInv, ThreadsInv, Busy
    <3>3. Phase(j) \in {"waiting"} /\ Phase(j)' = "attempted"
      BY ZenonT(40), <1>0, <3>1, <3>2, PhaseOfStatus, PhaseOfStatusPrime DEF TypeOK
    <3>4. ASSUME NEW k \in Jobs \ {j} PROVE Phase(k)' = Phase(k)
      <4>1. status'[k] = status[k]
        BY <3>1
      <4>2. Held(k)' <=> Held(k)
        BY <1>0, <3>1, <3>2 DEF Held, TypeOK
      <4> QED BY <1>0, <4>1, <4>2, PhaseKept
    <3>5. Lifecycle!Attempt(j)
      BY <3>2, <3>3, <3>4, PhasesMove DEF Lifecycle!Attempt
    <3> QED BY <3>2, <3>5 DEF Lifecycle!Next
  <2>2. CASE NoPendingJobs(t) \/ ProduceFiles(t) \/ WorkflowReturns(t)
             \/ \E c \in {"error", "timeout"} : WorkflowRaises(t, c)
    BY <1>1, <2>2 DEF NoPendingJobs, ProduceFiles, WorkflowReturns, WorkflowRaises
  <2>3. CASE MarkDone(t) \/ MoveToDeadLetter(t) \/ ScheduleRetry(t)
    <3>0. PICK j \in Jobs : j = held[t]
      BY <2>3, BusyHoldsJob DEF MarkDone, MoveToDeadLetter, ScheduleRetry, Busy, IInv
    <3>1. held' = [held EXCEPT ![t] = None] /\ pc[t] \in Busy
      BY <2>3 DEF MarkDone, MoveToDeadLetter, ScheduleRetry, Busy
    <3>2. \A k \in Jobs \ {j} : status'[k] = status[k]
      BY <1>0, <2>3, <3>0 DEF MarkDone, MoveToDeadLetter, ScheduleRetry, SetStatus, TypeOK
    <3>3. \A k \in Jobs \ {j} : Phase(k)' = Phase(k)
      BY <1>0, <2>0, <3>0, <3>1, <3>2, PhaseKept
    <3>4. CASE ~Exists(j)
      <4>1. status[j] = "deleted" /\ status' = status
        BY <2>3, <3>0, <3>1, <3>4, HeldIsAttempted
           DEF MarkDone, MoveToDeadLetter, ScheduleRetry, SetStatus
      <4>2. retryCount' = retryCount
        BY <1>0, <2>3, <3>0, <3>4 DEF MarkDone, MoveToDeadLetter, ScheduleRetry, TypeOK
      <4>3. Phase(j)' = Phase(j)
        BY <1>0, <4>1, PhaseKept
      <4> QED BY <3>3, <4>2, <4>3, PhasesStay
    <3>5. CASE Exists(j)
      <4>1. Phase(j) \in {"attempted"}
        BY <3>0, <3>1, <3>5, HeldIsAttempted
      <4>2. CASE MarkDone(t)
        <5>1. Phase(j)' = "done" /\ retryCount' = retryCount
          BY <1>0, <3>0, <3>5, <4>2, PhaseOfStatusPrime DEF MarkDone, SetStatus, TypeOK
        <5>2. Lifecycle!Finish(j)
          BY <3>3, <4>1, <5>1, PhasesMove DEF Lifecycle!Finish
        <5> QED BY <5>2 DEF Lifecycle!Next
      <4>3. CASE MoveToDeadLetter(t)
        <5>1. Phase(j)' = "given_up" /\ retryCount' = retryCount
          BY <1>0, <3>0, <3>5, <4>3, PhaseOfStatusPrime DEF MoveToDeadLetter, SetStatus, TypeOK
        <5>2. Lifecycle!GiveUp(j)
          BY <3>3, <4>1, <5>1, PhasesMove DEF Lifecycle!GiveUp
        <5> QED BY <5>2 DEF Lifecycle!Next
      <4>4. CASE ScheduleRetry(t)
        <5>1. Phase(j)' = "waiting"
          BY <1>0, <3>0, <3>5, <4>4, PhaseOfStatusPrime DEF ScheduleRetry, SetStatus, TypeOK
        <5>2. readCount[t] = retryCount[j] /\ readCount[t] < MaxRetries
          BY <3>0, <3>1, <4>4 DEF ScheduleRetry, IInv, ReadCountInv
        <5>3. retryCount' = [retryCount EXCEPT ![j] = @ + 1]
          BY <3>0, <3>5, <4>4, <5>2 DEF ScheduleRetry
        <5>4. Lifecycle!Move({j}, {"attempted"}, "waiting")
          BY <3>3, <4>1, <5>1, PhasesMove
        <5>5. Lifecycle!Retry(j)
          BY <5>2, <5>3, <5>4 DEF Lifecycle!Retry
        <5> QED BY <5>5 DEF Lifecycle!Next
      <4> QED BY <2>3, <4>2, <4>3, <4>4
    <3> QED BY <3>4, <3>5
  <2>4. CASE MarkFailed(t)
    <3>0. PICK j \in Jobs : j = held[t]
      BY <2>4, BusyHoldsJob DEF MarkFailed, Busy, IInv
    <3>1. held' = held /\ retryCount' = retryCount /\ pc[t] \in Busy
      BY <2>4 DEF MarkFailed, Busy
    <3>2. \A k \in Jobs \ {j} : status'[k] = status[k]
      BY <2>4, <3>0 DEF MarkFailed, SetStatus
    <3>3. \A k \in Jobs \ {j} : Phase(k)' = Phase(k)
      BY <1>0, <3>1, <3>2, PhaseKept DEF Held
    <3>4. Held(j)'
      BY <3>0, <3>1 DEF Held
    <3>5. Exists(j) => Phase(j) = "attempted" /\ Phase(j)' = "attempted"
      BY <1>0, <2>4, <3>0, <3>1, <3>4, HeldIsAttempted, PhaseOfStatusPrime
         DEF MarkFailed, SetStatus, TypeOK
    <3>6. ~Exists(j) => Phase(j)' = Phase(j)
      BY <1>0, <2>4, <3>0, <3>1, HeldIsAttempted, PhaseKept DEF MarkFailed, SetStatus
    <3> QED BY <3>1, <3>3, <3>5, <3>6, PhasesStay
  <2>5. CASE ReadRetryCount(t)
    <3>1. CASE Exists(held[t])
      BY <1>1, <2>5, <3>1 DEF ReadRetryCount
    <3>2. CASE ~Exists(held[t])
      <4>1. pc[t] \in Busy /\ held' = [held EXCEPT ![t] = None]
            /\ status' = status /\ retryCount' = retryCount
        BY <2>5, <3>2 DEF ReadRetryCount, Busy
      <4>2. status[held[t]] = "deleted"
        BY <3>2, <4>1, HeldIsAttempted
      <4>3. \A k \in Jobs : Phase(k)' = Phase(k)
        BY <1>0, <2>0, <4>1, <4>2, PhaseKept
      <4> QED BY <4>1, <4>3, PhasesStay
    <3> QED BY <3>1, <3>2
  <2>6. CASE ThreadDies(t)
    <3> DEFINE S == {j \in Jobs : status[j] = "failed" /\ held[t] = j}
    <3>1. held' = [held EXCEPT ![t] = None] /\ status' = status /\ retryCount' = retryCount
      BY <2>6 DEF ThreadDies
    <3>2. \A j \in S : Held(j) /\ ~Held(j)'
      BY <1>0, <3>1 DEF Held, IInv, ExclusiveExecution, TypeOK
    <3>3. \A j \in S : Phase(j) \in {"attempted"} /\ Phase(j)' = "stranded"
      BY <1>0, <3>1, <3>2, PhaseOfStatus, PhaseOfStatusPrime
    <3>4. \A j \in Jobs \ S : status[j] = "failed" => (Held(j)' <=> Held(j))
      BY <1>0, <3>1 DEF Held, TypeOK
    <3>5. \A j \in Jobs \ S : Phase(j)' = Phase(j)
      BY <1>0, <3>1, <3>4, PhaseKept
    <3>6. Lifecycle!Strand(S)
      BY <3>1, <3>3, <3>5, PhasesMove DEF Lifecycle!Strand
    <3> QED BY <3>6 DEF Lifecycle!Next
  <2> QED BY <1>6, <2>1, <2>2, <2>3, <2>4, <2>5, <2>6 DEF ThreadStep
<1>7. ASSUME NEW o \in Operators, Maintenance(o) PROVE Goal
  <2>1. CASE PruneDelete(o)
    <3>1. PICK S \in SUBSET Jobs : S = op[o].rows
      BY <1>0 DEF TypeOK
    <3>2. \A j \in S : Phase(j) \in Lifecycle!Phase \ {"unknown"}
      <4>1. \A j \in S : status[j] \in Status \cup {"deleted"}
        BY <1>0, <3>1 DEF SelectedInv, TypeOK
      <4> QED BY <1>0, <4>1, PhaseOfStatus DEF Lifecycle!Phase, Status
    <3>3. \A j \in S : Phase(j)' = "removed"
      BY <1>0, <2>1, <3>1, PhaseOfStatusPrime DEF PruneDelete
    <3>4. \A j \in Jobs \ S : Phase(j)' = Phase(j)
      BY <1>0, <2>1, <3>1, PhaseKept DEF PruneDelete, Held
    <3>5. Lifecycle!Remove(S)
      BY <2>1, <3>2, <3>3, <3>4, PhasesMove DEF Lifecycle!Remove, PruneDelete
    <3> QED BY <3>5 DEF Lifecycle!Next
  <2>2. ASSUME NEW row \in RepairRows, RepairQueue(o, row) PROVE Goal
    <3>1. \A t \in Threads : held[t] = None /\ held'[t] = None
      BY <2>2 DEF RepairQueue, NoWorkerLock, IInv, ThreadsInv, Busy
    <3> QED BY <1>0, <2>2, <3>1, RepairRowsType, Restarts DEF RepairQueue
  <2>3. CASE UNCHANGED <<status, held, retryCount>>
    BY <1>1, <2>3
  <2> QED BY <1>7, <2>1, <2>2, <2>3 DEF Maintenance, PruneSelect, DeleteSource, RunDirectly
<1> QED BY <1>2, <1>3, <1>4, <1>5, <1>6, <1>7 DEF QueueNext, Ingest, WorkerStep

\* No row is forgotten once it is inserted, so that a prune deletes rows only.
LEMMA QueueNextKeepsSelected == IInv /\ SelectedInv /\ [QueueNext]_vars => SelectedInv'
<1> SUFFICES ASSUME IInv, SelectedInv, [QueueNext]_vars PROVE SelectedInv'
  OBVIOUS
<1> USE DEF IInv, TypeOK, rowVars, threadVars, histVars, boundVars
<1>1. \A j \in Jobs : status'[j] = "absent" => status[j] = "absent"
  <2>1. Ingest => \A j \in Jobs : status'[j] = "absent" => status[j] = "absent"
    BY DEF Ingest, EnqueueJobs
  <2>2. WorkerStep => \A j \in Jobs : status'[j] = "absent" => status[j] = "absent"
    BY SMTT(20) DEF WorkerStep, StartWorker, RecoverAndLaunch, ResetProcessing, WorkerExits, CrashWorker,
           ThreadStep, ClaimNextPendingJob, NoPendingJobs, ProduceFiles, WorkflowReturns,
           WorkflowRaises, MarkDone, MarkFailed, ReadRetryCount, ScheduleRetry,
           MoveToDeadLetter, ThreadDies, SetStatus
  <2>3. \A o \in Operators : Maintenance(o) =>
          \A j \in Jobs : status'[j] = "absent" => status[j] = "absent"
    BY DEF Maintenance, PruneSelect, PruneDelete, RepairQueue, ResetProcessing, DeleteSource,
           RunDirectly
  <2> QED BY <2>1, <2>2, <2>3 DEF QueueNext, BackoffElapses, vars
<1>2. CASE op' = op
  BY <1>1, <1>2 DEF SelectedInv
<1>3. ASSUME NEW o \in Operators, NEW statuses \in PruneScopes, PruneSelect(o, statuses)
      PROVE  SelectedInv'
  <2>1. statuses \subseteq Status
    BY DEF PruneScopes, Finished, Status
  <2>2. PICK rows \in SUBSET WithStatus(statuses) :
          op' = [op EXCEPT ![o] = [task |-> "prune", statuses |-> statuses, rows |-> rows]]
    BY <1>3 DEF PruneSelect
  <2>3. \A j \in rows : j \in Jobs /\ status[j] # "absent"
    BY <2>1, <2>2 DEF WithStatus, Status
  <2> QED BY <1>1, <2>2, <2>3 DEF SelectedInv
<1>4. ASSUME NEW o \in Operators, PruneDelete(o) PROVE SelectedInv'
  BY <1>1, <1>4 DEF PruneDelete, SelectedInv, Idle
<1> QED BY <1>2, <1>3, <1>4
        DEF QueueNext, Ingest, EnqueueJobs, BackoffElapses, WorkerStep, StartWorker,
            RecoverAndLaunch, WorkerExits, CrashWorker, ThreadStep, ClaimNextPendingJob,
            NoPendingJobs, ProduceFiles, WorkflowReturns, WorkflowRaises, MarkDone, MarkFailed,
            ReadRetryCount, ScheduleRetry, MoveToDeadLetter, ThreadDies, Maintenance,
            RepairQueue, DeleteSource, RunDirectly, vars

LEMMA InitLifecycle == Init => Lifecycle!Init /\ SelectedInv
<1> SUFFICES ASSUME Init PROVE Lifecycle!Init /\ SelectedInv
  OBVIOUS
<1>1. TypeOK
  BY InitTypes
<1>2. \A j \in Jobs : Phase(j) = "unknown"
  BY <1>1, PhaseOfStatus DEF Init
<1> QED BY <1>2 DEF Init, Lifecycle!Init, SelectedInv, Idle

\* Threads, transactions, crashes, repairs and prunes, seen through Phase, do to
\* a job only what JobLifecycle lets happen to one.
THEOREM QueueImplementsLifecycle == QueueSpec => ImplementsLifecycle
<1>1. IInv /\ SelectedInv /\ [QueueNext]_vars =>
        (IInv /\ SelectedInv)' /\ [Lifecycle!Next]_(Lifecycle!vars)
  BY QueueNextKeepsIInv, QueueNextKeepsSelected, QueueStepsAreLifecycleSteps
<1>2. Init => IInv /\ SelectedInv /\ Lifecycle!Init
  BY InitIInv, InitLifecycle
<1>3. QueueSpec => Lifecycle!Spec
  BY <1>1, <1>2, PTL DEF QueueSpec, Lifecycle!Spec
<1> QED BY <1>3 DEF ImplementsLifecycle
=============================================================================
