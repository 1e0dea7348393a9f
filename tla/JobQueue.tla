------------------------------ MODULE JobQueue ------------------------------
(***************************************************************************)
(* The job queue of solux: the `jobs` table of jobs.db, the threads of the *)
(* worker process that drain it, and the commands and web handlers that    *)
(* change it behind the worker's back.                                     *)
(*                                                                         *)
(* Atomicity follows sqlite3's legacy transaction control.  A SELECT       *)
(* outside BEGIN runs in a transaction of its own, and the first UPDATE,   *)
(* INSERT or DELETE opens the one that the connection commits on exit.     *)
(* Hence the claim (BEGIN IMMEDIATE), the resets and the repair are one    *)
(* step, while retry, prune and schedule-retry are a read step followed    *)
(* by a write step that does not look at the rows again.                   *)
(***************************************************************************)
EXTENDS Naturals, FiniteSets

CONSTANTS
  Jobs,         \* job ids that INSERT may use; an id is never used twice
  Sources,      \* the inputs jobs are about, and their directories under sources/
  Threads,      \* worker-1 .. worker-N of the thread pool
  Operators,    \* concurrent CLI commands and web handlers
  None,         \* no job
  MaxRetries,   \* the max_retries column: no code path writes it, its DEFAULT is 3
  Once,         \* solux worker start --once
  MaxCrashes,   \* bound: how often the worker process dies
  MaxDbErrors,  \* bound: how often a database call of a worker thread raises
  MaxCommands   \* bound: how often an operator acts

ASSUME ConstantsAssumption ==
  /\ IsFiniteSet(Jobs) /\ IsFiniteSet(Threads)
  /\ None \notin Jobs \cup Sources
  /\ MaxRetries \in Nat \ {0}
  /\ Once \in BOOLEAN
  /\ MaxCrashes \in Nat /\ MaxDbErrors \in Nat /\ MaxCommands \in Nat

VARIABLES
  (* the rows of the jobs table *)
  status,       \* "absent" before INSERT, "deleted" after DELETE
  source,       \* the source column
  hasSourceId,  \* source_id IS NOT NULL
  retryCount,   \* the retry_count column
  backingOff,   \* next_retry_at is set and still in the future
  created,      \* the created_at column, as a rank
  (* the cache directory *)
  dir,          \* per source: no directory, one without, one with result files
  (* the worker process *)
  worker,       \* "down", "starting" (has the lock, before the reset), "running"
  pc,           \* control state of each thread
  held,         \* the job a thread works on
  readCount,    \* the retry_count the thread last read
  cause,        \* the exception the workflow raised
  (* the operators *)
  op,           \* the command each operator is in the middle of
  (* history, read by properties only *)
  fails,        \* how often each job's workflow has raised
  timedOut,     \* jobs of which a StepTimeoutError was raised
  succeeded,    \* jobs of which the workflow returned, or adopted by repair
  (* bounds *)
  crashes, dbErrors, commands

rowVars    == <<status, source, hasSourceId, retryCount, backingOff, created>>
threadVars == <<pc, held, readCount, cause>>
histVars   == <<fails, timedOut, succeeded>>
boundVars  == <<crashes, dbErrors, commands>>
vars == <<rowVars, dir, worker, threadVars, op, histVars, boundVars>>

Status == {"pending", "processing", "done", "failed", "dead_letter"}

\* Control states of _process_one_job_loop.  Every one but "execute" and
\* "ended" stands before the database call it is named after.
PC == {"down", "claim", "execute", "mark_done", "mark_failed",
       "read_retry_count", "schedule_retry", "dead_letter", "ended"}

Dir == {"none", "partial", "results"}

Idle == [task |-> "idle", statuses |-> {}, rows |-> {}]

TypeOK ==
  /\ status \in [Jobs -> Status \cup {"absent", "deleted"}]
  /\ source \in [Jobs -> Sources \cup {None}]
  /\ hasSourceId \in [Jobs -> BOOLEAN]
  /\ retryCount \in [Jobs -> Nat]
  /\ backingOff \in [Jobs -> BOOLEAN]
  /\ created \in [Jobs -> Nat]
  /\ dir \in [Sources -> Dir]
  /\ worker \in {"down", "starting", "running"}
  /\ pc \in [Threads -> PC]
  /\ held \in [Threads -> Jobs \cup {None}]
  /\ readCount \in [Threads -> Nat]
  /\ cause \in [Threads -> {"none", "error", "timeout"}]
  /\ op \in [Operators -> [task : {"idle", "retry", "prune"},
                           statuses : SUBSET Status, rows : SUBSET Jobs]]
  /\ fails \in [Jobs -> Nat]
  /\ timedOut \in SUBSET Jobs
  /\ succeeded \in SUBSET Jobs
  /\ crashes \in Nat /\ dbErrors \in Nat /\ commands \in Nat

Init ==
  /\ status = [j \in Jobs |-> "absent"]
  /\ source = [j \in Jobs |-> None]
  /\ hasSourceId = [j \in Jobs |-> FALSE]
  /\ retryCount = [j \in Jobs |-> 0]
  /\ backingOff = [j \in Jobs |-> FALSE]
  /\ created = [j \in Jobs |-> 0]
  /\ dir = [s \in Sources |-> "none"]
  /\ worker = "down"
  /\ pc = [t \in Threads |-> "down"]
  /\ held = [t \in Threads |-> None]
  /\ readCount = [t \in Threads |-> 0]
  /\ cause = [t \in Threads |-> "none"]
  /\ op = [o \in Operators |-> Idle]
  /\ fails = [j \in Jobs |-> 0]
  /\ timedOut = {}
  /\ succeeded = {}
  /\ crashes = 0 /\ dbErrors = 0 /\ commands = 0

-----------------------------------------------------------------------------
(* Rows *)

Exists(j) == status[j] \in Status
Absent    == {j \in Jobs : status[j] = "absent"}
WithStatus(S) == {j \in Jobs : status[j] \in S}

\* Mutation: an upsert, which brings a deleted row back.
SetStatus_Upsert(j, s) == [status EXCEPT ![j] = s]

\* An UPDATE ... WHERE job_id=?: it changes nothing when the row was deleted.
SetStatus(j, s) ==
  IF Exists(j) THEN [status EXCEPT ![j] = s] ELSE status

\* Mutations of the claim's WHERE clause.
Claimable_Stale(j)        == status[j] \in {"pending", "processing"} /\ ~backingOff[j]
Claimable_NeverRetried(j) == status[j] = "pending" /\ retryCount[j] = 0

Claimable(j) == status[j] = "pending" /\ ~backingOff[j]

\* ORDER BY created_at: rows inserted together have the same created_at.
Now == Cardinality({created[j] : j \in Jobs})

NextCandidates ==
  {j \in Jobs : Claimable(j) /\ \A k \in Jobs : Claimable(k) => created[j] <= created[k]}

\* db_enqueue_jobs: all the given sources in one transaction, one row each.
EnqueueJobs(batch, src) ==
  /\ batch # {} /\ batch \subseteq Absent
  /\ status' = [j \in Jobs |-> IF j \in batch THEN "pending" ELSE status[j]]
  /\ source' = [j \in Jobs |-> IF j \in batch THEN src[j] ELSE source[j]]
  /\ created' = [j \in Jobs |-> IF j \in batch THEN Now ELSE created[j]]
  /\ UNCHANGED <<hasSourceId, retryCount, backingOff, dir, worker, threadVars,
                 op, histVars, boundVars>>

\* datetime.now() passes next_retry_at.
BackoffElapses(j) ==
  /\ backingOff[j]
  /\ backingOff' = [backingOff EXCEPT ![j] = FALSE]
  /\ UNCHANGED <<status, source, hasSourceId, retryCount, created, dir, worker,
                 threadVars, op, histVars, boundVars>>

-----------------------------------------------------------------------------
(* The worker process: run_log_worker *)

\* try_worker_lock succeeds: no other worker (and no repair) holds the lock.
StartWorker ==
  /\ worker = "down"
  /\ worker' = "starting"
  /\ UNCHANGED <<rowVars, dir, threadVars, op, histVars, boundVars>>

\* Mutations of the reset: skipped, of every unfinished row, to an unknown status.
ResetProcessing_Skipped == status
ResetProcessing_Unfinished ==
  [j \in Jobs |-> IF status[j] \in {"processing", "failed", "dead_letter"}
                  THEN "pending" ELSE status[j]]

ResetProcessing == [j \in Jobs |-> IF status[j] = "processing" THEN "pending" ELSE status[j]]

\* reset_processing_jobs, then the threads are launched.
RecoverAndLaunch ==
  /\ worker = "starting"
  /\ status' = ResetProcessing
  /\ worker' = "running"
  /\ pc' = [t \in Threads |-> "claim"]
  /\ UNCHANGED <<source, hasSourceId, retryCount, backingOff, created, dir,
                 held, readCount, cause, op, histVars, boundVars>>

\* Every thread has returned (--once, or an exception out of its loop):
\* run_log_worker returns and the lock is released.
WorkerExits ==
  /\ worker = "running"
  /\ \A t \in Threads : pc[t] = "ended"
  /\ worker' = "down"
  /\ pc' = [t \in Threads |-> "down"]
  /\ UNCHANGED <<rowVars, dir, held, readCount, cause, op, histVars, boundVars>>

\* SIGTERM (worker stop), SIGKILL, power loss: nothing handles them, and the
\* system drops the lock with the process.
CrashWorker ==
  /\ worker # "down"
  /\ crashes < MaxCrashes
  /\ crashes' = crashes + 1
  /\ worker' = "down"
  /\ pc' = [t \in Threads |-> "down"]
  /\ held' = [t \in Threads |-> None]
  /\ readCount' = [t \in Threads |-> 0]
  /\ cause' = [t \in Threads |-> "none"]
  /\ UNCHANGED <<rowVars, dir, op, histVars, dbErrors, commands>>

-----------------------------------------------------------------------------
(* A worker thread: _process_one_job_loop *)

AtStep(t, p) == worker = "running" /\ pc[t] = p
Goto(t, p)   == pc' = [pc EXCEPT ![t] = p]

\* The locals of an iteration go out of scope.
LetGo(t) ==
  /\ held' = [held EXCEPT ![t] = None]
  /\ readCount' = [readCount EXCEPT ![t] = 0]
  /\ cause' = [cause EXCEPT ![t] = "none"]

\* db_claim_next_pending_job.  The row it returns is the only copy of
\* retry_count the thread decides from.
ClaimNextPendingJob(t) ==
  /\ AtStep(t, "claim")
  /\ \E j \in NextCandidates :
       /\ status' = [status EXCEPT ![j] = "processing"]
       /\ held' = [held EXCEPT ![t] = j]
       /\ readCount' = [readCount EXCEPT ![t] = retryCount[j]]
  /\ Goto(t, "execute")
  /\ UNCHANGED <<source, hasSourceId, retryCount, backingOff, created, dir,
                 worker, cause, op, histVars, boundVars>>

\* No row qualifies: the thread returns under --once and polls again otherwise.
NoPendingJobs(t) ==
  /\ AtStep(t, "claim")
  /\ Once
  /\ NextCandidates = {}
  /\ Goto(t, "ended")
  /\ UNCHANGED <<rowVars, dir, worker, held, readCount, cause, op, histVars, boundVars>>

\* The workflow leaves files under sources/<source_id>/ while it runs: first
\* metadata and media, then the transcript and summary-* files repair looks for.
ProduceFiles(t) ==
  /\ AtStep(t, "execute")
  /\ \E d \in {"partial", "results"} :
       /\ <<dir[source[held[t]]], d>> \in {<<"none", "partial">>, <<"partial", "results">>}
       /\ dir' = [dir EXCEPT ![source[held[t]]] = d]
  /\ UNCHANGED <<rowVars, worker, threadVars, op, histVars, boundVars>>

\* execute_source_workflow returns.
WorkflowReturns(t) ==
  /\ AtStep(t, "execute")
  /\ Goto(t, "mark_done")
  /\ succeeded' = succeeded \cup {held[t]}
  /\ UNCHANGED <<rowVars, dir, worker, held, readCount, cause, op, fails,
                 timedOut, boundVars>>

\* execute_source_workflow raises a StepTimeoutError or any other exception.
WorkflowRaises(t, c) ==
  /\ AtStep(t, "execute")
  /\ Goto(t, "mark_failed")
  /\ cause' = [cause EXCEPT ![t] = c]
  /\ fails' = [fails EXCEPT ![held[t]] = @ + 1]
  /\ timedOut' = IF c = "timeout" THEN timedOut \cup {held[t]} ELSE timedOut
  /\ UNCHANGED <<rowVars, dir, worker, held, readCount, op, succeeded, boundVars>>

\* update_job(status="done", source_id=...), whatever the row says by now.
MarkDone(t) ==
  /\ AtStep(t, "mark_done")
  /\ status' = SetStatus(held[t], "done")
  /\ hasSourceId' = [hasSourceId EXCEPT ![held[t]] = @ \/ Exists(held[t])]
  /\ LetGo(t)
  /\ Goto(t, "claim")
  /\ UNCHANGED <<source, retryCount, backingOff, created, dir, worker, op,
                 histVars, boundVars>>

\* Mutations: one attempt too many, one too few.
MayRetry_OneMore(t) == cause[t] # "timeout" /\ readCount[t] <= MaxRetries
MayRetry_OneLess(t) == cause[t] # "timeout" /\ readCount[t] + 1 < MaxRetries

MayRetry(t) == cause[t] # "timeout" /\ readCount[t] < MaxRetries

\* update_job(status="failed"): the first of the two transactions of a failure.
MarkFailed(t) ==
  /\ AtStep(t, "mark_failed")
  /\ status' = SetStatus(held[t], "failed")
  /\ Goto(t, IF MayRetry(t) THEN "read_retry_count" ELSE "dead_letter")
  /\ UNCHANGED <<source, hasSourceId, retryCount, backingOff, created, dir,
                 worker, held, readCount, cause, op, histVars, boundVars>>

\* db_schedule_retry, its SELECT: it gives up when the row is gone.
ReadRetryCount(t) ==
  /\ AtStep(t, "read_retry_count")
  /\ \/ /\ Exists(held[t])
        /\ readCount' = [readCount EXCEPT ![t] = retryCount[held[t]]]
        /\ Goto(t, "schedule_retry")
        /\ UNCHANGED <<held, cause>>
     \/ /\ ~Exists(held[t])
        /\ LetGo(t)
        /\ Goto(t, "claim")
  /\ UNCHANGED <<rowVars, dir, worker, op, histVars, boundVars>>

\* db_schedule_retry, its UPDATE: pending again, whatever the status is by now.
ScheduleRetry(t) ==
  LET j == held[t] IN
  /\ AtStep(t, "schedule_retry")
  /\ status' = SetStatus(j, "pending")
  /\ retryCount' = [retryCount EXCEPT ![j] = IF Exists(j) THEN readCount[t] + 1 ELSE @]
  /\ backingOff' = [backingOff EXCEPT ![j] = @ \/ Exists(j)]
  /\ LetGo(t)
  /\ Goto(t, "claim")
  /\ UNCHANGED <<source, hasSourceId, created, dir, worker, op, histVars, boundVars>>

\* db_move_to_dead_letter, whatever the status is by now.
MoveToDeadLetter(t) ==
  /\ AtStep(t, "dead_letter")
  /\ status' = SetStatus(held[t], "dead_letter")
  /\ LetGo(t)
  /\ Goto(t, "claim")
  /\ UNCHANGED <<source, hasSourceId, retryCount, backingOff, created, dir,
                 worker, op, histVars, boundVars>>

\* A database call raises (locked for 30 s, disk full) and nothing catches it:
\* the thread ends and leaves the row as it is.  At "execute" it is the
\* queue_counts call between the claim and the workflow.
ThreadDies(t) ==
  /\ worker = "running"
  /\ pc[t] # "ended"
  /\ dbErrors < MaxDbErrors
  /\ dbErrors' = dbErrors + 1
  /\ LetGo(t)
  /\ Goto(t, "ended")
  /\ UNCHANGED <<rowVars, dir, worker, op, histVars, crashes, commands>>

-----------------------------------------------------------------------------
(* Commands and web handlers *)

Command(o) ==
  /\ op[o] = Idle
  /\ commands < MaxCommands
  /\ commands' = commands + 1

\* db_retry_failed_jobs, its SELECT.  Restricted to ids or not, it finds some
\* of the failed and dead-letter rows.
RetrySelect(o, rows) ==
  /\ Command(o)
  /\ rows # {} /\ rows \subseteq WithStatus({"failed", "dead_letter"})
  /\ op' = [op EXCEPT ![o] = [task |-> "retry", statuses |-> {"failed", "dead_letter"},
                              rows |-> rows]]
  /\ UNCHANGED <<rowVars, dir, worker, threadVars, histVars, crashes, dbErrors>>

\* Its UPDATEs, one transaction: every selected row is pending, with the
\* retry_count it had.  _row_to_job(None) raises when a selected row has been
\* deleted meanwhile, and the whole transaction is rolled back.
RetryReset(rows) ==
  IF \A j \in rows : Exists(j)
  THEN [j \in Jobs |-> IF j \in rows THEN "pending" ELSE status[j]]
  ELSE status

RetryUpdate(o) ==
  /\ op[o].task = "retry"
  /\ status' = RetryReset(op[o].rows)
  /\ op' = [op EXCEPT ![o] = Idle]
  /\ UNCHANGED <<source, hasSourceId, retryCount, backingOff, created, dir,
                 worker, threadVars, histVars, boundVars>>

\* The statuses the callers of prune_jobs pass: cleanup --jobs, with and
\* without --jobs-all-statuses, and the web's "clear dead letter".
Finished == {"done", "failed", "dead_letter"}
PruneScopes == {Finished, Status, {"dead_letter"}}

\* --jobs-stale-only: source_id is set and sources/<source_id> is gone.
Stale(j) == hasSourceId[j] /\ dir[source[j]] = "none"

\* db_prune_jobs, its SELECT.  Cleanup may restrict it to the rows of one
\* source_id, to stale rows, or to both.
PruneSelect(o, statuses) ==
  /\ Command(o)
  /\ \E sid \in Sources \cup {None}, staleOnly \in BOOLEAN :
       LET rows == {j \in WithStatus(statuses) :
                      /\ sid # None => hasSourceId[j] /\ source[j] = sid
                      /\ staleOnly => Stale(j)}
       IN /\ statuses = {"dead_letter"} => sid = None /\ ~staleOnly
          /\ rows # {}
          /\ op' = [op EXCEPT ![o] = [task |-> "prune", statuses |-> statuses, rows |-> rows]]
  /\ UNCHANGED <<rowVars, dir, worker, threadVars, histVars, crashes, dbErrors>>

\* Its DELETE, by job_id alone.
PruneDelete(o) ==
  /\ op[o].task = "prune"
  /\ status' = [j \in Jobs |-> IF j \in op[o].rows THEN "deleted" ELSE status[j]]
  /\ op' = [op EXCEPT ![o] = Idle]
  /\ UNCHANGED <<source, hasSourceId, retryCount, backingOff, created, dir,
                 worker, threadVars, histVars, boundVars>>

\* Sources with result files whose id no row carries: those repair adopts.
Orphans ==
  {s \in Sources : /\ dir[s] = "results"
                   /\ ~\E j \in Jobs : Exists(j) /\ hasSourceId[j] /\ source[j] = s}

\* Mutation: repair does not care for the worker lock.
NoWorkerLock_Ignored == worker \in {"down", "starting", "running"}

NoWorkerLock == worker = "down"

\* cmd_repair under the worker lock: db_repair_queue resets the stuck rows and
\* adds a synthetic done row per orphan (row maps the new ids to the orphans).
RepairQueue(o, row) ==
  /\ Command(o)
  /\ NoWorkerLock
  /\ status' = [j \in Jobs |-> IF j \in DOMAIN row THEN "done" ELSE ResetProcessing[j]]
  /\ source' = [j \in Jobs |-> IF j \in DOMAIN row THEN row[j] ELSE source[j]]
  /\ hasSourceId' = [j \in Jobs |-> j \in DOMAIN row \/ hasSourceId[j]]
  /\ created' = [j \in Jobs |-> IF j \in DOMAIN row THEN Now ELSE created[j]]
  /\ succeeded' = succeeded \cup DOMAIN row
  /\ UNCHANGED <<retryCount, backingOff, dir, worker, threadVars, op, fails,
                 timedOut, crashes, dbErrors>>

\* The ids repair may give to the orphans: one new id each.
RepairRows ==
  UNION {{row \in [ids -> Orphans] : \A s \in Orphans : \E j \in ids : row[j] = s} :
         ids \in {S \in SUBSET Absent : Cardinality(S) = Cardinality(Orphans)}}

\* The web's delete and cleanup of everything under sources/<source_id>.
DeleteSource(o, s) ==
  /\ Command(o)
  /\ dir[s] # "none"
  /\ dir' = [dir EXCEPT ![s] = "none"]
  /\ UNCHANGED <<rowVars, worker, threadVars, op, histVars, crashes, dbErrors>>

\* solux run: the same workflow, the same files, and no job.
RunDirectly(o, s) ==
  /\ Command(o)
  /\ dir[s] # "results"
  /\ dir' = [dir EXCEPT ![s] = "results"]
  /\ UNCHANGED <<rowVars, worker, threadVars, op, histVars, crashes, dbErrors>>

-----------------------------------------------------------------------------

Ingest == \E batch \in SUBSET Absent : \E src \in [batch -> Sources] : EnqueueJobs(batch, src)

ThreadStep(t) ==
  \/ ClaimNextPendingJob(t) \/ NoPendingJobs(t)
  \/ ProduceFiles(t) \/ WorkflowReturns(t)
  \/ \E c \in {"error", "timeout"} : WorkflowRaises(t, c)
  \/ MarkDone(t) \/ MarkFailed(t)
  \/ ReadRetryCount(t) \/ ScheduleRetry(t) \/ MoveToDeadLetter(t)
  \/ ThreadDies(t)

WorkerStep ==
  \/ StartWorker \/ RecoverAndLaunch \/ WorkerExits \/ CrashWorker
  \/ \E t \in Threads : ThreadStep(t)

\* Everything an operator may do but a manual retry.
Maintenance(o) ==
  \/ \E statuses \in PruneScopes : PruneSelect(o, statuses)
  \/ PruneDelete(o)
  \/ \E row \in RepairRows : RepairQueue(o, row)
  \/ \E s \in Sources : DeleteSource(o, s) \/ RunDirectly(o, s)

ManualRetry(o) ==
  \/ \E rows \in SUBSET Jobs : RetrySelect(o, rows)
  \/ RetryUpdate(o)

\* The queue left to itself and to maintenance ...
QueueNext ==
  \/ Ingest
  \/ \E j \in Jobs : BackoffElapses(j)
  \/ WorkerStep
  \/ \E o \in Operators : Maintenance(o)

\* ... and with operators that also retry jobs by hand.
Next == QueueNext \/ \E o \in Operators : ManualRetry(o)

QueueSpec == Init /\ [][QueueNext]_vars
Spec      == Init /\ [][Next]_vars

\* Threads are scheduled, workflows end, clocks advance, and somebody starts a
\* worker when there is none (ingest does, and so do the web handlers).  Nobody
\* has to enqueue, to crash or to run a command.
Progress(t) ==
  \/ ClaimNextPendingJob(t) \/ NoPendingJobs(t)
  \/ WorkflowReturns(t) \/ \E c \in {"error", "timeout"} : WorkflowRaises(t, c)
  \/ MarkDone(t) \/ MarkFailed(t)
  \/ ReadRetryCount(t) \/ ScheduleRetry(t) \/ MoveToDeadLetter(t)

Fairness ==
  /\ WF_vars(StartWorker) /\ WF_vars(RecoverAndLaunch) /\ WF_vars(WorkerExits)
  /\ \A t \in Threads : WF_vars(Progress(t))
  /\ \A j \in Jobs : WF_vars(BackoffElapses(j))

FairSpec == Spec /\ Fairness

-----------------------------------------------------------------------------
(* The queue implements JobLifecycle, as long as no job is retried by hand *)

\* A failed row is still being attempted while its thread is on the way to the
\* second transaction of the failure, and stranded when there is none.
Phase(j) ==
  CASE status[j] = "absent"      -> "unknown"
    [] status[j] = "deleted"     -> "removed"
    [] status[j] = "pending"     -> "waiting"
    [] status[j] = "processing"  -> "attempted"
    [] status[j] = "done"        -> "done"
    [] status[j] = "dead_letter" -> "given_up"
    [] status[j] = "failed"      -> IF \E t \in Threads : held[t] = j
                                    THEN "attempted" ELSE "stranded"

Lifecycle == INSTANCE JobLifecycle WITH
  phase <- [j \in Jobs |-> Phase(j)], retries <- retryCount

\* The detailed queue, seen through Phase, behaves as JobLifecycle says.
ImplementsLifecycle == Lifecycle!Spec

-----------------------------------------------------------------------------
(* Properties of the queue without manual retries *)

\* No job is worked on by two threads at once, through crashes, restarts,
\* repairs and prunes: the claim, the worker lock around reset and repair, and
\* the release of a job in the same transaction that makes it claimable again.
ExclusiveExecution ==
  \A t, u \in Threads : held[t] = held[u] /\ held[t] # None => t = u

\* While a worker runs, a processing row has a thread working on it, unless a
\* thread has ended: the reset on start leaves no row behind, and no thread
\* walks away from the row it claimed.
ProcessingIsOwned ==
  worker = "running" =>
    \A j \in Jobs : status[j] = "processing" =>
      \E t \in Threads : held[t] = j \/ pc[t] = "ended"

\* The queue itself lets a job's workflow fail at most MaxRetries + 1 times.  A
\* failure goes uncounted only when the worker dies, or the database fails the
\* thread, before it is written, once per crash or database error.
RetryBudget ==
  \A j \in Jobs :
    /\ retryCount[j] <= MaxRetries
    /\ fails[j] <= MaxRetries + 1 + crashes + dbErrors

\* A workflow that has returned or timed out is not run again, as long as the
\* worker survives: "Retries are skipped to avoid duplicate side effects".
NoRepeatedSideEffects ==
  crashes = 0 /\ dbErrors = 0 =>
    \A t \in Threads : pc[t] = "execute" => held[t] \notin succeeded \cup timedOut

\* Done and dead-letter rows stay what they are until they are deleted.
FinalStatusStays ==
  [][\A j \in Jobs : status[j] \in {"done", "dead_letter"} =>
        status'[j] \in {status[j], "deleted"}]_vars

-----------------------------------------------------------------------------
(* Why they hold: the inductive invariant *)

Busy == {"execute", "mark_done", "mark_failed", "read_retry_count",
         "schedule_retry", "dead_letter"}

\* Past the workflow's exception and before the end of its bookkeeping.
Failing == {"mark_failed", "read_retry_count", "schedule_retry", "dead_letter"}

\* Threads live inside a running worker, and hold a job exactly while busy.
ThreadsInv ==
  /\ worker # "running" => \A t \in Threads : pc[t] = "down"
  /\ \A t \in Threads : pc[t] \in Busy <=> held[t] # None

\* What the row of a held job says depends on how far its thread is, unless
\* the row is gone.
HeldStatusInv ==
  \A t \in Threads :
    /\ pc[t] \in {"execute", "mark_done", "mark_failed"} =>
         status[held[t]] \in {"processing", "deleted"}
    /\ pc[t] \in {"read_retry_count", "schedule_retry", "dead_letter"} =>
         status[held[t]] \in {"failed", "deleted"}

\* The retry_count a thread has read is still the one in the row, and a thread
\* on its way to a retry has retries left.
ReadCountInv ==
  \A t \in Threads :
    /\ pc[t] \in Busy => readCount[t] = retryCount[held[t]]
    /\ pc[t] \in {"read_retry_count", "schedule_retry"} => readCount[t] < MaxRetries

\* Failures the row accounts for, by retry_count or by a fault.
Accounted(j) == retryCount[j] + crashes + dbErrors

\* Only the last failure of a job may be unaccounted for, and of a job that
\* waits or runs none is.
FailsInv ==
  \A j \in Jobs :
    /\ retryCount[j] <= MaxRetries
    /\ fails[j] <= Accounted(j) + 1
    /\ (/\ status[j] \in {"absent", "pending", "processing"}
        /\ \A t \in Threads : held[t] = j => pc[t] \notin Failing) =>
          fails[j] <= Accounted(j)
    /\ (\E t \in Threads : held[t] = j /\ pc[t] = "execute") =>
          fails[j] <= Accounted(j)

IInv ==
  /\ TypeOK /\ ThreadsInv /\ HeldStatusInv /\ ExclusiveExecution
  /\ ReadCountInv /\ FailsInv

-----------------------------------------------------------------------------
(* Properties that hold with manual retries as well *)

\* A final status tells the truth, even when a stale write lands on the row: a
\* done job's workflow did return (or repair found its results), and a
\* dead-letter job timed out or failed more often than it may be retried.
FinalStatusIsEarned ==
  \A j \in Jobs :
    /\ status[j] = "done" => j \in succeeded
    /\ status[j] = "dead_letter" => j \in timedOut \/ fails[j] > MaxRetries

\* Every submitted job comes to rest for good, through worker crashes and
\* manual retries that overlap with the worker: done, dead-letter, deleted, or
\* failed when a crash hit between the two transactions of a failure.
EveryJobSettles ==
  \A j \in Jobs : (status[j] # "absent") ~>
    [](status[j] \in {"done", "dead_letter", "failed", "deleted"})

-----------------------------------------------------------------------------
(* What comments and documents say and the code does not do *)

\* db.py: "Reset failed/dead-letter jobs back to pending for retry."  A retry
\* changes no row that is not failed or dead-letter.
RetryResetsOnlyFailed ==
  [][\A o \in Operators : RetryUpdate(o) =>
        \A j \in Jobs : status'[j] # status[j] =>
          status[j] \in {"failed", "dead_letter"}]_vars
=============================================================================
