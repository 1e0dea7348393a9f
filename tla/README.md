# Solux in TLA+

Solux is a local-first workflow engine: sources (URLs, files, mails, feed
entries) are queued as jobs, a background worker runs each job through a
workflow of steps, triggers enqueue new sources, and a command line and a small
web server control all of it. Its state is on one machine and is shared by
several processes and many threads: a SQLite table of jobs, a SQLite table of
what triggers have seen, a pid file, a lock file, a directory of artifacts.

These modules state what that machinery promises, check it with TLC on small
instances and prove part of it with TLAPS for every instance. Every definition
is translated from the Python source; `PROJECT.json` maps each to its lines.
Paths below are relative to the package, `src/solux/` in the repository.

## The system

| Component | State | Operations | Talks to |
|---|---|---|---|
| Job queue (`db.py`, `queueing.py`) | table `jobs`: status, retry_count, next_retry_at, source_id, created_at | enqueue, claim, update, reset, schedule retry, dead letter, manual retry, prune, repair | everybody, through SQLite transactions |
| Worker threads (`worker.py`) | locals of `_process_one_job_loop`: the claimed row | claim, run, mark done or failed, retry or dead-letter | queue, workflow engine |
| Worker process (`background.py`, `cli/worker_cmd.py`, `queueing.py`) | `worker.pid`, flock on `worker.lock`, process table | start, stop, status, run, repair's lock | operating system, CLI, web server |
| Triggers (`triggers/`) | table `trigger_state`, one thread per trigger, mailbox, feed, folder, clock | poll, check seen, mark seen, enqueue | queue, outside world |
| Hot reload (`reload.py`, `worker.py`) | file times, list of trigger threads | stop and restart triggers | triggers |
| Workflow engine (`workflows/engine.py`, `modules/meta/`) | `ctx.data`, Python stacks, abandoned threads | step, when, foreach, timeout, on_error, sub-workflow, branch | step handlers, loader |
| Expressions, loader, validation, registry (`workflows/`) | files on disk | parse, check, shadow builtins | engine |
| Audit log (`audit.py`) | table `audit_log`, each event with the hash of the one before it; a lock per process | append, verify | web server |
| Cleanup (`cleanup.py`) | `sources/<id>/` directories, jobs | select, remove, prune | queue |
| Web server (`serve/`) | one thread per request; the documents it edits | every POST route: sources, queue, worker, workflows, triggers, configuration | queue, worker process, audit log |
| Rate limiter, auth, roles (`serve/`) | admissions per address, a key client | admit, refuse | web server |
| Sources and cache (`sources.py`, `artifacts.py`, `audio.py`, `transcribe.py`, `serve/sources.py`) | the files under `sources/<id>/`, metadata | fetch, normalize, transcribe, summarize, look up titles, clean up | external tools, queue |
| Summarizer (`summarize.py`) | none | split into chunks, summarise, combine | language model |
| Step modules (`modules/`) | none | one handler per step type | services |
| MCP server, configuration, diagnosis, CLI parsing, templates | none between calls | | |

How they interact: triggers, the CLI and the web server insert rows; worker
threads claim them and call the engine; the engine's outcome (returned, timed
out, any other exception) decides what the thread writes back; operators retry,
prune and repair rows behind the threads' backs; the pid and lock files keep the
worker single; hot reload replaces trigger threads inside a running worker.

### What is hard

* **Transactions narrower than operations.** Python's sqlite3 opens a
  transaction at the first write. A claim (BEGIN IMMEDIATE) is atomic; retry,
  prune and schedule-retry select in one transaction and write by id in another.
* **A failure is two transactions**: `failed`, and then pending or dead letter.
* **Crashes.** SIGTERM is not handled: `worker stop` is a crash. `processing`
  rows and pid files are what it leaves.
* **Three witnesses of one fact.** A command looks at the pid file, the process
  table and the lock, one after the other, while others change them.
* **Overlapping trigger threads** after a hot reload, and the choice of what
  comes first: marking an item or enqueueing it.
* **Timeouts that do not stop anything**: the thread of a timed-out step goes on
  with the same dictionary.

### What makes each component correct

* Queue and threads: one thread per job; nothing lost in `processing`; as many
  attempts as promised; final statuses stay and tell the truth; every job settles.
* Worker process: one worker; none beside a repair; no verdict from a stale look;
  the running worker can be found; a start starts; commands return.
* Triggers: how often an item may be enqueued, and when it may be lost.
* Engine: circular calls are refused and only those; the original error wins;
  everything ends.
* Audit log: every change is in it, what it says is true, the chain verifies.
* Web server: nobody changes anything without the right to; what was saved stays.
* Rate limiter: never more than the limit in a window, and no refusal before it.
* Keys: a rotation locks nobody out, and an old key dies with its client.
* Cache: a result is made of whole files of one version; the metadata keeps its
  creation date and is that of the latest execution.
* Chunking: nothing of the text is lost, no chunk is too long.
* Cron: a minute fires once, and the minutes that fire are those of the fields.
* Hot reload: what runs is what is on disk.
* Workflows: list, run and editor mean the same one; what passes validation is
  not refused half way, and its warnings are right; of a guard and its negation
  one holds.

## Modules

| Module | Models |
|---|---|
| `JobLifecycle` | abstract: what the queue promises a job, without rows or threads |
| `JobQueue` | `jobs` table, worker threads, recovery, operators; implements `JobLifecycle` |
| `JobQueueProofs` | theorems about `JobQueue` |
| `WorkerProcess` | processes, pid file, lock, CLI commands and web handlers |
| `WorkerProcessProofs` | theorems about `WorkerProcess` |
| `TriggerThreads` | what polling triggers share: threads, hot reload, dedup table |
| `FeedTrigger` | folder watch and RSS poll (mark, then enqueue); extends `TriggerThreads` |
| `FeedTriggerProofs` | theorems about `FeedTrigger` |
| `EmailTrigger` | IMAP poll (enqueue, then mark) with the mailbox; extends `TriggerThreads` |
| `EmailTriggerProofs` | theorems about `EmailTrigger` |
| `WorkflowEngine` | the step machine: stacks, threads, error workflows, sub-workflow calls |
| `SourceCache` | the cached files of one source, executions, cleanup |
| `SourceMetadata` | its `metadata.json`: executions and listings that read, truncate and write it |
| `SourceCacheProofs` | theorems about `SourceCache` and `SourceMetadata` |
| `Roles` | permissions and the roles a token claims |
| `RateLimiter` | the limiter as a function from its state to its possible states |
| `WebServer` | request threads of one or two server processes through every POST route; composes `Roles` and `RateLimiter` with documents, queue, worker, log and keys |
| `WebServerProofs` | theorems about `WebServer`: types, keys, chain, gates, log and documents, and the rates of `RateLimiter` |
| `CronSchedule` | cron fields as the code matches them and as crontab(5) means them |
| `ModuleDiscovery` | which module serves a step type |
| `HotReload` | trigger files, watcher, reload and cron threads; extends `CronSchedule` |
| `HotReloadProofs` | theorems about `CronSchedule`, `ModuleDiscovery` and `HotReload` |
| `TextChunks` | how texts are cut |
| `WorkflowFiles` | which file a workflow name stands for |
| `WorkflowValidation` | what validation accepts, against what the engine does |
| `WorkflowProofs` | theorems about `WorkflowEngine`, `WorkflowValidation` and `WorkflowFiles` |
| `WhenExpressions` | the evaluator of guards |
| `MCDefinitions` | the instance of `HotReload`, and questions to the six modules without state |
| other `MC*` | instances for TLC: symmetry, sets of workflows, a constraint |

### JobQueue

`status`, `retryCount`, `hasSourceId`, `backingOff` and `created` are the
columns that decide something; a row is `absent` before INSERT and `deleted`
after DELETE, so an id is never used twice. `backingOff` stands for "next_retry_at
lies in the future", and `BackoffElapses` is the clock. `dir` is what prune and
repair see of `sources/<id>/`. A thread's `pc` names the database call it stands
before; `held` and `readCount` are its copy of the claimed row, which the retry
decision is made from. `op` is the set of ids an operator has selected and not
yet written. Each SQLite transaction is one action, so `MarkFailed` and
`ScheduleRetry`/`MoveToDeadLetter` are two, `db_schedule_retry` is a read and a
write, and `RetrySelect`/`RetryUpdate` and `PruneSelect`/`PruneDelete` may have
anything between them. `CrashWorker` may come anywhere. `ThreadDies` is a
database call outside the loop's try: the future keeps the exception and nobody
reads it. `fails`, `timedOut` and `succeeded` are history and no guard reads them.

`QueueSpec` is the queue left to itself and to maintenance; `Spec` adds manual
retries, which is what breaks exclusive execution (see below).

`JobLifecycle` says the same of one job in a few lines. The refinement maps
`failed` to `attempted` while a thread holds the row and to `stranded` after.

### WorkerProcess

`proc` is the process table, in which a child of the web server stays a zombie
until another `Popen` of the server reaps it and a child of the CLI does not;
`lock` is the flock, dropped with its holder; `pidFile` is cleared by name by
whoever believes it stale. A command's `step` is the look or the write it takes
next. `sawDown` and `overlap` are history. `LaunchDirectly` is `worker start
--_run-loop` without a start command, as docker-compose.yml runs it: a worker with
the lock and in no pid file. Its `parent` is `Shell`.

### TriggerThreads, FeedTrigger, EmailTrigger

A thread polls, goes through its batch and looks at its stop event between
batches only. `EndReload` comes when the old thread has ended or two seconds
have passed, so it may come at any time. `seen` survives a crash, threads do not.
FeedTrigger's `ThreadDies` and `PollFails` are the exceptions its loop does not
and does catch. EmailTrigger's mailbox is external: mails have places, FETCH sets
`\Seen`, another client may expunge a mail it has read. `FetchWithoutMail` is a
FETCH answered NO or without data: the code goes on all the same, and the mail
stays unseen; `unread` counts them.

### WorkflowEngine

A thread is a Python stack of three kinds of frames: `execute_workflow` at a
step, a handler (which remembers the call stack it will restore), and the
sequential foreach loop. Timed steps and parallel loops start threads and join
them; `JoinTimesOut` abandons one. Of `ctx.data` only `_subworkflow_stack` is
kept: `dicts` holds it for every dictionary made, and foreach copies
dictionaries. `program`, the workflow files, is chosen in `Init`. An exception
remembers under how many handled errors it was raised. `base` is history: the
calls, the handled errors and the waiting threads that a thread was started under.
The body of a sequential loop is a closure over `step` and `handler`, which move on
while an abandoned thread still runs it: `ItemSteps` and `ItemCalls` are what its
next item may find there.

### SourceCache, SourceMetadata

One source directory. `files` has a state (absent, partly written, whole) and a
version of the audio for the download, the WAV, the transcript and the
summaries; an execution goes through the stages of the audio workflow and at each
finds its output and takes it, or calls a tool, which writes in place and may
fail, or die with the process, half way. `CollectTargets` and `Delete` are the two
sides of the question a cleanup asks. History variables say who worked alone and
found nothing torn. Of the step that records the source (`WriteMetadata`) only
the existence of its file matters here; what it says has a module of its own.

In `SourceMetadata` everybody reads, opens (which truncates) and writes in separate
actions: an execution (`FetchEnds`, `NameSource`, `ReadRecord`) and a request
thread that lists the source and improves a generic title (`ListSource`,
`LookForTitle`, `Answered`, the 20 seconds of yt-dlp); `OpenRecord` and
`WriteRecord` are common to them. `copy` is what an actor has read and goes on to
write. Two writers may mix their texts. History: `born` and `last`, what the file
should say; `blind`, somebody could not see what others had recorded (the file was
truncated, torn, or had no record yet); `stale`, an execution wrote between the
read and the write of a lister.

### WebServer, Roles, RateLimiter

A request goes through phases: client and decode (tokens), dispatch (size,
origin, permission), clock and limit (webhooks), handle, lock and insert (audit).
`Handlers` is the route table; each route is a program, the sequence of
operations its handler calls, any of which may fail, and between any two of which
other threads may run. Documents have a text, an enabled flag and a state:
`open` truncates, `write` fills. The issuer may rotate its key at any time;
`client` is the cached `PyJWKClient` with the worst key set, the same key id. A
token may claim a role that `extract_roles` does not know, and is then a viewer's.
A request from another site may ask for JSON, which `CsrfAllowed` looks at first.
Of a job only who inserted it and its status matter here, so `jobs` is a set of
such records.

### HotReload, CronSchedule, ModuleDiscovery

`recorded` says how the watcher's time for a file compares with the file: absent,
same or other. `phase` is the one thread that loads and reloads. Files are edited
by the web editor, the command line and hand, truncated first and then written.
A trigger thread is a pc with the trigger it was started for; it polls, looks the
minute up, marks it, updates an interval and enqueues, each a transaction.
`fired` counts per name, kind of trigger and minute. `missed` keeps what the
watcher cannot notice: what changed before its first times, and files that came
and went between two of its looks and were loaded in between. `twins` holds the
minutes in which two live threads had one name, `lost` and `slow` what faults took.
`Unreadable` is a trigger file on which `load_triggers` raises (text that is not
UTF-8, an invalid date): `LoadFails` is the death of a worker that starts and the
end of a reload, with all threads stopped. Files of modules and workflows only
change: a change of theirs makes the watcher reload the triggers, too. That it also
registers the modules again is left out, because no job looks at the registry it
registers them in (`pipeline.py:72` builds one for each job).

### TextChunks, WorkflowFiles, WorkflowValidation, WhenExpressions

No state. `MCDefinitions` has a variable `question`, the input that an initial
state asks about, so that each answer is an invariant of a state. A text is a
sequence of four kinds of characters, a directory a function from (stem,
extension) to contents, a workflow a sequence of steps, a guard a syntax tree as
the sequence of its nodes (`RECURSIVE` is not needed).

In `WorkflowFiles` a file may hold what escapes the loader's handlers (`Escaping`),
and a workflow may be called as a page of the editor (`ReservedNames`). In
`WorkflowValidation` a step has options (guard, `on_error`, `foreach` one by one or
in parallel, timeout) and renames keys; a module may write a key only sometimes, or
run another workflow. The question is what *some* run finds in the context
(`MayMiss`): a step that need not run may leave a key unwritten, and a parallel
`foreach` takes `_item` and `_index` away. In `WhenExpressions` lists have an
identity, which `is` compares, and an order.

## Runs

| Run | Bounds | Shows |
|---|---|---|
| `jobqueue_worker` | 2 jobs, 2 threads, `--once`, 1 retry, one crash or database error, 1 command | exclusive execution, owned rows, retry budget, no repeated side effects, final statuses, refinement of `JobLifecycle` |
| `jobqueue_manual` | 2 jobs, or 1 job, 2 operators and 2 commands; 2 threads, 1 retry, 1 crash | that a final status is true even after a manual retry has put two threads on one job, and that every job comes to rest for good |
| `jobqueue_retry_race` | 2 jobs, 2 operators | *violated*: "Reset failed/dead-letter jobs back to pending" |
| `worker_commands` | a CLI command and a web handler at once, 3 invocations or direct launches, 3 pids, 1 fault | one worker, sound verdicts, a worker that was started is known, a start starts, commands return |
| `feed` | 2 items, 2 threads, 1 crash, 1 reload, 1 failure | duplicates only from reloads, losses only from faults, delivery |
| `email` | 2 mails, 2 threads, 1 each of crash, reload, failure, fetch without mail, expunge | duplicates only from reloads and fetches without the mail, delivery without faults |
| `email_lost` | 1 mail, 1 failure | *violated*: at-least-once delivery |
| `engine` | 469 programs of two workflows, 4 threads, lists up to 2, 5 frames, 1 timeout | true call stacks and no nested calls, original errors, termination |
| `cache` | three scenarios: up to 3 executions, 2 at a time, failures and crashes, 2 versions, 1 cleanup; and `metadata.json` apart from them: 2 executions and 2 request threads at once, 2 records, 2 listings, 1 cleanup, crashes | whole results, fresh ones with `no_cache`, one version per result; creation date and latest record |
| `web` | scenarios: all routes, roles and defects one at a time; 2 to 4 requests at once on the trigger document, the queue, the log (1 and 2 processes), the limiter, a key rotation | rights, the log, the chain, documents, rates, keys |
| `web_same_origin` | two posts with OIDC off, from this or another site, with or without asking for JSON | *violated*: the same-origin check |
| `definitions` | one trigger file of each extension, one module file; up to three edits (files that come and go, triggers that change their kind, files that cannot be read), up to two faults, up to 3 minutes; and the questions: 1365 texts, 4096 directories, 8875 workflows, 936 pairs of guards, 479 fields, 91 module directories | what runs is what is on disk, firings, and the meaning of every definition |

**Why the bounds are enough.** Two threads and two jobs give every race for a
row and every way for a thread to take up other work in between; a third thread
does in a claim what the second does. Two jobs and commands at once are too many
states for liveness, so `jobqueue_manual` has either (`SecondOrCommands`); that final
statuses are true is proved for any number of both. One retry already separates "fewer than", "up to" and "more than" the limit. One fault lets
a state be left behind and found again; the theorems cover any number. A command
and a web handler with three invocations give start against start, stop and
repair with one more command before or after; three pids let a pid be stale,
reused and replaced. Two trigger threads are the old and the new one of a reload.
Two workflows give direct and mutual calls and error workflows of each other;
depth 5 holds a call in an error workflow of a call and still reaches the
recursion limit. A bound on a counter only ends behaviours; it adds none. Two executions and one
more after them let one find, or disturb, what another left. The web scenarios
are apart because what they are about is: a request that changes the limiter
changes no document. A window of two ticks and a limit of two admit, refuse and
admit again; two tracked addresses of three evict. Two trigger files are the least that share a name, one edit and a fault the least that
race with a load, and three edits (truncate and write, delete, and one more) the
least by which a file comes and goes; three minutes see an interval of two end. Texts of five
characters hold a sentence or a paragraph end before, at and behind every cut of
the sizes 1, 3 and 4, with overlaps below, at and beyond them. Two names with two
extensions are every order of files in which one hides another; three steps let
a key be written, renamed or taken away, and read; workflows of two steps have
every option on both. Two executions and two listings are the least in which one
of each is overtaken by one of each.

**Deadlock** is not checked: each system may stop, with the worker down, the
bounds used up, or the execution over. Where stopping would be wrong a liveness
property says so.

**Fairness.** Weak, on what the operating system schedules: threads, processes,
commands under way, the worker's start when it is down (ingest and the web server
start one), the clock. A step handler that hangs without a timeout is outside:
`WorkflowReturns`/`WorkflowRaises` and `HandlerReturns`/`HandlerRaises` are
assumed to come. Nobody has to enqueue, crash, reload, fail, time out or invoke.
In `HotReload` one weak fairness stands for the process as a whole: as long as a
reload, a write or a thread has something to do, one of them does it; threads
that only poll change nothing for good.
`FairSpec` of the triggers also starts the threads after a reload has begun.

## What is proved

Every safety property that a run checks of a component with state is a theorem
(the queue, the worker process, the triggers, the engine, the cache, the web
server, hot reload), for all constants that satisfy the named assumptions: any
number of jobs, threads, operators, items, pids, frames, executions, requests,
servers, files, crashes, faults and ticks. So are the action properties of the
queue and the refinement of `JobLifecycle`. In the table the
theorem's property is the one the runs check, where there is one.

| Module | Assumptions | Theorems (property) |
|---|---|---|
| `JobQueueProofs` | `ConstantsAssumption` | `TypeCorrect` (`TypeOK`), `InvariantHolds` (`IInv`), `NoDoubleExecution` (`ExclusiveExecution`), `RetriesAreBounded` (`RetryBudget`), `FinalStatusIsFinal` (`FinalStatusStays`), `ProcessingHasOwner` (`ProcessingIsOwned`), `FinalStatusIsTrue` (`FinalStatusIsEarned`), `SideEffectsHappenOnce` (`NoRepeatedSideEffects`), `QueueImplementsLifecycle` (`ImplementsLifecycle`) |
| `WorkerProcessProofs` | `ProcessAssumption` | `AtMostOneWorker` (`OneWorker`), `VerdictsAreSound` (`VerdictIsSound`), `WorkerIsKnown` (`RunningWorkerIsKnown`) |
| `FeedTriggerProofs` | `TriggerAssumption`, `FeedAssumption` | `ReloadsBoundDuplicates` (`DuplicatesNeedReloads`), `CrashesMakeNoDuplicates`, `FaultsBoundLosses` (`LossesNeedFaults`) |
| `EmailTriggerProofs` | `TriggerAssumption`, `EmailAssumption` | `TypeCorrect` (`TypeOK`), `CausesBoundDuplicates` (`DuplicatesHaveCauses`) |
| `WebServerProofs` | `WebAssumption`, `RateAssumption` | `RotationIsSafe` (`KeysRotate`), `ChainVerifies` (`ChainHolds`), `OnlyTheEntitledChange` (`OnlyWithRight`), `LogTellsTheTruth` (`LogIsTrue`), `SavedTextStays` (`EditsSurvive`), `RateIsLimited` (`RateHolds`) |
| `HotReloadProofs` | `BuiltinsAssumption`, `DefinitionsAssumption` (the last four) | `FieldsMeanCrontab`, `ExternalModulesServe`, `TypesAreKept`, `FiringsAreSingle` (`OncePerMinute`), `FiringsAreInTime` (`FiringsAreDue`), `FilesAreFollowed` (`WorkerIsCurrent`) |
| `SourceCacheProofs` | `CacheAssumption`, `MetadataAssumption` (the last) | `TypesAreKept`, `OutputsAreSound` (`SoundOutputs`), `OutputsAreFresh` (`NoCacheIsFresh`), `ResultsAreOfOneVersion` (`OneVersionPerResult`), `MetadataSurvives` (`MetadataIsKept`) |
| `WorkflowProofs` | `EngineAssumption` (the first three), none (validation), `FilesAssumption` (files) | `EngineTypes`, `ErrorsAreOriginal` (`OriginalErrorIsRaised`), `CallsTracked` (`CallsAreTracked`), `AcceptedIsExecuted`, `WarningsAreExact`, `ListingsAreTrue`, `SavedTextsRun` |

`TypeCorrect` of the queue and `FinalStatusIsTrue` are about `Spec`, manual retries
included; the other theorems about the queue are about `QueueSpec`, without them.

### JobQueue

**Exclusive execution, retries** (`IInv`). Exclusive execution is not inductive:
nothing in it keeps a second thread from claiming a held row. `ThreadsInv` says
threads hold jobs only inside a running worker, which is why the reset at
start-up and the repair, both under the lock, find nobody at work.
`HeldStatusInv` says the row of a held job is processing, failed or deleted,
hence never claimable. `ReadCountInv` says the retry_count a thread decides from
is still the row's. `FailsInv` counts: failures of a job are accounted for by
`retry_count` or by a fault, but for the last one. The proof has one step per
action and one per conjunct it can disturb. `FinalStatusStays` follows because a
thread writes to the row it holds, which is not final by `HeldStatusInv`.
`ProcessingIsOwned` is inductive together with `IInv`.

**Final statuses are true, with manual retries** (`EarnedInv`). Two threads may
then be on one job, so `IInv` is of no use. What holds all the same is
`VerdictInv` (who is about to write a final status knows what it says) and
`CountsInv` (`retry_count`, in the row and as a thread has read it, together with
the threads whose failure is still to be counted, is at most the failures there were).

**No side effect twice** (`SettledInv`): without crashes and database errors, a
job whose workflow has returned or timed out is in its final status, or the
thread that ran it is about to write that.

**The refinement** (`SelectedInv` with `IInv`): the rows a command has selected
were inserted, so its second transaction touches no job that is unknown. Each
action then maps, through `Phase`, to a step of `JobLifecycle` or to a stutter.

### WorkerProcess

`LockInv` (a running worker holds the lock, and so does a command between probe
and release) and `SawInv` (from its successful probe on, a command has seen a
moment without a worker), with the types, give one worker and sound verdicts.
`KnownInv`: unless commands have overlapped, a process that works and that a
command has started is in the pid file or about to be, and the one command that is
under way knows it, at each of its steps. A worker launched directly changes
nothing of that: it has no pid file and clears only its own.

### FeedTrigger and EmailTrigger

`LiveThreads` (threads exist only while the process is up, at most 1 + reloads of
them, a reload under way counted), `HoldersHoldItems`, `OnlySeenAreEnqueued` (an
unseen item has no job and no thread about to enqueue it) and `Promised` (the
jobs of an item plus the threads at mark or enqueue with it are at most
1 + reloads). The lemma `Counting`, on cardinalities of sets of threads, is what
`Promised` needs when a thread moves. `LossInv` says that what is lost is finite
and bounded by the faults; `RestInv`, that a thread at rest holds no item, is
what makes a crash cost at most one item per thread.

Mail is the other way round, enqueue and then mark, and the key is a place in the
mailbox that later mails may take. There it is the flag that protects:
`MailboxInv` (no mail is twice in the mailbox), `BatchInv` (nor in what a session
found), `FlagInv` (a mail that is not flagged has no more jobs, and none coming,
than it had fetches that did not return it) and `Promised`.

### WebServer

Everything rests on `TypeInv`, in which a thread's phase says which of its fields
mean something.

* **Keys** (`KeysInv`): a client with a key that was replaced was built before
  the replacement, and the client of a second attempt is new.
* **Chain** (`ChainInv`): who is about to insert holds the process's lock, and
  the hash it holds is that of the last event.
* **Rights** (`RightInv`): nothing is changed before the gates have been passed,
  and who is in a handler may do what the route asks for.
* **Rates** (`RateInv`): a limiter that was asked in order and has evicted nobody
  holds the end of what it admitted of an address (`Follows`), no window is
  overdrawn, and who was refused had had its share. That `Recent` keeps the order
  is a minimum argument over sets of natural numbers.
* **Log** (`LogInv`): the events of the log are true (`EntriesAreTrue`), and what
  a thread has done so far its event will tell, unless it is broken off
  (`ThreadLogs`).
* **Documents** (`EditsInv`): who has a document open is about to write it; as
  long as nobody raced or failed on a document, whoever is about to write it has
  it open, it is empty exactly while it is open, and a toggle has read the last
  text that was saved.

### HotReload, CronSchedule and ModuleDiscovery

The invariant has two halves that do not need each other.

* **Firings.** `MetInv`: two live threads of a name are twins in the minute that
  it is. `FiringInv`: a thread at work on a minute that has fired is one of
  twins. `ScheduleInv`: the row of a minute is there before its job.
  `IntervalInv`: the row of an interval is not older than a firing, unless
  threads were twins since. `DueInv`: a minute between two polls was slow, and a
  row stands for a job, a loss or a thread about to enqueue.
* **Files.** `PhaseInv`: what each phase of load and reload has done.
  `FollowInv`: file by file, what the watcher has nothing to notice about is in
  what was read so far, or runs, unless the load was given up (`GivenUp`) and the
  file it failed on is still so.

Neither half was inductive at first, for reasons of the code's: see "Definitions"
below for a file that comes and goes and for a trigger that changes its kind.

A cron field is reduced to its items (`FieldOfItems`), and an item is a case of
its own at each kind; `RangeAgrees` holds the one subtle case, a range of
weekdays that ends in Sunday. The theorem is for steps of any size and lists of
any length (a name and a step of a range are departures: the code reads neither), the run asks about single items and pairs at the ends of each range.

`ExternalModulesServe` follows the positions of a step type through the merge:
`WhatIsDiscovered` says which modules of either sequence are left and where, and
the last claim on the type is one of those. A file that is left out stands as
`NoModule` in its place, so that positions never move. `BuiltinsAssumption`, a
step type for each module of the package, is needed because the code asks the
last of them whether it is for trusted workflows only.

### SourceCache

`Typed` is the types with what they do not say: no file is of a version that the
source has not had, and an execution writes metadata once, which bounds `writes`.

* **Whole** (`Sole`): an execution that is alone and has found nothing torn has,
  stage by stage, torn nothing but the file it is writing, and its tool's input is
  what it read at the call (`SoundSoFar`). `EmptyIsText` keeps silence, which is a
  whole transcript without text, apart from a file that breaks off.
* **Fresh** (`Fresh`): the version that is due is carried from the audio to the
  WAV, the transcript and the summary (`FreshSoFar`), a minimum at each stage.
* **One version** (`Consistent`): until something is rebuilt, fails, crashes,
  overlaps or is deleted under an execution, there is one execution at a time, no
  file is torn between them, and a cached summary has the transcript it was made
  of beside it (`Agree`), because a cleanup takes the summaries with the
  transcript or takes none.
* **Metadata** (`RecordInv`): as long as nobody was blind, the file and all copies
  of it agree about its creation, the file and the copies of listers that no record
  has passed about its latest record, before the first record only one is about to
  write, and nobody writes into a deleted file (`Seen`).

### WorkflowEngine

A stack is described frame by frame: an invariant of stacks says that every frame
fits on those below it, and one lemma per invariant takes the innermost frame off,
so that pushing, replacing and leaving a frame are three cases.

* **Types** (`Typed`): the shape of stacks (a workflow calls through a handler,
  only a workflow that handles an error has a workflow above it), that phase,
  result and error of a thread agree, and that who is joined was started by the
  thread that joins it, under its calls and its handled errors (`Joins`).
* **Errors** (`ErrorsOK`): the error that a frame handles was raised under the
  frames below it. That and `Joins` make the property inductive over threads.
* **Calls** (`Tracked`), as long as nothing has timed out. `Tree`: the threads at
  work form a tree, and two of them share a dictionary only if one waits for the
  other; a loop and a parallel foreach go on in newer dictionaries than those
  below them. Without it nothing keeps one thread from overwriting the stack of
  another. `AllNamed`: the dictionary of a frame names *at least* the calls it runs
  in, and so does the copy that a handler will put back; this survives failed calls,
  which only leave names behind, and gives `CallsDoNotNest`. `Truth`, until a call
  has failed: it names *exactly* those, which gives `StackIsTrue`. After a failed
  step its workflow goes on from the dictionary the step had, so `Truth` says of
  the threads of a step which have left it as it was (`Untouched`).

After a timeout the last two are false: the abandoned thread of
`subworkflow.py:37`, below. Errors and types are proved with timeouts.

### WorkflowValidation and WorkflowFiles

For workflows of any length and any modules. A key that a run may miss has its
warning unless there is one of the reasons that `MissedUnseen` names: an option
validation does not know names the key, or a step that promises it need not run,
or writes it only sometimes or under another name (`ReadsAreSeen`,
`PromisesMayFail`). A warning is about such a key unless `WarnedInVain` says why
(`SeenAreRead`, `UnavailableMayMiss`). TLC finds a workflow for each of these
reasons if it is left out. `WarningsAreExact` needs specs, whose modules do not
claim to write the items of a list (`Declares`); of types without a spec only
`AcceptedIsExecuted` speaks.

A listing takes the last of the files that say a name, a run the first of those
that claim it or miss a secret (`WhatIsListed`, `WhatIsLoaded`). The former are
among the latter, so where only one file claims a name both take it; nothing else
about the order of the files is needed. A file that nothing can read ends every
listing, and a run that comes to it.

### Only model-checked

* All liveness, which is out of the prover's reach: `EveryJobSettles`,
  `CommandsTakeEffect`, `EveryItemIsEnqueued`, `EveryMailIsEnqueued`,
  `Terminates`, `EditsTakeEffect`.
* What is a computation over data: `TextsAreKept`, `GuardsBranch`. `FieldsAgree`,
  `ModulesServeTheirTypes`, `NamesAreResolved` and `ValidationIsTrue` are such
  questions for bounded inputs, too; `FieldsMeanCrontab`, `ExternalModulesServe`,
  `ListingsAreTrue`, `SavedTextsRun` and the two theorems about validation are
  their parts that hold for every input.

## What the code does and its documents do not say

Three have a violated run (`jobqueue_retry_race`, `email_lost`, `web_same_origin`); the others are visible in the model, mostly as what a
property excepts. Queue, worker, triggers, engine:

* `db.py:389`: a manual retry resets rows by id that it selected earlier, so it
  can put a job back to pending while a thread runs it (`jobqueue_retry_race`);
  a second thread then runs it too. Its final status is true all the same.
* `worker.py:196`: a crash between the two transactions of a failure leaves the
  job in `failed`, which no recovery looks at (`EveryJobSettles` takes it for a place to rest).
* `db.py:572`: prune deletes by id what it selected by status; a row retried in
  between is deleted while pending or processing (`PruneSelect`, `PruneDelete`).
* `db.py:427`: repair compares directories with non-null `source_id`s, which are
  written on success only, so a source whose job is pending or failed gets a
  second, synthetic done row (`Orphans`).
* `background.py:94`: the web server's own worker is a zombie after SIGTERM and
  still "running" for `os.kill(pid, 0)`: stop reports a timeout.
* `worker.py:263`: a status, stop or repair that probes the lock while a worker
  boots makes that worker give up after start has reported success
  (`StartedWorkerRuns`, a part of `CommandsTakeEffect`, excepts it).
* `worker_cmd.py:169`: a worker that was launched directly is in no pid file, so
  stop and status find the lock taken by they know not whom.
* `worker.py:293`: after a reload two threads of one trigger may enqueue one item
  (`DuplicatesNeedReloads` allows one more per reload).
* `email_poll.py:66`: the fetch flags the mail before the job exists, and numbers
  of removed mails are reused as keys: mails get lost (`email_lost`).
* `email_poll.py:68`: a fetch that is answered NO, or without the mail, makes a job
  all the same and leaves the mail unseen; if its mark fails, or its number
  changes, it is enqueued again (`DuplicatesHaveCauses` counts such fetches).
* `subworkflow.py:37`: the call stack is restored on normal return only; after a
  failed call whose error was handled, calling the same workflow again is refused
  as circular (`StackIsTrue` excepts it by `leaked`). An abandoned thread that
  returns late restores *its* stack over that of the others (`CallsDoNotNest`
  excepts it by `timeouts`).

Cache:

* `audio.py:27`, `transcribe.py:29`, `llm_summarize.py:39`: a file that exists is
  taken for whole. What a failed tool or a crash left half-written is reused by
  every later execution, and an empty transcript that was cached makes every
  retry fail.
* Derived files are kept when the audio is fetched anew, the summary under its
  mode and format only; yt-dlp keeps an `audio.mp3` that exists even with
  `no_cache`. The URL of a `.wav` is downloaded to the very path it should be
  normalized to.
* `serve/sources.py:226`: the lookup writes back metadata it read up to 20 seconds
  ago, and what an execution has recorded meanwhile is lost (`MetadataIsKept`
  excepts it by `stale`).
* `artifacts.py:97`, `serve/sources.py:42`: who reads `metadata.json` while it is
  truncated takes it for an empty one and writes a new creation date, or a file with
  nothing but a title; two writers may leave a file that nobody can parse
  (`MetadataIsKept` excepts both by `blind`).
* `cleanup.py:336`: a cleanup that deletes under an execution leaves a summary without its
  transcript.

Web server:

* Every handler logs after its effect, so an exception in between leaves a change
  that is in no event; requests refused with 400 are not logged at all; a stop
  that timed out is logged as a failure and takes effect later; a start during a
  stop reports success.
* `audit.py:6` and README.md:231 of the repository say that signing the chain is
  switched on in the configuration, but `run_serve` gives its logger no key; the
  model checks a logger made with one. Two processes fork the chain
  (`ChainHolds` is for one). `AuditLogger.cleanup` has no caller.
* `api.py:357`: a toggle that overlaps a save writes the old text back;
  `write_text` leaves an empty file for a moment, or for good if it fails; a
  document deleted under a writer is lost though the save reports success.
* `rate_limit.py:39`, `:53`: a thread that was overtaken counts with an old
  cutoff, and an evicted address starts afresh.
* A webhook asks for any valid token, whatever its role.
* `handler.py:271`: a request that asks for JSON passes without a look at where it
  comes from (`web_same_origin`), though docs/TUTORIAL.md:1488 of the repository
  names webhooks as the only exception from the same-origin check. What
  `OnlyWithRight` claims of requests from another site has both exceptions.

Definitions:

* `modules/discovery.py:110`: whether external modules of a step type may replace
  a trusted-only module of the package is asked of the first of them, and the
  last one serves; and their aliases are asked about nowhere. So a safe module can
  stand in for a restricted type. The comment at `discovery.py:106` ("external module
  cannot override a trusted_only builtin with safe") and
  tests/test_external_modules.py:82 hold for a single module of that very type.
  `TypesAreServed` claims
  types that nothing takes as an alias, and says which module decides.
* Steps of a cron field count from 0, so `*/2` in days is the even days; a list
  that begins with a step matches nothing, and so do a step of a range (`1-5/2`) and
  a name (`MON`, `JAN`); `0-7` is Sunday (`Departs`). docs/TUTORIAL.md:1416 of the
  repository says "Supports standard cron expressions". All five
  fields must match, where crontab(5) takes day or weekday if both are restricted;
  this concerns no single field and no run asks it.
* `reload.py:37`: what changes between the first load and the first modification
  times goes unnoticed until the next change. Saving a trigger that exists as `.yml` makes a `.yaml` beside it:
  two threads of one name, which may both fire a minute (`twins`). A database
  error ends a trigger thread until the next reload.
* `reload.py:37`: the watcher compares times with those of its last look. A file
  that comes and goes between two looks, and is loaded in between because another
  one changed, leaves its trigger running unnoticed.
* `triggers/loader.py:84`: text that is not UTF-8, or an invalid date, in one trigger
  file kills a worker that starts, and leaves a running one without any trigger
  until the watcher notices the next change (`InStep` says so).
* docs/TUTORIAL.md:1510 of the repository says that trigger changes need a restart;
  the watcher needs five seconds, and `EditsTakeEffect` holds without a restart.
* `triggers/cron.py`: a schedule and an interval keep different rows, so a trigger
  that changes from one to the other can fire once by each in a minute
  (`OncePerMinute` counts them apart).
* `summarize.py:100`: a paragraph break followed by a long unbroken stretch is
  found again and again while the start advances by one character: some 400
  nearly equal chunks, each a call of the model. The answers that are joined at
  the end are not cut.
* `loader.py:206`: with strict secrets one file that names a missing variable
  raises an error that is not caught and hides every workflow sorted after it.
  `loader.py:157`: so does text that is not UTF-8, or an invalid date, and with it
  there is no listing at all.
* `handler.py:901`: a workflow saved as `new`, `save` or `delete` is listed and run
  and has no page in the editor.
  When two files claim a name, the listing shows the last and a run takes the
  first.
* `validation.py`: a result that `output_key` renames, a key that another option than
  `input_key` names, and a key of a step that may be skipped, fail or have nothing to
  loop over are not seen, so there are false and missing warnings (`WarnedInVain`,
  `MissedUnseen`); a `foreach` step is warned about its own `_item`; a type registered
  without a spec passes and is refused by the engine.
* docs/TUTORIAL.md:460 of the repository shows `when: "sentiment[score] > 0.7"`,
  but a subscript is not on the white list of `expr.py`: a safe step with that
  guard always runs, a trusted-only one never does.

## What is not modelled

* Pure I/O and text: templates, prompts, formatting, argument parsing, the calls
  of external tools and services; columns and keys no decision reads. Listing
  endpoints change nothing. `db_claim_retry_jobs` and `AuditLogger.cleanup` have
  no caller.
* The step handlers that call one service or transform one text: a function of
  their inputs, modelled only where the engine, the cache or the registry depends
  on them.
* The parsing of YAML and TOML; the diagnosis; the MCP server, which keeps no
  state between calls; the migration from `jobs.json`.
* Pid namespaces of containers; keys in prompt templates and guards, which
  validation does not look at; servers whose audit log is switched off.
* Of the cache: kinds of sources other than audio, exports, how identifiers are
  computed. Of the web server: event streams, rendering, names of uploads.

The type invariants `TypeOK` are stated for the proofs and no run spends a property
on them: proved for `JobQueue`, `WorkerProcess`, `FeedTrigger`, `EmailTrigger`,
`HotReload`, `SourceCache` and `WorkflowEngine`; the types of `WebServer` are part of
its invariant.

What would come next: the laws of guards for every syntax tree, which need
induction over trees; and compositions of triggers, worker processes and engine
outcomes with the queue.
