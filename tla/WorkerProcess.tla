---------------------------- MODULE WorkerProcess ----------------------------
(***************************************************************************)
(* The worker as an operating system process: the commands and web         *)
(* handlers that start it, stop it and ask for its status, the repair      *)
(* command that must not run beside it, and what they know of it - the pid *)
(* file and a lock file that each of them probes by taking it.             *)
(*                                                                         *)
(* The three looks a command takes (the pid file, the process table, the   *)
(* lock) are steps of their own: another command may act in between.  The  *)
(* pid file is cleared by name, whatever it says by then.                  *)
(*                                                                         *)
(* `worker start --_run-loop` makes the process itself a worker: so the    *)
(* start command launches its child, and so may anybody (a container).     *)
(***************************************************************************)
EXTENDS Naturals

CONSTANTS
  Commands,     \* concurrent invocations of the CLI and of the web handlers
  WebHandlers,  \* those that run in the web server, which outlives them
  Pids,         \* process ids
  None,         \* no process, no lock holder, no pid file
  Shell,        \* who launches a worker without a start command
  Kinds,        \* what may be invoked, of {"start", "stop", "status", "repair"}
  MaxCommands,  \* bound: invocations, and workers launched directly
  MaxFaults     \* bound: deaths of a worker nobody asked for, foreign processes

ASSUME ProcessAssumption ==
  /\ WebHandlers \subseteq Commands
  /\ Commands \cap Pids = {}
  /\ None \notin Commands \cup Pids /\ Shell \notin Commands \cup {None}
  /\ Kinds \subseteq {"start", "stop", "status", "repair"}
  /\ MaxCommands \in Nat /\ MaxFaults \in Nat

VARIABLES
  proc,     \* the process table
  parent,   \* the command that must reap a process, None if init does, or Shell
  lock,     \* who holds the flock on worker.lock
  pidFile,  \* worker.pid
  task,     \* what each command is
  step,     \* and what it does next
  pid,      \* the pid it has read, or that of the child it has spawned
  verdict,  \* what it reports
  sawDown,  \* history: at some moment of the command no worker was running
  overlap,  \* history: two commands have been under way at a time
  invoked, faults

fileVars == <<lock, pidFile>>
cmdVars  == <<task, step, pid, verdict>>
vars == <<proc, parent, fileVars, cmdVars, sawDown, overlap, invoked, faults>>

\* A worker process boots, tries the lock, runs and leaves; a foreign process
\* may get a pid that is free again.
ProcState == {"free", "booting", "running", "leaving", "unlinking", "zombie", "foreign"}

Working == {"booting", "running", "leaving", "unlinking"}

Verdict == {"none", "already-running", "lock-held", "start-failed", "started",
            "not-running", "stale-cleared", "signal-failed", "stopped", "timeout",
            "status-running", "status-stopped", "refused", "repaired", "raised"}

TypeOK ==
  /\ proc \in [Pids -> ProcState]
  /\ parent \in [Pids -> Commands \cup {None, Shell}]
  /\ lock \in Pids \cup Commands \cup {None}
  /\ pidFile \in Pids \cup {None}
  /\ task \in [Commands -> {"idle", "start", "stop", "status", "repair"}]
  /\ step \in [Commands -> {"read", "check", "probe", "release", "spawn", "settle",
                            "signal", "await", "clear"}]
  /\ pid \in [Commands -> Pids \cup {None}]
  /\ verdict \in [Commands -> Verdict]
  /\ sawDown \in [Commands -> BOOLEAN]
  /\ overlap \in BOOLEAN
  /\ invoked \in Nat /\ faults \in Nat

Init ==
  /\ proc = [p \in Pids |-> "free"]
  /\ parent = [p \in Pids |-> None]
  /\ lock = None
  /\ pidFile = None
  /\ task = [c \in Commands |-> "idle"]
  /\ step = [c \in Commands |-> "read"]
  /\ pid = [c \in Commands |-> None]
  /\ verdict = [c \in Commands |-> "none"]
  /\ sawDown = [c \in Commands |-> FALSE]
  /\ overlap = FALSE
  /\ invoked = 0 /\ faults = 0

-----------------------------------------------------------------------------
(* Processes *)

\* os.kill(pid, 0) succeeds: also for a process that has ended and that its
\* parent has not waited for.
IsPidRunning(p) == proc[p] # "free"

\* What is left of a process that ends.
Remains(p) == IF parent[p] \in Commands THEN "zombie" ELSE "free"

\* The system drops the flock of a process that ends.
LockWithout(p) == IF lock = p THEN None ELSE lock

\* Mutation: the lock is taken for granted.
LockIsFree_Ignored == TRUE

LockIsFree == lock = None

Up == \E p \in Pids : proc[p] = "running"

\* `worker start --_run-loop` without a start command before it, which would
\* have recorded the pid.
LaunchDirectly(p) ==
  /\ proc[p] = "free"
  /\ invoked < MaxCommands
  /\ invoked' = invoked + 1
  /\ proc' = [proc EXCEPT ![p] = "booting"]
  /\ parent' = [parent EXCEPT ![p] = Shell]
  /\ UNCHANGED <<fileVars, cmdVars, faults>>

\* run_log_worker gets the lock ...
GetLock(p) ==
  /\ proc[p] = "booting"
  /\ LockIsFree
  /\ lock' = p
  /\ proc' = [proc EXCEPT ![p] = "running"]
  /\ UNCHANGED <<parent, pidFile, cmdVars, invoked, faults>>

\* ... or gives up: "Another queue worker is already running".
GiveUpLock(p) ==
  /\ proc[p] = "booting"
  /\ ~LockIsFree
  /\ proc' = [proc EXCEPT ![p] = "leaving"]
  /\ UNCHANGED <<parent, fileVars, cmdVars, invoked, faults>>

\* run_log_worker returns: every thread has ended (--once, or exceptions).
StopRunning(p) ==
  /\ proc[p] = "running"
  /\ faults < MaxFaults
  /\ faults' = faults + 1
  /\ lock' = LockWithout(p)
  /\ proc' = [proc EXCEPT ![p] = "leaving"]
  /\ UNCHANGED <<parent, pidFile, cmdVars, invoked>>

\* The finally clause of cmd_worker_internal reads the pid file ...
ReadOwnPid(p) ==
  /\ proc[p] = "leaving"
  /\ proc' = [proc EXCEPT ![p] = IF pidFile = p THEN "unlinking" ELSE Remains(p)]
  /\ UNCHANGED <<parent, fileVars, cmdVars, invoked, faults>>

\* ... and removes it when it named this process.
ClearOwnPid(p) ==
  /\ proc[p] = "unlinking"
  /\ pidFile' = None
  /\ proc' = [proc EXCEPT ![p] = Remains(p)]
  /\ UNCHANGED <<parent, lock, cmdVars, invoked, faults>>

\* Killed from outside, or an exception while it boots.
Die(p) ==
  /\ proc[p] \in Working
  /\ faults < MaxFaults
  /\ faults' = faults + 1
  /\ lock' = LockWithout(p)
  /\ proc' = [proc EXCEPT ![p] = Remains(p)]
  /\ UNCHANGED <<parent, pidFile, cmdVars, invoked>>

\* The system gives a free pid to somebody else's process.
ForeignProcess(p) ==
  /\ proc[p] = "free"
  /\ faults < MaxFaults
  /\ faults' = faults + 1
  /\ proc' = [proc EXCEPT ![p] = "foreign"]
  /\ parent' = [parent EXCEPT ![p] = None]
  /\ UNCHANGED <<fileVars, cmdVars, invoked>>

\* A child of the web server whose Popen object has been dropped: the next
\* Popen of the server waits for it (subprocess._cleanup).
Reapable(p) ==
  /\ proc[p] = "zombie"
  /\ ~\E c \in Commands : task[c] = "start" /\ step[c] = "settle" /\ pid[c] = p

Reaped == [p \in Pids |-> IF Reapable(p) THEN "free" ELSE proc[p]]

\* Another subprocess of the web server, the title lookup of a source page.
LookUpTitle ==
  /\ WebHandlers # {}
  /\ \E p \in Pids : Reapable(p)
  /\ proc' = Reaped
  /\ UNCHANGED <<parent, fileVars, cmdVars, invoked, faults>>

-----------------------------------------------------------------------------
(* Commands *)

At(c, kinds, s) == task[c] \in kinds /\ step[c] = s

Goto(c, s) ==
  /\ step' = [step EXCEPT ![c] = s]
  /\ UNCHANGED <<task, verdict>>

Report(c, v) ==
  /\ task' = [task EXCEPT ![c] = "idle"]
  /\ step' = [step EXCEPT ![c] = "read"]
  /\ pid' = [pid EXCEPT ![c] = None]
  /\ verdict' = [verdict EXCEPT ![c] = v]

\* Repair takes the lock at once, the others read the pid file first.
Invoke(c, kind) ==
  /\ task[c] = "idle"
  /\ invoked < MaxCommands
  /\ invoked' = invoked + 1
  /\ task' = [task EXCEPT ![c] = kind]
  /\ step' = [step EXCEPT ![c] = IF kind = "repair" THEN "probe" ELSE "read"]
  /\ verdict' = [verdict EXCEPT ![c] = "none"]
  /\ UNCHANGED <<proc, parent, fileVars, pid, faults>>

\* current_worker_pid: read_worker_pid ...
ReadWorkerPid(c) ==
  /\ At(c, {"start", "stop", "status"}, "read")
  /\ pid' = [pid EXCEPT ![c] = pidFile]
  /\ Goto(c, "check")
  /\ UNCHANGED <<proc, parent, fileVars, invoked, faults>>

\* ... and is_pid_running: a stale file is removed, by name.
CheckWorkerPid(c) ==
  /\ At(c, {"start", "stop", "status"}, "check")
  /\ \/ /\ pid[c] = None
        /\ Goto(c, "probe")
        /\ UNCHANGED <<pid, pidFile>>
     \/ /\ pid[c] # None /\ ~IsPidRunning(pid[c])
        /\ pidFile' = None
        /\ pid' = [pid EXCEPT ![c] = None]
        /\ Goto(c, "probe")
     \/ /\ pid[c] # None /\ IsPidRunning(pid[c])
        /\ \/ task[c] = "start" /\ Report(c, "already-running")
           \/ task[c] = "stop" /\ Goto(c, "signal") /\ UNCHANGED pid
           \/ task[c] = "status" /\ Goto(c, "probe") /\ UNCHANGED pid
        /\ UNCHANGED pidFile
  /\ UNCHANGED <<proc, parent, lock, invoked, faults>>

\* try_worker_lock acquires.
ProbeSucceeds(c) ==
  /\ At(c, {"start", "stop", "status", "repair"}, "probe")
  /\ LockIsFree
  /\ lock' = c
  /\ Goto(c, "release")
  /\ UNCHANGED <<proc, parent, pidFile, pid, invoked, faults>>

LockHeldVerdict(c) ==
  CASE task[c] = "status" -> "status-running"
    [] task[c] = "repair" -> "refused"
    [] OTHER              -> "lock-held"

\* Mutation: the lock is waited for, not tried.
ProbeFails_Blocking(c) == FALSE

\* try_worker_lock does not acquire.
ProbeFails(c) ==
  /\ At(c, {"start", "stop", "status", "repair"}, "probe")
  /\ ~LockIsFree
  /\ Report(c, LockHeldVerdict(c))
  /\ UNCHANGED <<proc, parent, fileVars, invoked, faults>>

\* Mutation: the file descriptor leaks, and the lock with it.
Unlocked_Leaked == lock

Unlocked == None

\* The with block ends.  Repair has done its work inside it.
ReleaseLock(c) ==
  /\ At(c, {"start", "stop", "status", "repair"}, "release")
  /\ lock' = Unlocked
  /\ \/ task[c] = "start" /\ Goto(c, "spawn") /\ UNCHANGED pid
     \/ task[c] = "stop" /\ Goto(c, "clear") /\ UNCHANGED pid
     \/ task[c] = "status" /\ Report(c, IF pid[c] # None THEN "status-running" ELSE "status-stopped")
     \/ task[c] = "repair" /\ Report(c, "repaired")
  /\ UNCHANGED <<proc, parent, pidFile, invoked, faults>>

\* Popen, which first reaps what the web server has left unreaped.
Spawn(c) ==
  /\ At(c, {"start"}, "spawn")
  /\ LET procs == IF c \in WebHandlers THEN Reaped ELSE proc
     IN \E p \in Pids :
          /\ procs[p] = "free"
          /\ proc' = [procs EXCEPT ![p] = "booting"]
          /\ parent' = [parent EXCEPT ![p] = c]
          /\ pid' = [pid EXCEPT ![c] = p]
  /\ Goto(c, "settle")
  /\ UNCHANGED <<fileVars, invoked, faults>>

\* Popen raises: there is no process to be had.
SpawnFails(c) ==
  /\ At(c, {"start"}, "spawn")
  /\ \A p \in Pids : proc[p] # "free" /\ ~(c \in WebHandlers /\ Reapable(p))
  /\ Report(c, "raised")
  /\ UNCHANGED <<proc, parent, fileVars, invoked, faults>>

\* Mutation: the parent forgets to record the pid.
NewPidFile_Forgotten(c) == pidFile

NewPidFile(c) == pid[c]

\* 0.1 s later: poll() reaps a child that has ended already, otherwise its pid
\* is recorded.  The child of a CLI command loses its parent, of a web handler
\* it keeps the server.
Settle(c) ==
  LET p == pid[c] IN
  /\ At(c, {"start"}, "settle")
  /\ \/ /\ proc[p] = "zombie"
        /\ proc' = [proc EXCEPT ![p] = "free"]
        /\ pidFile' = None
        /\ Report(c, "start-failed")
     \/ /\ proc[p] # "zombie"
        /\ pidFile' = NewPidFile(c)
        /\ Report(c, "started")
        /\ UNCHANGED proc
  /\ parent' = [parent EXCEPT ![p] = IF c \in WebHandlers THEN c ELSE None]
  /\ UNCHANGED <<lock, invoked, faults>>

\* SIGTERM.  No worker handles it: it ends where it stands, and leaves the pid
\* file.  A foreign process may end as well, or not be ours to signal.
Signal(c) ==
  LET p == pid[c] IN
  /\ At(c, {"stop"}, "signal")
  /\ \/ /\ proc[p] = "free"
        /\ pidFile' = None
        /\ Report(c, "stale-cleared")
        /\ UNCHANGED <<proc, lock>>
     \/ /\ proc[p] = "foreign"
        /\ Report(c, "signal-failed")
        /\ UNCHANGED <<proc, fileVars>>
     \/ /\ proc[p] # "free"
        /\ proc' = [proc EXCEPT ![p] = Remains(p)]
        /\ lock' = LockWithout(p)
        /\ Goto(c, "await")
        /\ UNCHANGED <<pidFile, pid>>
  /\ UNCHANGED <<parent, invoked, faults>>

\* Up to the timeout: is_pid_running, ten times a second.  (What --force adds
\* does nothing to a zombie.)
Await(c) ==
  /\ At(c, {"stop"}, "await")
  /\ \/ /\ ~IsPidRunning(pid[c])
        /\ pidFile' = None
        /\ Report(c, "stopped")
     \/ /\ IsPidRunning(pid[c])
        /\ Report(c, "timeout")
        /\ UNCHANGED pidFile
  /\ UNCHANGED <<proc, parent, lock, invoked, faults>>

\* Stop has found neither a pid nor the lock taken.
ClearWorkerPid(c) ==
  /\ At(c, {"stop"}, "clear")
  /\ pidFile' = None
  /\ Report(c, "not-running")
  /\ UNCHANGED <<proc, parent, lock, invoked, faults>>

-----------------------------------------------------------------------------

CommandStep(c) ==
  \/ ReadWorkerPid(c) \/ CheckWorkerPid(c)
  \/ ProbeSucceeds(c) \/ ProbeFails(c) \/ ReleaseLock(c)
  \/ Spawn(c) \/ SpawnFails(c) \/ Settle(c)
  \/ Signal(c) \/ Await(c) \/ ClearWorkerPid(c)

\* What a worker process does by itself.
WorkerProgress(p) == GetLock(p) \/ GiveUpLock(p) \/ ReadOwnPid(p) \/ ClearOwnPid(p)

SystemStep ==
  \/ \E p \in Pids : LaunchDirectly(p) \/ WorkerProgress(p) \/ StopRunning(p) \/ Die(p) \/ ForeignProcess(p)
  \/ LookUpTitle
  \/ \E c \in Commands : CommandStep(c) \/ \E kind \in Kinds : Invoke(c, kind)

\* The history: a command remembers that it has seen a moment without a worker,
\* everybody that commands have overlapped.
Witnessed ==
  /\ sawDown' = [c \in Commands |->
                   IF task[c] # "idle" THEN sawDown[c] \/ ~Up'
                   ELSE IF task'[c] # "idle" THEN ~Up' ELSE sawDown[c]]
  /\ overlap' = (overlap \/ \E c, d \in Commands :
                    c # d /\ task'[c] # "idle" /\ task'[d] # "idle")

Next == SystemStep /\ Witnessed

Spec == Init /\ [][Next]_vars

\* Processes and commands are scheduled; nobody has to invoke a command.
Fairness ==
  /\ \A c \in Commands : WF_vars(CommandStep(c) /\ Witnessed)
  /\ \A p \in Pids : WF_vars(WorkerProgress(p) /\ Witnessed)

FairSpec == Spec /\ Fairness

-----------------------------------------------------------------------------
(* Properties *)

\* However the commands interleave, at most one process drains the queue, and
\* none does while a repair resets its processing rows.
OneWorker ==
  /\ \A p, q \in Pids : proc[p] = "running" /\ proc[q] = "running" => p = q
  /\ Up => ~\E c \in Commands : task[c] = "repair" /\ step[c] = "release"

\* A command acts on "there is no worker" (it spawns one, repairs, reports
\* stopped or not running) only if there was a moment without one since it was
\* invoked: pid file and probe may be late, they are never wrong.
VerdictIsSound ==
  \A c \in Commands :
    \/ verdict[c] \in {"not-running", "status-stopped", "started", "start-failed", "repaired"}
    \/ At(c, {"start", "stop"}, "spawn") \/ At(c, {"start"}, "settle")
    => sawDown[c]

\* As long as commands come one at a time, a worker that a command has started
\* can be stopped: the pid file names it whenever no command is under way,
\* whatever workers were launched directly and end beside it.  (One of those is
\* in no pid file: stop and status find the lock taken by they know not whom.)
RunningWorkerIsKnown ==
  ~overlap /\ (\A c \in Commands : task[c] = "idle") =>
    \A p \in Pids : proc[p] = "running" /\ parent[p] # Shell => pidFile = p

\* Every command comes back with a verdict, whoever holds the lock and however
\* the process it waits for ends.
CommandsReturn ==
  \A c \in Commands : task[c] # "idle" ~> task[c] = "idle"

\* "Worker started": the process that a start reports runs some day, unless it
\* dies or a command comes first.  (With commands at the same time it need not:
\* the lock probe of a status makes a worker give up that is just booting.)
StartedWorkerRuns ==
  \A c \in Commands : At(c, {"start"}, "settle") ~>
    \/ Up \/ faults > 0 \/ overlap
    \/ \E d \in Commands : task[d] # "idle" /\ ~At(d, {"start"}, "settle")
\* A command ends, and what it reports to have started comes about.
CommandsTakeEffect == CommandsReturn /\ StartedWorkerRuns
=============================================================================
