------------------------- MODULE WorkerProcessProofs -------------------------
(***************************************************************************)
(* Proofs about WorkerProcess, for any number of processes, commands, web  *)
(* handlers and faults.                                                    *)
(***************************************************************************)
EXTENDS WorkerProcess, TLAPS

\* The flock has one holder: the process that runs, or the command between its
\* probe and its release.
LockInv ==
  /\ \A p \in Pids : proc[p] = "running" <=> lock = p
  /\ \A c \in Commands : step[c] = "release" <=> lock = c

\* Past a successful probe, a command has seen a moment without a worker; an
\* idle command has reported, a busy one has not.
SawInv ==
  \A c \in Commands :
    /\ step[c] \in {"release", "spawn", "settle", "clear"} => sawDown[c]
    /\ verdict[c] \in {"not-running", "status-stopped", "started", "start-failed", "repaired"}
         => sawDown[c]
    /\ task[c] = "idle" => step[c] = "read"
    /\ task[c] # "idle" => verdict[c] = "none"
    /\ step[c] \in {"check", "signal", "await"} \/ (step[c] = "read" /\ task[c] # "idle")
         => task[c] \in {"start", "stop", "status"}
    /\ step[c] \in {"settle", "signal", "await"} => pid[c] \in Pids

IInv == TypeOK /\ LockInv /\ SawInv

\* Nothing runs, no command is under way.
LEMMA InitIInv == Init => IInv
<1> SUFFICES ASSUME Init PROVE IInv
  OBVIOUS
<1>1. TypeOK
  BY ProcessAssumption DEF Init, TypeOK, ProcState, Verdict
<1>2. LockInv
  BY ProcessAssumption DEF Init, LockInv
<1>3. SawInv
  BY DEF Init, SawInv
<1> QED BY <1>1, <1>2, <1>3 DEF IInv

\* The history variable is a function of the moments before and after a step.
LEMMA WitnessedType ==
  ASSUME TypeOK, Witnessed
  PROVE  sawDown' \in [Commands -> BOOLEAN] /\ overlap' \in BOOLEAN
<1>1. sawDown' \in [Commands -> BOOLEAN]
  BY DEF TypeOK, Witnessed
<1>2. overlap' \in BOOLEAN
  BY Zenon DEF TypeOK, Witnessed
<1> QED BY <1>1, <1>2

\* A command that is under way keeps what it has seen, and sees a moment
\* without a worker when there is one.
LEMMA WitnessedStep ==
  ASSUME TypeOK, Witnessed, NEW c \in Commands
  PROVE  /\ task[c] = "idle" /\ task'[c] = "idle" => sawDown'[c] = sawDown[c]
         /\ task[c] # "idle" /\ sawDown[c] => sawDown'[c]
         /\ task[c] # "idle" /\ ~Up' => sawDown'[c]
BY DEF TypeOK, Witnessed

\* A step of a process changes no command; those under way forget nothing.
LEMMA ProcessStep ==
  ASSUME IInv, Witnessed, UNCHANGED cmdVars
  PROVE  SawInv'
BY WitnessedStep DEF IInv, SawInv, cmdVars, TypeOK

\* Every step, of processes and commands alike, preserves the invariant.
LEMMA NextKeepsIInv == IInv /\ [Next]_vars => IInv'
<1> SUFFICES ASSUME IInv, [Next]_vars PROVE IInv'
  OBVIOUS
<1>0. CASE UNCHANGED vars
  BY <1>0 DEF vars, fileVars, cmdVars, IInv, TypeOK, LockInv, SawInv
<1> SUFFICES ASSUME SystemStep, Witnessed PROVE IInv'
  BY <1>0 DEF Next
<1> USE ProcessAssumption DEF fileVars, cmdVars
<1>a. sawDown' \in [Commands -> BOOLEAN] /\ overlap' \in BOOLEAN
  BY WitnessedType DEF IInv
<1>1. ASSUME NEW p \in Pids,
             LaunchDirectly(p) \/ WorkerProgress(p) \/ StopRunning(p) \/ Die(p) \/ ForeignProcess(p)
      PROVE IInv'
  <2>1. UNCHANGED cmdVars
    BY <1>1 DEF LaunchDirectly, WorkerProgress, GetLock, GiveUpLock, ReadOwnPid, ClearOwnPid,
                StopRunning, Die, ForeignProcess
  <2>2. SawInv'
    BY <2>1, ProcessStep
  <2>3. Remains(p) \in {"free", "zombie"}
    BY DEF Remains
  <2>4. TypeOK'
    BY <1>1, <1>a, <2>1, <2>3
       DEF IInv, TypeOK, LaunchDirectly, WorkerProgress, GetLock, GiveUpLock, ReadOwnPid,
           ClearOwnPid, StopRunning, Die, ForeignProcess, LockWithout, ProcState
  <2>5. LockInv'
    BY <1>1, <2>1, <2>3
       DEF IInv, TypeOK, LockInv, LaunchDirectly, WorkerProgress, GetLock, GiveUpLock, ReadOwnPid,
           ClearOwnPid, StopRunning, Die, ForeignProcess, LockWithout, LockIsFree, Working
  <2> QED BY <2>2, <2>4, <2>5 DEF IInv
<1>2. CASE LookUpTitle
  <2>1. UNCHANGED cmdVars
    BY <1>2 DEF LookUpTitle
  <2>2. SawInv'
    BY <2>1, ProcessStep
  <2>3. \A p \in Pids : proc'[p] \in ProcState /\ (proc'[p] = "running" <=> proc[p] = "running")
    BY <1>2 DEF LookUpTitle, Reaped, Reapable, IInv, TypeOK, ProcState
  <2>4. TypeOK' /\ LockInv'
    BY <1>2, <1>a, <2>1, <2>3 DEF LookUpTitle, Reaped, IInv, TypeOK, LockInv
  <2> QED BY <2>2, <2>4 DEF IInv
<1>3. ASSUME NEW c \in Commands, NEW kind \in Kinds, Invoke(c, kind) PROVE IInv'
  <2> USE <1>3 DEF Invoke
  <2>0. /\ kind \in {"start", "stop", "status", "repair"}
        /\ task' \in [Commands -> {"idle", "start", "stop", "status", "repair"}]
        /\ "none" \in Verdict
    BY DEF IInv, TypeOK, Verdict
  <2>1. TypeOK'
    BY <1>a, <2>0 DEF IInv, TypeOK
  <2>2. LockInv'
    BY DEF IInv, TypeOK, LockInv, SawInv
  <2>3. SawInv'
    BY <2>0, WitnessedStep DEF IInv, TypeOK, SawInv
  <2> QED BY <2>1, <2>2, <2>3 DEF IInv
<1>4. ASSUME NEW c \in Commands, CommandStep(c) PROVE IInv'
  <2> USE DEF At, Goto, Report
  <2>0. \A d \in Commands : d # c => task'[d] = task[d] /\ step'[d] = step[d]
                                     /\ pid'[d] = pid[d] /\ verdict'[d] = verdict[d]
    BY <1>4
       DEF CommandStep, ReadWorkerPid, CheckWorkerPid, ProbeSucceeds, ProbeFails, ReleaseLock,
           Spawn, SpawnFails, Settle, Signal, Await, ClearWorkerPid, IInv, TypeOK
  <2>a. task[c] # "idle" /\ verdict[c] = "none"
    BY <1>4
       DEF CommandStep, ReadWorkerPid, CheckWorkerPid, ProbeSucceeds, ProbeFails, ReleaseLock,
           Spawn, SpawnFails, Settle, Signal, Await, ClearWorkerPid, IInv, SawInv
  \* What is left to show of SawInv: the part about c itself.
  <2> DEFINE Own ==
        /\ step'[c] \in {"release", "spawn", "settle", "clear"} => sawDown'[c]
        /\ verdict'[c] \in {"not-running", "status-stopped", "started", "start-failed", "repaired"}
             => sawDown'[c]
        /\ task'[c] = "idle" => step'[c] = "read"
        /\ task'[c] # "idle" => verdict'[c] = "none"
        /\ step'[c] \in {"check", "signal", "await"} \/ (step'[c] = "read" /\ task'[c] # "idle")
             => task'[c] \in {"start", "stop", "status"}
        /\ step'[c] \in {"settle", "signal", "await"} => pid'[c] \in Pids
  <2>b. ASSUME Own PROVE SawInv'
    BY <2>0, <2>b, WitnessedStep DEF IInv, SawInv
  <2>c. sawDown[c] => sawDown'[c]
    BY <2>a, WitnessedStep DEF IInv
  <2>1. CASE ReadWorkerPid(c) \/ CheckWorkerPid(c)
    <3> USE <2>1 DEF ReadWorkerPid, CheckWorkerPid
    <3>1. TypeOK' BY <1>a DEF IInv, TypeOK, Verdict
    <3>2. LockInv' BY <2>0 DEF IInv, TypeOK, LockInv
    <3>3. Own BY <2>a, <2>c DEF IInv, TypeOK, SawInv
    <3> QED BY <3>1, <3>2, <3>3, <2>b DEF IInv
  <2>2. CASE ProbeSucceeds(c)
    <3> USE <2>2 DEF ProbeSucceeds, LockIsFree
    <3>1. TypeOK' BY <1>a DEF IInv, TypeOK
    <3>2. LockInv' BY <2>0 DEF IInv, TypeOK, LockInv
    <3>3. ~Up' BY DEF IInv, LockInv, Up
    <3>4. sawDown'[c] BY <2>a, <3>3, WitnessedStep DEF IInv
    <3>5. Own BY <2>a, <3>4 DEF IInv, TypeOK, SawInv
    <3> QED BY <3>1, <3>2, <3>5, <2>b DEF IInv
  <2>3. CASE ProbeFails(c)
    <3> USE <2>3 DEF ProbeFails
    <3>0. LockHeldVerdict(c) \in {"status-running", "refused", "lock-held"}
      BY DEF LockHeldVerdict
    <3>1. TypeOK' BY <1>a, <3>0 DEF IInv, TypeOK, Verdict
    <3>2. LockInv' BY <2>0 DEF IInv, TypeOK, LockInv
    <3>3. Own BY <3>0, <2>c DEF IInv, TypeOK, SawInv
    <3> QED BY <3>1, <3>2, <3>3, <2>b DEF IInv
  <2>4. CASE ReleaseLock(c)
    <3> USE <2>4 DEF ReleaseLock, Unlocked
    <3>1. TypeOK' BY <1>a DEF IInv, TypeOK, Verdict
    <3>2. LockInv' BY <2>0 DEF IInv, TypeOK, LockInv
    <3>3. sawDown'[c] BY <2>c DEF IInv, SawInv
    <3>4. Own BY <2>a, <3>3 DEF IInv, TypeOK, SawInv
    <3> QED BY <3>1, <3>2, <3>4, <2>b DEF IInv
  <2>5. CASE Spawn(c)
    <3>1. PICK p \in Pids, procs \in [Pids -> ProcState] :
            /\ \A q \in Pids : procs[q] = "running" <=> proc[q] = "running"
            /\ procs[p] = "free"
            /\ proc' = [procs EXCEPT ![p] = "booting"]
            /\ parent' = [parent EXCEPT ![p] = c]
            /\ pid' = [pid EXCEPT ![c] = p]
      <4>1. Reaped \in [Pids -> ProcState] /\ proc \in [Pids -> ProcState]
        BY DEF Reaped, IInv, TypeOK, ProcState
      <4>2. \A q \in Pids : Reaped[q] = "running" <=> proc[q] = "running"
        BY DEF Reaped, Reapable
      <4> QED BY <2>5, <4>1, <4>2 DEF Spawn
    <3>2. TypeOK' BY <2>5, <1>a, <3>1 DEF Spawn, IInv, TypeOK, ProcState
    <3>3. LockInv' BY <2>5, <2>0, <3>1 DEF Spawn, IInv, TypeOK, LockInv
    <3>4. Own BY <2>5, <2>a, <2>c, <3>1 DEF Spawn, IInv, TypeOK, SawInv
    <3> QED BY <3>2, <3>3, <3>4, <2>b DEF IInv
  <2>6. CASE Settle(c)
    <3> USE <2>6 DEF Settle, NewPidFile
    <3>0. pid[c] \in Pids BY DEF IInv, SawInv
    <3>1. TypeOK' BY <1>a, <3>0 DEF IInv, TypeOK, ProcState, Verdict
    <3>2. LockInv' BY <2>0, <3>0 DEF IInv, TypeOK, LockInv
    <3>3. Own BY <2>a, <2>c DEF IInv, TypeOK, SawInv
    <3> QED BY <3>1, <3>2, <3>3, <2>b DEF IInv
  <2>7. CASE Signal(c)
    <3> USE <2>7 DEF Signal
    <3>0. pid[c] \in Pids /\ Remains(pid[c]) \in {"free", "zombie"}
      BY DEF IInv, SawInv, Remains
    <3>1. TypeOK' BY <1>a, <3>0 DEF IInv, TypeOK, ProcState, Verdict, LockWithout
    <3>2. LockInv' BY <2>0, <3>0 DEF IInv, TypeOK, LockInv, LockWithout
    <3>3. Own BY <2>a, <2>c, <3>0 DEF IInv, TypeOK, SawInv
    <3> QED BY <3>1, <3>2, <3>3, <2>b DEF IInv
  <2>8. CASE Await(c) \/ ClearWorkerPid(c) \/ SpawnFails(c)
    <3> USE <2>8 DEF Await, ClearWorkerPid, SpawnFails
    <3>1. TypeOK' BY <1>a DEF IInv, TypeOK, Verdict
    <3>2. LockInv' BY <2>0 DEF IInv, TypeOK, LockInv
    <3>3. Own BY <2>a, <2>c DEF IInv, TypeOK, SawInv
    <3> QED BY <3>1, <3>2, <3>3, <2>b DEF IInv
  <2> QED BY <1>4, <2>1, <2>2, <2>3, <2>4, <2>5, <2>6, <2>7, <2>8 DEF CommandStep
<1> QED BY <1>1, <1>2, <1>3, <1>4 DEF SystemStep

LEMMA InvariantHolds == Spec => []IInv
BY InitIInv, NextKeepsIInv, PTL DEF Spec

\* At most one worker process runs, and none beside a repair, whatever commands,
\* deaths and foreign processes interleave.
THEOREM AtMostOneWorker == Spec => []OneWorker
<1>1. IInv => OneWorker
  BY ProcessAssumption DEF IInv, LockInv, OneWorker, Up, TypeOK
<1> QED BY <1>1, InvariantHolds, PTL

\* No command concludes that there is no worker while one has been running all
\* the time since the command was invoked.
THEOREM VerdictsAreSound == Spec => []VerdictIsSound
<1>1. IInv => VerdictIsSound
  BY DEF IInv, SawInv, VerdictIsSound, At
<1> QED BY <1>1, InvariantHolds, PTL

-----------------------------------------------------------------------------
(* Commands that come one at a time know the worker *)

\* A command that has made sure that no worker process is left.
AfterWorker(c) ==
  \/ task[c] = "start" /\ step[c] \in {"probe", "release", "spawn"}
  \/ task[c] = "stop" /\ step[c] \in {"probe", "release", "clear", "await"}

\* A command that still relies on the pid it has read, or spawned.
ReliesOnPid(c) ==
  \/ step[c] \in {"check", "signal"}
  \/ At(c, {"start"}, "settle")

\* A worker process that a start command has launched.
Known(p) == proc[p] \in Working /\ parent[p] # Shell

OneCommand == \A c, d \in Commands : task[c] # "idle" /\ task[d] # "idle" => c = d

\* A command that has found the pid file empty, or emptied it.
FoundNoPid(c) ==
  \/ At(c, {"start"}, "settle")
  \/ task[c] = "start" /\ step[c] \in {"probe", "release", "spawn"}
  \/ task[c] = "stop" /\ step[c] \in {"probe", "release", "clear"}

\* Without overlapping commands, nobody changes the pid file behind the back of
\* the command under way, but to clear it; and a process that is about to clear
\* it clears its own pid.
FileInv ==
  ~overlap =>
    /\ OneCommand
    /\ \A c \in Commands :
         /\ step[c] \in {"check", "signal", "await"} => pidFile \in {pid[c], None}
         /\ FoundNoPid(c) => pidFile = None
    /\ \A p \in Pids : proc[p] = "unlinking" => pidFile = p

\* Without overlapping commands, a worker that a command has launched is named
\* by the pid file or about to be, and the one command under way knows of it.
KnownInv ==
  ~overlap =>
    \A p \in Pids : Known(p) =>
      /\ pidFile = p \/ \E c \in Commands : At(c, {"start"}, "settle") /\ pid[c] = p
      /\ \A c \in Commands : ~AfterWorker(c) /\ (ReliesOnPid(c) => pid[c] = p)

\* The command under way is alone with the processes, which only clear the file.
LEMMA NextKeepsFile == IInv /\ FileInv /\ [Next]_vars => FileInv'
<1> SUFFICES ASSUME IInv, FileInv, [Next]_vars PROVE FileInv'
  OBVIOUS
<1>0. CASE UNCHANGED vars
  BY <1>0 DEF vars, fileVars, cmdVars, FileInv, OneCommand, FoundNoPid, At
<1> SUFFICES ASSUME SystemStep, Witnessed, ~overlap' PROVE FileInv'
  BY <1>0 DEF Next, FileInv
<1> USE ProcessAssumption DEF fileVars, cmdVars
<1>a. ~overlap
  BY Zenon DEF Witnessed
<1>b. OneCommand'
  BY Zenon DEF Witnessed, OneCommand
<1>c. /\ OneCommand
      /\ \A c \in Commands :
           /\ step[c] \in {"check", "signal", "await"} => pidFile \in {pid[c], None}
           /\ FoundNoPid(c) => pidFile = None
      /\ \A p \in Pids : proc[p] = "unlinking" => pidFile = p
  BY <1>a DEF FileInv
<1>d. TypeOK
  BY DEF IInv
<1>1. ASSUME NEW p \in Pids,
             LaunchDirectly(p) \/ WorkerProgress(p) \/ StopRunning(p) \/ Die(p) \/ ForeignProcess(p)
      PROVE  FileInv'
  <2>1. UNCHANGED cmdVars
    BY <1>1 DEF LaunchDirectly, WorkerProgress, GetLock, GiveUpLock, ReadOwnPid, ClearOwnPid,
                StopRunning, Die, ForeignProcess
  <2>2. pidFile' \in {pidFile, None}
    BY <1>1 DEF LaunchDirectly, WorkerProgress, GetLock, GiveUpLock, ReadOwnPid, ClearOwnPid,
                StopRunning, Die, ForeignProcess
  <2>3. \A c \in Commands :
           /\ step'[c] \in {"check", "signal", "await"} => pidFile' \in {pid'[c], None}
           /\ FoundNoPid(c)' => pidFile' = None
    BY <1>c, <2>1, <2>2 DEF FoundNoPid, At
  <2>4. Remains(p) # "unlinking"
    BY DEF Remains
  <2>5. \A q \in Pids : proc'[q] = "unlinking" => pidFile' = q
    <3>1. CASE ClearOwnPid(p)
      BY <1>c, <1>d, <2>4, <3>1 DEF ClearOwnPid, TypeOK
    <3>2. CASE ReadOwnPid(p)
      BY <1>c, <1>d, <2>4, <3>2 DEF ReadOwnPid, TypeOK
    <3> QED BY <1>1, <1>c, <1>d, <2>4, <3>1, <3>2
            DEF LaunchDirectly, WorkerProgress, GetLock, GiveUpLock, StopRunning, Die,
                ForeignProcess, TypeOK
  <2> QED BY <1>b, <2>3, <2>5 DEF FileInv
<1>2. CASE LookUpTitle
  BY <1>b, <1>c, <1>d, <1>2 DEF LookUpTitle, Reaped, FileInv, FoundNoPid, At, TypeOK
<1>3. ASSUME NEW c \in Commands, NEW kind \in Kinds, Invoke(c, kind) PROVE FileInv'
  <2>1. /\ UNCHANGED <<proc, pidFile, pid>>
        /\ step'[c] = "read" \/ (task'[c] = "repair" /\ step'[c] = "probe")
        /\ \A d \in Commands \ {c} : task'[d] = task[d] /\ step'[d] = step[d]
    BY <1>d, <1>3 DEF Invoke, TypeOK
  <2>2. \A d \in Commands :
          /\ step'[d] \in {"check", "signal", "await"} => pidFile' \in {pid'[d], None}
          /\ FoundNoPid(d)' => pidFile' = None
    BY <1>c, <2>1 DEF FoundNoPid, At
  <2> QED BY <1>b, <1>c, <2>1, <2>2 DEF FileInv
<1>4. ASSUME NEW c \in Commands, CommandStep(c) PROVE FileInv'
  <2> USE DEF At, Goto, Report
  <2>1. task[c] # "idle"
    BY <1>4
       DEF CommandStep, ReadWorkerPid, CheckWorkerPid, ProbeSucceeds, ProbeFails, ReleaseLock,
           Spawn, SpawnFails, Settle, Signal, Await, ClearWorkerPid
  <2>2. \A d \in Commands \ {c} : task'[d] = "idle" /\ step'[d] = "read"
    BY <1>4, <1>c, <1>d, <2>1
       DEF CommandStep, ReadWorkerPid, CheckWorkerPid, ProbeSucceeds, ProbeFails, ReleaseLock,
           Spawn, SpawnFails, Settle, Signal, Await, ClearWorkerPid, TypeOK, IInv, SawInv, OneCommand
  \* What is left to show: c itself, and the processes about to clear the file.
  <2>3. ASSUME step'[c] \in {"check", "signal", "await"} => pidFile' \in {pid'[c], None},
               FoundNoPid(c)' => pidFile' = None,
               \A q \in Pids : proc'[q] = "unlinking" => pidFile' = q
        PROVE  FileInv'
    BY <1>b, <2>2, <2>3 DEF FileInv, FoundNoPid
  <2>4. CASE ReadWorkerPid(c)
    BY <1>c, <1>d, <2>3, <2>4 DEF ReadWorkerPid, FoundNoPid, TypeOK
  <2>5. CASE CheckWorkerPid(c)
    <3>1. /\ pidFile \in {pid[c], None} /\ pidFile' \in {pidFile, None}
          /\ pidFile' # pidFile => ~IsPidRunning(pid[c]) /\ pid[c] # None
          /\ proc' = proc
      BY <1>c, <2>5 DEF CheckWorkerPid
    <3>2. \A q \in Pids : proc'[q] = "unlinking" => pidFile' = q
      BY <1>c, <1>d, <3>1 DEF IsPidRunning, TypeOK
    <3>3. \/ pid'[c] = None /\ pidFile' = None /\ step'[c] = "probe"
          \/ step'[c] = "signal" /\ pid' = pid
          \/ task'[c] = "idle" /\ step'[c] = "read"
          \/ task'[c] = "status" /\ step'[c] = "probe"
      BY <1>d, <2>5, <3>1 DEF CheckWorkerPid, TypeOK
    <3> QED BY <2>3, <3>1, <3>2, <3>3 DEF FoundNoPid
  <2>6. CASE ProbeSucceeds(c) \/ ProbeFails(c) \/ ReleaseLock(c)
    BY <1>c, <1>d, <2>3, <2>6 DEF ProbeSucceeds, ProbeFails, ReleaseLock, FoundNoPid, TypeOK
  <2>7. CASE Spawn(c)
    <3>1. pidFile = None /\ pidFile' = None /\ task'[c] = "start" /\ step'[c] = "settle"
      BY <1>c, <1>d, <2>7 DEF Spawn, FoundNoPid, TypeOK
    <3>2. \A q \in Pids : proc'[q] = "unlinking" => proc[q] = "unlinking"
      BY <1>d, <2>7 DEF Spawn, Reaped, TypeOK
    <3> QED BY <1>c, <2>3, <3>1, <3>2
  <2>8. CASE Settle(c)
    <3>1. pidFile = None /\ task'[c] = "idle" /\ step'[c] = "read"
      BY <1>c, <1>d, <2>8 DEF Settle, FoundNoPid, TypeOK
    <3>2. \A q \in Pids : proc'[q] = "unlinking" => proc[q] = "unlinking"
      BY <1>d, <2>8 DEF Settle, TypeOK
    <3> QED BY <1>c, <2>3, <3>1, <3>2 DEF FoundNoPid
  <2>9. CASE Signal(c)
    <3>1. pid[c] \in Pids /\ pidFile \in {pid[c], None} /\ Remains(pid[c]) # "unlinking"
      BY <1>c, <2>9 DEF Signal, IInv, SawInv, Remains
    <3>2. \A q \in Pids : proc'[q] = "unlinking" => pidFile' = q
      BY <1>c, <1>d, <2>9, <3>1 DEF Signal, TypeOK
    <3>3. \/ task'[c] = "idle" /\ step'[c] = "read"
          \/ step'[c] = "await" /\ pid' = pid /\ pidFile' = pidFile
      BY <1>d, <2>9 DEF Signal, TypeOK
    <3> QED BY <2>3, <3>1, <3>2, <3>3 DEF FoundNoPid
  <2>10. CASE SpawnFails(c) \/ Await(c) \/ ClearWorkerPid(c)
    <3>1. task'[c] = "idle" /\ step'[c] = "read" /\ proc' = proc
      BY <1>d, <2>10 DEF SpawnFails, Await, ClearWorkerPid, TypeOK
    <3>2. \A q \in Pids : proc'[q] = "unlinking" => pidFile' = q
      BY <1>c, <1>d, <2>10, <3>1
         DEF SpawnFails, Await, ClearWorkerPid, IsPidRunning, FoundNoPid, TypeOK
    <3> QED BY <2>3, <3>1, <3>2 DEF FoundNoPid
  <2> QED BY <1>4, <2>4, <2>5, <2>6, <2>7, <2>8, <2>9, <2>10 DEF CommandStep
<1> QED BY <1>1, <1>2, <1>3, <1>4 DEF SystemStep

\* A command under way is alone with the worker.
LEMMA NextKeepsKnown == IInv /\ FileInv /\ KnownInv /\ [Next]_vars => KnownInv'
<1> SUFFICES ASSUME IInv, FileInv, KnownInv, [Next]_vars PROVE KnownInv'
  OBVIOUS
<1>0. CASE UNCHANGED vars
  BY <1>0 DEF vars, fileVars, cmdVars, KnownInv, Known, AfterWorker, ReliesOnPid, At
<1> SUFFICES ASSUME SystemStep, Witnessed, ~overlap' PROVE KnownInv'
  BY <1>0 DEF Next, KnownInv
<1> USE ProcessAssumption DEF fileVars, cmdVars
<1>a. ~overlap
  BY Zenon DEF Witnessed
<1>b. OneCommand'
  BY Zenon DEF Witnessed, OneCommand
<1>c. /\ OneCommand
      /\ \A p \in Pids : Known(p) =>
           /\ pidFile = p \/ \E c \in Commands : At(c, {"start"}, "settle") /\ pid[c] = p
           /\ \A c \in Commands : ~AfterWorker(c) /\ (ReliesOnPid(c) => pid[c] = p)
  BY <1>a DEF FileInv, KnownInv
<1>d. TypeOK
  BY DEF IInv
\* Processes end by themselves, and the pid file may stay behind.
<1>1. ASSUME UNCHANGED cmdVars, pidFile' = pidFile,
             \A p \in Pids : Known(p)' => Known(p)
      PROVE  KnownInv'
  BY <1>1, <1>c DEF KnownInv, AfterWorker, ReliesOnPid, At
<1>2. ASSUME NEW p \in Pids,
             LaunchDirectly(p) \/ WorkerProgress(p) \/ StopRunning(p) \/ Die(p) \/ ForeignProcess(p)
      PROVE  KnownInv'
  <2>0. Remains(p) \notin Working
    BY DEF Remains, Working
  <2>1. CASE ClearOwnPid(p)
    <3>1. pidFile = p /\ UNCHANGED <<parent, cmdVars>>
      BY <1>a, <2>1 DEF FileInv, ClearOwnPid
    <3>2. \A q \in Pids : Known(q)' => Known(q) /\ q # p
      BY <1>d, <2>0, <2>1 DEF ClearOwnPid, Known, Working, TypeOK
    <3> QED BY <1>c, <3>1, <3>2 DEF KnownInv, AfterWorker, ReliesOnPid, At
  <2>2. CASE ~ClearOwnPid(p)
    <3>1. UNCHANGED cmdVars /\ pidFile' = pidFile
      BY <1>2, <2>2
         DEF LaunchDirectly, WorkerProgress, GetLock, GiveUpLock, ReadOwnPid, StopRunning, Die,
             ForeignProcess
    <3>2. \A q \in Pids : Known(q)' => Known(q)
      BY <1>2, <1>d, <2>0, <2>2
         DEF LaunchDirectly, WorkerProgress, GetLock, GiveUpLock, ReadOwnPid, StopRunning, Die,
             ForeignProcess, Known, Working, TypeOK
    <3> QED BY <1>1, <3>1, <3>2
  <2> QED BY <2>1, <2>2
<1>3. CASE LookUpTitle
  BY <1>1, <1>3 DEF LookUpTitle, Reaped, Known, Working
<1>4. ASSUME NEW c \in Commands, NEW kind \in Kinds, Invoke(c, kind) PROVE KnownInv'
  <2>1. \A d \in Commands : d # c => task'[d] = "idle"
    BY <1>b, <1>d, <1>4 DEF Invoke, TypeOK, OneCommand
  <2>2. \A d \in Commands : d # c => step'[d] = "read"
    BY <1>d, <1>4, <2>1 DEF Invoke, IInv, SawInv, TypeOK
  <2>3. step'[c] = "read" \/ (task'[c] = "repair" /\ step'[c] = "probe")
    BY <1>d, <1>4 DEF Invoke, TypeOK
  <2>4. \A d \in Commands : ~AfterWorker(d)' /\ ~ReliesOnPid(d)'
    BY <2>1, <2>2, <2>3 DEF AfterWorker, ReliesOnPid, At
  <2>5. \A d \in Commands : ~At(d, {"start"}, "settle")
    BY <1>b, <1>d, <1>4 DEF Invoke, At, TypeOK, IInv, SawInv, OneCommand
  <2>6. UNCHANGED <<proc, parent, pidFile>>
    BY <1>4 DEF Invoke
  <2> QED BY <1>c, <2>4, <2>5, <2>6 DEF KnownInv, Known
<1>5. ASSUME NEW c \in Commands, CommandStep(c) PROVE KnownInv'
  <2> USE DEF At, Goto, Report, Known
  <2>0. task[c] # "idle"
    BY <1>5
       DEF CommandStep, ReadWorkerPid, CheckWorkerPid, ProbeSucceeds, ProbeFails, ReleaseLock,
           Spawn, SpawnFails, Settle, Signal, Await, ClearWorkerPid
  <2>1. \A d \in Commands \ {c} : task[d] = "idle" /\ task'[d] = "idle"
    BY <1>5, <1>c, <1>d, <2>0
       DEF CommandStep, ReadWorkerPid, CheckWorkerPid, ProbeSucceeds, ProbeFails, ReleaseLock,
           Spawn, SpawnFails, Settle, Signal, Await, ClearWorkerPid, TypeOK, OneCommand
  <2>2. \A d \in Commands \ {c} : step[d] = "read" /\ step'[d] = "read"
    BY <1>5, <1>d, <2>1
       DEF CommandStep, ReadWorkerPid, CheckWorkerPid, ProbeSucceeds, ProbeFails, ReleaseLock,
           Spawn, SpawnFails, Settle, Signal, Await, ClearWorkerPid, TypeOK, IInv, SawInv
  <2>3. \A d \in Commands \ {c} : ~AfterWorker(d)' /\ ~ReliesOnPid(d)' /\ ~At(d, {"start"}, "settle")
    BY <2>1, <2>2 DEF AfterWorker, ReliesOnPid
  \* What is left to show: what c itself knows of the processes that work.
  <2>4. ASSUME \A q \in Pids : Known(q)' =>
                 /\ pidFile' = q \/ (At(c, {"start"}, "settle")' /\ pid'[c] = q)
                 /\ ~AfterWorker(c)'
                 /\ ReliesOnPid(c)' => pid'[c] = q
        PROVE  KnownInv'
    BY <2>3, <2>4 DEF KnownInv
  <2>5. ASSUME \A q \in Pids : ~Known(q)' PROVE KnownInv'
    BY <2>4, <2>5
  <2>a. \A q \in Pids : Known(q) =>
          /\ pidFile = q \/ (At(c, {"start"}, "settle") /\ pid[c] = q)
          /\ ~AfterWorker(c)
          /\ ReliesOnPid(c) => pid[c] = q
    BY <1>c, <2>3
  <2>6. CASE ReadWorkerPid(c)
    <3>1. /\ step[c] = "read" /\ step'[c] = "check" /\ pid'[c] = pidFile
          /\ UNCHANGED <<proc, parent, pidFile>>
      BY <1>d, <2>6 DEF ReadWorkerPid, TypeOK
    <3> QED BY <2>4, <2>a, <3>1 DEF AfterWorker, ReliesOnPid
  <2>7. CASE CheckWorkerPid(c)
    <3>0. /\ step[c] = "check" /\ task[c] \in {"start", "stop", "status"}
          /\ UNCHANGED <<proc, parent, lock>>
      BY <2>7 DEF CheckWorkerPid
    <3>1. CASE pid[c] = None \/ ~IsPidRunning(pid[c])
      <4>1. \A q \in Pids : ~Known(q)
        BY <2>a, <3>0, <3>1 DEF ReliesOnPid, IsPidRunning, Working
      <4> QED BY <2>5, <3>0, <4>1
    <3>2. CASE pid[c] # None /\ IsPidRunning(pid[c])
      <4>1. pidFile' = pidFile
        BY <2>7, <3>2 DEF CheckWorkerPid
      <4>2. \/ task'[c] = "idle" /\ step'[c] = "read"
            \/ task'[c] = "stop" /\ step'[c] = "signal" /\ pid' = pid
            \/ task'[c] = "status" /\ step'[c] = "probe"
        BY <1>d, <2>7, <3>2 DEF CheckWorkerPid, TypeOK
      <4> QED BY <2>4, <2>a, <3>0, <4>1, <4>2 DEF AfterWorker, ReliesOnPid
    <3> QED BY <3>1, <3>2
  <2>8. CASE ProbeSucceeds(c) \/ ProbeFails(c) \/ ReleaseLock(c)
    <3>1. /\ UNCHANGED <<proc, parent, pidFile>>
          /\ step[c] \in {"probe", "release"}
      BY <2>8 DEF ProbeSucceeds, ProbeFails, ReleaseLock
    <3>2. CASE task[c] \in {"start", "stop"}
      <4>1. \A q \in Pids : ~Known(q)
        BY <2>8, <2>a, <3>1, <3>2 DEF AfterWorker
      <4> QED BY <2>5, <3>1, <4>1
    <3>3. CASE task[c] \notin {"start", "stop"}
      <4>1. /\ task'[c] \notin {"start", "stop"}
            /\ step'[c] \in {"read", "release"}
        BY <1>d, <2>8, <3>3 DEF ProbeSucceeds, ProbeFails, ReleaseLock, TypeOK
      <4> QED BY <2>4, <2>a, <3>1, <3>3, <4>1 DEF AfterWorker, ReliesOnPid
    <3> QED BY <3>2, <3>3
  <2>9. CASE Spawn(c)
    <3>1. \A q \in Pids : ~Known(q)
      BY <2>9, <2>a DEF Spawn, AfterWorker
    <3>2. PICK p \in Pids :
            /\ \A q \in Pids : Known(q)' => q = p
            /\ pid'[c] = p
      BY <1>d, <2>9, <3>1 DEF Spawn, Reaped, TypeOK, Working
    <3>3. task'[c] = "start" /\ step'[c] = "settle"
      BY <1>d, <2>9 DEF Spawn, TypeOK
    <3> QED BY <2>4, <3>2, <3>3 DEF AfterWorker, ReliesOnPid
  <2>10. CASE SpawnFails(c) \/ Await(c) \/ ClearWorkerPid(c)
    <3>1. \A q \in Pids : ~Known(q)
      BY <2>10, <2>a DEF SpawnFails, Await, ClearWorkerPid, AfterWorker
    <3> QED BY <2>5, <2>10, <3>1 DEF SpawnFails, Await, ClearWorkerPid
  <2>11. CASE Settle(c)
    <3>0. pid[c] \in Pids /\ (\A q \in Pids : Known(q) => pid[c] = q)
      BY <2>11, <2>a DEF Settle, ReliesOnPid, IInv, SawInv
    <3>1. CASE proc[pid[c]] = "zombie"
      <4>1. \A q \in Pids : ~Known(q)'
        BY <1>d, <2>11, <3>0, <3>1 DEF Settle, Working, TypeOK
      <4> QED BY <2>5, <4>1
    <3>2. CASE proc[pid[c]] # "zombie"
      <4>1. proc' = proc /\ pidFile' = pid[c] /\ task'[c] = "idle" /\ step'[c] = "read"
        BY <1>d, <2>11, <3>2 DEF Settle, NewPidFile, TypeOK
      <4>2. \A q \in Pids : q # pid[c] => parent'[q] = parent[q]
        BY <1>d, <2>11, <3>0 DEF Settle, TypeOK
      <4>3. \A q \in Pids : Known(q)' => q = pid[c]
        BY <3>0, <4>1, <4>2
      <4> QED BY <2>4, <4>1, <4>3 DEF AfterWorker, ReliesOnPid
    <3> QED BY <3>1, <3>2
  <2>12. CASE Signal(c)
    <3>0. pid[c] \in Pids /\ (\A q \in Pids : Known(q) => pid[c] = q)
      BY <2>12, <2>a DEF Signal, ReliesOnPid, IInv, SawInv
    <3>1. \A q \in Pids : ~Known(q)'
      BY <1>d, <2>12, <3>0 DEF Signal, Remains, Working, TypeOK
    <3> QED BY <2>5, <3>1
  <2> QED BY <1>5, <2>6, <2>7, <2>8, <2>9, <2>10, <2>11, <2>12 DEF CommandStep
<1> QED BY <1>2, <1>3, <1>4, <1>5 DEF SystemStep

\* As long as commands come one at a time, the pid file names every worker that
\* a command has started whenever no command is under way, whatever workers were
\* launched without one.
THEOREM WorkerIsKnown == Spec => []RunningWorkerIsKnown
<1>1. Init => FileInv /\ KnownInv
  BY DEF Init, FileInv, OneCommand, FoundNoPid, At, KnownInv, Known, Working
<1>2. KnownInv => RunningWorkerIsKnown
  BY DEF KnownInv, Known, RunningWorkerIsKnown, Working, At
<1> QED BY <1>1, <1>2, NextKeepsFile, NextKeepsKnown, InvariantHolds, PTL DEF Spec
=============================================================================
