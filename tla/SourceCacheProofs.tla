--------------------------- MODULE SourceCacheProofs ---------------------------
(***************************************************************************)
(* What SourceCache promises, for any number of executions, versions and   *)
(* cleanups: its types, sound and fresh outputs for an execution that      *)
(* works alone, and one version per result.  And what SourceMetadata does, *)
(* for any number of executions, request threads and cleanups: metadata of *)
(* which the creation is kept and the latest record is in the file.        *)
(***************************************************************************)
EXTENDS SourceCache, SourceMetadata, TLAPS

-----------------------------------------------------------------------------
(* Types *)

\* Nothing is of a version that the source has not had yet; a local file that
\* changes is another source.
Versions ==
  /\ kind = "local" => remote = 1
  /\ \A f \in Files : files[f].ver <= remote
  /\ \A e \in Execs : input[e].ver <= remote /\ text[e].ver <= remote /\ out[e].ver <= remote

PhasesOK ==
  \A e \in Execs : /\ stage[e] \notin Tools => phase[e] = "check"
                   /\ phase[e] = "read" => stage[e] = "transcribe"

Typed == TypeOK /\ Versions /\ PhasesOK

\* The parameters of a scenario.
LEMMA ScenarioTypes ==
  ASSUME bound \in Bounds
  PROVE  /\ bound.kinds \in SUBSET Kinds
         /\ bound.execs \in Nat /\ bound.active \in Nat
         /\ bound.noCache \in SUBSET BOOLEAN /\ bound.modes \in SUBSET Modes
         /\ bound.versions \in Nat \ {0} /\ bound.cleanups \in Nat
BY CacheAssumption

\* What a step reads and writes.
LEMMA SourceAndOutput ==
  ASSUME TypeOK, Versions, NEW e \in Execs, stage[e] \in Tools
  PROVE  /\ Output(e) \in Files
         /\ Source(e) \in Content
         /\ Source(e).ver <= remote
<1>1. remote \in Nat \ {0}
  BY ScenarioTypes DEF TypeOK
<1>2. LocalFile \in Content /\ LocalFile.ver = 1
  BY DEF LocalFile, Content
<1>3. Audio \in Content /\ Audio.ver <= remote
  BY <1>1, <1>2 DEF Audio, TypeOK, Versions, Files
<1>4. Output(e) \in Files
  BY DEF Output, Files, Tools
<1>5. CASE stage[e] = "fetch"
  BY <1>1, <1>4, <1>5 DEF Source, Content
<1>6. CASE stage[e] = "normalize"
  BY <1>3, <1>4, <1>6 DEF Source
<1>7. CASE stage[e] = "transcribe"
  BY <1>4, <1>7 DEF Source, TypeOK, Versions, Files
<1>8. CASE stage[e] = "summarize"
  BY <1>4, <1>8 DEF Source, TypeOK, Versions
<1> QED BY <1>5, <1>6, <1>7, <1>8 DEF Tools

LEMMA TypedInit == Init => Typed
<1> SUFFICES ASSUME Init PROVE Typed
  OBVIOUS
<1>a. /\ Absent \in Content
      /\ [noCache |-> FALSE, mode |-> "full"] \in [noCache : BOOLEAN, mode : Modes]
  BY DEF Absent, Content, Modes
<1>b. bound \in Bounds /\ kind \in Kinds /\ remote = 1 /\ remote \in 1 .. bound.versions
  BY ScenarioTypes DEF Init
<1>1. TypeOK
  <2>1. /\ dir \in BOOLEAN /\ files \in [Files -> Content] /\ meta \in BOOLEAN /\ info \in BOOLEAN
        /\ stage \in [Execs -> Tools \cup {"idle", "metadata", "done"}]
        /\ phase \in [Execs -> {"check", "call", "write", "read"}]
        /\ opts \in [Execs -> [noCache : BOOLEAN, mode : Modes]]
    BY <1>a DEF Init
  <2>2. /\ input \in [Execs -> Content] /\ text \in [Execs -> Content] /\ out \in [Execs -> Content]
        /\ started \in 0 .. bound.execs
    BY <1>a, <1>b, ScenarioTypes DEF Init
  <2>3. /\ cleanup \in {"none", "all", "finished", "artifacts"} /\ cleanups = 0
        /\ clean \in SUBSET Execs /\ alone \in SUBSET Execs
        /\ disturbed \in BOOLEAN
    BY DEF Init
  <2>4. 0 \in 0 .. bound.versions /\ 0 \in 0 .. bound.cleanups
    BY <1>b, ScenarioTypes
  <2>5. due \in [Execs -> 0 .. bound.versions]
    BY <2>4 DEF Init
  <2> QED BY <1>b, <2>1, <2>2, <2>3, <2>4, <2>5 DEF TypeOK
<1>2. Versions
  BY <1>b DEF Init, Versions, Absent
<1>3. PhasesOK
  BY DEF Init, PhasesOK
<1> QED BY <1>1, <1>2, <1>3 DEF Typed

LEMMA TypedUseCached ==
  ASSUME Typed, NEW e \in Execs, UseCached(e)
  PROVE  Typed'
<1> USE DEF Typed
<1>1. stage[e] \in Tools /\ Output(e) \in Files
  BY SourceAndOutput DEF UseCached, At
<1>2. TypeOK'
  BY <1>1 DEF TypeOK, UseCached, Advance, NextStage, Tools, execVars, cleanVars, history
<1>3. Versions'
  BY <1>1 DEF Versions, TypeOK, UseCached, execVars, cleanVars, history
<1>4. PhasesOK'
  BY <1>1 DEF PhasesOK, TypeOK, UseCached, Advance, NextStage, Tools
<1> QED BY <1>2, <1>3, <1>4

LEMMA TypedCallTool ==
  ASSUME Typed, NEW e \in Execs, CallTool(e)
  PROVE  Typed'
<1> USE DEF Typed
<1>1. stage[e] \in Tools /\ Source(e) \in Content /\ Source(e).ver <= remote
  BY SourceAndOutput DEF CallTool, At
<1>2. TypeOK'
  BY <1>1 DEF TypeOK, CallTool, execVars, cleanVars, history
<1>3. Versions'
  BY <1>1 DEF Versions, TypeOK, CallTool, execVars, cleanVars, history
<1>4. PhasesOK'
  BY <1>1 DEF PhasesOK, TypeOK, CallTool
<1> QED BY <1>2, <1>3, <1>4

LEMMA TypedOpenOutput ==
  ASSUME Typed, NEW e \in Execs, OpenOutput(e)
  PROVE  Typed'
<1> USE DEF Typed
<1> DEFINE opened == [ver |-> 0, state |-> "partial", by |-> e]
<1>1. stage[e] \in Tools /\ Output(e) \in Files
  BY SourceAndOutput DEF OpenOutput, At
<1>2. opened \in Content /\ opened.ver = 0
  BY DEF Content
<1>3. files' = [files EXCEPT ![Output(e)] = opened]
  BY DEF OpenOutput
<1> HIDE DEF opened
<1>4. TypeOK'
  BY <1>1, <1>2, <1>3 DEF TypeOK, OpenOutput, execVars, cleanVars, history
<1>5. Versions'
  BY <1>1, <1>2, <1>3 DEF Versions, TypeOK, OpenOutput, execVars, cleanVars, history
<1>6. PhasesOK'
  BY <1>1 DEF PhasesOK, TypeOK, OpenOutput
<1> QED BY <1>4, <1>5, <1>6

\* A tool leaves a file of a version that it has read.
LEMMA WrittenTypes ==
  ASSUME TypeOK, Versions, NEW e \in Execs, Output(e) \in Files, NEW c \in Written(e)
  PROVE  c \in Content /\ c.ver <= remote
<1>1. remote \in Nat
  BY DEF TypeOK
<1>2. files[Output(e)] \in Content /\ files[Output(e)].ver <= remote
  BY DEF TypeOK, Versions
<1>3. input[e] \in Content /\ input[e].ver <= remote
  BY DEF TypeOK, Versions
<1> QED BY <1>1, <1>2, <1>3 DEF Written, Content

LEMMA TypedFinishOutput ==
  ASSUME Typed, NEW e \in Execs, FinishOutput(e)
  PROVE  Typed'
<1> USE DEF Typed
<1>1. stage[e] \in Tools /\ Output(e) \in Files
  BY SourceAndOutput DEF FinishOutput, At
<1>2. Absent \in Content /\ Absent.ver = 0
  BY DEF Absent, Content
<1>3. /\ files' \in [Files -> Content]
      /\ \A f \in Files : files'[f].ver <= remote
  BY <1>1, WrittenTypes DEF FinishOutput, TypeOK, Versions
<1>a. /\ stage' \in [Execs -> Tools \cup {"idle", "metadata", "done"}]
      /\ phase' \in [Execs -> {"check", "call", "write", "read"}]
  BY <1>1 DEF TypeOK, FinishOutput, Advance, NextStage, Tools
<1>b. input' \in [Execs -> Content] /\ out' \in [Execs -> Content]
  BY <1>2 DEF TypeOK, FinishOutput
<1>c. UNCHANGED <<bound, kind, remote, dir, meta, info, opts, text, started,
                  cleanVars, history>>
  BY DEF FinishOutput
<1>4. TypeOK'
  BY <1>3, <1>a, <1>b, <1>c DEF TypeOK, cleanVars, history
<1>5. Versions'
  BY <1>1, <1>2, <1>3 DEF Versions, TypeOK, FinishOutput, execVars, cleanVars, history
<1>6. PhasesOK'
  BY <1>1 DEF PhasesOK, TypeOK, FinishOutput, Advance, NextStage, Tools
<1> QED BY <1>4, <1>5, <1>6

LEMMA TypedKeepDownload ==
  ASSUME Typed, NEW e \in Execs, KeepDownload(e)
  PROVE  Typed'
<1> USE DEF Typed
<1>1. stage[e] = "fetch"
  BY DEF KeepDownload
<1>2. Absent \in Content /\ Absent.ver = 0
  BY DEF Absent, Content
<1>3. TypeOK'
  BY <1>1, <1>2 DEF TypeOK, KeepDownload, Advance, NextStage, execVars, cleanVars, history
<1>4. Versions'
  BY <1>2 DEF Versions, TypeOK, KeepDownload, execVars, cleanVars, history
<1>5. PhasesOK'
  BY <1>1 DEF PhasesOK, TypeOK, KeepDownload, Advance, NextStage, Tools
<1> QED BY <1>3, <1>4, <1>5

\* An execution that ends badly.
LEMMA TypedBreaks ==
  ASSUME Typed, NEW e \in Execs, Breaks(e), meta' \in BOOLEAN,
         UNCHANGED <<bound, kind, remote, dir, files, info, out, started,
                     cleanVars, clean, alone>>
  PROVE  Typed'
<1> USE DEF Typed
<1>1. /\ Absent \in Content /\ Absent.ver = 0
      /\ [noCache |-> FALSE, mode |-> "full"] \in [noCache : BOOLEAN, mode : Modes]
  BY DEF Absent, Content, Modes
<1>2. TypeOK'
  BY <1>1, ScenarioTypes DEF TypeOK, Breaks, cleanVars
<1>3. Versions'
  BY <1>1 DEF Versions, TypeOK, Breaks
<1>4. PhasesOK'
  BY DEF PhasesOK, TypeOK, Breaks, Tools
<1> QED BY <1>2, <1>3, <1>4

LEMMA TypedReadTranscript ==
  ASSUME Typed, NEW e \in Execs, ReadTranscript(e)
  PROVE  Typed'
<1> USE DEF Typed
<1>1. CASE files["transcript"].state \in {"absent", "empty"}
  BY <1>1, TypedBreaks DEF ReadTranscript, TypeOK
<1>2. CASE files["transcript"].state \notin {"absent", "empty"}
  <2>1. stage[e] = "transcribe"
    BY DEF ReadTranscript, At, PhasesOK
  <2> DEFINE read == [files["transcript"] EXCEPT !.by = NoOne]
  <2>a. files["transcript"] \in Content /\ files["transcript"].ver <= remote
    BY DEF TypeOK, Versions, Files
  <2>2. read \in Content /\ read.ver <= remote
    BY <2>a DEF Content
  <2>3. text' = [text EXCEPT ![e] = read]
    BY <1>2 DEF ReadTranscript
  <2> HIDE DEF read
  <2>b. /\ stage' = [stage EXCEPT ![e] = "summarize"] /\ phase' = [phase EXCEPT ![e] = "check"]
        /\ UNCHANGED <<input, opts, due, disturbed>>
    BY <1>2, <2>1 DEF ReadTranscript, Advance, NextStage
  <2>c. UNCHANGED <<bound, kind, remote, dir, files, meta, info, out, started,
                    cleanVars, clean, alone>>
    BY DEF ReadTranscript
  <2>4. TypeOK'
    BY <2>2, <2>3, <2>b, <2>c DEF TypeOK, Tools, cleanVars
  <2>5. Versions'
    BY <2>2, <2>3, <2>b, <2>c DEF Versions, TypeOK
  <2>6. PhasesOK'
    BY <2>1, <2>b DEF PhasesOK, TypeOK, Tools
    <2> QED BY <2>4, <2>5, <2>6
<1> QED BY <1>1, <1>2

LEMMA TypedWriteMetadata ==
  ASSUME Typed, NEW e \in Execs, WriteMetadata(e)
  PROVE  Typed'
<1> USE DEF Typed
<1>1. stage[e] = "metadata"
  BY DEF WriteMetadata
<1>2. TypeOK'
  BY <1>1 DEF TypeOK, WriteMetadata, Advance, NextStage, Tools, cleanVars, history
<1>3. Versions'
  BY DEF Versions, TypeOK, WriteMetadata
<1>4. PhasesOK'
  BY <1>1 DEF PhasesOK, TypeOK, WriteMetadata, Advance, NextStage, Tools
<1> QED BY <1>2, <1>3, <1>4

LEMMA TypedCrash ==
  ASSUME Typed, NEW e \in Execs, Crash(e)
  PROVE  Typed'
<1>1. meta' \in BOOLEAN
  BY DEF Typed, TypeOK, Crash
<1> QED BY <1>1, TypedBreaks DEF Crash

LEMMA TypedToolFails ==
  ASSUME Typed, NEW e \in Execs, ToolFails(e)
  PROVE  Typed'
<1>1. meta' \in BOOLEAN
  BY DEF Typed, TypeOK, ToolFails
<1> QED BY <1>1, TypedBreaks DEF ToolFails

LEMMA TypedStart ==
  ASSUME Typed, NEW e \in Execs, Start(e)
  PROVE  Typed'
<1> USE DEF Typed
<1>1. /\ Absent \in Content /\ Absent.ver = 0
      /\ Options \subseteq [noCache : BOOLEAN, mode : Modes]
  BY ScenarioTypes DEF Absent, Content, Options, TypeOK
<1>2. /\ bound.versions \in Nat /\ bound.execs \in Nat /\ started \in Nat
      /\ remote \in 1 .. bound.versions /\ started' = started + 1 /\ started < bound.execs
  BY ScenarioTypes DEF TypeOK, Start
<1>3. files["audio"].ver \in 0 .. bound.versions
  BY <1>2 DEF TypeOK, Versions, Files, Content
<1>4. due' \in [Execs -> 0 .. bound.versions] /\ opts' \in [Execs -> [noCache : BOOLEAN, mode : Modes]]
  <2>1. PICK o \in Options :
          /\ opts' = [opts EXCEPT ![e] = o]
          /\ due' = [due EXCEPT ![e] = IF ~o.noCache THEN 0
                                       ELSE IF kind = "ytdlp" /\ Exists("audio")
                                            THEN files["audio"].ver ELSE remote]
    BY DEF Start
  <2> QED BY <1>1, <1>2, <1>3, <2>1 DEF TypeOK
<1>5. disturbed' \in BOOLEAN
  BY DEF TypeOK, Start
<1>6. /\ clean' \in SUBSET Execs /\ alone' \in SUBSET Execs
  BY DEF TypeOK, Start
<1>7. stage' \in [Execs -> Tools \cup {"idle", "metadata", "done"}]
  BY DEF TypeOK, Start, Tools
<1>8. text' \in [Execs -> Content] /\ out' \in [Execs -> Content]
  BY <1>1 DEF TypeOK, Start
<1>9. started' \in 0 .. bound.execs
  BY <1>2 DEF Start
<1>10. UNCHANGED <<bound, kind, remote, dir, files, meta, info, phase, input,
                   cleanVars>>
  BY DEF Start
<1>11. TypeOK'
  BY <1>4, <1>5, <1>6, <1>7, <1>8, <1>9, <1>10 DEF TypeOK, cleanVars
<1>12. Versions'
  BY <1>1, <1>2, <1>10 DEF Versions, TypeOK, Start
<1>13. PhasesOK'
  BY DEF PhasesOK, TypeOK, Start, Active, Tools
<1> QED BY <1>11, <1>12, <1>13

LEMMA TypedRemoteChanges ==
  ASSUME Typed, RemoteChanges
  PROVE  Typed'
<1> USE DEF Typed
<1>1. /\ remote \in 1 .. bound.versions /\ remote' = remote + 1 /\ bound.versions \in Nat
      /\ kind # "local" /\ kind' = kind /\ remote < bound.versions
  BY ScenarioTypes DEF TypeOK, RemoteChanges
<1>2. UNCHANGED <<bound, kind, dir, files, meta, info, execVars, cleanVars, history>>
  BY DEF RemoteChanges
<1>3. TypeOK'
  BY <1>1, <1>2 DEF TypeOK, execVars, cleanVars, history
<1>4. Versions'
  BY <1>1, <1>2 DEF Versions, TypeOK, Content, execVars
<1>5. PhasesOK'
  BY <1>2 DEF PhasesOK, execVars
<1> QED BY <1>2, <1>3, <1>4, <1>5

\* The steps of the cleanup.
LEMMA TypedOthers ==
  ASSUME Typed, TypeOK', UNCHANGED <<kind, remote, execVars>>,
         \A f \in Files : files'[f].ver = files[f].ver \/ files'[f].ver = 0
  PROVE  Typed'
<1> USE DEF Typed
<1>1. remote \in Nat
  BY DEF TypeOK
<1>2. Versions'
  BY <1>1 DEF Versions, TypeOK, execVars
<1>3. PhasesOK'
  BY DEF PhasesOK, execVars
<1> QED BY <1>2, <1>3

LEMMA TypedCollectTargets ==
  ASSUME Typed, CollectTargets
  PROVE  Typed'
<1>1. /\ cleanups' \in 0 .. bound.cleanups
      /\ cleanup' \in {"none", "all", "finished", "artifacts"}
      /\ alone' \in SUBSET Execs
  BY ScenarioTypes DEF Typed, TypeOK, CollectTargets
<1>2. UNCHANGED <<bound, kind, remote, dir, files, meta, info, execVars,
                  clean, due, disturbed>>
  BY DEF CollectTargets
<1>3. TypeOK'
  BY <1>1, <1>2 DEF Typed, TypeOK, execVars
<1> QED BY <1>2, <1>3, TypedOthers

LEMMA TypedDelete ==
  ASSUME Typed, Delete
  PROVE  Typed'
<1>1. Absent \in Content /\ Absent.ver = 0
  BY DEF Absent, Content
<1>2. /\ files' \in [Files -> Content]
      /\ \A f \in Files : files'[f].ver = files[f].ver \/ files'[f].ver = 0
  BY <1>1 DEF Typed, TypeOK, Delete
<1>3. /\ meta' \in BOOLEAN /\ info' \in BOOLEAN /\ dir' \in BOOLEAN /\ disturbed' \in BOOLEAN
      /\ cleanup' = "none"
  BY DEF Typed, TypeOK, Delete
<1>4. UNCHANGED <<bound, kind, remote, execVars, cleanups, clean, alone, due>>
  BY DEF Delete
<1>5. TypeOK'
  BY <1>2, <1>3, <1>4 DEF Typed, TypeOK, execVars
<1> QED BY <1>2, <1>4, <1>5, TypedOthers

LEMMA TypedNext == Typed /\ [Next]_vars => Typed'
<1> SUFFICES ASSUME Typed, [Next]_vars PROVE Typed'
  OBVIOUS
<1>1. ASSUME NEW e \in Execs, Start(e) \/ ExecStep(e) \/ Crash(e) PROVE Typed'
  BY <1>1, TypedStart, TypedUseCached, TypedCallTool, TypedOpenOutput, TypedFinishOutput,
     TypedKeepDownload, TypedToolFails, TypedReadTranscript, TypedWriteMetadata, TypedCrash
     DEF ExecStep
<1>2. CASE UNCHANGED vars
  BY <1>2 DEF vars, execVars, cleanVars, history, Typed, TypeOK, Versions, PhasesOK
<1> QED BY <1>1, <1>2, TypedRemoteChanges, TypedCollectTargets,
           TypedDelete DEF Next

\* In every reachable state each variable has its type: the counters keep to
\* the scenario, and an execution expects no
\* version that the source has not had (execute_source_workflow).
THEOREM TypesAreKept == Spec => []TypeOK
<1>1. Init => Typed
  BY TypedInit
<1>2. Typed /\ [Next]_vars => Typed'
  BY TypedNext
<1>3. Typed => TypeOK
  BY DEF Typed
<1> QED BY <1>1, <1>2, <1>3, PTL DEF Spec

-----------------------------------------------------------------------------
(* Sound outputs *)

\* Of all files only a transcript is ever empty, if there is nothing to hear.
EmptyIsText == \A f \in Files : files[f].state = "empty" => f = "transcript"

Writes(e, f) == stage[e] \in Tools /\ phase[e] = "write" /\ f = Output(e)

\* Nobody else spoils what e reads and writes: a file that is not complete is
\* the one it is writing, and what its tool reads is complete and stays so.
SoundSoFar(e) ==
  /\ \A f \in Files : files[f].state = "partial" => Writes(e, f)
  /\ stage[e] \in Tools /\ phase[e] \in {"call", "write"} =>
       /\ input[e].state # "partial"
       /\ stage[e] # "fetch" => Source(e) = input[e]
  /\ stage[e] \in Tools /\ phase[e] = "write" =>
       input[e].state = "whole" /\ files[Output(e)] = [ver |-> 0, state |-> "partial", by |-> e]
  /\ stage[e] = "summarize" => text[e].state = "whole"

\* An execution that works alone, and found no incomplete file, so far finds
\* none, and returns a complete summary.
Sole ==
  /\ \A e \in alone : Active \subseteq {e} /\ cleanup = "none"
  /\ \A e \in clean \cap alone :
       /\ e \in Active => SoundSoFar(e)
       /\ stage[e] = "done" => out[e].state = "whole"

LEMMA ContentStates ==
  ASSUME NEW c \in Content
  PROVE  /\ c.state \in {"absent", "partial", "empty", "whole"}
         /\ c.ver \in Nat /\ c.by \in Execs \cup {NoOne}
         /\ c = [ver |-> c.ver, state |-> c.state, by |-> c.by]
BY DEF Content

LEMMA EmptyIsTextKept ==
  ASSUME Typed, EmptyIsText, [Next]_vars
  PROVE  EmptyIsText'
<1>1. CASE UNCHANGED files
  BY <1>1 DEF EmptyIsText
<1>2. ASSUME NEW e \in Execs, OpenOutput(e)
      PROVE  EmptyIsText'
  <2>1. stage[e] \in Tools /\ Output(e) \in Files
    BY <1>2, SourceAndOutput DEF OpenOutput, At, Typed
  <2> QED BY <1>2, <2>1 DEF EmptyIsText, OpenOutput, Typed, TypeOK
<1>3. ASSUME NEW e \in Execs, FinishOutput(e)
      PROVE  EmptyIsText'
  <2>1. stage[e] \in Tools /\ Output(e) \in Files
    BY <1>3, SourceAndOutput DEF FinishOutput, At, Typed
  <2>2. \A c \in Written(e) : c.state = "empty" => c = files[Output(e)] \/ stage[e] = "transcribe"
    BY DEF Written
  <2>3. stage[e] = "transcribe" => Output(e) = "transcript"
    BY DEF Output
  <2> QED BY <1>3, <2>1, <2>2, <2>3 DEF EmptyIsText, FinishOutput, Typed, TypeOK
<1>4. ASSUME Delete
      PROVE  EmptyIsText'
  BY <1>4 DEF EmptyIsText, Delete, Absent
<1>5. ASSUME NEW e \in Execs, Start(e) \/ UseCached(e) \/ CallTool(e) \/ KeepDownload(e) \/ ToolFails(e)
                                \/ ReadTranscript(e) \/ WriteMetadata(e) \/ Crash(e)
      PROVE  UNCHANGED files
  BY <1>5 DEF Start, UseCached, CallTool, KeepDownload, ToolFails, ReadTranscript, WriteMetadata, Crash
<1>6. ASSUME RemoteChanges \/ CollectTargets \/ UNCHANGED vars
      PROVE  UNCHANGED files
  BY <1>6 DEF RemoteChanges, CollectTargets, vars
<1> QED BY <1>1, <1>2, <1>3, <1>4, <1>5, <1>6 DEF Next, ExecStep

\* What a step of e leaves to the rest of e's steps.
KeepsSound(e) ==
  /\ stage'[e] # "idle" => SoundSoFar(e)'
  /\ stage'[e] = "done" => out'[e].state = "whole"

LEMMA SoundUseCached ==
  ASSUME Typed, EmptyIsText, NEW e \in Execs, SoundSoFar(e), UseCached(e)
  PROVE  KeepsSound(e)
<1>1. /\ stage[e] \in Tools /\ phase[e] = "check" /\ e \in Active
      /\ UNCHANGED <<kind, files, input, text, opts>>
  BY DEF UseCached, At
<1>2. Output(e) \in Files /\ files[Output(e)] \in Content
  BY <1>1, SourceAndOutput DEF Typed, TypeOK
<1>3. \A f \in Files : files[f].state # "partial"
  BY <1>1 DEF SoundSoFar, Writes
<1>4. phase'[e] \in {"check", "read"}
  BY <1>1 DEF UseCached, Advance, Typed, TypeOK
<1>5. stage'[e] = "summarize" => FALSE
  BY <1>1 DEF UseCached, Advance, NextStage, Typed, TypeOK, Tools
<1>6. SoundSoFar(e)'
  BY <1>1, <1>3, <1>4, <1>5 DEF SoundSoFar
<1>7. ASSUME stage'[e] = "done" PROVE out'[e].state = "whole"
  <2>1. stage[e] = "summarize"
    BY <1>1, <1>7 DEF UseCached, Advance, NextStage, Typed, TypeOK, Tools
  <2>2. CacheHit(e) /\ out'[e] = files[Output(e)]
    BY <2>1 DEF UseCached, Typed, TypeOK
  <2>3. Output(e) # "transcript"
    BY <2>1 DEF Output
  <2> QED BY <1>2, <1>3, <2>2, <2>3, ContentStates DEF CacheHit, Exists, EmptyIsText
<1> QED BY <1>6, <1>7 DEF KeepsSound

LEMMA SoundCallTool ==
  ASSUME Typed, NEW e \in Execs, SoundSoFar(e), CallTool(e)
  PROVE  KeepsSound(e)
<1>1. /\ stage[e] \in Tools /\ phase[e] = "check" /\ e \in Active
      /\ UNCHANGED <<kind, files, stage, text, opts>>
      /\ phase'[e] = "call" /\ input'[e] = Source(e)
  BY DEF CallTool, At, Typed, TypeOK
<1>2. \A f \in Files : files[f].state # "partial"
  BY <1>1 DEF SoundSoFar, Writes
<1>3. Source(e).state # "partial"
  BY <1>1, <1>2 DEF Source, Audio, LocalFile, Files, SoundSoFar, Tools
<1>4. stage[e] # "fetch" => Source(e)' = Source(e)
  BY <1>1 DEF Source, Audio
<1>5. SoundSoFar(e)'
  BY <1>1, <1>2, <1>3, <1>4 DEF SoundSoFar
<1> QED BY <1>1, <1>5 DEF KeepsSound, Tools

LEMMA SoundOpenOutput ==
  ASSUME Typed, EmptyIsText, NEW e \in Execs, SoundSoFar(e), OpenOutput(e)
  PROVE  KeepsSound(e)
<1>1. /\ stage[e] \in Tools /\ phase[e] = "call" /\ e \in Active
      /\ UNCHANGED <<kind, stage, text, input, opts>>
      /\ phase'[e] = "write"
      /\ files' = [files EXCEPT ![Output(e)] = [ver |-> 0, state |-> "partial", by |-> e]]
  BY DEF OpenOutput, At, Typed, TypeOK
<1>2. \A f \in Files : files[f].state # "partial"
  BY <1>1 DEF SoundSoFar, Writes
<1>3. Output(e) \in Files /\ Output(e)' = Output(e)
  BY <1>1, SourceAndOutput DEF Typed, Output
<1>4. input[e].state = "whole"
  BY <1>1, ContentStates DEF OpenOutput, SoundSoFar, Typed, TypeOK
<1>5. ASSUME stage[e] # "fetch" PROVE Source(e)' = Source(e)
  BY <1>1, <1>5 DEF Source, Audio, Output, OpenOutput, Files, Typed, TypeOK, Tools
<1>6. /\ files'[Output(e)] = [ver |-> 0, state |-> "partial", by |-> e]
      /\ \A f \in Files : f # Output(e) => files'[f] = files[f]
  BY <1>1, <1>3 DEF Typed, TypeOK
<1>7. \A f \in Files : files'[f].state = "partial" => Writes(e, f)'
  BY <1>1, <1>2, <1>3, <1>6 DEF Writes
<1>8. SoundSoFar(e)'
  BY <1>1, <1>3, <1>4, <1>5, <1>6, <1>7 DEF SoundSoFar
<1> QED BY <1>1, <1>8 DEF KeepsSound, Tools

\* A tool that nobody disturbed leaves a complete file, of the version it read.
LEMMA SoundlyWritten ==
  ASSUME Typed, NEW e \in Execs, SoundSoFar(e), stage[e] \in Tools, phase[e] = "write",
         NEW c \in Written(e)
  PROVE  \/ c = [ver |-> input[e].ver, state |-> "whole", by |-> NoOne]
         \/ c.state = "empty" /\ stage[e] = "transcribe"
<1>1. input[e].state = "whole" /\ (stage[e] # "fetch" => Source(e) = input[e])
  BY DEF SoundSoFar
<1>2. files[Output(e)].by = e
  BY DEF SoundSoFar
<1> QED BY <1>1, <1>2 DEF Written

LEMMA SoundFinishOutput ==
  ASSUME Typed, EmptyIsText, NEW e \in Execs, SoundSoFar(e), FinishOutput(e)
  PROVE  KeepsSound(e)
<1>1. /\ stage[e] \in Tools /\ phase[e] = "write" /\ e \in Active
      /\ UNCHANGED <<kind, text, opts>>
  BY DEF FinishOutput, At
<1>2. Output(e) \in Files
  BY <1>1, SourceAndOutput DEF Typed
<1>3. Exists(Output(e))
  BY <1>1 DEF SoundSoFar, Exists
<1>4. PICK c \in Written(e) : files' = [files EXCEPT ![Output(e)] = c]
  BY <1>3 DEF FinishOutput
<1>5. c.state # "partial"
  BY <1>1, SoundlyWritten
<1>6. \A f \in Files : files'[f].state # "partial"
  BY <1>1, <1>2, <1>4, <1>5 DEF SoundSoFar, Writes, Typed, TypeOK
<1>7. phase'[e] \in {"check", "read"} /\ stage'[e] # "summarize"
  BY <1>1 DEF FinishOutput, Advance, NextStage, Typed, TypeOK, Tools
<1>8. SoundSoFar(e)'
  BY <1>6, <1>7 DEF SoundSoFar
<1>9. ASSUME stage'[e] = "done" PROVE out'[e].state = "whole"
  <2>1. stage[e] = "summarize"
    BY <1>1, <1>9 DEF FinishOutput, Advance, NextStage, Typed, TypeOK, Tools
  <2> QED BY <2>1 DEF FinishOutput, SoundSoFar, Typed, TypeOK
<1> QED BY <1>8, <1>9 DEF KeepsSound

LEMMA SoundKeepDownload ==
  ASSUME Typed, NEW e \in Execs, SoundSoFar(e), KeepDownload(e)
  PROVE  KeepsSound(e)
<1>1. /\ stage[e] = "fetch" /\ phase[e] = "call" /\ UNCHANGED files
      /\ stage'[e] = "metadata"
  BY DEF KeepDownload, At, Advance, NextStage, Typed, TypeOK
<1>2. \A f \in Files : files[f].state # "partial"
  BY <1>1 DEF SoundSoFar, Writes
<1> QED BY <1>1, <1>2 DEF KeepsSound, SoundSoFar, Tools

LEMMA SoundReadTranscript ==
  ASSUME Typed, NEW e \in Execs, SoundSoFar(e), ReadTranscript(e)
  PROVE  KeepsSound(e)
<1>1. /\ stage[e] = "transcribe" /\ phase[e] = "read" /\ UNCHANGED files
  BY DEF ReadTranscript, At, Typed, PhasesOK
<1>2. \A f \in Files : files[f].state # "partial"
  BY <1>1 DEF SoundSoFar, Writes
<1>3. CASE files["transcript"].state \in {"absent", "empty"}
  <2>1. stage'[e] = "idle"
    BY <1>3 DEF ReadTranscript, Breaks, Typed, TypeOK
  <2> QED BY <2>1 DEF KeepsSound, Active
<1>4. CASE files["transcript"].state \notin {"absent", "empty"}
  <2>1. /\ stage'[e] = "summarize" /\ phase'[e] = "check"
        /\ text'[e] = [files["transcript"] EXCEPT !.by = NoOne]
    BY <1>1, <1>4 DEF ReadTranscript, Advance, NextStage, Typed, TypeOK
  <2>2. files["transcript"] \in Content /\ "transcript" \in Files
    BY DEF Typed, TypeOK, Files
  <2>3. files["transcript"].state = "whole"
    BY <1>2, <1>4, <2>2, ContentStates
  <2>4. text'[e].state = "whole"
    BY <2>1, <2>2, <2>3 DEF Content
  <2> QED BY <1>1, <1>2, <2>1, <2>4 DEF KeepsSound, SoundSoFar
<1> QED BY <1>3, <1>4

LEMMA SoundWriteMetadata ==
  ASSUME Typed, NEW e \in Execs, SoundSoFar(e), WriteMetadata(e)
  PROVE  KeepsSound(e)
<1>1. /\ stage[e] = "metadata" /\ UNCHANGED files
      /\ stage'[e] = "normalize" /\ phase'[e] = "check"
  BY DEF WriteMetadata, Advance, NextStage, Typed, TypeOK
<1>2. \A f \in Files : files[f].state # "partial"
  BY <1>1 DEF SoundSoFar, Writes, Tools
<1> QED BY <1>1, <1>2 DEF KeepsSound, SoundSoFar

LEMMA SoundStep ==
  ASSUME Typed, EmptyIsText, NEW e \in Execs, SoundSoFar(e), ExecStep(e)
  PROVE  KeepsSound(e)
<1>1. CASE ToolFails(e)
  BY <1>1 DEF ToolFails, Breaks, KeepsSound, Active, Typed, TypeOK
<1> QED BY <1>1, SoundUseCached, SoundCallTool, SoundOpenOutput, SoundFinishOutput, SoundKeepDownload,
           SoundReadTranscript, SoundWriteMetadata DEF ExecStep

\* What e's steps rest on does not change.
Untouched == UNCHANGED <<kind, files, stage, phase, opts, input, text, out>>

LEMMA SoundUntouched ==
  ASSUME NEW e \in Execs, SoundSoFar(e), Untouched
  PROVE  SoundSoFar(e)'
<1>1. Output(e)' = Output(e)
  BY DEF Untouched, Output
<1>2. stage[e] # "fetch" => Source(e)' = Source(e)
  BY DEF Untouched, Source, Audio
<1> QED BY <1>1, <1>2 DEF SoundSoFar, Writes, Untouched

\* The next execution, if it finds nobody at work and no incomplete file.
LEMMA SoundStart ==
  ASSUME Typed, NEW e \in Execs, Start(e), \A f \in Files : files[f].state # "partial"
  PROVE  SoundSoFar(e)'
<1>1. stage'[e] = "fetch" /\ phase'[e] = "check" /\ UNCHANGED files
  BY DEF Start, Active, Typed, TypeOK, PhasesOK, Tools
<1> QED BY <1>1 DEF SoundSoFar

\* A step of an execution moves no other.
LEMMA OneMoves ==
  ASSUME Typed, NEW e \in Execs, ExecStep(e) \/ Crash(e)
  PROVE  /\ e \in Active /\ Active' \subseteq Active
         /\ \A x \in Execs \ {e} : stage'[x] = stage[x] /\ phase'[x] = phase[x] /\ out'[x] = out[x]
                                   /\ text'[x] = text[x] /\ opts'[x] = opts[x] /\ due'[x] = due[x]
                                   /\ input'[x] = input[x]
         /\ UNCHANGED <<kind, remote, cleanup, cleanups, clean, alone>>
<1>1. e \in Active
  BY DEF ExecStep, UseCached, CallTool, OpenOutput, FinishOutput, KeepDownload, ToolFails,
         ReadTranscript, WriteMetadata, Crash, At, Active
<1>2. \A x \in Execs \ {e} : stage'[x] = stage[x] /\ phase'[x] = phase[x] /\ out'[x] = out[x]
                             /\ text'[x] = text[x] /\ opts'[x] = opts[x] /\ due'[x] = due[x]
                             /\ input'[x] = input[x]
  BY DEF ExecStep, UseCached, CallTool, OpenOutput, FinishOutput, KeepDownload, ToolFails,
         ReadTranscript, WriteMetadata, Crash, Breaks, Advance, history, Typed, TypeOK
<1>3. UNCHANGED <<kind, remote, cleanup, cleanups, clean, alone>>
  BY DEF ExecStep, UseCached, CallTool, OpenOutput, FinishOutput, KeepDownload, ToolFails,
         ReadTranscript, WriteMetadata, Crash, history, cleanVars
<1>4. Active' \subseteq Active
  BY <1>1, <1>2 DEF Active
<1> QED BY <1>1, <1>2, <1>3, <1>4

LEMMA SoleKept ==
  ASSUME Typed, EmptyIsText, Sole, [Next]_vars
  PROVE  Sole'
<1>1. ASSUME NEW e \in Execs, Start(e)
      PROVE  Sole'
  <2>1. SUFFICES ASSUME alone' = {e}, Active = {}, cleanup = "none"
                 PROVE  Sole'
    BY <1>1 DEF Start, Sole
  <2>2. /\ stage'[e] = "fetch" /\ Active' \subseteq {e} /\ cleanup' = "none"
    BY <1>1, <2>1 DEF Start, Active, Typed, TypeOK, cleanVars
  <2>3. ASSUME e \in clean' PROVE SoundSoFar(e)'
    <3>1. \A f \in Files : files[f].state # "partial"
      BY <1>1, <2>1, <2>3 DEF Start
    <3> QED BY <1>1, <3>1, SoundStart
  <2> QED BY <2>1, <2>2, <2>3 DEF Sole
<1>2. ASSUME NEW e \in Execs, ExecStep(e) \/ Crash(e)
      PROVE  Sole'
  <2>1. SUFFICES ASSUME NEW x \in alone
                 PROVE  /\ Active' \subseteq {x} /\ cleanup' = "none"
                        /\ x \in clean => /\ x \in Active' => SoundSoFar(x)'
                                          /\ stage'[x] = "done" => out'[x].state = "whole"
    BY <1>2, OneMoves DEF Sole
  <2>2. Active \subseteq {x} /\ cleanup = "none"
    BY DEF Sole
  <2>3. x = e /\ Active' \subseteq {x} /\ cleanup' = "none"
    BY <1>2, <2>2, OneMoves
  <2>4. ASSUME x \in clean
        PROVE  KeepsSound(e)
    <3>1. SoundSoFar(e)
      BY <1>2, <2>3, <2>4, OneMoves DEF Sole
    <3>2. CASE ExecStep(e)
      BY <3>1, <3>2, SoundStep
    <3>3. CASE Crash(e)
      BY <3>3 DEF Crash, Breaks, KeepsSound, Active, Typed, TypeOK
    <3> QED BY <1>2, <3>2, <3>3
  <2> QED BY <2>3, <2>4 DEF KeepsSound, Active
<1>3. ASSUME Untouched, UNCHANGED <<clean, alone, cleanup>>
      PROVE  Sole'
  <2>1. Active' = Active
    BY <1>3 DEF Active, Untouched
  <2>2. \A e \in clean \cap alone : e \in Active => SoundSoFar(e)'
    BY <1>3, SoundUntouched DEF Sole, Active
  <2>3. \A e \in clean \cap alone : stage'[e] = "done" => out'[e].state = "whole"
    BY <1>3 DEF Sole, Untouched
  <2> QED BY <1>3, <2>1, <2>2, <2>3 DEF Sole
<1>4. CASE RemoteChanges \/ UNCHANGED vars
  BY <1>3, <1>4 DEF RemoteChanges, vars, execVars, history, cleanVars, Untouched
<1>5. CASE CollectTargets
  BY <1>5 DEF CollectTargets, Sole
<1>6. CASE Delete
  BY <1>6 DEF Delete, Sole
<1> QED BY <1>1, <1>2, <1>4, <1>5, <1>6 DEF Next

\* An execution that found no incomplete file and works alone returns a complete
\* summary, however the executions before it ended and whatever is cached.
THEOREM OutputsAreSound == Spec => []SoundOutputs
<1>1. Init => Typed /\ EmptyIsText /\ Sole
  BY TypedInit DEF Init, EmptyIsText, Sole, Absent
<1>2. Typed /\ EmptyIsText /\ Sole /\ [Next]_vars => (Typed /\ EmptyIsText /\ Sole)'
  BY TypedNext, EmptyIsTextKept, SoleKept
<1>3. Sole => SoundOutputs
  BY DEF Sole, SoundOutputs
<1> QED BY <1>1, <1>2, <1>3, PTL DEF Spec

-----------------------------------------------------------------------------
(* Fresh outputs *)

\* From step to step the audio, the transcript and the summary are of the
\* version that the execution is due to reach, or of a later one.
FreshSoFar(e) ==
  /\ stage[e] = "fetch" =>
       /\ due[e] <= remote
       /\ phase[e] # "check" => input[e].ver >= due[e]
       /\ kind = "ytdlp" /\ Exists("audio") /\ phase[e] # "write" => files["audio"].ver >= due[e]
  /\ stage[e] \in {"metadata", "normalize"} => Audio.ver >= due[e]
  /\ stage[e] = "transcribe" /\ phase[e] # "read" => files["wav"].ver >= due[e]
  /\ phase[e] = "read" /\ files["transcript"].state = "whole" => files["transcript"].ver >= due[e]
  /\ stage[e] = "summarize" => text[e].ver >= due[e]
  /\ stage[e] = "done" => out[e].ver >= due[e]

Fresh == \A e \in clean \cap alone : opts[e].noCache => FreshSoFar(e)

\* The versions are numbers.
LEMMA VersionTypes ==
  ASSUME Typed, NEW e \in Execs
  PROVE  /\ due[e] \in Nat /\ remote \in Nat \ {0}
         /\ input[e].ver \in Nat /\ text[e].ver \in Nat /\ out[e].ver \in Nat
         /\ Audio.ver \in Nat
         /\ \A f \in Files : files[f].ver \in Nat
<1>1. remote \in Nat \ {0} /\ due[e] \in Nat
  BY ScenarioTypes DEF Typed, TypeOK
<1>2. LocalFile.ver = 1
  BY DEF LocalFile
<1>3. /\ input[e].ver \in Nat /\ text[e].ver \in Nat /\ out[e].ver \in Nat
      /\ \A f \in Files : files[f].ver \in Nat
  BY ContentStates DEF Typed, TypeOK
<1> QED BY <1>1, <1>2, <1>3 DEF Audio, Files

LEMMA FreshUseCached ==
  ASSUME Typed, NEW e \in Execs, FreshSoFar(e), opts[e].noCache, UseCached(e)
  PROVE  FreshSoFar(e)'
<1>1. /\ stage[e] = "fetch" /\ kind = "local"
      /\ UNCHANGED <<kind, due>>
  BY DEF UseCached, CacheHit, history
<1>2. stage'[e] = "metadata" /\ phase'[e] = "check"
  BY <1>1 DEF UseCached, Advance, NextStage, Typed, TypeOK
<1>3. Audio'.ver = 1 /\ remote = 1
  BY <1>1 DEF Audio, LocalFile, Typed, Versions
<1>4. due[e] <= 1
  BY <1>1, <1>3 DEF FreshSoFar
<1> QED BY <1>1, <1>2, <1>3, <1>4, VersionTypes DEF FreshSoFar

LEMMA FreshCallTool ==
  ASSUME Typed, NEW e \in Execs, FreshSoFar(e), CallTool(e)
  PROVE  FreshSoFar(e)'
<1>1. /\ stage[e] \in Tools /\ phase[e] = "check"
      /\ UNCHANGED <<kind, remote, files, stage, text, out, due>>
      /\ phase'[e] = "call" /\ input'[e] = Source(e)
  BY DEF CallTool, At, Typed, TypeOK, history
<1>2. Audio' = Audio /\ Exists("audio")' = Exists("audio")
  BY <1>1 DEF Audio, Exists
<1>3. stage[e] = "fetch" => input'[e].ver = remote
  BY <1>1 DEF Source
<1> QED BY <1>1, <1>2, <1>3 DEF FreshSoFar

LEMMA FreshOpenOutput ==
  ASSUME Typed, NEW e \in Execs, FreshSoFar(e), OpenOutput(e)
  PROVE  FreshSoFar(e)'
<1>1. /\ stage[e] \in Tools /\ phase[e] = "call" /\ ~(stage[e] = "normalize" /\ kind = "wav")
      /\ UNCHANGED <<kind, remote, stage, text, out, input, due>>
      /\ phase'[e] = "write"
      /\ files' = [files EXCEPT ![Output(e)] = [ver |-> 0, state |-> "partial", by |-> e]]
  BY DEF OpenOutput, At, Typed, TypeOK, history
<1>2. \A f \in Files : f # Output(e) => files'[f] = files[f]
  BY <1>1 DEF Typed, TypeOK
<1>3. stage[e] = "normalize" => Audio' = Audio
  BY <1>1, <1>2 DEF Audio, Output, Files
<1>4. stage[e] = "transcribe" => files'["wav"] = files["wav"]
  BY <1>2 DEF Output, Files
<1> QED BY <1>1, <1>3, <1>4 DEF FreshSoFar, Tools

LEMMA FreshFinishOutput ==
  ASSUME Typed, NEW e \in Execs, SoundSoFar(e), FreshSoFar(e), FinishOutput(e)
  PROVE  FreshSoFar(e)'
<1>1. /\ stage[e] \in Tools /\ phase[e] = "write"
      /\ UNCHANGED <<kind, remote, text, due>>
  BY DEF FinishOutput, At, history
<1>2. Output(e) \in Files /\ Exists(Output(e))
  BY <1>1, SourceAndOutput DEF Typed, SoundSoFar, Exists
<1>3. PICK c \in Written(e) : files' = [files EXCEPT ![Output(e)] = c]
  BY <1>2 DEF FinishOutput
<1>4. files'[Output(e)] = c
  BY <1>2, <1>3 DEF Typed, TypeOK
<1>5. c = [ver |-> input[e].ver, state |-> "whole", by |-> NoOne] \/ (c.state = "empty" /\ stage[e] = "transcribe")
  BY <1>1, SoundlyWritten
<1>6. CASE stage[e] = "fetch"
  <2>1. stage'[e] = "metadata" /\ phase'[e] = "check"
    BY <1>1, <1>6 DEF FinishOutput, Advance, NextStage, Typed, TypeOK
  <2>2. c.ver >= due[e]
    BY <1>1, <1>5, <1>6 DEF FreshSoFar
  <2>3. CASE kind = "local"
    <3>1. Audio'.ver = 1 /\ remote = 1 /\ due[e] <= remote
      BY <1>1, <1>6, <2>3 DEF Audio, LocalFile, Typed, Versions, FreshSoFar
    <3> QED BY <1>1, <2>1, <3>1, VersionTypes DEF FreshSoFar
  <2>4. CASE kind # "local"
    <3>1. Audio' = c
      BY <1>1, <1>4, <1>6, <2>4 DEF Audio, Output
    <3> QED BY <1>1, <2>1, <2>2, <3>1 DEF FreshSoFar
  <2> QED BY <2>3, <2>4
<1>7. CASE stage[e] = "normalize"
  <2>1. stage'[e] = "transcribe" /\ phase'[e] = "check"
    BY <1>1, <1>7 DEF FinishOutput, Advance, NextStage, Typed, TypeOK
  <2>2. input[e] = Audio
    BY <1>1, <1>7 DEF SoundSoFar, Source
  <2>3. files'["wav"].ver >= due[e]
    BY <1>4, <1>5, <1>7, <2>2 DEF FreshSoFar, Output
  <2> QED BY <1>1, <2>1, <2>3 DEF FreshSoFar
<1>8. CASE stage[e] = "transcribe"
  <2>1. stage'[e] = "transcribe" /\ phase'[e] = "read"
    BY <1>1, <1>8 DEF FinishOutput, Typed, TypeOK
  <2>2. input[e] = files["wav"]
    BY <1>1, <1>8 DEF SoundSoFar, Source
  <2>3. files'["transcript"].state = "whole" => files'["transcript"].ver >= due[e]
    BY <1>1, <1>4, <1>5, <1>8, <2>2 DEF FreshSoFar, Output
  <2> QED BY <1>1, <2>1, <2>3 DEF FreshSoFar
<1>9. CASE stage[e] = "summarize"
  <2>1. stage'[e] = "done" /\ phase'[e] = "check" /\ out'[e] = text[e]
    BY <1>1, <1>9 DEF FinishOutput, Advance, NextStage, Typed, TypeOK
  <2> QED BY <1>1, <1>9, <2>1 DEF FreshSoFar
<1> QED BY <1>1, <1>6, <1>7, <1>8, <1>9 DEF Tools

LEMMA FreshKeepDownload ==
  ASSUME Typed, NEW e \in Execs, FreshSoFar(e), KeepDownload(e)
  PROVE  FreshSoFar(e)'
<1>1. /\ stage[e] = "fetch" /\ phase[e] = "call" /\ kind = "ytdlp" /\ Exists("audio")
      /\ UNCHANGED <<kind, files, due>> /\ stage'[e] = "metadata" /\ phase'[e] = "check"
  BY DEF KeepDownload, At, Advance, NextStage, Typed, TypeOK, history
<1>2. files["audio"].ver >= due[e]
  BY <1>1 DEF FreshSoFar
<1>3. Audio' = files["audio"]
  BY <1>1 DEF Audio
<1> QED BY <1>1, <1>2, <1>3 DEF FreshSoFar

LEMMA FreshReadTranscript ==
  ASSUME Typed, NEW e \in Execs, SoundSoFar(e), FreshSoFar(e), ReadTranscript(e)
  PROVE  FreshSoFar(e)' \/ stage'[e] = "idle"
<1>1. /\ stage[e] = "transcribe" /\ phase[e] = "read" /\ UNCHANGED files
  BY DEF ReadTranscript, At, Typed, PhasesOK
<1>2. SUFFICES ASSUME files["transcript"].state \notin {"absent", "empty"}
               PROVE  FreshSoFar(e)'
  BY DEF ReadTranscript, Breaks, Typed, TypeOK
<1>3. "transcript" \in Files /\ files["transcript"] \in Content
  BY DEF Typed, TypeOK, Files
<1>4. files["transcript"].state = "whole"
  BY <1>1, <1>2, <1>3, ContentStates DEF SoundSoFar, Writes
<1>5. files["transcript"].ver >= due[e]
  BY <1>1, <1>4 DEF FreshSoFar
<1>6. /\ stage'[e] = "summarize" /\ phase'[e] = "check" /\ due' = due
      /\ text'[e] = [files["transcript"] EXCEPT !.by = NoOne]
  BY <1>1, <1>2 DEF ReadTranscript, Advance, NextStage, Typed, TypeOK
<1>7. text'[e].ver = files["transcript"].ver
  BY <1>3, <1>6 DEF Content
<1> QED BY <1>5, <1>6, <1>7 DEF FreshSoFar

LEMMA FreshWriteMetadata ==
  ASSUME Typed, NEW e \in Execs, FreshSoFar(e), WriteMetadata(e)
  PROVE  FreshSoFar(e)'
<1>1. /\ stage[e] = "metadata" /\ UNCHANGED <<kind, files, due>>
      /\ stage'[e] = "normalize" /\ phase'[e] = "check"
  BY DEF WriteMetadata, Advance, NextStage, history, Typed, TypeOK
<1>2. Audio' = Audio
  BY <1>1 DEF Audio
<1> QED BY <1>1, <1>2 DEF FreshSoFar

LEMMA FreshStep ==
  ASSUME Typed, NEW e \in Execs, opts[e].noCache, SoundSoFar(e), FreshSoFar(e), ExecStep(e)
  PROVE  FreshSoFar(e)' \/ stage'[e] = "idle"
<1>1. CASE ToolFails(e)
  BY <1>1 DEF ToolFails, Breaks, Typed, TypeOK
<1> QED BY <1>1, FreshUseCached, FreshCallTool, FreshOpenOutput, FreshFinishOutput, FreshKeepDownload,
           FreshReadTranscript, FreshWriteMetadata DEF ExecStep

LEMMA FreshStart ==
  ASSUME Typed, NEW e \in Execs, Start(e), opts'[e].noCache
  PROVE  FreshSoFar(e)'
<1>1. /\ stage'[e] = "fetch" /\ phase'[e] = "check" /\ UNCHANGED <<kind, files, remote>>
  BY DEF Start, Active, Typed, TypeOK, PhasesOK, Tools
<1>2. due'[e] = IF kind = "ytdlp" /\ Exists("audio") THEN files["audio"].ver ELSE remote
  <2>1. PICK o \in Options :
          /\ opts' = [opts EXCEPT ![e] = o]
          /\ due' = [due EXCEPT ![e] = IF ~o.noCache THEN 0
                                       ELSE IF kind = "ytdlp" /\ Exists("audio")
                                            THEN files["audio"].ver ELSE remote]
    BY DEF Start
  <2> QED BY <2>1 DEF Typed, TypeOK
<1>3. "audio" \in Files /\ files["audio"].ver <= remote /\ files["audio"].ver \in Nat /\ remote \in Nat
  BY VersionTypes DEF Typed, Versions, Files
<1> QED BY <1>1, <1>2, <1>3 DEF FreshSoFar, Exists

\* An idle execution owes nothing.
LEMMA IdleIsFresh ==
  ASSUME Typed', NEW e \in Execs, stage'[e] = "idle"
  PROVE  FreshSoFar(e)'
<1>1. phase'[e] = "check"
  BY DEF Typed, PhasesOK, Tools
<1> QED BY <1>1 DEF FreshSoFar

LEMMA FreshKept ==
  ASSUME Typed, Typed', Sole, Fresh, [Next]_vars
  PROVE  Fresh'
<1>1. ASSUME NEW e \in Execs, Start(e)
      PROVE  Fresh'
  <2>1. alone' \subseteq {e}
    BY <1>1 DEF Start
  <2> QED BY <1>1, <2>1, FreshStart DEF Fresh
<1>2. ASSUME NEW e \in Execs, ExecStep(e) \/ Crash(e)
      PROVE  Fresh'
  <2>1. SUFFICES ASSUME NEW x \in clean \cap alone, opts'[x].noCache
                 PROVE  FreshSoFar(x)'
    BY <1>2, OneMoves DEF Fresh
  <2>2. x = e /\ SoundSoFar(e)
    BY <1>2, OneMoves DEF Sole
  <2>3. CASE Crash(e) \/ stage'[e] = "idle"
    BY <2>2, <2>3, IdleIsFresh DEF Crash, Breaks, Typed, TypeOK
  <2>4. CASE ExecStep(e) /\ stage'[e] # "idle"
    <3>1. opts'[e] = opts[e]
      BY <2>4 DEF ExecStep, UseCached, CallTool, OpenOutput, FinishOutput, KeepDownload, ToolFails,
                  ReadTranscript, WriteMetadata, Breaks, Typed, TypeOK
    <3>2. FreshSoFar(e)
      BY <2>1, <2>2, <3>1 DEF Fresh
    <3> QED BY <2>1, <2>2, <2>4, <3>1, <3>2, FreshStep
  <2> QED BY <1>2, <2>3, <2>4
<1>3. ASSUME UNCHANGED <<kind, files, stage, phase, opts, input, text, out, clean, due>>,
             alone' \subseteq alone, remote' >= remote, remote' \in Nat
      PROVE  Fresh'
  <2>1. SUFFICES ASSUME NEW e \in clean \cap alone, opts[e].noCache
                 PROVE  FreshSoFar(e)'
    BY <1>3 DEF Fresh
  <2>2. Audio' = Audio /\ Exists("audio")' = Exists("audio")
    BY <1>3 DEF Audio, Exists
  <2>3. FreshSoFar(e) /\ e \in Execs
    BY <2>1 DEF Fresh, Typed, TypeOK
  <2>4. due[e] <= remote => due'[e] <= remote'
    BY <1>3, <2>3, VersionTypes
  <2> QED BY <1>3, <2>2, <2>3, <2>4 DEF FreshSoFar
<1>4. remote \in Nat
  BY DEF Typed, TypeOK
<1>5. CASE RemoteChanges \/ CollectTargets \/ UNCHANGED vars
  BY <1>3, <1>4, <1>5 DEF RemoteChanges, CollectTargets, vars, execVars, history
<1>6. CASE Delete
  BY <1>6 DEF Delete, Sole, Fresh
<1> QED BY <1>1, <1>2, <1>5, <1>6 DEF Next

\* Alone, an execution with no_cache returns a summary of the audio that was
\* there when it started, or, of yt-dlp, that it had downloaded before.
THEOREM OutputsAreFresh == Spec => []NoCacheIsFresh
<1>1. Init => Typed /\ EmptyIsText /\ Sole /\ Fresh
  BY TypedInit DEF Init, EmptyIsText, Sole, Fresh, Absent
<1>2. Typed /\ EmptyIsText /\ Sole /\ Fresh /\ [Next]_vars => (Typed /\ EmptyIsText /\ Sole /\ Fresh)'
  BY TypedNext, EmptyIsTextKept, SoleKept, FreshKept
<1>3. Typed /\ Fresh => NoCacheIsFresh
  <2>1. SUFFICES ASSUME Typed, Fresh, NEW e \in clean \cap alone, stage[e] = "done", opts[e].noCache
                 PROVE  out[e].ver >= due[e]
    BY DEF NoCacheIsFresh
  <2> QED BY <2>1 DEF Fresh, FreshSoFar
<1> QED BY <1>1, <1>2, <1>3, PTL DEF Spec

-----------------------------------------------------------------------------
(* One version per result *)

\* A cached summary is of the version of the cached transcript, and so is what
\* an execution has in memory from then on.
Agree ==
  /\ Exists("full") => /\ files["transcript"].state = "whole"
                       /\ files["full"].state # "partial" => files["full"].ver = files["transcript"].ver
  /\ \A e \in Execs :
       /\ stage[e] = "transcribe" /\ phase[e] \in {"call", "write"} => ~Exists("full")
       /\ stage[e] = "summarize" => files["transcript"].state = "whole"
                                    /\ text[e].ver = files["transcript"].ver
       /\ stage[e] = "done" => text[e].ver = out[e].ver

\* Until something is rebuilt, breaks off or overlaps, there is one execution
\* at a time, and between them no file is incomplete.
Undisturbed ==
  /\ \A e, x \in Active : e = x
  /\ \A e \in Execs : ~opts[e].noCache
  /\ Active = {} => \A f \in Files : files[f].state # "partial"
  /\ \A e \in Active : SoundSoFar(e)
  /\ Agree

Consistent == ~disturbed => Undisturbed

\* The step of e keeps Agree if it does for e.
LEMMA AgreeFor ==
  ASSUME Typed, NEW e \in Execs, ExecStep(e), Undisturbed,
         Exists("full")' => /\ files'["transcript"].state = "whole"
                            /\ files'["full"].state # "partial" => files'["full"].ver = files'["transcript"].ver,
         stage'[e] = "transcribe" /\ phase'[e] \in {"call", "write"} => ~Exists("full")',
         stage'[e] = "summarize" => files'["transcript"].state = "whole"
                                    /\ text'[e].ver = files'["transcript"].ver,
         stage'[e] = "done" => text'[e].ver = out'[e].ver
  PROVE  Agree'
<1>1. \A x \in Execs \ {e} : stage'[x] \in {"idle", "done"} /\ stage'[x] = stage[x]
                             /\ text'[x] = text[x] /\ out'[x] = out[x]
  BY OneMoves DEF Undisturbed, Active
<1>2. \A x \in Execs \ {e} : stage'[x] = "done" => text'[x].ver = out'[x].ver
  BY <1>1 DEF Undisturbed, Agree
<1> QED BY <1>1, <1>2 DEF Agree

LEMMA AgreeUseCached ==
  ASSUME Typed, NEW e \in Execs, Undisturbed, UseCached(e)
  PROVE  Agree'
<1>1. /\ stage[e] \in Tools /\ phase[e] = "check" /\ e \in Active
      /\ UNCHANGED <<files, text>>
  BY DEF UseCached, At
<1>2. \A f \in Files : files[f].state # "partial"
  BY <1>1 DEF Undisturbed, SoundSoFar, Writes
<1>3. Exists("full")' = Exists("full")
  BY <1>1 DEF Exists
<1>4. /\ phase'[e] \in {"check", "read"}
      /\ stage'[e] # "summarize"
  BY <1>1 DEF UseCached, Advance, NextStage, Typed, TypeOK, Tools
<1>5. ASSUME stage'[e] = "done" PROVE text'[e].ver = out'[e].ver
  <2>1. stage[e] = "summarize"
    BY <1>1, <1>5 DEF UseCached, Advance, NextStage, Typed, TypeOK, Tools
  <2>2. CacheHit(e) /\ out'[e] = files[Output(e)]
    BY <2>1 DEF UseCached, Typed, TypeOK
  <2>3. opts[e].mode = "full" /\ Output(e) = "full"
    BY <2>1, <2>2 DEF CacheHit, Output, Typed, TypeOK, Modes
  <2>4. Exists("full") /\ files["full"].state # "partial"
    BY <1>2, <2>2, <2>3 DEF CacheHit, Files
  <2> QED BY <1>1, <2>1, <2>2, <2>3, <2>4 DEF Undisturbed, Agree
<1>6. ExecStep(e)
  BY DEF ExecStep
<1> QED BY <1>1, <1>3, <1>4, <1>5, <1>6, AgreeFor DEF Undisturbed, Agree

LEMMA AgreeCallTool ==
  ASSUME Typed, NEW e \in Execs, Undisturbed, CallTool(e)
  PROVE  Agree'
<1>1. /\ stage[e] \in Tools /\ ~CacheHit(e) /\ UNCHANGED <<files, stage, text, out>>
  BY DEF CallTool, At
<1>2. Exists("full")' = Exists("full")
  BY <1>1 DEF Exists
<1>3. ASSUME stage[e] = "transcribe" PROVE ~Exists("full")
  <2>1. ~Exists("transcript")
    BY <1>1, <1>3 DEF CacheHit, Output, Undisturbed
  <2> QED BY <2>1 DEF Undisturbed, Agree, Exists
<1>4. ExecStep(e)
  BY DEF ExecStep
<1> QED BY <1>1, <1>2, <1>3, <1>4, AgreeFor DEF Undisturbed, Agree

LEMMA AgreeOpenOutput ==
  ASSUME Typed, NEW e \in Execs, Undisturbed, OpenOutput(e)
  PROVE  Agree'
<1>1. /\ stage[e] \in Tools /\ phase[e] = "call"
      /\ UNCHANGED <<stage, text, out>> /\ phase'[e] = "write"
      /\ files' = [files EXCEPT ![Output(e)] = [ver |-> 0, state |-> "partial", by |-> e]]
  BY DEF OpenOutput, At, Typed, TypeOK
<1>2. /\ Output(e) \in Files /\ files'[Output(e)].state = "partial"
      /\ \A f \in Files : f # Output(e) => files'[f] = files[f]
  BY <1>1, SourceAndOutput DEF Typed, TypeOK
<1>3. ExecStep(e)
  BY DEF ExecStep
<1>4. CASE Output(e) \in {"audio", "wav"}
  <2>1. files'["full"] = files["full"] /\ files'["transcript"] = files["transcript"]
    BY <1>2, <1>4 DEF Files
  <2>2. Exists("full")' = Exists("full") /\ stage[e] \notin {"transcribe", "summarize"}
    BY <1>4, <2>1 DEF Exists, Output
  <2> QED BY <1>1, <1>3, <2>1, <2>2, AgreeFor DEF Undisturbed, Agree, Tools
<1>5. CASE Output(e) = "transcript"
  <2>1. stage[e] = "transcribe"
    BY <1>1, <1>5 DEF Output, Tools
  <2>2. ~Exists("full")'
    BY <1>1, <1>2, <1>5, <2>1 DEF Undisturbed, Agree, Exists, Files
  <2> QED BY <1>1, <1>3, <2>1, <2>2, AgreeFor
<1>6. CASE Output(e) \in {"full", "transcript-mode"}
  <2>1. stage[e] = "summarize"
    BY <1>1, <1>6 DEF Output, Tools
  <2>2. files'["transcript"] = files["transcript"]
    BY <1>2, <1>6 DEF Files
  <2>3. Exists("full")' => files'["full"].state = "partial" \/ (Exists("full") /\ files'["full"] = files["full"])
    BY <1>2 DEF Exists, Files
  <2> QED BY <1>1, <1>3, <2>1, <2>2, <2>3, AgreeFor DEF Undisturbed, Agree
<1> QED BY <1>2, <1>4, <1>5, <1>6 DEF Files

LEMMA AgreeFinishOutput ==
  ASSUME Typed, NEW e \in Execs, Undisturbed, FinishOutput(e)
  PROVE  Agree'
<1>1. /\ stage[e] \in Tools /\ phase[e] = "write" /\ e \in Active
      /\ UNCHANGED text
  BY DEF FinishOutput, At
<1>2. SoundSoFar(e) /\ Output(e) \in Files
  BY <1>1, SourceAndOutput DEF Typed, Undisturbed
<1>3. PICK c \in Written(e) : files' = [files EXCEPT ![Output(e)] = c]
  BY <1>1, <1>2 DEF FinishOutput, SoundSoFar, Exists
<1>4. /\ files'[Output(e)] = c
      /\ \A f \in Files : f # Output(e) => files'[f] = files[f]
  BY <1>2, <1>3 DEF Typed, TypeOK
<1>5. c = [ver |-> input[e].ver, state |-> "whole", by |-> NoOne] \/ (c.state = "empty" /\ stage[e] = "transcribe")
  BY <1>1, <1>2, SoundlyWritten
<1>6. ExecStep(e)
  BY DEF ExecStep
<1>7. CASE stage[e] \in {"fetch", "normalize"}
  <2>1. Output(e) \in {"audio", "wav"}
    BY <1>7 DEF Output
  <2>2. files'["full"] = files["full"] /\ files'["transcript"] = files["transcript"]
    BY <1>4, <2>1 DEF Files
  <2>3. stage'[e] \in {"metadata", "transcribe"} /\ phase'[e] = "check"
    BY <1>1, <1>7 DEF FinishOutput, Advance, NextStage, Typed, TypeOK
  <2>4. Exists("full")' = Exists("full")
    BY <2>2 DEF Exists
  <2> QED BY <1>6, <2>2, <2>3, <2>4, AgreeFor DEF Undisturbed, Agree
<1>8. CASE stage[e] = "transcribe"
  <2>1. stage'[e] = "transcribe" /\ phase'[e] = "read"
    BY <1>1, <1>8 DEF FinishOutput, Typed, TypeOK
  <2>2. ~Exists("full")'
    BY <1>1, <1>4, <1>8 DEF Undisturbed, Agree, Exists, Output, Files
  <2> QED BY <1>6, <2>1, <2>2, AgreeFor
<1>9. CASE stage[e] = "summarize"
  <2>1. stage'[e] = "done" /\ out'[e] = text[e]
    BY <1>1, <1>9 DEF FinishOutput, Advance, NextStage, Typed, TypeOK
  <2>2. Output(e) \in {"full", "transcript-mode"} /\ input[e] = text[e]
    BY <1>1, <1>2, <1>9 DEF Output, Source, SoundSoFar
  <2>3. /\ files'["transcript"] = files["transcript"]
        /\ files["transcript"].state = "whole" /\ text[e].ver = files["transcript"].ver
    BY <1>4, <1>9, <2>2 DEF Files, Undisturbed, Agree
  <2>4. c.ver = files["transcript"].ver
    BY <1>5, <1>9, <2>2, <2>3
  <2>5. CASE Output(e) = "full"
    BY <1>1, <1>4, <1>6, <2>1, <2>3, <2>4, <2>5, AgreeFor
  <2>6. CASE Output(e) = "transcript-mode"
    <3>1. files'["full"] = files["full"] /\ Exists("full")' = Exists("full")
      BY <1>4, <2>6 DEF Files, Exists
    <3> QED BY <1>1, <1>6, <2>1, <2>3, <3>1, AgreeFor DEF Undisturbed, Agree
  <2> QED BY <2>2, <2>5, <2>6
<1> QED BY <1>1, <1>7, <1>8, <1>9 DEF Tools

LEMMA AgreeReadTranscript ==
  ASSUME Typed, NEW e \in Execs, Undisturbed, ReadTranscript(e), ~disturbed'
  PROVE  Agree'
<1>1. /\ stage[e] = "transcribe" /\ phase[e] = "read" /\ e \in Active /\ UNCHANGED files
      /\ files["transcript"].state \notin {"absent", "empty"}
  BY DEF ReadTranscript, Breaks, At, Typed, PhasesOK
<1>2. "transcript" \in Files /\ files["transcript"] \in Content
  BY DEF Typed, TypeOK, Files
<1>a. files["transcript"].state # "partial"
  BY <1>1, <1>2 DEF Undisturbed, SoundSoFar, Writes
<1>3. files["transcript"].state = "whole"
  BY <1>1, <1>2, <1>a, ContentStates
<1>4. /\ stage'[e] = "summarize"
      /\ text'[e] = [files["transcript"] EXCEPT !.by = NoOne]
  BY <1>1 DEF ReadTranscript, Advance, NextStage, Typed, TypeOK
<1>5. text'[e].ver = files["transcript"].ver
  BY <1>2, <1>4 DEF Content
<1>6. ExecStep(e) /\ Exists("full")' = Exists("full")
  BY <1>1 DEF ExecStep, Exists
<1> QED BY <1>1, <1>3, <1>4, <1>5, <1>6, AgreeFor DEF Undisturbed, Agree

LEMMA AgreeStep ==
  ASSUME Typed, NEW e \in Execs, Undisturbed, ExecStep(e), ~disturbed'
  PROVE  Agree'
<1>1. CASE ToolFails(e)
  BY <1>1 DEF ToolFails, Breaks
<1>2. CASE KeepDownload(e) \/ WriteMetadata(e)
  <2>1. stage'[e] \in {"metadata", "normalize"} /\ UNCHANGED files
    BY <1>2 DEF KeepDownload, WriteMetadata, Advance, NextStage, Typed, TypeOK
  <2>2. Exists("full")' = Exists("full")
    BY <2>1 DEF Exists
  <2> QED BY <2>1, <2>2, AgreeFor DEF Undisturbed, Agree
<1> QED BY <1>1, <1>2, AgreeUseCached, AgreeCallTool, AgreeOpenOutput, AgreeFinishOutput,
           AgreeReadTranscript DEF ExecStep

LEMMA ConsistentKept ==
  ASSUME Typed, EmptyIsText, Consistent, [Next]_vars
  PROVE  Consistent'
<1>1. ASSUME NEW e \in Execs, Start(e), ~disturbed'
      PROVE  Undisturbed'
  <2>1. PICK o \in Options : opts' = [opts EXCEPT ![e] = o] /\ disturbed' = (disturbed \/ o.noCache \/ Active # {})
    BY <1>1 DEF Start
  <2>2. ~disturbed /\ ~o.noCache /\ Active = {} /\ Undisturbed
    BY <1>1, <2>1 DEF Consistent
  <2>3. /\ stage' = [x \in Execs |-> IF x = e THEN "fetch" ELSE "idle"]
        /\ UNCHANGED files
    BY <1>1, <2>2 DEF Start
  <2>4. Active' = {e}
    BY <2>3 DEF Active
  <2>5. \A x \in Execs : ~opts'[x].noCache
    BY <2>1, <2>2 DEF Undisturbed, Typed, TypeOK
  <2>6. SoundSoFar(e)'
    BY <1>1, <2>2, SoundStart DEF Undisturbed
  <2>7. Agree'
    BY <2>2, <2>3 DEF Undisturbed, Agree, Exists
  <2> QED BY <2>4, <2>5, <2>6, <2>7 DEF Undisturbed
<1>2. ASSUME NEW e \in Execs, ExecStep(e), ~disturbed'
      PROVE  Undisturbed'
  <2>1. ~disturbed
    BY <1>2 DEF ExecStep, UseCached, CallTool, OpenOutput, FinishOutput, KeepDownload, ToolFails,
                ReadTranscript, WriteMetadata, Breaks, history
  <2>2. Undisturbed /\ e \in Active /\ Active' \subseteq {e}
    BY <1>2, <2>1, OneMoves DEF Consistent, Undisturbed
  <2>3. KeepsSound(e)
    BY <1>2, <2>2, SoundStep DEF Undisturbed
  <2>4. \A x \in Execs : ~opts'[x].noCache
    <3>1. opts' = opts
      BY <1>2 DEF ExecStep, UseCached, CallTool, OpenOutput, FinishOutput, KeepDownload, ToolFails,
                  ReadTranscript, WriteMetadata, Breaks
    <3> QED BY <2>2, <3>1 DEF Undisturbed
  <2>5. stage'[e] # "idle"
    BY <1>2 DEF ExecStep, UseCached, CallTool, OpenOutput, FinishOutput, KeepDownload, ToolFails,
                ReadTranscript, WriteMetadata, Breaks, Advance, NextStage, At, Tools, Typed, TypeOK
  <2>6. Active' = {} => \A f \in Files : files'[f].state # "partial"
    <3>1. Active' = {} => stage'[e] = "done"
      BY <2>5 DEF Active
    <3> QED BY <2>3, <2>5, <3>1 DEF KeepsSound, SoundSoFar, Writes, Tools
  <2>7. Agree'
    BY <1>2, <2>2, AgreeStep
  <2> QED BY <2>2, <2>3, <2>4, <2>5, <2>6, <2>7 DEF Undisturbed, KeepsSound
<1>3. ASSUME NEW e \in Execs, Crash(e)
      PROVE  disturbed'
  BY <1>3 DEF Crash, Breaks
<1>4. ASSUME Untouched, UNCHANGED disturbed, ~disturbed'
      PROVE  Undisturbed'
  <2>1. Undisturbed /\ Active' = Active
    BY <1>4 DEF Consistent, Active, Untouched
  <2>2. \A e \in Active : SoundSoFar(e)'
    BY <1>4, <2>1, SoundUntouched DEF Undisturbed, Active
  <2>3. Agree'
    BY <1>4, <2>1 DEF Undisturbed, Agree, Exists, Untouched
  <2> QED BY <1>4, <2>1, <2>2, <2>3 DEF Undisturbed, Untouched
<1>5. CASE RemoteChanges \/ CollectTargets \/ UNCHANGED vars
  BY <1>4, <1>5 DEF RemoteChanges, CollectTargets, vars, execVars, history, Untouched,
                    Consistent
<1>6. ASSUME Delete, ~disturbed'
      PROVE  Undisturbed'
  <2>1. /\ Undisturbed /\ Active = {}
        /\ UNCHANGED <<stage, phase, opts, text, out>>
    BY <1>6 DEF Delete, Consistent, execVars
  <2>2. Active' = {} /\ \A x \in Execs : ~opts'[x].noCache
    BY <2>1 DEF Active, Undisturbed
  <2>3. \A f \in Files : files'[f].state # "partial"
    BY <1>6, <2>1 DEF Undisturbed, Delete, Absent
  <2>4. \/ ~Exists("full")'
        \/ files'["full"] = files["full"] /\ files'["transcript"] = files["transcript"]
    BY <1>6 DEF Delete, Exists, Present, Artifacts, IsResultFile, Absent, Files
  <2>5. \A x \in Execs : /\ stage'[x] \in {"idle", "done"}
                         /\ stage'[x] = "done" => text'[x].ver = out'[x].ver
    BY <2>1 DEF Active, Undisturbed, Agree
  <2>6. Agree'
    BY <2>1, <2>4, <2>5 DEF Undisturbed, Agree, Exists
  <2> QED BY <2>2, <2>3, <2>6 DEF Undisturbed
<1> QED BY <1>1, <1>2, <1>3, <1>5, <1>6 DEF Next, Consistent

\* As long as no execution was told to rebuild, failed, overlapped another or
\* lost its files to a cleanup, the transcript and the summary that one returns
\* are of one version, whatever was cleaned up in between.
THEOREM ResultsAreOfOneVersion == Spec => []OneVersionPerResult
<1>1. Init => Typed /\ EmptyIsText /\ Consistent
  <2> SUFFICES ASSUME Init PROVE Typed /\ EmptyIsText /\ Consistent
    OBVIOUS
  <2>2. \A f \in Files : files[f].state = "absent"
    BY DEF Init, Absent
  <2>3. Active = {} /\ \A e \in Execs : stage[e] = "idle" /\ ~opts[e].noCache
    BY DEF Init, Active
  <2>4. Undisturbed
    BY <2>2, <2>3 DEF Undisturbed, Agree, Exists, Files
  <2> QED BY <2>2, <2>4, TypedInit DEF EmptyIsText, Consistent
<1>2. Typed /\ EmptyIsText /\ Consistent /\ [Next]_vars => (Typed /\ EmptyIsText /\ Consistent)'
  BY TypedNext, EmptyIsTextKept, ConsistentKept
<1>3. Typed /\ Consistent => OneVersionPerResult
  BY DEF Typed, TypeOK, Consistent, Undisturbed, Agree, OneVersionPerResult
<1> QED BY <1>1, <1>2, <1>3, PTL DEF Spec

-----------------------------------------------------------------------------
(* The metadata *)

\* What somebody who holds a copy will write.
CopyOK(a) ==
  IF a \in Recorders
  THEN born # 0 => copy[a].created = born
  ELSE copy[a].created = born /\ (~stale => copy[a].by = last)

\* If everybody has seen what the others recorded: the file and all copies of
\* it agree about its creation; the file, and the copies of listers that no
\* record has passed, about its latest record; before the first record only
\* one at a time is about to write; and nobody writes into a deleted file.
Seen ==
  /\ state = "whole" => said.created = born /\ (~stale => said.by = last)
  /\ state = "absent" => born = 0 /\ last = 0
  /\ \A a \in Holding : CopyOK(a)
  /\ born = 0 => \A a, b \in Holding : a = b
  /\ orphans = {}

RecordInv == RecordTypes /\ (~blind => Seen)

LEMMA NothingSaid == Nothing \in Said /\ (RecordTypes => Readable \in Said)
BY DEF Nothing, Said, Titles, Readable, RecordTypes

LEMMA RecordInvInit == RecordInit => RecordInv
<1> SUFFICES ASSUME RecordInit PROVE RecordInv
  OBVIOUS
<1>1. Nothing \in Said /\ 0 \in 0 .. MaxLists /\ 0 \in 0 .. MaxRemovals
  BY NothingSaid, MetadataAssumption
<1>2. RecordTypes
  BY <1>1 DEF RecordInit, RecordTypes
<1>3. Holding = {}
  BY DEF RecordInit, Holding
<1> QED BY <1>2, <1>3 DEF RecordInit, RecordInv, Seen

\* A step by which nobody begins to hold a copy, and nothing is written.
LEMMA NothingWritten ==
  ASSUME RecordInv, RecordTypes', Holding' \subseteq Holding, orphans' \subseteq orphans,
         \A a \in Holding' : copy'[a].created = copy[a].created /\ copy'[a].by = copy[a].by,
         UNCHANGED <<born, last, blind, stale>>,
         state' = "empty" \/ UNCHANGED <<state, said>>
  PROVE  RecordInv'
BY DEF RecordInv, Seen, CopyOK

\* A read that is not blind: what is read agrees with the history.
LEMMA ReadSeen ==
  ASSUME RecordInv, NEW a \in Actors, a \notin Holding, NoticeRead(a), ~blind'
  PROVE  /\ Seen
         /\ Readable.created = born /\ (~stale => Readable.by = last)
         /\ born = 0 => Holding = {}
<1>1. ~blind /\ state \notin {"empty", "mixed"} /\ (Readable.created = 0 => Holding \ {a} = {})
  BY DEF NoticeRead
<1>2. Seen
  BY <1>1 DEF RecordInv
<1>3. CASE state = "absent"
  BY <1>1, <1>2, <1>3 DEF Seen, Readable, Nothing
<1>4. CASE state = "whole"
  BY <1>1, <1>2, <1>4 DEF Seen, Readable
<1> QED BY <1>1, <1>3, <1>4 DEF RecordInv, RecordTypes

LEMMA ReadRecordKeeps ==
  ASSUME RecordInv, NEW e \in Recorders, ReadRecord(e)
  PROVE  RecordInv'
<1> DEFINE mine == [copy[e] EXCEPT !.created = CreatedAt, !.by = now + 1]
<1>1. e \in Actors /\ e \notin Holding /\ CreatedAt \in Nat /\ now + 1 \in Nat
  BY NothingSaid DEF ReadRecord, Actors, Holding, CreatedAt, RecordInv, RecordTypes, Said
<1>2. mine \in Said /\ mine.created = CreatedAt
  BY <1>1 DEF RecordInv, RecordTypes, Said
<1>3. copy' = [copy EXCEPT ![e] = mine] /\ doing' = [doing EXCEPT ![e] = "open"] /\ now' = now + 1
  BY DEF ReadRecord
<1> HIDE DEF mine
<1>4. RecordTypes'
  BY <1>1, <1>2, <1>3 DEF ReadRecord, RecordInv, RecordTypes, NoticeRead, fileVars
<1>5. Holding' = Holding \cup {e}
  BY <1>1, <1>3 DEF Holding, RecordInv, RecordTypes
<1>6. ASSUME ~blind' PROVE Seen'
  <2>1. /\ Seen /\ Readable.created = born
        /\ born = 0 => Holding = {}
    BY <1>1, <1>6, ReadSeen DEF ReadRecord
  <2>2. born # 0 => mine.created = born
    BY <1>2, <2>1 DEF CreatedAt
  <2>3. UNCHANGED <<state, said, orphans, born, last, stale>>
    BY DEF ReadRecord, fileVars
  <2>4. ASSUME NEW a \in Holding' PROVE CopyOK(a)'
    <3>1. CASE a = e
      BY <1>1, <1>3, <2>2, <2>3, <3>1 DEF CopyOK, RecordInv, RecordTypes
    <3>2. CASE a # e
      BY <1>3, <1>5, <2>1, <2>3, <3>2 DEF CopyOK, Seen, Holding, RecordInv, RecordTypes
    <3> QED BY <3>1, <3>2
  <2> QED BY <1>5, <2>1, <2>3, <2>4 DEF Seen
<1> QED BY <1>4, <1>6 DEF RecordInv

LEMMA ListSourceKeeps ==
  ASSUME RecordInv, NEW w \in Listers, ListSource(w)
  PROVE  RecordInv'
<1>1. w \in Actors /\ w \notin Holding /\ w \notin Recorders /\ Readable \in Said
  BY NothingSaid, MetadataAssumption DEF ListSource, Actors, Holding, RecordInv
<1>2. lists' \in 0 .. MaxLists
  BY MetadataAssumption DEF ListSource, RecordInv, RecordTypes
<1>3. RecordTypes'
  BY <1>1, <1>2 DEF ListSource, RecordInv, RecordTypes, NoticeRead, fileVars
<1>4. UNCHANGED <<state, said, orphans, born, last, stale>>
  BY DEF ListSource, fileVars
<1>5. CASE UNCHANGED <<doing, copy, blind>>
  BY <1>3, <1>4, <1>5, NothingWritten DEF Holding
<1>6. CASE /\ doing' = [doing EXCEPT ![w] = "look"]
           /\ copy' = [copy EXCEPT ![w] = Readable]
           /\ NoticeRead(w)
  <2>1. Holding' = Holding \cup {w}
    BY <1>1, <1>6 DEF Holding, RecordInv, RecordTypes
  <2>2. ASSUME ~blind' PROVE Seen'
    <3>1. /\ Seen /\ Readable.created = born /\ (~stale => Readable.by = last)
          /\ born = 0 => Holding = {}
      BY <1>1, <1>6, <2>2, ReadSeen
    <3>2. ASSUME NEW a \in Holding' PROVE CopyOK(a)'
      <4>1. CASE a = w
        BY <1>1, <1>4, <1>6, <3>1, <4>1 DEF CopyOK, RecordInv, RecordTypes
      <4>2. CASE a # w
        BY <1>4, <1>6, <2>1, <3>1, <4>2 DEF CopyOK, Seen, Holding, RecordInv, RecordTypes
      <4> QED BY <4>1, <4>2
    <3> QED BY <1>4, <2>1, <3>1, <3>2 DEF Seen
  <2> QED BY <1>3, <2>2 DEF RecordInv
<1> QED BY <1>5, <1>6 DEF ListSource

\* A lister that has a title, one that has none, and anyone who is done.
LEMMA RetitleOrLeave ==
  ASSUME RecordInv, NEW a \in Actors,
         \/ \E title \in {"id", "real"} : Retitle(a, title)
         \/ Leave(a)
         \/ doing' = [doing EXCEPT ![a] = "ask"] /\ UNCHANGED copy
         , doing[a] \in {"look", "ask"} \/ Leave(a)
  PROVE  /\ Holding' \subseteq Holding
         /\ copy' \in [Actors -> Said]
         /\ doing' \in [Actors -> {"idle", "name", "read", "look", "ask", "open", "write"}]
         /\ \A b \in Holding' : copy'[b].created = copy[b].created /\ copy'[b].by = copy[b].by
<1> USE DEF RecordInv, RecordTypes
<1>1. CASE Leave(a)
  BY <1>1, NothingSaid DEF Leave, Holding
<1>2. ASSUME NEW title \in {"id", "real"}, Retitle(a, title), doing[a] \in {"look", "ask"}
      PROVE  /\ Holding' \subseteq Holding
             /\ copy' \in [Actors -> Said]
             /\ doing' \in [Actors -> {"idle", "name", "read", "look", "ask", "open", "write"}]
             /\ \A b \in Holding' : copy'[b].created = copy[b].created /\ copy'[b].by = copy[b].by
  <2>1. /\ Titled(a, title) \in Said
        /\ Titled(a, title).created = copy[a].created /\ Titled(a, title).by = copy[a].by
    BY DEF Titled, Said, Titles
  <2> QED BY <1>2, <2>1 DEF Retitle, Holding
<1>3. CASE /\ doing' = [doing EXCEPT ![a] = "ask"] /\ UNCHANGED copy
           /\ doing[a] \in {"look", "ask"}
  BY <1>3 DEF Holding
<1> QED BY <1>1, <1>2, <1>3

LEMMA LookForTitleKeeps ==
  ASSUME RecordInv, NEW w \in Listers, LookForTitle(w)
  PROVE  RecordInv'
<1>1. w \in Actors /\ doing[w] = "look"
  BY DEF Actors, LookForTitle
<1>2. \/ \E title \in {"id", "real"} : Retitle(w, title)
      \/ Leave(w)
      \/ doing' = [doing EXCEPT ![w] = "ask"] /\ UNCHANGED copy
  BY DEF LookForTitle
<1>3. /\ Holding' \subseteq Holding /\ copy' \in [Actors -> Said]
      /\ doing' \in [Actors -> {"idle", "name", "read", "look", "ask", "open", "write"}]
      /\ \A b \in Holding' : copy'[b].created = copy[b].created /\ copy'[b].by = copy[b].by
  BY <1>1, <1>2, RetitleOrLeave
<1>4. UNCHANGED <<fileVars, orphans, now, answer, lists, removals, born, last, blind, stale>>
  BY DEF LookForTitle
<1>5. RecordTypes'
  BY <1>3, <1>4 DEF RecordInv, RecordTypes, fileVars
<1> QED BY <1>3, <1>4, <1>5, NothingWritten DEF fileVars

LEMMA AnsweredKeeps ==
  ASSUME RecordInv, NEW w \in Listers, Answered(w)
  PROVE  RecordInv'
<1>1. w \in Actors /\ doing[w] = "ask"
  BY DEF Actors, Answered
<1>2. (\E title \in {"id", "real"} : Retitle(w, title)) \/ Leave(w)
  BY DEF Answered
<1>3. /\ Holding' \subseteq Holding /\ copy' \in [Actors -> Said]
      /\ doing' \in [Actors -> {"idle", "name", "read", "look", "ask", "open", "write"}]
      /\ \A b \in Holding' : copy'[b].created = copy[b].created /\ copy'[b].by = copy[b].by
  BY <1>1, <1>2, RetitleOrLeave
<1>4. UNCHANGED <<fileVars, orphans, now, lists, removals, born, last, blind, stale>>
  BY DEF Answered
<1>5. RecordTypes'
  BY <1>3, <1>4 DEF Answered, RecordInv, RecordTypes, fileVars
<1> QED BY <1>3, <1>4, <1>5, NothingWritten DEF fileVars

LEMMA OpenRecordKeeps ==
  ASSUME RecordInv, NEW a \in Actors, OpenRecord(a)
  PROVE  RecordInv'
<1>1. UNCHANGED <<youtube, infoJson, now, answer, lists, removals, born, last, blind, stale>>
      /\ orphans' = orphans \ {a}
  BY DEF OpenRecord
<1>2. CASE doing' = [doing EXCEPT ![a] = "write"] /\ state' = "empty" /\ said' = Nothing /\ UNCHANGED copy
  <2>1. RecordTypes'
    BY <1>1, <1>2, NothingSaid DEF RecordInv, RecordTypes
  <2>2. Holding' \subseteq Holding
    BY <1>2 DEF OpenRecord, Holding, RecordInv, RecordTypes
  <2> QED BY <1>1, <1>2, <2>1, <2>2, NothingWritten
<1>3. CASE Leave(a) /\ UNCHANGED <<state, said>>
  <2>1. /\ Holding' \subseteq Holding /\ copy' \in [Actors -> Said]
        /\ doing' \in [Actors -> {"idle", "name", "read", "look", "ask", "open", "write"}]
        /\ \A b \in Holding' : copy'[b].created = copy[b].created /\ copy'[b].by = copy[b].by
    BY <1>3, RetitleOrLeave
  <2>2. RecordTypes'
    BY <1>1, <1>3, <2>1 DEF RecordInv, RecordTypes
  <2> QED BY <1>1, <1>3, <2>1, <2>2, NothingWritten
<1> QED BY <1>2, <1>3 DEF OpenRecord

LEMMA BreaksOffKeeps ==
  ASSUME RecordInv, NEW a \in Actors, BreaksOff(a)
  PROVE  RecordInv'
<1>1. /\ Holding' \subseteq Holding /\ copy' \in [Actors -> Said]
      /\ doing' \in [Actors -> {"idle", "name", "read", "look", "ask", "open", "write"}]
      /\ \A b \in Holding' : copy'[b].created = copy[b].created /\ copy'[b].by = copy[b].by
  BY RetitleOrLeave DEF BreaksOff
<1>2. RecordTypes'
  BY <1>1 DEF BreaksOff, RecordInv, RecordTypes, fileVars
<1> QED BY <1>1, <1>2, NothingWritten DEF BreaksOff, fileVars

LEMMA WriteRecordKeeps ==
  ASSUME RecordInv, NEW a \in Actors, WriteRecord(a)
  PROVE  RecordInv'
<1>1. /\ a \in Holding /\ doing' = [doing EXCEPT ![a] = "idle"]
      /\ copy' = [copy EXCEPT ![a] = Nothing]
      /\ UNCHANGED <<youtube, infoJson, now, answer, lists, removals, blind>>
      /\ orphans' = orphans \ {a}
  BY DEF WriteRecord, Leave, Holding
<1>2. copy[a] \in Said /\ copy[a].created \in Nat /\ copy[a].by \in Nat
  BY DEF RecordInv, RecordTypes, Said
<1>3. RecordTypes'
  <2>1. state' \in {"absent", "empty", "mixed", "whole"} /\ said' \in Said
    BY <1>2, NothingSaid DEF WriteRecord, RecordInv, RecordTypes
  <2>2. born' \in Nat /\ last' \in Nat /\ stale' \in BOOLEAN
    BY <1>2 DEF WriteRecord, RecordInv, RecordTypes
  <2> QED BY <1>1, <2>1, <2>2, NothingSaid DEF RecordInv, RecordTypes
<1>4. Holding' = Holding \ {a} /\ \A b \in Holding' : copy'[b] = copy[b]
  BY <1>1 DEF Holding, RecordInv, RecordTypes
<1>5. ASSUME ~blind' PROVE Seen'
  <2>1. Seen /\ a \notin orphans
    BY <1>1, <1>5 DEF RecordInv, Seen
  <2>2. /\ \/ state' = "whole" /\ said' = copy[a]
           \/ state' = "mixed" /\ said' = Nothing
        /\ born' = IF born = 0 THEN copy[a].created ELSE born
        /\ last' = IF a \in Recorders THEN copy[a].by ELSE last
        /\ stale' = IF a \in Recorders THEN HoldingListers # {} ELSE stale
    BY <2>1 DEF WriteRecord
  <2>3. CopyOK(a) /\ (born = 0 => Holding = {a})
    BY <1>1, <2>1 DEF Seen
  <2>4. orphans' = {} /\ state' # "absent"
    BY <1>1, <2>1, <2>2 DEF Seen
  <2>5. CASE a \in Recorders
    <3>1. copy[a].created = born'
      BY <2>2, <2>3, <2>5 DEF CopyOK
    <3>2. state' = "whole" => said'.created = born' /\ said'.by = last'
      BY <2>2, <2>5, <3>1
    <3>3. ASSUME NEW b \in Holding' PROVE CopyOK(b)'
      <4>1. b \in Holding /\ born # 0 /\ born' = born /\ CopyOK(b) /\ copy'[b] = copy[b]
        BY <1>4, <2>1, <2>2, <2>3 DEF Seen
      <4>2. b \notin Recorders => stale'
        BY <2>2, <2>5, <4>1 DEF HoldingListers, Holding, Actors
      <4> QED BY <4>1, <4>2 DEF CopyOK
    <3>4. born' = 0 => Holding' = {}
      BY <1>4, <2>2, <2>3
    <3> QED BY <2>4, <3>2, <3>3, <3>4 DEF Seen
  <2>6. CASE a \notin Recorders
    <3>1. born' = born /\ last' = last /\ stale' = stale
      BY <2>2, <2>3, <2>6 DEF CopyOK
    <3>2. state' = "whole" => said'.created = born' /\ (~stale' => said'.by = last')
      BY <2>2, <2>3, <2>6, <3>1 DEF CopyOK
    <3>3. \A b \in Holding' : CopyOK(b)'
      BY <1>4, <2>1, <3>1 DEF CopyOK, Seen
    <3> QED BY <1>4, <2>1, <2>4, <3>1, <3>2, <3>3 DEF Seen
  <2> QED BY <2>5, <2>6
<1> QED BY <1>3, <1>5 DEF RecordInv

LEMMA RemoveRecordKeeps ==
  ASSUME RecordInv, RemoveRecord
  PROVE  RecordInv'
<1>1. removals' \in 0 .. MaxRemovals
  BY MetadataAssumption DEF RemoveRecord, RecordInv, RecordTypes
<1>2. RecordTypes'
  BY <1>1, NothingSaid DEF RemoveRecord, RecordInv, RecordTypes
<1>3. ASSUME ~blind' PROVE Seen'
  <2>1. Holding = {} /\ Holding' = {}
    BY <1>3 DEF RemoveRecord, Holding
  <2>2. orphans' = {}
    BY <2>1 DEF RemoveRecord, Holding
  <2> QED BY <2>1, <2>2 DEF RemoveRecord, Seen, RecordInv
<1> QED BY <1>2, <1>3 DEF RecordInv

LEMMA OtherRecordSteps ==
  ASSUME RecordInv,
         \/ \E e \in Recorders : FetchEnds(e) \/ NameSource(e)
         \/ RemoveInfo
         \/ UNCHANGED recordVars
  PROVE  RecordInv'
<1>1. ASSUME NEW e \in Recorders, FetchEnds(e) PROVE RecordInv'
  <2>1. RecordTypes' /\ Holding' = Holding
    BY <1>1 DEF FetchEnds, RecordInv, RecordTypes, Holding, Actors
  <2> QED BY <1>1, <2>1, NothingWritten DEF FetchEnds
<1>2. ASSUME NEW e \in Recorders, NameSource(e) PROVE RecordInv'
  <2>1. copy' \in [Actors -> Said]
    BY <1>2 DEF NameSource, RecordInv, RecordTypes, Said, Titles
  <2>2. RecordTypes' /\ Holding' = Holding /\ e \notin Holding
    BY <1>2, <2>1 DEF NameSource, RecordInv, RecordTypes, Holding, Actors, fileVars
  <2> QED BY <1>2, <2>2, NothingWritten DEF NameSource, fileVars, RecordInv, RecordTypes
<1>3. CASE RemoveInfo
  <2>1. removals' \in 0 .. MaxRemovals
    BY <1>3, MetadataAssumption DEF RemoveInfo, RecordInv, RecordTypes
  <2>2. RecordTypes' /\ Holding' = Holding
    BY <1>3, <2>1 DEF RemoveInfo, RecordInv, RecordTypes, Holding
  <2> QED BY <1>3, <2>2, NothingWritten DEF RemoveInfo
<1>4. CASE UNCHANGED recordVars
  <2>1. RecordTypes' /\ Holding' = Holding
    BY <1>4 DEF recordVars, fileVars, RecordInv, RecordTypes, Holding
  <2> QED BY <1>4, <2>1, NothingWritten DEF recordVars, fileVars
<1> QED BY <1>1, <1>2, <1>3, <1>4

LEMMA RecordNextKeeps == RecordInv /\ [RecordNext]_recordVars => RecordInv'
<1> SUFFICES ASSUME RecordInv, [RecordNext]_recordVars PROVE RecordInv'
  OBVIOUS
<1>1. ASSUME NEW a \in Actors, OpenRecord(a) \/ WriteRecord(a) \/ BreaksOff(a) PROVE RecordInv'
  BY <1>1, OpenRecordKeeps, WriteRecordKeeps, BreaksOffKeeps
<1>2. ASSUME NEW w \in Listers, ListSource(w) \/ LookForTitle(w) \/ Answered(w) PROVE RecordInv'
  BY <1>2, ListSourceKeeps, LookForTitleKeeps, AnsweredKeeps
<1> QED BY <1>1, <1>2, ReadRecordKeeps, RemoveRecordKeeps, OtherRecordSteps DEF RecordNext

\* Of metadata.json, the creation date and the latest writer survive all
\* interleavings of executions, listings, crashes and cleanups, of any number of
\* them, as long as nobody reads the file truncated or torn, reads it while the
\* first record is being made, or has it deleted under him; the latest writer,
\* as long as it did not write between a lister's read and its write
\* (write_source_metadata, discover_sources).
THEOREM MetadataSurvives == RecordSpec => []MetadataIsKept
<1>1. RecordInv => MetadataIsKept
  BY DEF RecordInv, Seen, MetadataIsKept
<1> QED BY <1>1, RecordInvInit, RecordNextKeeps, PTL DEF RecordSpec
=============================================================================
