----------------------------- MODULE SourceCache -----------------------------
(***************************************************************************)
(* The cache directory of one source and everybody who works in it: the    *)
(* executions of the audio_summary workflow (a worker thread and a run on  *)
(* the command line may execute the same source at once) and the cleanup.  *)
(* Of metadata.json only whether it is there: its content, and the source  *)
(* list of the web server that rewrites it, are in SourceMetadata.         *)
(*                                                                         *)
(* Every file is written in place: by requests, yt-dlp, ffmpeg and         *)
(* whisper-cli, or by write_text.  A file is used again, without           *)
(* no_cache, as soon as it exists.  Of a file's content the model keeps    *)
(* the version of the remote audio it was made from and whether it is      *)
(* complete.                                                               *)
(***************************************************************************)
EXTENDS Naturals, FiniteSets

CONSTANTS Execs,         \* who executes: worker threads, a command line
          NoOne,         \* not one of them
          Bounds         \* scenarios: kinds of sources, executions, executions at once,
                         \* their options, versions of the audio and
                         \* cleanups

Kinds == {"local", "direct", "wav", "ytdlp"}
Modes == {"full", "transcript"}

ASSUME CacheAssumption ==
    /\ NoOne \notin Execs
    /\ Bounds \subseteq [kinds: SUBSET Kinds, execs: Nat, active: Nat, noCache: SUBSET BOOLEAN,
                        modes: SUBSET Modes, versions: Nat \ {0}, cleanups: Nat]

Files == {"audio", "wav", "transcript", "full", "transcript-mode"}
Tools == {"fetch", "normalize", "transcribe", "summarize"}

Content == [ver: Nat, state: {"absent", "partial", "empty", "whole"},
            by: Execs \cup {NoOne}]
Absent == [ver |-> 0, state |-> "absent", by |-> NoOne]

VARIABLES
    bound,       \* the scenario
    kind,        \* what the source is; "wav" is a direct URL of a .wav file
    remote,      \* version of the audio the source has now
    dir,         \* the directory exists
    files,       \* the files in it
    meta, info,  \* metadata.json is there; the info.json of yt-dlp is
    stage,       \* the step an execution is at
    phase,       \* where in the step: check the cache, call, write, read
    opts,        \* its no_cache and mode
    input,       \* the content its tool reads
    text, out,   \* the transcript and the summary it has in memory
    started,     \* how many executions have started
    cleanup,     \* the scope of a cleanup that has collected its targets
    cleanups,
    clean,       \* history: executions that found no incomplete file
    alone,       \* history: executions nobody else overlapped
    due,         \* history: the version a no_cache execution should reach
    disturbed    \* history: something was rebuilt, broke off half-way,
                 \* overlapped, or had its files deleted

execVars == <<stage, phase, opts, input, text, out, started>>
cleanVars == <<cleanup, cleanups>>
history == <<clean, alone, due, disturbed>>
vars == <<bound, kind, remote, dir, files, meta, info, execVars, cleanVars, history>>

TypeOK ==
    /\ bound \in Bounds /\ kind \in Kinds /\ remote \in 1..bound.versions /\ dir \in BOOLEAN
    /\ files \in [Files -> Content] /\ meta \in BOOLEAN /\ info \in BOOLEAN
    /\ stage \in [Execs -> Tools \cup {"idle", "metadata", "done"}]
    /\ phase \in [Execs -> {"check", "call", "write", "read"}]
    /\ opts \in [Execs -> [noCache: BOOLEAN, mode: Modes]]
    /\ input \in [Execs -> Content] /\ text \in [Execs -> Content]
    /\ out \in [Execs -> Content] /\ started \in 0..bound.execs
    /\ cleanup \in {"none", "all", "finished", "artifacts"} /\ cleanups \in 0..bound.cleanups
    /\ clean \in SUBSET Execs /\ alone \in SUBSET Execs
    /\ due \in [Execs -> 0..bound.versions] /\ disturbed \in BOOLEAN

-----------------------------------------------------------------------------
Active == {e \in Execs : stage[e] \notin {"idle", "done"}}
Exists(f) == files[f].state # "absent"
Finished == Exists("transcript") \/ Exists("full") \/ Exists("transcript-mode")

\* paths.py: where the output of a step goes.  The download of a .wav URL has
\* the name of the normalized audio.
Output(e) == CASE stage[e] = "fetch"      -> IF kind = "wav" THEN "wav" ELSE "audio"
               [] stage[e] = "normalize"  -> "wav"
               [] stage[e] = "transcribe" -> "transcript"
               [] OTHER -> IF opts[e].mode = "full" THEN "full" ELSE "transcript-mode"

LocalFile == [ver |-> 1, state |-> "whole", by |-> NoOne]
Audio == IF kind = "local" THEN LocalFile ELSE IF kind = "wav" THEN files["wav"] ELSE files["audio"]
Source(e) == CASE stage[e] = "fetch"      -> [ver |-> remote, state |-> "whole", by |-> NoOne]
               [] stage[e] = "normalize"  -> Audio
               [] stage[e] = "transcribe" -> files["wav"]
               [] OTHER -> text[e]

NextStage(s) == CASE s = "fetch" -> "metadata" [] s = "metadata" -> "normalize"
                  [] s = "normalize" -> "transcribe" [] s = "transcribe" -> "summarize"
                  [] OTHER -> "done"

Init ==
    /\ bound \in Bounds /\ kind \in bound.kinds /\ remote = 1 /\ dir = FALSE
    /\ files = [f \in Files |-> Absent] /\ meta = FALSE /\ info = FALSE
    /\ stage = [e \in Execs |-> "idle"] /\ phase = [e \in Execs |-> "check"]
    /\ opts = [e \in Execs |-> [noCache |-> FALSE, mode |-> "full"]]
    /\ input = [e \in Execs |-> Absent] /\ text = [e \in Execs |-> Absent]
    /\ out = [e \in Execs |-> Absent] /\ started = 0
    /\ cleanup = "none" /\ cleanups = 0
    /\ clean = {} /\ alone = {} /\ due = [e \in Execs |-> 0]
    /\ disturbed = FALSE

\* The publisher replaces the audio.  A local file that changes is another
\* source: its id is made from its mtime.
RemoteChanges ==
    /\ kind # "local" /\ remote < bound.versions
    /\ remote' = remote + 1
    /\ UNCHANGED <<bound, kind, dir, files, meta, info, execVars, cleanVars, history>>

\* execute_source_workflow: the next execution.  Results are looked at until
\* then only.
Options == [noCache: bound.noCache, mode: bound.modes]
Start(e) ==
    /\ e \notin Active /\ started < bound.execs /\ Cardinality(Active) < bound.active
    /\ started' = started + 1
    /\ stage' = [x \in Execs |-> IF x = e THEN "fetch" ELSE IF x \in Active THEN stage[x] ELSE "idle"]
    /\ \E o \in Options :
          /\ opts' = [opts EXCEPT ![e] = o]
          /\ disturbed' = (disturbed \/ o.noCache \/ Active # {})
          /\ due' = [due EXCEPT ![e] = IF ~o.noCache THEN 0
                                       ELSE IF kind = "ytdlp" /\ Exists("audio")
                                            THEN files["audio"].ver ELSE remote]
    /\ text' = [x \in Execs |-> IF x \in Active THEN text[x] ELSE Absent]
    /\ out' = [x \in Execs |-> Absent]
    /\ clean' = (clean \cap Active) \cup (IF \E f \in Files : files[f].state = "partial" THEN {} ELSE {e})
    /\ alone' = IF Active = {} /\ cleanup = "none" THEN {e} ELSE {}
    /\ UNCHANGED <<bound, kind, remote, dir, files, meta, info, phase, input,
                   cleanVars>>

At(e, p) == e \in Active /\ stage[e] \in Tools /\ phase[e] = p

Advance(e) ==
    /\ stage' = [stage EXCEPT ![e] = NextStage(stage[e])]
    /\ phase' = [phase EXCEPT ![e] = "check"]

\* An execution that failed or crashed is forgotten; its files are not.
Breaks(e) ==
    /\ stage' = [stage EXCEPT ![e] = "idle"]
    /\ phase' = [phase EXCEPT ![e] = "check"]
    /\ input' = [input EXCEPT ![e] = Absent]
    /\ text' = [text EXCEPT ![e] = Absent]
    /\ opts' = [opts EXCEPT ![e] = [noCache |-> FALSE, mode |-> "full"]]
    /\ due' = [due EXCEPT ![e] = 0]
    /\ disturbed' = TRUE

\* A step takes its file from the cache if it exists, complete or not.  The
\* "transcript" mode is written every time.
CacheHit_Normalize(e) ==
    /\ Exists(Output(e)) /\ (~opts[e].noCache \/ stage[e] = "normalize")
    /\ ~(stage[e] = "summarize" /\ opts[e].mode = "transcript")
CacheHit(e) ==
    /\ Exists(Output(e)) /\ ~opts[e].noCache
    /\ ~(stage[e] = "summarize" /\ opts[e].mode = "transcript")

UseCached(e) ==
    /\ At(e, "check") /\ (CacheHit(e) \/ (stage[e] = "fetch" /\ kind = "local"))
    /\ dir' = TRUE
    /\ IF stage[e] = "transcribe"
       THEN phase' = [phase EXCEPT ![e] = "read"] /\ UNCHANGED stage
       ELSE Advance(e)
    /\ out' = IF stage[e] = "summarize" THEN [out EXCEPT ![e] = files[Output(e)]] ELSE out
    /\ UNCHANGED <<bound, kind, remote, files, meta, info, opts, input, text, started,
                   cleanVars, history>>

\* transcribe_audio and the search after yt-dlp look for the file they expect.
ChecksOutput(e) == stage[e] = "transcribe" \/ (stage[e] = "fetch" /\ kind = "ytdlp")

\* No cached file, or no_cache: the step calls its tool (requests, yt-dlp,
\* ffmpeg, whisper-cli, the model), which begins to read its input.
CallTool(e) ==
    /\ At(e, "check") /\ ~CacheHit(e) /\ ~(stage[e] = "fetch" /\ kind = "local")
    /\ dir' = TRUE
    /\ phase' = [phase EXCEPT ![e] = "call"]
    /\ input' = [input EXCEPT ![e] = Source(e)]
    /\ UNCHANGED <<bound, kind, remote, files, meta, info, stage, opts, text, out, started,
                   cleanVars, history>>

\* The tool opens its output for writing, which truncates it.  ffmpeg refuses
\* to write the file it reads; nothing can be written into a removed directory.
OpenOutput(e) ==
    /\ At(e, "call") /\ dir /\ input[e].state \notin {"absent", "empty"}
    /\ ~(stage[e] = "normalize" /\ kind = "wav")
    /\ phase' = [phase EXCEPT ![e] = "write"]
    /\ files' = [files EXCEPT ![Output(e)] =
                    [ver |-> 0, state |-> "partial", by |-> e]]
    /\ info' = (info \/ (stage[e] = "fetch" /\ kind = "ytdlp"))
    /\ UNCHANGED <<bound, kind, remote, dir, meta, stage, opts, input, text, out, started,
                   cleanVars, history>>

\* What the tool has written: whole if its input was whole and stayed so.
\* Whoever truncated the file since wrote over it, or was written over.
Written(e) ==
    LET f == files[Output(e)]
        sound == input[e].state = "whole" /\ (stage[e] = "fetch" \/ Source(e) = input[e])
        own == [ver |-> input[e].ver, state |-> "whole", by |-> NoOne]
        broken == [ver |-> 0, state |-> "partial", by |-> NoOne]
        silence == [ver |-> 0, state |-> "empty", by |-> NoOne]
    IN IF f.by # e THEN {f, [broken EXCEPT !.by = f.by]}
       ELSE IF ~sound THEN {broken}
       ELSE {own} \cup {c \in {silence} : stage[e] = "transcribe"}

\* The tool ends.  Of a file deleted meanwhile only transcribe_audio and the
\* search after yt-dlp take notice.
FinishOutput(e) ==
    /\ At(e, "write") /\ (Exists(Output(e)) \/ ~ChecksOutput(e))
    /\ IF Exists(Output(e))
       THEN \E c \in Written(e) : files' = [files EXCEPT ![Output(e)] = c]
       ELSE UNCHANGED files
    /\ IF stage[e] = "transcribe"
       THEN phase' = [phase EXCEPT ![e] = "read"] /\ UNCHANGED stage
       ELSE Advance(e)
    /\ out' = IF stage[e] = "summarize" THEN [out EXCEPT ![e] = text[e]] ELSE out
    /\ input' = [input EXCEPT ![e] = Absent]
    /\ UNCHANGED <<bound, kind, remote, dir, meta, info, opts, text, started,
                   cleanVars, history>>

\* yt-dlp does not download what is there already, no_cache or not.
KeepDownload(e) ==
    /\ At(e, "call") /\ stage[e] = "fetch" /\ kind = "ytdlp" /\ Exists("audio")
    /\ info' = TRUE
    /\ input' = [input EXCEPT ![e] = Absent]
    /\ Advance(e)
    /\ UNCHANGED <<bound, kind, remote, dir, files, meta, opts, text, out, started,
                   cleanVars, history>>

\* The tool fails before it has opened its output, or half-way, its output is
\* not found, or a local source is gone; what has been written stays.
ToolFails_Unnoticed(e) ==
    /\ At(e, "write") /\ stage[e] # "transcribe"
    /\ Advance(e)
    /\ out' = IF stage[e] = "summarize" THEN [out EXCEPT ![e] = text[e]] ELSE out
    /\ UNCHANGED <<bound, kind, remote, dir, files, meta, info, opts, input, text, started,
                   cleanVars, history>>
ToolFails(e) ==
    /\ At(e, "call") \/ At(e, "write") \/ (At(e, "check") /\ kind = "local" /\ stage[e] = "fetch")
    /\ Breaks(e)
    /\ UNCHANGED <<bound, kind, remote, dir, files, meta, info, out, started,
                   cleanVars, clean, alone>>

\* whisper_transcribe reads the transcript: an empty one is an error.
ReadTranscript(e) ==
    /\ At(e, "read")
    /\ IF files["transcript"].state \in {"absent", "empty"}
       THEN Breaks(e)
       ELSE /\ Advance(e)
            /\ text' = [text EXCEPT ![e] = [files["transcript"] EXCEPT !.by = NoOne]]
            /\ UNCHANGED <<input, opts, due, disturbed>>
    /\ UNCHANGED <<bound, kind, remote, dir, files, meta, info, out, started,
                   cleanVars, clean, alone>>

\* write_source_metadata.
WriteMetadata(e) ==
    /\ stage[e] = "metadata"
    /\ dir' = TRUE /\ meta' = TRUE
    /\ Advance(e)
    /\ UNCHANGED <<bound, kind, remote, files, info, opts, input, text, out, started,
                   cleanVars, history>>

\* The process dies, at the metadata before or after its file is created.
Crash(e) ==
    /\ e \in Active
    /\ Breaks(e)
    /\ \/ UNCHANGED meta
       \/ stage[e] = "metadata" /\ meta' = TRUE
    /\ UNCHANGED <<bound, kind, remote, dir, files, info, out, started, cleanVars, clean, alone>>
-----------------------------------------------------------------------------
IsResultFile_Summaries(f) == f \in {"full", "transcript-mode"}
IsResultFile(f) == f \in {"transcript", "full", "transcript-mode"}
Present == {f \in Files : Exists(f)} \cup (IF info THEN {"info"} ELSE {})
              \cup (IF meta THEN {"meta"} ELSE {})

\* run_cleanup: the targets are collected and shown.
Artifacts == {f \in Present : ~IsResultFile(f) /\ f # "meta"}
CollectTargets ==
    /\ cleanup = "none" /\ cleanups < bound.cleanups /\ dir
    /\ cleanups' = cleanups + 1
    /\ \/ cleanup' = "all"
       \/ cleanup' = "finished" /\ Finished
       \/ cleanup' = "artifacts" /\ Artifacts # {}
    /\ alone' = {}
    /\ UNCHANGED <<bound, kind, remote, dir, files, meta, info, execVars,
                   clean, due, disturbed>>

\* The answer is yes, the targets are deleted with what has been added to
\* them since; or it is no.  A directory left empty is removed.
Delete ==
    /\ cleanup # "none"
    /\ cleanup' = "none"
    /\ \/ LET gone == IF cleanup = "artifacts" THEN Artifacts ELSE Present
          IN /\ files' = [f \in Files |-> IF f \in gone THEN Absent ELSE files[f]]
             /\ meta' = (meta /\ "meta" \notin gone)
             /\ info' = (info /\ "info" \notin gone)
             /\ dir' = (Present \ gone # {})
       \/ UNCHANGED <<files, meta, info, dir>>
    /\ disturbed' = (disturbed \/ Active # {})
    /\ UNCHANGED <<bound, kind, remote, execVars, cleanups, clean, alone, due>>

ExecStep(e) ==
    \/ UseCached(e) \/ CallTool(e) \/ OpenOutput(e) \/ FinishOutput(e) \/ KeepDownload(e)
    \/ ToolFails(e) \/ ReadTranscript(e) \/ WriteMetadata(e)
Next ==
    \/ \E e \in Execs : Start(e) \/ ExecStep(e) \/ Crash(e)
    \/ RemoteChanges \/ CollectTargets \/ Delete

Spec == Init /\ [][Next]_vars
-----------------------------------------------------------------------------
\* An execution that found no incomplete file and worked alone returns a
\* summary made of complete files, however the executions before it ended and
\* whatever is cached (CacheHit, ToolFails).
SoundOutputs ==
    \A e \in clean \cap alone : stage[e] = "done" => out[e].state = "whole"

\* Alone, an execution with no_cache returns a summary of the audio that was
\* there when it started, not of a cached intermediate file; of yt-dlp it can
\* only expect the audio that yt-dlp keeps (CallTool in all four steps).
NoCacheIsFresh ==
    \A e \in clean \cap alone :
        stage[e] = "done" /\ opts[e].noCache => out[e].ver >= due[e]

\* As long as no execution was told to rebuild, failed, overlapped another or
\* lost its files to a cleanup, the transcript and the summary that one returns
\* are of one version, whatever was cleaned up in between (run_cleanup):
\* removing the artifacts never leaves a summary next to a newer transcript.
OneVersionPerResult ==
    \A e \in Execs : stage[e] = "done" /\ ~disturbed => text[e].ver = out[e].ver
=============================================================================
