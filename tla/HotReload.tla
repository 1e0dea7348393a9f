------------------------------ MODULE HotReload ------------------------------
(***************************************************************************)
(* The trigger threads of a running worker, and the files they come from:  *)
(* trigger files, written by the editor of the web server, the command     *)
(* line and the user; the file watcher, which compares modification times  *)
(* every five seconds; the reload, which replaces the trigger threads; and *)
(* the cron threads themselves (reload.py, worker.py, triggers/).          *)
(*                                                                         *)
(* The watcher watches modules and workflows too, and any change makes it  *)
(* reload the triggers.  That the reload also registers the modules again  *)
(* concerns no job: a job builds a registry of its own (pipeline.py).      *)
(*                                                                         *)
(* The watcher keeps a modification time for each file; all that matters   *)
(* is how it compares with the time of the file as it is now.  The clock   *)
(* is in minutes.                                                          *)
(***************************************************************************)
EXTENDS CronSchedule, FiniteSets

CONSTANTS
  Stems,         \* trigger files are <stem>.yaml and <stem>.yml
  OtherFiles,    \* files of modules and workflows
  Documents,     \* trigger documents, each [name, when, workflow, enabled]
  Absent, Blank, Broken, \* what is no definition: no file; a file truncated
                 \* and not written yet; text that does not parse, or has
                 \* no name, type or workflow
  Unreadable,    \* what load_triggers does not survive: text that is not
                 \* UTF-8, or an invalid date
  Names,         \* names of triggers
  Moment(_),     \* minute, hour, day, month and weekday of a minute
  MaxMinute,     \* bound: the clock
  Scenarios      \* bounds: what the files hold before a worker was started,
                 \* the time, the edits and the bodies they write, and the
                 \* faults: deaths of the worker, failing database calls,
                 \* minutes a thread sleeps through

TriggerFiles == Stems \X {"yaml", "yml"}
Paths        == TriggerFiles \cup OtherFiles

\* Of other files only matters that they change.
Bodies(p) == IF p \in TriggerFiles THEN Documents \cup {Broken, Unreadable} ELSE {Broken}

\* Room for two generations of threads (bound), one thread for each file.
Slots   == TriggerFiles \X {1, 2}
Minutes == 0..MaxMinute
Never   == -1
Kinds   == {"schedule", "interval"}

\* The key of an interval, "last_fired_<name>", among those that are minutes.
LastFired == -1

ASSUME DefinitionsAssumption ==
  /\ IsFiniteSet(Stems) /\ TriggerFiles \cap OtherFiles = {}
  /\ Absent \notin {Blank, Broken, Unreadable} /\ Blank \notin {Broken, Unreadable}
  /\ Broken # Unreadable /\ {Absent, Blank, Broken, Unreadable} \cap Documents = {}
  /\ \A d \in Documents :
       /\ d.name \in Names /\ d.enabled \in BOOLEAN
       /\ \/ d.when.kind \in {"schedule", "none"}
          \/ d.when.kind = "interval" /\ d.when.minutes \in Nat \ {0}
  /\ MaxMinute \in Nat
  /\ \A s \in Scenarios :
       /\ s.files \in [Paths -> UNION {Bodies(p) : p \in Paths} \cup {Absent, Blank}]
       /\ \A p \in Paths : s.files[p] \in Bodies(p) \cup {Absent, Blank}
       /\ s.minutes \in Minutes

VARIABLES
  body,      \* what is in each file
  recorded,  \* the watcher's time for a file: "absent", "same" or "other"
  writing,   \* the file write_text has truncated, and what it will write
  phase,     \* of the main thread until it watches, then of the reload thread
  watching,  \* the watcher has its first times
  toLoad,    \* files that load_triggers has listed and not read
  loaded,    \* what it has read: pairs of a file and its document
  listed,    \* trigger_threads
  stopping,  \* threads whose stop_event is set
  thread,    \* each thread: where it is, its trigger, the time it has read,
             \* last_fired_minute, and (history) when it was started
  stateDB,   \* trigger_state: when each key was seen
  fired,     \* how many jobs there are of each trigger, of its schedule and of
             \* its interval, for each minute
  now,       \* the clock
  missed,    \* history: a trigger changed behind the watcher's back
  twins,     \* history: triggers and minutes with two live threads
  lost,      \* history: firings, marked as seen, of which no job came
  slow,      \* history: minutes a thread has slept through
  edits, faults, bound

fileVars    == <<body, recorded, writing>>
workerVars  == <<phase, watching, toLoad, loaded, listed, stopping>>
cronVars    == <<thread, stateDB, fired>>
historyVars == <<missed, twins, lost, slow>>
vars == <<fileVars, workerVars, cronVars, now, historyVars, edits, faults, bound>>

Off == [pc |-> "off", doc |-> Absent, at |-> Never, last |-> Never, since |-> 0]

Live    == {t \in Slots : thread[t].pc \notin {"off", "dead"}}
Name(t) == thread[t].doc.name
Keys    == Names \X ({LastFired} \cup Minutes)

TypeOK ==
  /\ body = [p \in Paths |-> body[p]] /\ \A p \in Paths : body[p] \in Bodies(p) \cup {Absent, Blank}
  /\ recorded \in [Paths -> {"absent", "same", "other"}]
  /\ writing = Absent \/ (writing[1] \in Paths /\ writing[2] \in Bodies(writing[1]))
  /\ phase \in {"down", "list", "read", "seed", "wait", "stop"}
  /\ watching \in BOOLEAN
  /\ toLoad \in SUBSET TriggerFiles
  /\ loaded \in SUBSET (TriggerFiles \X Documents)
  /\ listed \in SUBSET Slots /\ stopping \in SUBSET Slots
  /\ thread \in [Slots -> [pc : {"off", "poll", "mark", "update", "enqueue", "dead"},
                           doc : Documents \cup {Absent}, at : {Never} \cup Minutes,
                           last : {Never} \cup Minutes, since : Minutes]]
  /\ \A t \in Live : thread[t].doc \in Documents
  /\ stateDB \in [Keys -> {Never} \cup Minutes]
  /\ fired \in [Names -> [Kinds -> [Minutes -> Nat]]]
  /\ now \in Minutes

-----------------------------------------------------------------------------
(* The files *)

Exists(p) == body[p] # Absent

\* The file gets another modification time, or none.
Touched(p) == [recorded EXCEPT ![p] = IF @ = "absent" THEN "absent" ELSE "other"]

\* The triggers on disk.
OnDisk == {pd \in TriggerFiles \X Documents : body[pd[1]] = pd[2]}

Fault  == faults < bound.faults /\ faults' = faults + 1
Edited ==
  /\ edits < bound.edits /\ edits' = edits + 1
  /\ UNCHANGED <<workerVars, cronVars, now, twins, lost, slow, faults>>

\* write_text truncates ...
Truncate(p, b) ==
  /\ writing = Absent /\ b \in bound.bodies
  /\ writing' = <<p, b>>
  /\ body' = [body EXCEPT ![p] = Blank]
  /\ recorded' = Touched(p)
  /\ UNCHANGED missed
  /\ Edited

\* ... and writes, into the void when the file was removed meanwhile. The clock
\* of the file system may not have moved since the truncation: if the watcher
\* looked in between, it has the time of the written file.
Write ==
  /\ writing # Absent
  /\ writing' = Absent
  /\ LET p == writing[1] IN
     IF ~Exists(p) THEN UNCHANGED <<body, recorded, missed>>
     ELSE /\ body' = [body EXCEPT ![p] = writing[2]]
          /\ \/ recorded' = Touched(p) /\ UNCHANGED missed
             \/ /\ recorded[p] = "same"
                /\ missed' = (missed \/ p \in TriggerFiles)
                /\ UNCHANGED recorded
  /\ UNCHANGED <<workerVars, cronVars, now, twins, lost, slow, edits, faults>>

\* handle_save_trigger: what parses is saved as <stem>.yaml.
Save(stem) == \E d \in Documents : Truncate(<<stem, "yaml">>, d)

\* for ext in (".yaml", ".yml"): the file of a stem is the first that exists.
FileOf(stem) == IF Exists(<<stem, "yaml">>) THEN <<stem, "yaml">> ELSE <<stem, "yml">>

\* The worker has taken a trigger from a file.
Taken(p) == (\E pd \in loaded : pd[1] = p) \/ (\E t \in listed : t[1] = p)

\* A load was given up, or found nothing to start.
Idling == phase = "wait" /\ listed = {}

\* A file that came and goes between two looks of the watcher was never there
\* for it, though a load in between may have found it, or failed because of it.
Remove(p) ==
  /\ Exists(p)
  /\ body' = [body EXCEPT ![p] = Absent]
  /\ recorded' = Touched(p)
  /\ UNCHANGED writing
  /\ Edited
  /\ missed' = (missed \/ (recorded[p] = "absent" /\ (Taken(p) \/ Idling)))

\* handle_delete_trigger, solux triggers delete
Delete(stem) == Remove(FileOf(stem))

\* handle_set_trigger_enabled (WebServer has the time it takes).
Toggle(stem) ==
  LET p == FileOf(stem) IN
  /\ body[p] \in Documents
  /\ \E d \in Documents :
       d = [body[p] EXCEPT !.enabled = d.enabled] /\ Truncate(p, d)

\* The user's own editor writes anything to any file.
EditByHand ==
  \E p \in Paths :
    \/ \E b \in Bodies(p) : Truncate(p, b)
    \/ Remove(p)

EditFiles ==
  \/ \E stem \in Stems : Save(stem) \/ Delete(stem) \/ Toggle(stem)
  \/ EditByHand
  \/ Write

-----------------------------------------------------------------------------
(* The worker: start, watcher and reload *)

Worker(from, to) == phase = from /\ phase' = to
Unchanged == UNCHANGED <<fileVars, now, edits, faults>>

\* The main thread loads the triggers for the first time.
StartWorker ==
  /\ Worker("down", "list")
  /\ UNCHANGED <<watching, toLoad, loaded, listed, stopping, cronVars, historyVars>>
  /\ Unchanged

\* FileWatcher._initialize, check: the times of the files that are there.
Times == [p \in Paths |-> IF Exists(p) THEN "same" ELSE "absent"]

\* A file on disk is unreadable.
Spoilt == \E p \in TriggerFiles : body[p] = Unreadable

\* The watcher takes its first times after the triggers were loaded: what was
\* edited in between it takes for old.
Seed ==
  /\ Worker("seed", "wait")
  /\ watching' = TRUE /\ loaded' = {}
  /\ recorded' = Times
  /\ missed' = (OnDisk # loaded \/ Spoilt)
  /\ UNCHANGED <<body, writing, now, edits, faults>>
  /\ UNCHANGED <<toLoad, listed, stopping, cronVars, twins, lost, slow>>

\* Mutation: files that are gone are not looked for.
Changed_NotGone == {p \in Paths : Exists(p) /\ recorded[p] # "same"}

\* Files whose time is another, that are new, or that are gone.
Changed == {p \in Paths : recorded[p] # (IF Exists(p) THEN "same" ELSE "absent")}

\* FileWatcher.check: it keeps the new times, and the reload begins.
Check ==
  /\ Worker("wait", "stop")
  /\ Changed # {}
  /\ recorded' = Times
  /\ UNCHANGED <<body, writing, now, edits, faults>>
  /\ UNCHANGED <<watching, toLoad, loaded, listed, stopping, cronVars, historyVars>>

\* _stop_trigger_threads: the event is set; each thread gets two seconds to end,
\* and is forgotten then, ended or not.
StopThreads ==
  /\ Worker("stop", "list")
  /\ stopping' = stopping \cup listed
  /\ listed' = {}
  /\ UNCHANGED <<watching, toLoad, loaded, cronVars, historyVars>>
  /\ Unchanged

\* The document of a file; none when the file is gone, blank or broken, which is
\* reported.
Parsed(p) == {<<p, body[p]>>} \cap OnDisk

\* load_triggers lists the directory and reads one file after the other.
ListFiles ==
  /\ Worker("list", "read")
  /\ toLoad' = {p \in TriggerFiles : Exists(p)}
  /\ loaded' = {}
  /\ missed' = FALSE
  /\ UNCHANGED <<watching, listed, stopping, cronVars, twins, lost, slow>>
  /\ Unchanged

IsNext(p) == p \in toLoad /\ (p[2] = "yml" => \A q \in toLoad : q[2] = "yml")

\* Mutation: what cannot be read is left out.
ReadFile_Tolerant ==
  /\ phase = "read"
  /\ \E p \in toLoad : IsNext(p) /\ toLoad' = toLoad \ {p} /\ loaded' = loaded \cup Parsed(p)
  /\ UNCHANGED <<phase, watching, listed, stopping, cronVars, historyVars>>
  /\ Unchanged
ReadFile ==
  /\ phase = "read"
  /\ \E p \in toLoad :
       /\ IsNext(p) /\ body[p] # Unreadable
       /\ toLoad' = toLoad \ {p}
       /\ loaded' = loaded \cup Parsed(p)
  /\ UNCHANGED <<phase, watching, listed, stopping, cronVars, historyVars>>
  /\ Unchanged

\* UnicodeDecodeError and ValueError go through load_triggers.  The worker that
\* starts dies of them; a reload is given up, with the threads stopped.
LoadFails ==
  /\ phase = "read"
  /\ \E p \in toLoad : IsNext(p) /\ body[p] = Unreadable
  /\ toLoad' = {} /\ loaded' = {}
  /\ phase' = IF watching THEN "wait" ELSE "down"
  /\ UNCHANGED <<watching, listed, stopping, cronVars, historyVars>>
  /\ Unchanged

\* Mutation: the new threads get the stop_event of the old ones.
Hears_OldEvent(new) == stopping

\* The new threads have a stop_event of their own, which is not set.
Hears(new) == stopping \ new

\* A slot no thread of an earlier generation holds.
FreeSlot(p) == CHOOSE t \in Slots \ Live : t[1] = p

\* Names that two live threads share.
Twins(threads) ==
  LET live == {t \in Slots : threads[t].pc \notin {"off", "dead"}}
  IN  {n \in Names : Cardinality({t \in live : threads[t].doc.name = n}) > 1}

\* run_triggers starts one thread for each trigger that is enabled; the thread
\* of a cron trigger that has no schedule and no interval ends at once.
StartThreads ==
  /\ phase = "read" /\ toLoad = {}
  /\ phase' = IF watching THEN "wait" ELSE "seed"
  /\ LET enabled == {pd \in loaded : pd[2].enabled}
         new     == {FreeSlot(pd[1]) : pd \in enabled}
         DocOf(t) == (CHOOSE pd \in enabled : pd[1] = t[1])[2]
     IN  /\ \A pd \in enabled : \E t \in Slots \ Live : t[1] = pd[1]
         /\ thread' = [t \in Slots |->
              IF t \in new
              THEN [Off EXCEPT !.doc = DocOf(t), !.since = now,
                               !.pc = IF DocOf(t).when.kind = "none" THEN "off" ELSE "poll"]
              ELSE thread[t]]
         /\ listed' = new
         /\ stopping' = Hears(new)
  /\ twins' = twins \cup Twins(thread') \X {now}
  /\ IF watching THEN loaded' = {} ELSE UNCHANGED loaded
  /\ UNCHANGED <<watching, toLoad, stateDB, fired, missed, lost, slow>>
  /\ Unchanged

Reload ==
  \/ Seed \/ Check \/ StopThreads \/ ListFiles \/ ReadFile \/ LoadFails \/ StartThreads

-----------------------------------------------------------------------------
(* Cron threads *)

Goto(t, pc) == thread' = [thread EXCEPT ![t].pc = pc]
ThreadStep  == UNCHANGED <<fileVars, workerVars, now, missed, twins, slow, edits>>

\* The item_key of a firing: an interval has one row, a schedule one for each
\* minute.
KeyOf(t, minute) ==
  <<Name(t), IF thread[t].doc.when.kind = "interval" THEN LastFired ELSE minute>>

\* Mutation: only the thread itself remembers the minute.
ScheduleDue_InMemory(t) ==
  now # thread[t].last /\ CronMatches(thread[t].doc.when.schedule, Moment(now))

\* Whether a schedule matches the minute the clock shows, once in a minute.
ScheduleDue(t) ==
  LET when == thread[t].doc.when IN
  /\ now # thread[t].last
  /\ CronMatches(when.schedule, Moment(now))
  /\ stateDB[KeyOf(t, now)] = Never

\* Whether the interval is over; a trigger never seen fires at once.
IntervalDue(t) ==
  LET seenAt == stateDB[KeyOf(t, now)] IN
  seenAt = Never \/ now - seenAt >= thread[t].doc.when.minutes

Due(t) == IF thread[t].doc.when.kind = "interval" THEN IntervalDue(t) ELSE ScheduleDue(t)

\* The loop is left when the stop_event is set; else the clock is read and the
\* state table looked up. An interval has precedence over a schedule.
Poll(t) ==
  /\ thread[t].pc = "poll" /\ t \notin stopping
  /\ thread' = [thread EXCEPT ![t].at = now,
                              ![t].pc = IF Due(t) THEN "mark" ELSE "poll",
                              ![t].last = IF Due(t) /\ thread[t].doc.when.kind = "schedule" THEN now ELSE @]
  /\ UNCHANGED <<stateDB, fired, lost, faults>>
  /\ ThreadStep

LeaveLoop(t) ==
  /\ thread[t].pc = "poll" /\ t \in stopping
  /\ thread' = [thread EXCEPT ![t] = Off]
  /\ UNCHANGED <<stateDB, fired, lost, faults>>
  /\ ThreadStep

\* Mutation: a minute that was marked is left to the next round.
AfterMark_Next(t) == "poll"

AfterMark(t) == IF thread[t].doc.when.kind = "interval" THEN "update" ELSE "enqueue"

\* _mark_seen: INSERT OR IGNORE, with the time of the call.
Mark(t) ==
  /\ thread[t].pc = "mark"
  /\ stateDB' = [stateDB EXCEPT ![KeyOf(t, thread[t].at)] = IF @ = Never THEN now ELSE @]
  /\ Goto(t, AfterMark(t))
  /\ UNCHANGED <<fired, lost, faults>>
  /\ ThreadStep

\* Mutation: the row keeps the time of the first firing.
Update_Not(t) ==
  /\ thread[t].pc = "update"
  /\ Goto(t, "enqueue")
  /\ UNCHANGED <<stateDB, fired, lost, faults>>
  /\ ThreadStep

\* The row of an interval gets the time that was read at the poll.
Update(t) ==
  /\ thread[t].pc = "update"
  /\ stateDB' = [stateDB EXCEPT ![KeyOf(t, thread[t].at)] = thread[t].at]
  /\ Goto(t, "enqueue")
  /\ UNCHANGED <<fired, lost, faults>>
  /\ ThreadStep

Enqueue(t) ==
  /\ thread[t].pc = "enqueue"
  /\ fired' = [fired EXCEPT ![Name(t)][thread[t].doc.when.kind][thread[t].at] = @ + 1]
  /\ Goto(t, "poll")
  /\ UNCHANGED <<stateDB, lost, faults>>
  /\ ThreadStep

\* enqueue_jobs raises: logged, and the firing is lost.  Any other call of the
\* database that raises ends the thread, and nothing replaces it before the
\* next reload.
CallFails(t) ==
  /\ t \in Live
  /\ thread[t].pc = "poll" => t \notin stopping
  /\ Fault
  /\ lost' = lost \cup (IF thread[t].pc \in {"update", "enqueue"}
                        THEN {<<Name(t), thread[t].at>>} ELSE {})
  /\ thread' = [thread EXCEPT ![t] = IF @.pc = "enqueue" THEN [@ EXCEPT !.pc = "poll"]
                                     ELSE [Off EXCEPT !.pc = "dead", !.doc = thread[t].doc]]
  /\ UNCHANGED <<stateDB, fired>>
  /\ ThreadStep

ThreadProgress(t) == Poll(t) \/ LeaveLoop(t) \/ Mark(t) \/ Update(t) \/ Enqueue(t)

-----------------------------------------------------------------------------
\* The wait of 30 seconds lets a thread wake up in each minute, unless calls of
\* the database take that long.
Sleepers == {t \in Live : thread[t].at # now}

Tick ==
  /\ now < bound.minutes
  /\ now' = now + 1
  /\ IF Sleepers = {} THEN UNCHANGED <<slow, faults>>
     ELSE Fault /\ slow' = slow \cup {now}
  /\ twins' = twins \cup Twins(thread) \X {now + 1}
  /\ UNCHANGED <<fileVars, workerVars, cronVars, missed, lost, edits>>

\* The process ends, killed or stopped, and its daemon threads with it.
Crash ==
  /\ phase # "down"
  /\ Fault
  /\ phase' = "down" /\ watching' = FALSE
  /\ toLoad' = {} /\ loaded' = {} /\ listed' = {} /\ stopping' = {}
  /\ thread' = [t \in Slots |-> Off]
  /\ recorded' = [p \in Paths |-> "absent"]
  /\ missed' = FALSE
  /\ lost' = lost \cup {<<Name(t), thread[t].at>> :
                          t \in {u \in Live : thread[u].pc \in {"update", "enqueue"}}}
  /\ UNCHANGED <<body, writing, stateDB, fired, now, twins, slow, edits>>

Init ==
  /\ bound \in Scenarios /\ body = bound.files
  /\ recorded = [p \in Paths |-> "absent"] /\ writing = Absent
  /\ phase = "down" /\ watching = FALSE
  /\ toLoad = {} /\ loaded = {} /\ listed = {} /\ stopping = {}
  /\ thread = [t \in Slots |-> Off]
  /\ stateDB = [k \in Keys |-> Never]
  /\ fired = [n \in Names |-> [k \in Kinds |-> [m \in Minutes |-> 0]]]
  /\ now = 0
  /\ missed = FALSE /\ twins = {} /\ lost = {} /\ slow = {}
  /\ edits = 0 /\ faults = 0

Next ==
  /\ \/ StartWorker \/ Reload \/ EditFiles \/ Tick \/ Crash
     \/ \E t \in Slots : ThreadProgress(t) \/ CallFails(t)
  /\ UNCHANGED bound

Spec == Init /\ [][Next]_vars

\* The process goes on as long as one of its threads, or a write, has anything
\* left to do. Nobody has to edit, no time has to pass, and the worker may stay
\* down.
Fairness ==
  WF_vars((Reload \/ Write \/ \E t \in Slots : ThreadProgress(t)) /\ UNCHANGED bound)

FairSpec == Spec /\ Fairness

-----------------------------------------------------------------------------
(* Properties *)

Quiet == watching /\ phase = "wait" /\ Changed = {}

\* Threads stand for files: one for each trigger that is enabled on disk, with
\* the document that is on disk, and no other; none at all if there is a file
\* that load_triggers cannot read.
InStep ==
  /\ {<<t[1], thread[t].doc>> : t \in listed} = {pd \in OnDisk : pd[2].enabled /\ ~Spoilt}
  /\ \A t \in Slots \ listed : t \in Live => t \in stopping

\* When the watcher finds nothing, the trigger threads are those of the files,
\* whatever was edited, truncated, removed or unreadable before, during and after
\* a load; except for what changed between the first load and the first times,
\* or within the resolution of a modification time (_restart_triggers, _reload).
WorkerIsCurrent == Quiet /\ ~missed => InStep

\* Edits end, and the reload comes to an end with them: a worker that stays up
\* works in the end with what is on disk, and old threads are gone; with nothing, as
\* long as one of its files is unreadable.  No restart is needed for it, whatever
\* docs/TUTORIAL.md:1510 says.
EditsTakeEffect ==
  <>[](phase # "down" /\ ~missed => InStep /\ Live \subseteq listed)

\* A trigger fires at most once for one minute by its schedule, and at most once
\* by its interval, over reloads and crashes of the worker and changes of the
\* file, unless two of its threads lived in it: the row is looked up and written
\* in two transactions (CronTrigger.run). Who makes an interval of a schedule, or
\* the reverse, starts afresh: the two have different rows.
OncePerMinute ==
  \A n \in Names, kind \in Kinds, m \in Minutes :
    fired[n][kind][m] > 1 => <<n, m>> \in twins

\* A minute that a schedule matches and that a thread has lived through from its
\* beginning is fired, unless the database failed, the worker died in between,
\* or the thread was not awake in it.
DueMinutesFire ==
  \A t \in Live, m \in Minutes :
    /\ thread[t].since < m /\ m <= thread[t].at /\ m \notin slow
    /\ thread[t].doc.when.kind = "schedule"
    /\ CronMatches(thread[t].doc.when.schedule, Moment(m))
    => \/ fired[Name(t)]["schedule"][m] > 0
       \/ <<Name(t), m>> \in lost
       \/ \E u \in Live : Name(u) = Name(t) /\ thread[u].at = m /\ thread[u].pc # "poll"

\* Two firings of an interval are at least that interval apart, also over
\* restarts, which read the time of the last one from the table.
IntervalsAreKept ==
  \A d \in Documents, m1, m2 \in Minutes :
    /\ d.when.kind = "interval"
    /\ \A e \in Documents : e.name = d.name /\ e.when.kind = "interval" => e.when = d.when
    /\ m1 < m2 /\ fired[d.name]["interval"][m1] > 0 /\ fired[d.name]["interval"][m2] > 0
    => m2 - m1 >= d.when.minutes \/ \E m \in m1..m2 : <<d.name, m>> \in twins

\* A trigger fires when it should, and not before: a schedule in each minute it
\* matches, an interval when it is over.
FiringsAreDue == DueMinutesFire /\ IntervalsAreKept
=============================================================================
