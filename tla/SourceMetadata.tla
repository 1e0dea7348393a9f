---------------------------- MODULE SourceMetadata ----------------------------
(***************************************************************************)
(* metadata.json of one source, step by step: the executions that record   *)
(* the source in it (write_source_metadata), the request threads of the    *)
(* web server that improve its title when they list the sources            *)
(* (discover_sources), and cleanups.  Everybody reads the file, makes a    *)
(* new content of what he has read, opens the file for writing, which      *)
(* truncates it, and writes; nothing is locked.                            *)
(***************************************************************************)
EXTENDS Naturals

CONSTANTS Recorders,     \* executions of the source_fetch step
          Listers,       \* request threads that list the sources
          MaxRecords, MaxLists, MaxRemovals   \* bounds

ASSUME MetadataAssumption ==
    /\ Recorders \cap Listers = {}
    /\ MaxRecords \in Nat /\ MaxLists \in Nat /\ MaxRemovals \in Nat

Actors == Recorders \cup Listers

\* "id" is the source's id as a title, of a file that does not say its source.
Titles == {"missing", "generic", "id", "real"}
\* What a file says: created_at, the execution that wrote it (updated_at and
\* the other keys), and display_name.  0 is a missing key.
Said == [created: Nat, by: Nat, title: Titles]
Nothing == [created |-> 0, by |-> 0, title |-> "missing"]

VARIABLES
    youtube,     \* the source is a YouTube URL; all others have a name
    state, said, \* metadata.json: "mixed" is of two writers and no JSON
    infoJson,    \* yt-dlp's info.json is there, with the title
    doing, copy, \* where an actor is; what it has read, then what it writes
    orphans,     \* actors whose open file has been deleted
    now,         \* the clock: the executions that have looked at it
    answer,      \* _TITLE_LOOKUP_CACHE of the web server
    lists, removals,
    born, last,  \* history: created_at of the file's first record, and the
                 \* latest record written into it
    blind,       \* history: somebody could not see what others had recorded
    stale        \* history: a record was written behind a lister's back

fileVars == <<youtube, state, said, infoJson>>
recordVars == <<fileVars, doing, copy, orphans, now, answer, lists, removals,
                born, last, blind, stale>>

RecordTypes ==
    /\ youtube \in BOOLEAN /\ infoJson \in BOOLEAN
    /\ state \in {"absent", "empty", "mixed", "whole"} /\ said \in Said
    /\ doing \in [Actors -> {"idle", "name", "read", "look", "ask", "open", "write"}]
    /\ copy \in [Actors -> Said] /\ orphans \in SUBSET Actors
    /\ now \in Nat /\ answer \in {"unknown", "none", "real"}
    /\ lists \in 0..MaxLists /\ removals \in 0..MaxRemovals
    /\ born \in Nat /\ last \in Nat /\ blind \in BOOLEAN /\ stale \in BOOLEAN

RecordInit ==
    /\ youtube \in BOOLEAN /\ infoJson = FALSE
    /\ state = "absent" /\ said = Nothing
    /\ doing = [a \in Actors |-> "idle"] /\ copy = [a \in Actors |-> Nothing]
    /\ orphans = {} /\ now = 0 /\ answer = "unknown" /\ lists = 0 /\ removals = 0
    /\ born = 0 /\ last = 0 /\ blind = FALSE /\ stale = FALSE

-----------------------------------------------------------------------------
\* Those who have read the file and have not written it.
Holding == {a \in Actors : doing[a] \in {"look", "ask", "open", "write"}}
HoldingListers == Holding \cap Listers

Readable == IF state = "whole" THEN said ELSE Nothing

\* The history of a read: it is blind if the file is there and cannot be
\* read, or says nothing of its creation while another is about to write it.
NoticeRead(a) ==
    blind' = \/ blind
             \/ state \in {"empty", "mixed"}
             \/ Readable.created = 0 /\ Holding \ {a} # {}

\* An execution has its audio; yt-dlp has left info.json, or an older one is.
FetchEnds(e) ==
    /\ doing[e] = "idle" /\ now < MaxRecords
    /\ doing' = [doing EXCEPT ![e] = "name"]
    /\ infoJson' \in {infoJson, infoJson \/ youtube}
    /\ UNCHANGED <<youtube, state, said, copy, orphans, now, answer, lists, removals,
                   born, last, blind, stale>>

\* display_name_for_source.
NameSource(e) ==
    /\ doing[e] = "name"
    /\ doing' = [doing EXCEPT ![e] = "read"]
    /\ copy' = [copy EXCEPT ![e].title = IF youtube /\ ~infoJson THEN "generic" ELSE "real"]
    /\ UNCHANGED <<fileVars, orphans, now, answer, lists, removals, born, last, blind, stale>>

\* write_source_metadata takes the time and reads the old file, of which it
\* keeps created_at.
CreatedAt_Now == now + 1
CreatedAt == IF Readable.created # 0 THEN Readable.created ELSE now + 1
ReadRecord(e) ==
    /\ doing[e] = "read"
    /\ doing' = [doing EXCEPT ![e] = "open"]
    /\ now' = now + 1
    /\ copy' = [copy EXCEPT ![e].created = CreatedAt, ![e].by = now + 1]
    /\ NoticeRead(e)
    /\ UNCHANGED <<fileVars, orphans, answer, lists, removals, born, last, stale>>

\* discover_sources, of a source with results: _read_metadata.
ListSource(w) ==
    /\ doing[w] = "idle" /\ lists < MaxLists
    /\ lists' = lists + 1
    /\ IF Readable.title \in {"missing", "generic"}
       THEN /\ doing' = [doing EXCEPT ![w] = "look"]
            /\ copy' = [copy EXCEPT ![w] = Readable]
            /\ NoticeRead(w)
       ELSE UNCHANGED <<doing, copy, blind>>
    /\ UNCHANGED <<fileVars, orphans, now, answer, removals, born, last, stale>>

\* updated = dict(meta), with the title; the actor goes on to write it.
Titled_Only(w, title) == [Nothing EXCEPT !.title = title]
Titled(w, title) == [copy[w] EXCEPT !.title = title]
Retitle(w, title) ==
    /\ doing' = [doing EXCEPT ![w] = "open"]
    /\ copy' = [copy EXCEPT ![w] = Titled(w, title)]

Leave(a) ==
    /\ doing' = [doing EXCEPT ![a] = "idle"]
    /\ copy' = [copy EXCEPT ![a] = Nothing]

\* The title in info.json; else, without a source, the id; else what yt-dlp
\* has answered before, or is asked now.  Without yt-dlp, or after a failure,
\* the generic title stays.
LookForTitle(w) ==
    /\ doing[w] = "look"
    /\ CASE infoJson -> Retitle(w, "real")
         [] ~infoJson /\ copy[w].by = 0 -> Retitle(w, "id")
         [] ~infoJson /\ copy[w].by # 0 ->
              \/ answer = "real" /\ Retitle(w, "real")
              \/ answer = "unknown" /\ doing' = [doing EXCEPT ![w] = "ask"] /\ UNCHANGED copy
              \/ Leave(w)
    /\ UNCHANGED <<fileVars, orphans, now, answer, lists, removals, born, last, blind, stale>>

\* yt-dlp --print title, up to 20 seconds.
Answered(w) ==
    /\ doing[w] = "ask"
    /\ \/ answer' = "real" /\ Retitle(w, "real")
       \/ answer' = "none" /\ Leave(w)
    /\ UNCHANGED <<fileVars, orphans, now, lists, removals, born, last, blind, stale>>

\* write_text opens the file.  Without a directory it cannot: the execution
\* fails, the lister ignores it.
OpenRecord(a) ==
    /\ doing[a] = "open"
    /\ \/ /\ doing' = [doing EXCEPT ![a] = "write"]
          /\ state' = "empty" /\ said' = Nothing
          /\ UNCHANGED copy
       \/ state = "absent" /\ Leave(a) /\ UNCHANGED <<state, said>>
    /\ orphans' = orphans \ {a}
    /\ UNCHANGED <<youtube, infoJson, now, answer, lists, removals, born, last, blind, stale>>

\* It writes from the file's beginning.  What another has written since the
\* file was truncated is replaced, or its end shows behind the new content.
WriteRecord(a) ==
    /\ doing[a] = "write"
    /\ Leave(a)
    /\ IF a \in orphans
       THEN UNCHANGED <<state, said, born, last, stale>>
       ELSE /\ \/ state' = "whole" /\ said' = copy[a]
               \/ state # "empty" /\ state' = "mixed" /\ said' = Nothing
            /\ born' = IF born = 0 THEN copy[a].created ELSE born
            /\ last' = IF a \in Recorders THEN copy[a].by ELSE last
            /\ stale' = IF a \in Recorders THEN HoldingListers # {} ELSE stale
    /\ orphans' = orphans \ {a}
    /\ UNCHANGED <<youtube, infoJson, now, answer, lists, removals, blind>>

\* The process dies, or the step fails: a mixed file may not even be UTF-8.
BreaksOff(a) ==
    /\ doing[a] # "idle"
    /\ Leave(a)
    /\ orphans' = orphans \ {a}
    /\ UNCHANGED <<fileVars, now, answer, lists, removals, born, last, blind, stale>>

\* A cleanup unlinks info.json, or metadata.json as well; the file of a writer
\* that has it open is gone with his content.  Where nobody is at work, the
\* next file is a new one.
RemoveInfo ==
    /\ infoJson /\ removals < MaxRemovals
    /\ removals' = removals + 1 /\ infoJson' = FALSE
    /\ UNCHANGED <<youtube, state, said, doing, copy, orphans, now, answer, lists,
                   born, last, blind, stale>>
RemoveRecord ==
    /\ state # "absent" /\ removals < MaxRemovals
    /\ removals' = removals + 1
    /\ state' = "absent" /\ said' = Nothing
    /\ orphans' = {a \in Actors : doing[a] = "write"}
    /\ born' = 0 /\ last' = 0
    /\ blind' = (Holding # {}) /\ stale' = FALSE
    /\ UNCHANGED <<youtube, infoJson, doing, copy, now, answer, lists>>

RecordNext ==
    \/ \E e \in Recorders : FetchEnds(e) \/ NameSource(e) \/ ReadRecord(e)
    \/ \E w \in Listers : ListSource(w) \/ LookForTitle(w) \/ Answered(w)
    \/ \E a \in Actors : OpenRecord(a) \/ WriteRecord(a) \/ BreaksOff(a)
    \/ RemoveInfo \/ RemoveRecord

RecordSpec == RecordInit /\ [][RecordNext]_recordVars
-----------------------------------------------------------------------------
\* However executions, listings, crashes and cleanups interleave: created_at is
\* that of the first record in the file, unless somebody read the file while it
\* was truncated or torn (json.JSONDecodeError, artifacts.py:97 and sources.py:48,
\* which take it for an empty one), or while the first record was being made, or
\* the file was deleted under somebody who had read it.  And the file is of the
\* latest execution that wrote it, whoever titled it since, unless that execution
\* wrote it between a lister's read and its write, up to 20 seconds later
\* (discover_sources).
MetadataIsKept ==
    state = "whole" /\ ~blind =>
        /\ said.created = born
        /\ ~stale => said.by = last
=============================================================================
