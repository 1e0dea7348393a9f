---------------------------- MODULE MCSourceCache ----------------------------
(***************************************************************************)
(* The files of a source, in three scenarios: executions one after the     *)
(* other with a change of the audio and a cleanup; overlapping executions  *)
(* and one after them; overlapping executions and a cleanup.  Or, in       *)
(* histories of their own, its metadata.json.                              *)
(***************************************************************************)
EXTENDS SourceCache, SourceMetadata, TLC

MCBounds ==
    {[kinds |-> Kinds, execs |-> 3, active |-> 1, noCache |-> BOOLEAN, modes |-> Modes,
      versions |-> 2, cleanups |-> 1],
     [kinds |-> {"direct", "local"}, execs |-> 3, active |-> 2, noCache |-> BOOLEAN, modes |-> {"full"},
      versions |-> 1, cleanups |-> 0],
     [kinds |-> {"direct", "ytdlp"}, execs |-> 2, active |-> 2, noCache |-> {FALSE}, modes |-> Modes,
      versions |-> 1, cleanups |-> 1]}

VARIABLE about   \* which of the two a history is about

\* What it is not about stays in one initial state.
MCInit ==
    /\ Init /\ RecordInit
    /\ \/ about = "files" /\ youtube = FALSE
       \/ /\ about = "record" /\ bound = CHOOSE b \in Bounds : TRUE
          /\ kind = CHOOSE k \in bound.kinds : TRUE
MCNext ==
    /\ UNCHANGED about
    /\ \/ about = "files" /\ Next /\ UNCHANGED recordVars
       \/ about = "record" /\ RecordNext /\ UNCHANGED vars
MCSpec == MCInit /\ [][MCNext]_<<vars, recordVars, about>>

Interchangeable ==
    Permutations(Execs) \cup Permutations(Recorders) \cup Permutations(Listers)
=============================================================================
