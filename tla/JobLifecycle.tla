---------------------------- MODULE JobLifecycle ----------------------------
(***************************************************************************)
(* What the queue promises a job, said without threads, rows or            *)
(* transactions.  A job that waits is attempted by one attempt at a time.  *)
(* A failed attempt is made up for at most MaxRetries times.  A job that   *)
(* is done or given up stays so.  An attempt that dies with its worker may *)
(* leave the job stranded, but never lost and never doubled.               *)
(***************************************************************************)
EXTENDS Naturals

CONSTANTS Jobs, MaxRetries

VARIABLES phase, retries

vars == <<phase, retries>>

Phase == {"unknown", "waiting", "attempted", "done", "given_up", "stranded", "removed"}

TypeOK ==
  /\ phase \in [Jobs -> Phase]
  /\ retries \in [Jobs -> 0..MaxRetries]

Init ==
  /\ phase = [j \in Jobs |-> "unknown"]
  /\ retries = [j \in Jobs |-> 0]

\* The jobs of S move from a phase in From to the phase to.
Move(S, From, to) ==
  /\ \A j \in S : phase[j] \in From
  /\ phase' = [j \in Jobs |-> IF j \in S THEN to ELSE phase[j]]

Submit(S) == Move(S, {"unknown"}, "waiting") /\ UNCHANGED retries

Attempt(j) == Move({j}, {"waiting"}, "attempted") /\ UNCHANGED retries

Finish(j) == Move({j}, {"attempted"}, "done") /\ UNCHANGED retries

Retry(j) ==
  /\ Move({j}, {"attempted"}, "waiting")
  /\ retries[j] < MaxRetries
  /\ retries' = [retries EXCEPT ![j] = @ + 1]

GiveUp(j) == Move({j}, {"attempted"}, "given_up") /\ UNCHANGED retries

\* A worker restarts: its predecessor's attempts start over.  Repair does the
\* same and takes in results no job accounts for.
Recover(S, new) ==
  /\ \A j \in S : phase[j] = "attempted"
  /\ \A j \in new : phase[j] = "unknown"
  /\ phase' = [j \in Jobs |-> IF j \in new THEN "done"
                              ELSE IF j \in S THEN "waiting" ELSE phase[j]]
  /\ UNCHANGED retries

Strand(S) == Move(S, {"attempted"}, "stranded") /\ UNCHANGED retries

Remove(S) == Move(S, Phase \ {"unknown"}, "removed") /\ UNCHANGED retries

Next ==
  \/ \E S \in SUBSET Jobs : Submit(S) \/ Strand(S) \/ Remove(S)
  \/ \E S, new \in SUBSET Jobs : Recover(S, new)
  \/ \E j \in Jobs : Attempt(j) \/ Finish(j) \/ Retry(j) \/ GiveUp(j)

Spec == Init /\ [][Next]_vars
=============================================================================
