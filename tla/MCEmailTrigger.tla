---------------------------- MODULE MCEmailTrigger ----------------------------
(* Model checking EmailTrigger: mails and threads are interchangeable. *)
EXTENDS EmailTrigger, TLC

Symmetry == Permutations(Items) \cup Permutations(Threads)
=============================================================================
