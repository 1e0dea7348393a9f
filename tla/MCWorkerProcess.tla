--------------------------- MODULE MCWorkerProcess ---------------------------
(* Model checking WorkerProcess: pids, CLI commands and web handlers are interchangeable. *)
EXTENDS WorkerProcess, TLC

Symmetry ==
  Permutations(Pids) \cup Permutations(WebHandlers) \cup Permutations(Commands \ WebHandlers)
=============================================================================
