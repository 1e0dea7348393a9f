---------------------------- MODULE MCFeedTrigger ----------------------------
(* Model checking FeedTrigger: items and threads are interchangeable. *)
EXTENDS FeedTrigger, TLC

Symmetry == Permutations(Items) \cup Permutations(Threads)
=============================================================================
