----------------------------- MODULE MCJobQueue -----------------------------
(* Model checking JobQueue: the ids are interchangeable, and one fault at a time. *)
EXTENDS JobQueue, TLC

Symmetry ==
  Permutations(Jobs) \cup Permutations(Threads)
    \cup Permutations(Sources) \cup Permutations(Operators)

\* A crash or a database error, not both: bounds the runs that allow either.
OneFault == crashes + dbErrors <= 1

\* A second job, or commands, not both: bounds the run with liveness.
Second == CHOOSE j \in Jobs : TRUE
SecondOrCommands ==
  Exists(Second) \/ status[Second] = "deleted" => commands = 0 /\ \A j \in Jobs : status[j] # "absent"

BoundedFairSpec == Init /\ [][Next /\ SecondOrCommands']_vars /\ Fairness
=============================================================================
