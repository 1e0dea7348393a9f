-------------------------- MODULE MCWorkflowEngine --------------------------
(* Model checking WorkflowEngine: two workflows, the first of one or two steps. *)
EXTENDS WorkflowEngine

CONSTANTS a, b

Plain(s) == s.loop = "none" /\ ~s.timed

\* The step of b: any plain one, or a timed one or a loop that calls a or nothing.
MixedSteps == {s \in Step : \/ Plain(s)
                            \/ /\ s.targets \in {{}, {a}} /\ s.onError = None
                               /\ s.timed # (s.loop # "none")}

\* The step of a, and two steps of a: the first may have b handle its errors,
\* the second calls one workflow.
OnlySteps   == {s \in MixedSteps : s.loop = "none" /\ s.onError # a}
FirstSteps  == {s \in Step : Plain(s) /\ s.onError \in {None, b}}
SecondSteps == {s \in Step : Plain(s) /\ s.onError = None /\ s.targets \in {{a}, {b}}}

\* A timed loop over plain items, whose error b handles, before a call of b: the
\* thread of the loop is abandoned, and the step moves on meanwhile.
TimedLoops == {s \in Step : /\ s.loop = "sequential" /\ s.timed
                            /\ s.targets = {} /\ s.onError = b}
Nothing == [targets |-> {}, onError |-> None, loop |-> "none", timed |-> FALSE]

MCPrograms ==
  {[n \in {a, b} |-> IF n = a THEN x ELSE <<y>>] :
     x \in {<<s>> : s \in OnlySteps} \cup {<<s, u>> : s \in FirstSteps, u \in SecondSteps},
     y \in MixedSteps}
  \cup {[n \in {a, b} |-> IF n = a THEN <<s, u>> ELSE <<Nothing>>] :
          s \in TimedLoops, u \in {u \in SecondSteps : u.targets = {b}}}
=============================================================================
