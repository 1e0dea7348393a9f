--------------------------- MODULE WhenExpressions ---------------------------
(***************************************************************************)
(* Whether a guarded step runs: the evaluator of workflows/expr.py for the *)
(* `when:` of a step, and _evaluate_when_for_step of workflows/engine.py,  *)
(* which skips a step of a trusted-only module, and runs any other, if the *)
(* expression cannot be evaluated.                                         *)
(*   An expression is the tree that ast.parse gives, as the sequence of    *)
(* its nodes, children before their parent, which refers to them by their  *)
(* positions; the root comes last.  An operator that is not on the white   *)
(* list (a call, x[i], x + y), and a text that does not parse, is a node   *)
(* "unsafe".  A value has a kind and an element n: the number (an          *)
(* integer), or the rank of the string (0 for the empty one; strings have  *)
(* at most one character).  A list has its elements, which are no lists,   *)
(* and an identity: the position of the node that makes it, or one that is *)
(* not positive if it is in the context.                                   *)
(***************************************************************************)
EXTENDS Integers, Sequences, FiniteSets
LOCAL INSTANCE FiniteSetsExt
LOCAL INSTANCE SequencesExt

CONSTANT Error  \* an exception

Value(k, n) == [kind |-> k, n |-> n]
None == Value("none", 0)
Bool(b) == Value("bool", IF b THEN 1 ELSE 0)
Numeric(v) == v.kind \in {"bool", "num"}
ListAt(id, vals) ==
  [kind |-> "list", id |-> id,
   n |-> [i \in DOMAIN vals |-> IF Numeric(vals[i]) THEN Value("num", vals[i].n) ELSE vals[i]]]

Const(v) == <<[op |-> "const", val |-> v]>>
KeyName(id) == <<[op |-> "name", id |-> id]>>

\* The tree with the given operator over the given expressions.
Tree(op, es) ==
  LET before(k) == Len(FlattenSeq(SubSeq(es, 1, k - 1)))
      moved(k)  == [i \in DOMAIN es[k] |->
                      IF "args" \notin DOMAIN es[k][i] THEN es[k][i]
                      ELSE [es[k][i] EXCEPT !.args = [j \in DOMAIN @ |-> @[j] + before(k)]]]
  IN  FlattenSeq([k \in DOMAIN es |-> moved(k)])
        \o <<[op |-> op, args |-> [k \in DOMAIN es |-> before(k + 1)]]>>

Not(e) == Tree("not", <<e>>)
Minus(e) == Tree("minus", <<e>>)
Plus(e) == Tree("plus", <<e>>)
Invert(e) == Tree("invert", <<e>>)
And(e, f) == Tree("and", <<e, f>>)
Or(e, f) == Tree("or", <<e, f>>)
Chain(es, cmps) ==
  LET tree == Tree("compare", es)
  IN  [tree EXCEPT ![Len(tree)] = [op |-> "compare", args |-> @.args, cmps |-> cmps]]
Compare(e, cmp, f) == Chain(<<e, f>>, <<cmp>>)
IfExp(test, e, f) == Tree("if", <<test, e, f>>)
List(es) == Tree("list", es)
Unsafe(e) == Tree("unsafe", <<e>>)

\* _check_safe: the whole tree, whether it will be evaluated or not.
IsSafe(e) == \A i \in DOMAIN e : e[i].op # "unsafe"

Truthy(v) == IF v.kind = "list" THEN v.n # <<>> ELSE v.n # 0
IsEqual(v, w) == (v.kind = w.kind \/ (Numeric(v) /\ Numeric(w))) /\ v.n = w.n

\* v < w: of lists, the first elements that differ decide.
LessAtoms(v, w) ==
  IF (v.kind = "str" /\ w.kind = "str") \/ (Numeric(v) /\ Numeric(w)) THEN Bool(v.n < w.n) ELSE Error
Less(v, w) ==
  IF v.kind # "list" \/ w.kind # "list" THEN LessAtoms(v, w)
  ELSE LET differ == {i \in DOMAIN v.n \cap DOMAIN w.n : v.n[i] # w.n[i]}
       IN  IF differ = {} THEN Bool(Len(v.n) < Len(w.n))
           ELSE LessAtoms(v.n[Min(differ)], w.n[Min(differ)])

\* _CMP_OPS; the negated operators (!=, >=, is not, not in) are Not of these.
Holds(cmp, v, w) ==
  CASE cmp = "eq" -> Bool(IsEqual(v, w))
    [] cmp = "is" -> Bool(v = w)
    [] cmp = "lt" -> Less(v, w)
    [] cmp = "in" /\ w.kind = "list" -> Bool(\E i \in DOMAIN w.n : IsEqual(v, w.n[i]))
    [] cmp = "in" /\ v.kind = "str" /\ w.kind = "str" -> Bool(v.n \in {0, w.n})
    [] OTHER -> Error

\* The first result that is an error or as true as given, else the last one.
FirstOrLast(results, truth) ==
  LET at == {i \in DOMAIN results : results[i] = Error \/ Truthy(results[i]) = truth}
  IN  results[IF at = {} THEN Len(results) ELSE Min(at)]

\* Mutation: every comparison is with the first operand.
Links_First(vals, cmps) ==
  [i \in DOMAIN cmps |-> IF vals[1] = Error \/ vals[i + 1] = Error THEN Error
                         ELSE Holds(cmps[i], vals[1], vals[i + 1])]

\* The comparisons of a chain, each of an operand with the next.
Links(vals, cmps) ==
  [i \in DOMAIN cmps |-> IF vals[1] = Error \/ vals[i + 1] = Error THEN Error
                         ELSE IF vals[i] = Error THEN Error
                         ELSE Holds(cmps[i], vals[i], vals[i + 1])]

\* _eval_node
Eval(e, data) ==
  LET value[i \in DOMAIN e] ==
        LET node == e[i]
            vals == <<>> \o [j \in DOMAIN node.args |-> value[node.args[j]]]
        IN  CASE node.op = "const" -> node.val
              [] node.op = "name"  -> IF node.id \in DOMAIN data THEN data[node.id] ELSE None
              [] node.op = "not"   -> IF vals[1] = Error THEN Error ELSE Bool(~Truthy(vals[1]))
              [] node.op \in {"minus", "plus", "invert"} ->
                   IF vals[1] = Error \/ ~Numeric(vals[1]) THEN Error
                   ELSE Value("num", CASE node.op = "minus" -> -vals[1].n
                                       [] node.op = "plus" -> vals[1].n
                                       [] node.op = "invert" -> -vals[1].n - 1)
              [] node.op = "and"   -> FirstOrLast(vals, FALSE)
              [] node.op = "or"    -> FirstOrLast(vals, TRUE)
              [] node.op = "if"    -> IF vals[1] = Error THEN Error
                                      ELSE IF Truthy(vals[1]) THEN vals[2] ELSE vals[3]
              [] node.op = "list"  -> IF \E j \in DOMAIN vals : vals[j] = Error THEN Error
                                      ELSE ListAt(i, vals)
              [] node.op = "compare" -> FirstOrLast(Links(vals, node.cmps), FALSE)
  IN  value[Len(e)]

Evaluated(e, data) == IF IsSafe(e) THEN Eval(e, data) ELSE Error

\* Mutation: evaluate_when for every step.
StepRuns_FailOpen(e, data, safety) == Evaluated(e, data) = Error \/ Truthy(Evaluated(e, data))

\* _evaluate_when_for_step; a step type without spec counts as safe.
StepRuns(e, data, safety) ==
  IF Evaluated(e, data) = Error THEN safety # "trusted_only" ELSE Truthy(Evaluated(e, data))

-----------------------------------------------------------------------------
\* Of two steps guarded by an expression and by its negation exactly one runs;
\* if the expression cannot be evaluated both do, or neither if they are of a
\* trusted-only module.  No operand makes the outcome depend on one that is
\* not reached, unless that one is not on the white list.
OneBranchRuns(e, f, data, safety) ==
  LET both == {x \in {e, Not(e)} : StepRuns(x, data, safety)}
      guarded == And(Compare(e, "is", Const(None)), f)
  IN  /\ IF Evaluated(e, data) # Error THEN Cardinality(both) = 1
         ELSE both = IF safety = "safe" THEN {e, Not(e)} ELSE {}
      /\ Evaluated(e, data) # Error /\ IsSafe(f) /\ Evaluated(e, data).kind # "none" =>
           ~StepRuns(guarded, data, safety)

\* The operators obey the laws that an author of a workflow relies on: those of
\* De Morgan; a choice runs the step as the branch that is chosen would.
LawsOfGuards(e, f, data, safety) ==
  /\ StepRuns(Not(And(e, f)), data, safety) = StepRuns(Or(Not(e), Not(f)), data, safety)
  /\ StepRuns(Not(Or(e, f)), data, safety) = StepRuns(And(Not(e), Not(f)), data, safety)
  /\ Evaluated(IfExp(e, f, Not(f)), data) # Error =>
       (StepRuns(IfExp(e, f, Not(f)), data, safety)
          = (StepRuns(e, data, safety) = StepRuns(f, data, safety)))

\* A chain of comparisons is the conjunction of its links.
ChainsAreConjunctions(e, f, g, data, safety) ==
  \A cmp \in {"eq", "lt"} :
    StepRuns(Chain(<<e, f, g>>, <<cmp, "lt">>), data, safety)
      = StepRuns(And(Compare(e, cmp, f), Compare(f, "lt", g)), data, safety)
=============================================================================
