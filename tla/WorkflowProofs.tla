---------------------------- MODULE WorkflowProofs ----------------------------
(***************************************************************************)
(* What holds of the workflow engine (WorkflowEngine) for any workflow     *)
(* files, and any number of threads, items, frames and timeouts: types and *)
(* the shape of the stacks, the error that is raised, and the call stack   *)
(* that the cycle detection relies on; what WorkflowValidation says of     *)
(* validation and engine, for workflows of any length and any modules; and *)
(* what WorkflowFiles says of names, for any directory.                    *)
(*   The stacks are described frame by frame: an operator Xs(fs, ...) says *)
(* of the stack fs that every frame of it fits (XFit) on those below it,   *)
(* and an XsAppend lemma takes the innermost frame off.                    *)
(***************************************************************************)
EXTENDS WorkflowEngine, WorkflowValidation, WorkflowFiles, FiniteSetTheorems, WellFoundedInduction, TLAPS

-----------------------------------------------------------------------------
(* The inductive invariants *)

Doings == {"run", "join", "return", "raise", "ended", "free"}
Errs   == [kind : {"none", "error", "timeout", "circular"}, under : Nat]

WorkflowFrames == [kind : {"workflow"}, name : Names, pc : Nat, dict : Nat, handles : Errs]
HandlerFrames  == [kind : {"handler"}, step : Step, dict : Nat, target : Names \cup {None},
                   saved : Seq(Names)]
LoopFrames     == [kind : {"loop"}, step : Step, dict : Nat, left : Nat]
Frames         == WorkflowFrames \cup HandlerFrames \cup LoopFrames

\* Every variable has its type.
TypeInv ==
  /\ program \in [Names -> Seq(Step)] /\ dicts \in Seq(Seq(Names))
  /\ frames \in [Thread -> Seq(Frames)] /\ doing \in [Thread -> Doings]
  /\ value \in [Thread -> Nat] /\ error \in [Thread -> Errs]
  /\ awaits \in [Thread -> Seq(Thread)]
  /\ base \in [Thread -> [calls : Seq(Names), handling : Nat, joins : SUBSET Thread]]
  /\ leaked \in BOOLEAN /\ timeouts \in 0..MaxTimeouts

\* A frame f on top of the frames b, with the workflow files p and n dictionaries.
Fits(b, f, p, n) ==
  /\ f.dict \in 1..n
  /\ f.kind = "workflow" => f.pc \in 1..Len(p[f.name]) + 1
  /\ f.kind = "loop" => f.left <= MaxItems
  /\ b # <<>> =>
       /\ Last(b).kind = "workflow" => Last(b).pc <= Len(p[Last(b).name])
       /\ Last(b).kind = "handler" => Last(b).target # None
       /\ Last(b).kind = "workflow" /\ f.kind = "workflow" => Last(b).handles # NoError
       /\ Last(b).kind = "workflow" /\ f.kind = "handler" => f.dict = Last(b).dict

\* The shape of a stack.
Stacked(fs, p, n) == \A i \in DOMAIN fs : Fits(SubSeq(fs, 1, i - 1), fs[i], p, n)

\* What the innermost frame f is like while its thread does x.
TopFits(f, x, p) ==
  /\ x = "run" => /\ f.kind = "handler" => f.target = None
                  /\ f.kind = "workflow" => f.handles = NoError
  /\ x = "join" => f.kind = "workflow" /\ f.handles = NoError
  /\ x # "run" => /\ f.kind = "workflow" => f.pc <= Len(p[f.name])
                  /\ f.kind = "handler" => f.target # None

\* Stack, phase and result of a thread agree.
Phased(t) ==
  /\ Stacked(frames[t], program, Len(dicts))
  /\ frames[t] # <<>> => TopFits(Inner(t), doing[t], program)
  /\ frames[t] = <<>> <=> doing[t] \in {"ended", "free"}
  /\ value[t] \in 0..Len(dicts)
  /\ doing[t] = "return" => value[t] # 0
  /\ value[t] # 0 => doing[t] \in {"return", "ended"}
  /\ error[t] # NoError <=> (doing[t] = "raise" \/ (doing[t] = "ended" /\ value[t] = 0))
  /\ awaits[t] # <<>> <=> doing[t] = "join"

\* u is joined by t.
StartedBy(t, u) ==
  /\ u # t /\ doing[u] # "free"
  /\ base[u].calls = ActiveCalls(t) /\ base[u].handling = HandledBy(t)
  /\ base[u].joins = base[t].joins \cup {t}
  /\ \A x \in Thread : u \in Range(awaits[x]) => x = t
  /\ frames[u] # <<>> => frames[u][1].kind # "workflow"
  /\ StepOf(Inner(t)).loop # "parallel" =>
       /\ Len(awaits[t]) = 1
       /\ frames[u] # <<>> /\ frames[u][1].kind = "handler" => frames[u][1].dict = Inner(t).dict

Joins == \A t \in Thread : \A u \in Range(awaits[t]) : StartedBy(t, u)

Typed == TypeInv /\ (\A t \in Thread : Phased(t)) /\ Joins

\* An error that a workflow handles was raised outside its handling; h errors
\* are handled around the stack.
HandlesFit(b, f, h) ==
  f.kind = "workflow" /\ f.handles # NoError => f.handles.under = h + Handling(b)
Handled(fs, h) == \A i \in DOMAIN fs : HandlesFit(SubSeq(fs, 1, i - 1), fs[i], h)

Under == \A t \in Thread : Handled(frames[t], base[t].handling)
ErrorsOK == Under /\ OriginalErrorIsRaised

\* The workflows called in a stack, the dictionaries it refers to, and what
\* a thread may still read or write.
Called(fs) == {fs[i].target : i \in Calling(fs)}
Dicts(fs)  == {fs[i].dict : i \in DOMAIN fs}
Uses(t)    == Dicts(frames[t]) \cup ({value[t]} \ {0})
ActiveNames(t) == Range(base[t].calls) \cup Called(frames[t])

\* The dictionary d is at the end of the stack fs: a loop goes on with a copy.
Atop(fs, d) == \A i \in DOMAIN fs : fs[i].dict <= d /\ (fs[i].kind = "loop" => fs[i].dict < d)
Climbs(fs)  == \A i \in DOMAIN fs : Atop(SubSeq(fs, 1, i - 1), fs[i].dict)
Rising(t)   == value[t] # 0 => Atop(frames[t], value[t])

\* u works, directly or not, for x, which waits.
Below(x, u) ==
  /\ doing[x] = "join" /\ doing[u] # "free"
  /\ \E c \in Range(awaits[x]) : c = u \/ c \in base[u].joins
  /\ ActiveNames(x) \subseteq Range(base[u].calls)
  /\ \A d \in Uses(u) :
       /\ Atop(frames[x], d)
       /\ StepOf(Inner(x)).loop = "parallel" => \A i \in DOMAIN frames[x] : frames[x][i].dict < d

\* Only such threads share a dictionary.
Apart(t, u) ==
  t # u /\ Uses(t) \cap Uses(u) # {} => t \in base[u].joins \/ u \in base[t].joins

\* The threads at work form a tree, and share dictionaries along its branches
\* only: while the one further down works, those above wait.
Tree ==
  /\ \A u \in Thread : \A x \in base[u].joins : Below(x, u)
  /\ \A t, u \in Thread : Apart(t, u)
  /\ \A t \in Thread : Climbs(frames[t]) /\ Rising(t)

\* The dictionary of a frame names the calls it runs in, and so does the copy
\* that a handler will put back; cs are the calls around the stack.
NamesFit(b, f, cs, ds) ==
  /\ cs \cup Called(Append(b, f)) \subseteq Range(ds[f.dict])
  /\ f.kind = "handler" /\ f.target # None => cs \cup Called(b) \subseteq Range(f.saved)
Named(fs, cs, ds) == \A i \in DOMAIN fs : NamesFit(SubSeq(fs, 1, i - 1), fs[i], cs, ds)

NamesOf(t) ==
  /\ Named(frames[t], Range(base[t].calls), dicts)
  /\ value[t] # 0 => ActiveNames(t) \subseteq Range(dicts[value[t]])
  /\ IsInjective(ActiveCalls(t))

AllNamed == \A t \in Thread : NamesOf(t)

\* The copy that a handler will put back is the chain of calls around it, and
\* so is what a loop will go on from if an item fails.
TrueFit(b, f, cs, ds) ==
  /\ f.kind = "handler" /\ f.target # None => f.saved = cs \o Calls(b)
  /\ f.kind = "loop" /\ b # <<>> => ds[Last(b).dict] = cs \o Calls(b)
Kept(fs, cs, ds) == \A i \in DOMAIN fs : TrueFit(SubSeq(fs, 1, i - 1), fs[i], cs, ds)

\* The thread c has left the dictionary of t, which joins it, as it was.
Untouched(t, c) ==
  \/ StepOf(Inner(t)).loop = "parallel"
  \/ frames[c] # <<>> /\ frames[c][1].kind = "loop"
  \/ doing[c] = "ended" /\ error[c] # NoError

\* Whoever goes on from a dictionary finds the chain of its calls there.
TrueOf(t) ==
  /\ Kept(frames[t], base[t].calls, dicts)
  /\ doing[t] = "run" => dicts[Inner(t).dict] = ActiveCalls(t)
  /\ value[t] # 0 => dicts[value[t]] = ActiveCalls(t)
  /\ doing[t] = "raise" /\ Inner(t).kind = "workflow" /\ Inner(t).handles = NoError
       => dicts[Inner(t).dict] = ActiveCalls(t)
  /\ \A c \in Range(awaits[t]) : Untouched(t, c) => dicts[Inner(t).dict] = ActiveCalls(t)

Truth == \A t \in Thread : TrueOf(t)

-----------------------------------------------------------------------------
(* Sequences of frames *)

\* A stack is its innermost frame on the others.
LEMMA FrontLast ==
  ASSUME NEW s \in Seq(Frames), s # <<>>
  PROVE  /\ Front(s) \in Seq(Frames) /\ Last(s) \in Frames /\ s = Append(Front(s), Last(s))
         /\ Len(Front(s)) = Len(s) - 1 /\ Len(s) \in Nat \ {0}
         /\ \A i \in 1..(Len(s) - 1) : Front(s)[i] = s[i]
<1>1. Len(s) \in Nat \ {0} /\ s \in [1..Len(s) -> Frames]
  OBVIOUS
<1>2. Front(s) \in Seq(Frames) /\ Len(Front(s)) = Len(s) - 1 /\ \A i \in 1..(Len(s) - 1) : Front(s)[i] = s[i]
  BY <1>1 DEF Front
<1>3. Last(s) \in Frames
  BY <1>1 DEF Last
<1>4. s = Append(Front(s), Last(s))
  <2> DEFINE f == Front(s)  x == Last(s)  r == Append(f, x)
  <2>1. f \in Seq(Frames) /\ x \in Frames /\ x = s[Len(s)] /\ Len(f) = Len(s) - 1
        /\ \A i \in 1..(Len(s) - 1) : f[i] = s[i]
    BY <1>1, <1>2, <1>3 DEF Last
  <2> HIDE DEF f, x
  <2>2. r \in Seq(Frames) /\ Len(r) = Len(f) + 1
    BY <2>1
  <2>3. \A i \in 1..Len(s) : r[i] = s[i]
    BY <1>1, <2>1
  <2> HIDE DEF r
  <2>4. r = s
    BY <1>1, <2>1, <2>2, <2>3
  <2> QED BY <2>4 DEF r, f, x
<1> QED BY <1>1, <1>2, <1>3, <1>4

\* The innermost frame, and the others, after a frame is put on top.
LEMMA LastOfAppend ==
  ASSUME NEW s \in Seq(Frames), NEW x \in Frames
  PROVE  /\ Last(Append(s, x)) = x /\ Front(Append(s, x)) = s
         /\ Append(s, x) \in Seq(Frames) /\ Append(s, x) # <<>>
         /\ Len(Append(s, x)) = Len(s) + 1
BY DEF Front, Last

\* Two frames on top are one, and then the other.
LEMMA TwoMore ==
  ASSUME NEW s \in Seq(Frames), NEW x \in Frames, NEW y \in Frames
  PROVE  s \o <<x, y>> = Append(Append(s, x), y)
OBVIOUS

\* A stack has its shape if it has it below its innermost frame, which fits.
LEMMA StackedAppend ==
  ASSUME NEW s \in Seq(Frames), NEW f \in Frames, NEW p, NEW n
  PROVE  Stacked(Append(s, f), p, n) <=> Stacked(s, p, n) /\ Fits(s, f, p, n)
<1>1. /\ DOMAIN Append(s, f) = 1..(Len(s) + 1) /\ DOMAIN s = 1..Len(s) /\ Len(s) \in Nat
      /\ SubSeq(Append(s, f), 1, Len(s)) = s
      /\ Append(s, f)[Len(s) + 1] = f
      /\ \A i \in 1..Len(s) : /\ Append(s, f)[i] = s[i]
                              /\ SubSeq(Append(s, f), 1, i - 1) = SubSeq(s, 1, i - 1)
  OBVIOUS
<1>2. 1..(Len(s) + 1) = 1..Len(s) \cup {Len(s) + 1} /\ (Len(s) + 1) - 1 = Len(s)
  BY <1>1
<1>3. Fits(SubSeq(Append(s, f), 1, (Len(s) + 1) - 1), Append(s, f)[Len(s) + 1], p, n) <=> Fits(s, f, p, n)
  BY <1>1, <1>2
<1>4. \A i \in 1..Len(s) : Fits(SubSeq(Append(s, f), 1, i - 1), Append(s, f)[i], p, n)
                            <=> Fits(SubSeq(s, 1, i - 1), s[i], p, n)
  BY <1>1
<1> QED BY <1>1, <1>2, <1>3, <1>4 DEF Stacked

-----------------------------------------------------------------------------
(* The calls in a stack, in their order *)

\* How many elements of C are before i.
Rank(C, i) == Cardinality({j \in C : j < i})

\* Subsets of an interval are finite, and none is larger than the whole.
LEMMA Finite ==
  ASSUME NEW C, NEW n \in Nat, C \subseteq 1..n
  PROVE  /\ IsFiniteSet(C) /\ Cardinality(C) \in Nat
         /\ \A B \in SUBSET C : IsFiniteSet(B) /\ Cardinality(B) \in Nat /\ Cardinality(B) <= Cardinality(C)
<1>1. IsFiniteSet(1..n)
  BY FS_Interval
<1>2. IsFiniteSet(C)
  BY <1>1, FS_Subset
<1> QED BY <1>2, FS_Subset, FS_CardinalityType

\* No two elements have the same rank.
LEMMA RanksDiffer ==
  ASSUME NEW C, NEW n \in Nat, C \subseteq 1..n, NEW i \in C, NEW j \in C, Rank(C, i) = Rank(C, j)
  PROVE  i = j
<1>1. ASSUME NEW x \in C, NEW y \in C, x < y, Rank(C, x) = Rank(C, y) PROVE FALSE
  <2> DEFINE X == {z \in C : z < x}  Y == {z \in C : z < y}
  <2>0. \A z \in C : z \in Nat
    OBVIOUS
  <2>a. x \in Nat /\ y \in Nat /\ x < y
    BY <1>1, <2>0
  <2>b. \A z \in C : z < x => z < y
    BY <2>0, <2>a
  <2>c. ~(x < x)
    BY <2>a
  <2>1. X \subseteq Y /\ x \in Y /\ x \notin X /\ Y \subseteq C
    BY <2>a, <2>b, <2>c
  <2>2. Cardinality(X) = Cardinality(Y)
    BY <1>1 DEF Rank
  <2> HIDE DEF X, Y
  <2>3. IsFiniteSet(Y)
    BY <2>1, Finite
  <2>4. X \in SUBSET Y
    BY <2>1
  <2>5. Y = X
    BY <2>2, <2>3, <2>4, FS_Subset
  <2> QED BY <2>1, <2>5
<1>2. i \in Nat /\ j \in Nat
  OBVIOUS
<1>3. i < j \/ j < i \/ i = j
  BY <1>2
<1> QED BY <1>1, <1>3

\* The order of the numbers, as a set of pairs.
Smaller == {p \in Nat \X Nat : p[1] < p[2]}

\* A set of numbers has a least element.
LEMMA LeastElement ==
  ASSUME NEW T \in SUBSET Nat, T # {}
  PROVE  \E m \in T : \A i \in T : m <= i
<1>1. IsWellFoundedOn(Smaller, Nat)
  BY NatLessThanWellFounded DEF Smaller, OpToRel
<1>2. PICK m \in T : \A i \in T : ~ (<<i, m>> \in Smaller)
  BY <1>1, WFMin
<1>3. \A i \in T : <<i, m>> \in Smaller <=> i < m
  BY DEF Smaller
<1>4. \A i \in T : ~(i < m) /\ i \in Nat /\ m \in Nat
  BY <1>2, <1>3
<1> QED BY <1>4

\* There is an element of every rank.
LEMMA RankExists ==
  ASSUME NEW C, NEW n \in Nat, C \subseteq 1..n, NEW k \in 1..Cardinality(C)
  PROVE  \E i \in C : Rank(C, i) = k - 1
<1> DEFINE Upto(m) == {j \in C : j < m}
           T == {m \in 1..(n + 1) : k <= Cardinality(Upto(m))}
<1>a. \A z \in C : z \in Nat /\ 1 <= z /\ z <= n
  OBVIOUS
<1>b. Cardinality(C) \in Nat
  BY Finite
<1>0. (\A z \in C : z \in Nat /\ 1 <= z /\ z <= n) /\ Cardinality(C) \in Nat
  BY <1>a, <1>b
<1>c. \A z \in C : z < n + 1 /\ ~(z < 1)
  BY <1>a
<1>1. Upto(n + 1) = C /\ n + 1 \in 1..(n + 1) /\ Upto(1) = {}
  <2>1. n + 1 \in 1..(n + 1)
    OBVIOUS
  <2>2. Upto(n + 1) = C /\ Upto(1) = {}
    BY <1>c
  <2> QED BY <2>1, <2>2
<1>2. k \in Nat /\ k >= 1 /\ k <= Cardinality(C) /\ Cardinality(C) \in Nat
  BY <1>0
<1>3. n + 1 \in T /\ T \in SUBSET Nat
  BY <1>1, <1>2
<1>4. PICK m \in T : \A i \in T : m <= i
  <2> HIDE DEF T
  <2> QED BY <1>3, LeastElement
<1>5. m \in 1..(n + 1) /\ k <= Cardinality(Upto(m))
  OBVIOUS
<1>6. m # 1
  BY <1>1, <1>2, <1>5, FS_EmptySet
<1>7. m - 1 \in 1..(n + 1) /\ m \in Nat /\ m - 1 \in Nat /\ m - 1 < m
  BY <1>5, <1>6
<1>8. m - 1 \notin T
  BY <1>4, <1>7
<1>9. ~(k <= Cardinality(Upto(m - 1)))
  BY <1>7, <1>8
<1>10. Upto(m) = Upto(m - 1) \cup (IF m - 1 \in C THEN {m - 1} ELSE {}) /\ m - 1 \notin Upto(m - 1)
  <2>1. \A z \in C : z < m <=> z < m - 1 \/ z = m - 1
    BY <1>0, <1>7
  <2>2. ~(m - 1 < m - 1)
    BY <1>7
  <2> QED BY <2>1, <2>2
<1>11. Upto(m - 1) \in SUBSET C
  OBVIOUS
<1> HIDE DEF Upto, T
<1>12. IsFiniteSet(Upto(m - 1)) /\ Cardinality(Upto(m - 1)) \in Nat
  BY <1>11, Finite
<1>13. m - 1 \in C
  BY <1>5, <1>9, <1>10
<1>14. Upto(m) = Upto(m - 1) \cup {m - 1}
  BY <1>10, <1>13
<1>15. Cardinality(Upto(m)) = Cardinality(Upto(m - 1)) + 1
  BY <1>10, <1>12, <1>14, FS_AddElement
<1>16. Cardinality(Upto(m - 1)) = k - 1
  BY <1>2, <1>5, <1>9, <1>12, <1>15
<1>17. Rank(C, m - 1) = Cardinality(Upto(m - 1))
  BY DEF Rank, Upto
<1> QED BY <1>13, <1>16, <1>17

\* Callers are handlers of the stack, and have called a workflow.
LEMMA CallingIs ==
  ASSUME NEW s \in Seq(Frames)
  PROVE  /\ DOMAIN s = 1..Len(s) /\ Len(s) \in Nat /\ Calling(s) \subseteq 1..Len(s)
         /\ \A i \in Calling(s) : s[i].target \in Names
<1>1. \A i \in 1..Len(s) : s[i] \in Frames
  OBVIOUS
<1>2. ASSUME NEW f \in Frames, f.kind = "handler", f.target # None PROVE f.target \in Names
  BY <1>2 DEF Frames, WorkflowFrames, HandlerFrames, LoopFrames
<1> QED BY <1>1, <1>2 DEF Calling

Place(s, k) == CHOOSE i \in Calling(s) : Rank(Calling(s), i) = k - 1

\* The k-th call is that of the caller of rank k - 1.
LEMMA CallsAre ==
  ASSUME NEW s \in Seq(Frames)
  PROVE  /\ Cardinality(Calling(s)) \in Nat
         /\ Calls(s) = [k \in 1..Cardinality(Calling(s)) |-> s[Place(s, k)].target]
         /\ \A k \in 1..Cardinality(Calling(s)) :
              Place(s, k) \in Calling(s) /\ Rank(Calling(s), Place(s, k)) = k - 1
<1> DEFINE C == Calling(s)
<1>1. C \subseteq 1..Len(s) /\ Len(s) \in Nat
  BY CallingIs
<1>2. Cardinality(C) \in Nat
  BY <1>1, Finite
<1>3. ASSUME NEW k \in 1..Cardinality(C)
      PROVE  Place(s, k) \in C /\ Rank(C, Place(s, k)) = k - 1
  <2>1. \E i \in C : Rank(C, i) = k - 1
    BY <1>1, RankExists
  <2> QED BY <2>1 DEF Place
<1>4. Calls(s) = [k \in 1..Cardinality(C) |-> s[Place(s, k)].target]
  BY DEF Calls, Place, Rank
<1> QED BY <1>2, <1>3, <1>4

\* Calls are names.
LEMMA CallsType ==
  ASSUME NEW s \in Seq(Frames)
  PROVE  Calls(s) \in Seq(Names) /\ Len(Calls(s)) = Cardinality(Calling(s))
<1> DEFINE n == Cardinality(Calling(s))
<1>1. n \in Nat /\ \A k \in 1..n : s[Place(s, k)].target \in Names
  BY CallsAre, CallingIs
<1>2. Calls(s) = [k \in 1..n |-> s[Place(s, k)].target]
  BY CallsAre
<1> HIDE DEF n
<1>3. Calls(s) \in [1..n -> Names]
  BY <1>1, <1>2
<1> QED BY <1>1, <1>3 DEF n

\* The chain of calls has the names of the callers, and no other.
LEMMA CallsRange ==
  ASSUME NEW s \in Seq(Frames)
  PROVE  Range(Calls(s)) = Called(s)
<1> DEFINE C == Calling(s)  n == Cardinality(C)
<1>1. C \subseteq 1..Len(s) /\ Len(s) \in Nat
  BY CallingIs
<1>2. /\ n \in Nat /\ Calls(s) = [k \in 1..n |-> s[Place(s, k)].target]
      /\ \A k \in 1..n : Place(s, k) \in C /\ Rank(C, Place(s, k)) = k - 1
  BY CallsAre
<1>3. Range(Calls(s)) \subseteq Called(s)
  <2> HIDE DEF C, n
  <2>1. \A k \in 1..n : s[Place(s, k)].target \in {s[i].target : i \in C}
    BY <1>2
  <2> QED BY <1>2, <2>1 DEF Range, Called, C
<1>4. ASSUME NEW i \in C PROVE s[i].target \in Range(Calls(s))
  <2> DEFINE B == {j \in C : j < i}
  <2>1. B \in SUBSET C /\ i \notin B /\ B \cup {i} \in SUBSET C
    BY <1>1
  <2> HIDE DEF B, C
  <2>2. IsFiniteSet(B) /\ Cardinality(B) \in Nat /\ Cardinality(B \cup {i}) <= Cardinality(C)
    BY <1>1, <2>1, Finite
  <2>3. Cardinality(B \cup {i}) = Cardinality(B) + 1
    BY <2>1, <2>2, FS_AddElement
  <2>4. Cardinality(B) + 1 \in 1..n
    BY <1>2, <2>2, <2>3
  <2>5. Rank(C, i) = (Cardinality(B) + 1) - 1
    BY <2>2 DEF Rank, B
  <2>6. Rank(C, Place(s, Cardinality(B) + 1)) = (Cardinality(B) + 1) - 1
        /\ Place(s, Cardinality(B) + 1) \in C
    BY <1>2, <2>4
  <2>7. Place(s, Cardinality(B) + 1) = i
    BY <1>1, <2>5, <2>6, RanksDiffer
  <2>8. Calls(s)[Cardinality(B) + 1] = s[i].target /\ Cardinality(B) + 1 \in DOMAIN Calls(s)
    BY <1>2, <2>4, <2>7
  <2> QED BY <2>8 DEF Range
<1> QED BY <1>3, <1>4 DEF Called

IsCall(f) == f.kind = "handler" /\ f.target # None

\* A frame on top adds a caller if it is one.
LEMMA CallingAppend ==
  ASSUME NEW s \in Seq(Frames), NEW f \in Frames
  PROVE  Calling(Append(s, f)) = Calling(s) \cup (IF IsCall(f) THEN {Len(s) + 1} ELSE {})
<1>1. DOMAIN Append(s, f) = DOMAIN s \cup {Len(s) + 1}
  OBVIOUS
<1>2. Append(s, f)[Len(s) + 1] = f /\ \A i \in DOMAIN s : Append(s, f)[i] = s[i]
  OBVIOUS
<1>3. \A i \in DOMAIN s : i # Len(s) + 1
  OBVIOUS
<1> QED BY <1>1, <1>2, <1>3 DEF Calling, IsCall

\* A frame on top adds a name if it has called.
LEMMA CalledAppend ==
  ASSUME NEW s \in Seq(Frames), NEW f \in Frames
  PROVE  Called(Append(s, f)) = Called(s) \cup (IF IsCall(f) THEN {f.target} ELSE {})
<1>1. Append(s, f)[Len(s) + 1] = f /\ \A i \in DOMAIN s : Append(s, f)[i] = s[i]
  OBVIOUS
<1>2. Calling(s) \subseteq DOMAIN s
  BY DEF Calling
<1> QED BY <1>1, <1>2, CallingAppend DEF Called

\* A frame on top adds the last call, if it has called.
LEMMA CallsAppend ==
  ASSUME NEW s \in Seq(Frames), NEW f \in Frames
  PROVE  Calls(Append(s, f)) = IF IsCall(f) THEN Append(Calls(s), f.target) ELSE Calls(s)
<1> DEFINE r == Append(s, f)  C == Calling(s)  D == Calling(r)  n == Cardinality(C)
<1>1. r \in Seq(Frames) /\ r[Len(s) + 1] = f /\ \A i \in 1..Len(s) : r[i] = s[i]
  OBVIOUS
<1>2. Len(s) \in Nat /\ C \subseteq 1..Len(s) /\ Len(r) \in Nat /\ D \subseteq 1..Len(r)
  BY <1>1, CallingIs
<1>3. D = C \cup (IF IsCall(f) THEN {Len(s) + 1} ELSE {})
  BY CallingAppend
<1>4. IsFiniteSet(C) /\ n \in Nat /\ Len(s) + 1 \notin C
  BY <1>2, Finite
<1> HIDE DEF r
<1>5. /\ Calls(s) = [k \in 1..n |-> s[Place(s, k)].target]
      /\ \A k \in 1..n : Place(s, k) \in C /\ Rank(C, Place(s, k)) = k - 1
  BY CallsAre
<1>6. /\ Calls(r) = [k \in 1..Cardinality(D) |-> r[Place(r, k)].target]
      /\ \A k \in 1..Cardinality(D) : Place(r, k) \in D /\ Rank(D, Place(r, k)) = k - 1
  BY <1>1, CallsAre
<1> HIDE DEF C, D, n
<1>7. ASSUME NEW i \in C PROVE Rank(D, i) = Rank(C, i)
  <2>1. {j \in D : j < i} = {j \in C : j < i}
    BY <1>2, <1>3
  <2> QED BY <2>1 DEF Rank
<1>8. ASSUME NEW k \in 1..n, k \in 1..Cardinality(D) PROVE Place(r, k) = Place(s, k) /\ Place(s, k) \in 1..Len(s)
  <2>1. Place(s, k) \in C /\ Place(s, k) \in D /\ Rank(D, Place(s, k)) = k - 1
    BY <1>3, <1>5, <1>7
  <2>2. Place(r, k) \in D /\ Rank(D, Place(r, k)) = k - 1
    BY <1>6, <1>8
  <2>3. Place(r, k) = Place(s, k)
    BY <1>2, <2>1, <2>2, RanksDiffer
  <2> QED BY <1>2, <2>1, <2>3
<1>9. CASE ~IsCall(f)
  <2>1. D = C /\ Cardinality(D) = n
    BY <1>3, <1>9 DEF n
  <2>2. \A k \in 1..n : r[Place(r, k)].target = s[Place(s, k)].target
    BY <1>1, <1>8, <2>1
  <2>3. Calls(r) = Calls(s)
    BY <1>5, <1>6, <2>1, <2>2
  <2> QED BY <1>9, <2>3 DEF r
<1>10. CASE IsCall(f)
  <2>1. D = C \cup {Len(s) + 1}
    BY <1>3, <1>10
  <2>2. Cardinality(D) = n + 1
    BY <1>4, <2>1, FS_AddElement DEF n
  <2>3. \A k \in 1..n : r[Place(r, k)].target = s[Place(s, k)].target
    BY <1>1, <1>4, <1>8, <2>2
  <2>4. Place(r, n + 1) = Len(s) + 1
    <3>1. Place(r, n + 1) \in D /\ Rank(D, Place(r, n + 1)) = (n + 1) - 1
      BY <1>4, <1>6, <2>2
    <3>2. {j \in D : j < Len(s) + 1} = C
      BY <1>2, <2>1
    <3>3. Rank(D, Len(s) + 1) = Cardinality(C) /\ Len(s) + 1 \in D
      BY <2>1, <3>2 DEF Rank
    <3>4. (n + 1) - 1 = n /\ n = Cardinality(C)
      BY <1>4 DEF n
    <3> QED BY <1>2, <3>1, <3>3, <3>4, RanksDiffer
  <2> DEFINE cs == Calls(s)  c == Append(cs, f.target)
  <2>5. cs \in Seq(Names) /\ Len(cs) = n /\ f.target \in Names
    <3>1. f.target \in Names
      BY <1>10 DEF IsCall, Frames, WorkflowFrames, HandlerFrames, LoopFrames
    <3> QED BY <3>1, CallsType DEF n, C
  <2>6. \A k \in 1..n : cs[k] = s[Place(s, k)].target
    BY <1>5
  <2> HIDE DEF cs
  <2>7. c \in Seq(Names) /\ Len(c) = n + 1 /\ c[n + 1] = f.target /\ \A k \in 1..n : c[k] = s[Place(s, k)].target
    BY <1>4, <2>5, <2>6
  <2>8. Calls(r) \in Seq(Names) /\ Len(Calls(r)) = n + 1
    BY <1>1, <2>2, CallsType DEF D
  <2>9. \A k \in 1..(n + 1) : Calls(r)[k] = c[k]
    <3> HIDE DEF c
    <3>1. \A k \in 1..(n + 1) : Calls(r)[k] = r[Place(r, k)].target
      BY <1>6, <2>2
    <3>2. r[Place(r, n + 1)].target = c[n + 1]
      BY <1>1, <2>4, <2>7
    <3>3. \A k \in 1..(n + 1) : k = n + 1 \/ k \in 1..n
      BY <1>4
    <3> QED BY <2>3, <2>7, <3>1, <3>2, <3>3
  <2> HIDE DEF c
  <2>10. Calls(r) = c
    BY <2>7, <2>8, <2>9
  <2> QED BY <1>10, <2>10 DEF c, cs, r
<1> QED BY <1>9, <1>10

\* The empty stack has no calls.
LEMMA CallsEmpty == Calls(<<>>) = <<>> /\ Called(<<>>) = {} /\ Calling(<<>>) = {}
<1>1. Calling(<<>>) = {}
  BY DEF Calling
<1>2. Cardinality(Calling(<<>>)) = 0
  BY <1>1, FS_EmptySet
<1>3. <<>> \in Seq(Frames)
  OBVIOUS
<1>4. Calls(<<>>) \in Seq(Names) /\ Len(Calls(<<>>)) = 0
  BY <1>2, <1>3, CallsType
<1> QED BY <1>1, <1>4 DEF Called

\* A frame on top adds an error that is handled, if it handles one.
LEMMA HandlingAppend ==
  ASSUME NEW s \in Seq(Frames), NEW f \in Frames
  PROVE  /\ Handling(s) \in Nat
         /\ Handling(Append(s, f)) =
              Handling(s) + (IF f.kind = "workflow" /\ f.handles # NoError THEN 1 ELSE 0)
<1> DEFINE H(r) == {i \in DOMAIN r : r[i].kind = "workflow" /\ r[i].handles # NoError}
<1>1. DOMAIN s = 1..Len(s) /\ Len(s) \in Nat /\ H(s) \subseteq 1..Len(s)
  OBVIOUS
<1>2. IsFiniteSet(H(s)) /\ Cardinality(H(s)) \in Nat /\ Len(s) + 1 \notin H(s)
  <2> HIDE DEF H
  <2> QED BY <1>1, Finite
<1>3. H(Append(s, f)) = H(s) \cup (IF f.kind = "workflow" /\ f.handles # NoError THEN {Len(s) + 1} ELSE {})
  <2>1. DOMAIN Append(s, f) = DOMAIN s \cup {Len(s) + 1}
    OBVIOUS
  <2>2. Append(s, f)[Len(s) + 1] = f /\ \A i \in DOMAIN s : Append(s, f)[i] = s[i]
    OBVIOUS
  <2>3. \A i \in DOMAIN s : i # Len(s) + 1
    OBVIOUS
  <2> QED BY <2>1, <2>2, <2>3
<1>4. Handling(s) = Cardinality(H(s)) /\ Handling(Append(s, f)) = Cardinality(H(Append(s, f)))
  BY DEF Handling
<1> HIDE DEF H
<1>5. Cardinality(H(s) \cup {Len(s) + 1}) = Cardinality(H(s)) + 1
  BY <1>2, FS_AddElement
<1>6. CASE f.kind = "workflow" /\ f.handles # NoError
  BY <1>2, <1>3, <1>4, <1>5, <1>6
<1>7. CASE ~(f.kind = "workflow" /\ f.handles # NoError)
  <2>1. H(Append(s, f)) = H(s)
    BY <1>3, <1>7
  <2>2. Handling(Append(s, f)) = Handling(s) /\ Handling(s) \in Nat
    BY <1>2, <1>4, <2>1
  <2>3. Handling(s) + 0 = Handling(s)
    BY <2>2
  <2> QED BY <1>7, <2>2, <2>3
<1> QED BY <1>6, <1>7

\* The empty stack handles no errors.
LEMMA HandlingEmpty == Handling(<<>>) = 0
<1>1. {i \in DOMAIN <<>> : <<>>[i].kind = "workflow" /\ <<>>[i].handles # NoError} = {}
  OBVIOUS
<1> QED BY <1>1, FS_EmptySet DEF Handling

-----------------------------------------------------------------------------
(* Types, and the shape of the stacks *)

FirstKept(fs, gs) ==
  fs # <<>> /\ fs[1].kind = gs[1].kind /\ (gs[1].kind = "handler" => fs[1].dict = gs[1].dict)

\* Only the thread t changes, and is not freed while it is waited for.
OneThread(t) ==
  /\ program' = program /\ awaits' = awaits
  /\ \A u \in Thread : u # t =>
       /\ frames'[u] = frames[u] /\ doing'[u] = doing[u] /\ value'[u] = value[u]
       /\ error'[u] = error[u] /\ base'[u] = base[u]
  /\ frames'[t] = <<>> \/ FirstKept(frames'[t], frames[t])
  /\ ~Abandoned(t) => doing'[t] # "free" /\ base'[t] = base[t]

\* Dictionaries are added and none is lost.
MoreDicts == dicts' \in Seq(Seq(Names)) /\ Len(dicts) <= Len(dicts')

\* A frame is of one of three kinds.
LEMMA FrameKinds ==
  ASSUME NEW f \in Frames
  PROVE  /\ f.kind \in {"workflow", "handler", "loop"} /\ f.dict \in Nat
         /\ f.kind = "workflow" => f \in WorkflowFrames
         /\ f.kind = "handler" => f \in HandlerFrames
         /\ f.kind = "loop" => f \in LoopFrames
BY DEF Frames, WorkflowFrames, HandlerFrames, LoopFrames

\* The innermost frame gives way to another of its kind.
LEMMA Regrown ==
  ASSUME NEW s \in Seq(Frames), s # <<>>, NEW g \in Frames, g.kind = Last(s).kind,
         g.kind = "handler" => g.dict = Last(s).dict
  PROVE  /\ Append(Front(s), g) \in Seq(Frames) /\ FirstKept(Append(Front(s), g), s)
         /\ Last(Append(Front(s), g)) = g /\ Front(Append(Front(s), g)) = Front(s)
         /\ Len(Append(Front(s), g)) = Len(s)
<1>1. Front(s) \in Seq(Frames) /\ Len(Front(s)) = Len(s) - 1 /\ Len(s) \in Nat \ {0}
      /\ \A i \in 1..(Len(s) - 1) : Front(s)[i] = s[i]
  BY FrontLast
<1> DEFINE f == Front(s)  r == Append(f, g)
<1> HIDE DEF f
<1>2. r \in Seq(Frames) /\ r # <<>> /\ Last(r) = g /\ Front(r) = f /\ Len(r) = Len(f) + 1
  BY <1>1, LastOfAppend DEF f
<1>3. CASE Len(s) = 1
  <2>1. r[1] = g /\ Last(s) = s[1]
    BY <1>1, <1>3 DEF f, Last
  <2> QED BY <1>1, <1>2, <2>1 DEF FirstKept, f
<1>4. CASE Len(s) # 1
  <2>1. 1 \in 1..(Len(s) - 1) /\ 1 \in 1..Len(f)
    BY <1>1, <1>4 DEF f
  <2>2. r[1] = f[1] /\ f[1] = s[1]
    BY <1>1, <2>1 DEF f
  <2> QED BY <1>1, <1>2, <2>2 DEF FirstKept, f
<1> QED BY <1>3, <1>4

\* A frame on top leaves the outermost in place.
LEMMA FirstOfAppend ==
  ASSUME NEW s \in Seq(Frames), NEW r \in Seq(Frames), r # <<>>, NEW f \in Frames, FirstKept(r, s)
  PROVE  FirstKept(Append(r, f), s)
<1>1. Append(r, f)[1] = r[1] /\ Append(r, f) # <<>>
  OBVIOUS
<1> QED BY <1>1 DEF FirstKept

\* A stack keeps its shape when dictionaries are added.
LEMMA StackedMore ==
  ASSUME NEW s, NEW p, NEW n \in Nat, NEW m \in Nat, n <= m, Stacked(s, p, n)
  PROVE  Stacked(s, p, m)
<1>1. ASSUME NEW b, NEW f, Fits(b, f, p, n) PROVE Fits(b, f, p, m)
  BY <1>1 DEF Fits
<1> QED BY <1>1 DEF Stacked

\* The empty stack has its shape.
LEMMA StackedEmpty == ASSUME NEW p, NEW n PROVE Stacked(<<>>, p, n)
BY DEF Stacked

\* Below the innermost frame a stack has its shape.
LEMMA StackedFront ==
  ASSUME NEW s \in Seq(Frames), s # <<>>, NEW p, NEW n, Stacked(s, p, n)
  PROVE  Stacked(Front(s), p, n) /\ Fits(Front(s), Last(s), p, n)
BY FrontLast, StackedAppend

\* So has a stack of one frame that fits.
LEMMA StackedOne ==
  ASSUME NEW f \in Frames, NEW p, NEW n
  PROVE  Stacked(<<f>>, p, n) <=> Fits(<<>>, f, p, n)
<1>1. Stacked(<<f>>, p, n) <=> Fits(SubSeq(<<f>>, 1, 1 - 1), <<f>>[1], p, n)
  BY DEF Stacked
<1>2. SubSeq(<<f>>, 1, 1 - 1) = <<>> /\ <<f>>[1] = f
  OBVIOUS
<1> QED BY <1>1, <1>2

\* A thread that does nothing still agrees with itself.
LEMMA PhasedOther ==
  ASSUME TypeInv, NEW u \in Thread, Phased(u), program' = program, MoreDicts,
         frames'[u] = frames[u], doing'[u] = doing[u], value'[u] = value[u], error'[u] = error[u],
         awaits'[u] = awaits[u]
  PROVE  Phased(u)'
<1>1. Len(dicts) \in Nat /\ Len(dicts') \in Nat /\ Len(dicts) <= Len(dicts')
  BY DEF MoreDicts, TypeInv
<1>2. Stacked(frames[u], program, Len(dicts'))
  BY <1>1, StackedMore DEF Phased
<1>3. value[u] \in 0..Len(dicts')
  BY <1>1 DEF Phased
<1> QED BY <1>2, <1>3 DEF Phased, Inner

\* While one thread moves, the joined are still those started by who waits.
LEMMA JoinsOneThread ==
  ASSUME Typed, NEW t \in Thread, doing[t] # "join", frames[t] # <<>>, OneThread(t)
  PROVE  Joins'
<1> SUFFICES ASSUME NEW x \in Thread, NEW u \in Range(awaits[x]) PROVE StartedBy(x, u)'
  BY DEF Joins, OneThread
<1>0. awaits[x] \in Seq(Thread)
  BY DEF Typed, TypeInv
<1>1. StartedBy(x, u) /\ u \in Thread /\ Phased(x) /\ awaits[x] # <<>>
  BY <1>0 DEF Typed, Joins, Range
<1>2. x # t
  BY <1>1 DEF Phased
<1>3. ~Abandoned(u)
  BY DEF Abandoned
<1>4. frames'[x] = frames[x] /\ base'[x] = base[x] /\ awaits' = awaits /\ program' = program
  BY <1>2 DEF OneThread
<1>5. doing'[u] # "free" /\ base'[u] = base[u]
  BY <1>1, <1>3 DEF OneThread, StartedBy
<1>6. Inner(x)' = Inner(x) /\ ActiveCalls(x)' = ActiveCalls(x) /\ HandledBy(x)' = HandledBy(x)
  BY <1>4 DEF Inner, ActiveCalls, HandledBy
<1>7. StepOf(Inner(x))' = StepOf(Inner(x))
  BY <1>4, <1>6 DEF StepOf
<1>8. frames'[u] # <<>> => frames[u] = frames'[u] \/ FirstKept(frames'[u], frames[u])
  BY <1>1 DEF OneThread
<1>9. frames[u] = <<>> => frames'[u] = <<>>
  BY <1>1 DEF OneThread
<1>10. frames'[u] # <<>> =>
         /\ frames[u] # <<>> /\ frames'[u][1].kind = frames[u][1].kind
         /\ frames[u][1].kind = "handler" => frames'[u][1].dict = frames[u][1].dict
  BY <1>8, <1>9 DEF FirstKept
<1>11. \A y \in Thread : u \in Range(awaits'[y]) => y = x
  BY <1>1, <1>4 DEF StartedBy
<1>12. u # x /\ base[u].calls = ActiveCalls(x) /\ base[u].handling = HandledBy(x)
       /\ base[u].joins = base[x].joins \cup {x}
  BY <1>1 DEF StartedBy
<1>13. frames'[u] # <<>> => frames'[u][1].kind # "workflow"
  BY <1>1, <1>10 DEF StartedBy
<1>14. StepOf(Inner(x)).loop # "parallel" =>
       /\ Len(awaits[x]) = 1
       /\ frames'[u] # <<>> /\ frames'[u][1].kind = "handler" => frames'[u][1].dict = Inner(x).dict
  BY <1>1, <1>10 DEF StartedBy
<1> QED BY <1>4, <1>5, <1>6, <1>7, <1>11, <1>12, <1>13, <1>14 DEF StartedBy

\* What the frames of a thread that is not done say.
LEMMA InnerIs ==
  ASSUME Typed, NEW t \in Thread, frames[t] # <<>>
  PROVE  /\ frames[t] \in Seq(Frames) /\ Front(frames[t]) \in Seq(Frames) /\ Inner(t) \in Frames
         /\ frames[t] = Append(Front(frames[t]), Inner(t))
         /\ Stacked(Front(frames[t]), program, Len(dicts))
         /\ Fits(Front(frames[t]), Inner(t), program, Len(dicts))
         /\ TopFits(Inner(t), doing[t], program)
         /\ Inner(t) = Last(frames[t])
<1>1. frames[t] \in Seq(Frames) /\ Stacked(frames[t], program, Len(dicts)) /\ TopFits(Inner(t), doing[t], program)
  BY DEF Typed, TypeInv, Phased
<1> QED BY <1>1, FrontLast, StackedFront DEF Inner

\* No error, and no base, are of their types.
LEMMA NoErrorType == NoError \in Errs /\ NoBase \in [calls : Seq(Names), handling : Nat, joins : SUBSET Thread]
BY DEF NoError, NoBase, Errs

Busy(t) == doing[t] \in {"run", "return", "raise"}

\* A busy thread has a stack and waits for nobody.
LEMMA BusyIs ==
  ASSUME Typed, NEW t \in Thread, Busy(t)
  PROVE  /\ frames[t] # <<>> /\ awaits[t] = <<>> /\ doing[t] # "join" /\ doing[t] # "free" /\ doing[t] # "ended"
         /\ Phased(t)
BY DEF Typed, Phased, Busy

\* Types and shapes are kept when a thread goes on with a fitting stack,
LEMMA ContinueTyped ==
  ASSUME Typed, NEW t \in Thread, Busy(t), MoreDicts, program' = program,
         leaked' \in BOOLEAN, timeouts' = timeouts,
         NEW fs \in Seq(Frames), FirstKept(fs, frames[t]), Stacked(fs, program, Len(dicts')),
         TopFits(Last(fs), "run", program), Continue(t, fs)
  PROVE  Typed' /\ OneThread(t)
<1>1. /\ frames \in [Thread -> Seq(Frames)] /\ doing \in [Thread -> Doings]
      /\ value \in [Thread -> Nat] /\ error \in [Thread -> Errs]
  BY DEF Typed, TypeInv
<1>2. /\ frames'[t] = fs /\ doing'[t] = "run" /\ value'[t] = 0 /\ error'[t] = NoError
      /\ \A u \in Thread : u # t => /\ frames'[u] = frames[u] /\ doing'[u] = doing[u]
                                    /\ value'[u] = value[u] /\ error'[u] = error[u]
      /\ awaits' = awaits /\ base' = base
  BY <1>1 DEF Continue
<1>3. OneThread(t)
  BY <1>2 DEF OneThread
<1>4. TypeInv'
  <2>1. /\ frames' \in [Thread -> Seq(Frames)] /\ doing' \in [Thread -> Doings]
        /\ value' \in [Thread -> Nat] /\ error' \in [Thread -> Errs]
    BY <1>1, NoErrorType DEF Continue, Doings
  <2> QED BY <1>2, <2>1 DEF Typed, TypeInv, MoreDicts
<1>5. Phased(t)'
  <2>1. fs # <<>> /\ Len(dicts') \in Nat
    BY DEF FirstKept, MoreDicts
  <2>2. awaits[t] = <<>> /\ 0 \in 0..Len(dicts')
    BY <2>1, BusyIs
  <2> QED BY <1>2, <2>1, <2>2 DEF Phased, Inner
<1>6. \A u \in Thread : Phased(u)'
  <2>1. ASSUME NEW u \in Thread, u # t PROVE Phased(u)'
    <3>1. TypeInv /\ Phased(u)
      BY DEF Typed
    <3>2. frames'[u] = frames[u] /\ doing'[u] = doing[u] /\ value'[u] = value[u]
          /\ error'[u] = error[u] /\ awaits'[u] = awaits[u]
      BY <1>2, <2>1
    <3> QED BY <3>1, <3>2, PhasedOther
  <2> QED BY <1>5, <2>1
<1>7. Joins'
  BY <1>3, BusyIs, JoinsOneThread
<1> QED BY <1>3, <1>4, <1>6, <1>7 DEF Typed

\* and when it leaves its innermost frame.
LEMMA LeaveTyped ==
  ASSUME Typed, NEW t \in Thread, Busy(t), MoreDicts, program' = program,
         leaked' \in BOOLEAN, timeouts' = timeouts,
         NEW d \in 0..Len(dicts), NEW e \in Errs, d = 0 <=> e # NoError, Leave(t, d, e)
  PROVE  Typed' /\ OneThread(t)
<1>1. /\ frames \in [Thread -> Seq(Frames)] /\ doing \in [Thread -> Doings]
      /\ value \in [Thread -> Nat] /\ error \in [Thread -> Errs]
      /\ base \in [Thread -> [calls : Seq(Names), handling : Nat, joins : SUBSET Thread]]
      /\ Len(dicts) \in Nat /\ d \in Nat
  BY DEF Typed, TypeInv
<1> DEFINE fs == Front(frames[t])
<1>a. /\ frames'[t] = fs /\ awaits' = awaits
      /\ \A u \in Thread : u # t => /\ frames'[u] = frames[u] /\ doing'[u] = doing[u]
                                    /\ value'[u] = value[u] /\ error'[u] = error[u] /\ base'[u] = base[u]
  BY <1>1 DEF Leave
<1>b. fs = <<>> /\ Abandoned(t) => doing'[t] = "free" /\ value'[t] = 0 /\ error'[t] = NoError
  BY <1>1 DEF Leave
<1>c. fs # <<>> \/ ~Abandoned(t) => value'[t] = d /\ error'[t] = e /\ base'[t] = base[t]
  BY <1>1 DEF Leave
<1>e. fs = <<>> /\ ~Abandoned(t) => doing'[t] = "ended"
  BY <1>1 DEF Leave
<1>f. fs # <<>> => doing'[t] = (IF e = NoError THEN "return" ELSE "raise")
  BY <1>1 DEF Leave
<1>2. /\ frames'[t] = fs /\ awaits' = awaits
      /\ \A u \in Thread : u # t => /\ frames'[u] = frames[u] /\ doing'[u] = doing[u]
                                    /\ value'[u] = value[u] /\ error'[u] = error[u] /\ base'[u] = base[u]
      /\ fs = <<>> /\ Abandoned(t) => doing'[t] = "free" /\ value'[t] = 0 /\ error'[t] = NoError
      /\ fs # <<>> \/ ~Abandoned(t) => value'[t] = d /\ error'[t] = e /\ base'[t] = base[t]
      /\ fs = <<>> /\ ~Abandoned(t) => doing'[t] = "ended"
      /\ fs # <<>> => doing'[t] = (IF e = NoError THEN "return" ELSE "raise")
  BY <1>a, <1>b, <1>c, <1>e, <1>f
<1>3. /\ frames[t] \in Seq(Frames) /\ fs \in Seq(Frames) /\ frames[t] = Append(fs, Inner(t))
      /\ Stacked(fs, program, Len(dicts)) /\ Fits(fs, Inner(t), program, Len(dicts)) /\ frames[t] # <<>>
  BY BusyIs, InnerIs
<1> HIDE DEF fs
<1>4. OneThread(t)
  <2>1. fs = <<>> \/ FirstKept(fs, frames[t])
    <3>1. Append(fs, Inner(t))[1] = fs[1] \/ fs = <<>>
      BY <1>3
    <3> QED BY <1>3, <3>1 DEF FirstKept
  <2>2. ASSUME ~Abandoned(t) PROVE doing'[t] # "free" /\ base'[t] = base[t]
    BY <1>2, <2>2
  <2>3. frames'[t] = <<>> \/ FirstKept(frames'[t], frames[t])
    BY <1>2, <2>1
  <2> QED BY <1>2, <2>2, <2>3 DEF OneThread
<1>5. TypeInv'
  <2>1. frames' \in [Thread -> Seq(Frames)]
    BY <1>1, <1>3 DEF Leave, fs
  <2>2. doing' \in [Thread -> Doings]
    BY <1>1 DEF Leave, Doings
  <2>3. value' \in [Thread -> Nat]
    BY <1>1 DEF Leave
  <2>4. error' \in [Thread -> Errs]
    BY <1>1, NoErrorType DEF Leave
  <2>5. base' \in [Thread -> [calls : Seq(Names), handling : Nat, joins : SUBSET Thread]]
    BY <1>1, NoErrorType DEF Leave
  <2> QED BY <1>2, <2>1, <2>2, <2>3, <2>4, <2>5 DEF Typed, TypeInv, MoreDicts
<1>6. Phased(t)'
  <2>1. Len(dicts') \in Nat /\ d \in 0..Len(dicts') /\ 0 \in 0..Len(dicts')
    BY <1>1 DEF MoreDicts
  <2>2. Stacked(fs, program, Len(dicts'))
    BY <1>1, <1>3, <2>1, StackedMore DEF MoreDicts
  <2>3. awaits'[t] = <<>>
    BY <1>2, BusyIs
  <2>4. ASSUME fs # <<>> PROVE Phased(t)'
    <3>1. doing'[t] = (IF e = NoError THEN "return" ELSE "raise") /\ value'[t] = d /\ error'[t] = e
      BY <1>2, <2>4
    <3>2. TopFits(Last(fs), doing'[t], program)
      BY <1>3, <2>4, <3>1 DEF Fits, TopFits
    <3> QED BY <1>2, <2>1, <2>2, <2>3, <2>4, <3>1, <3>2 DEF Phased, Inner
  <2>5. ASSUME fs = <<>>, ~Abandoned(t) PROVE Phased(t)'
    <3>1. doing'[t] = "ended" /\ value'[t] = d /\ error'[t] = e
      BY <1>2, <2>5
    <3> QED BY <1>2, <2>1, <2>2, <2>3, <2>5, <3>1 DEF Phased, Inner
  <2>6. ASSUME fs = <<>>, Abandoned(t) PROVE Phased(t)'
    <3>1. doing'[t] = "free" /\ value'[t] = 0 /\ error'[t] = NoError /\ fs = <<>>
      BY <1>2, <2>6
    <3> QED BY <1>2, <2>1, <2>2, <2>3, <2>6, <3>1 DEF Phased, Inner
  <2> QED BY <2>4, <2>5, <2>6
<1>7. \A u \in Thread : Phased(u)'
  <2>1. ASSUME NEW u \in Thread, u # t PROVE Phased(u)'
    <3>1. TypeInv /\ Phased(u)
      BY DEF Typed
    <3>2. frames'[u] = frames[u] /\ doing'[u] = doing[u] /\ value'[u] = value[u]
          /\ error'[u] = error[u] /\ awaits'[u] = awaits[u]
      BY <1>2, <2>1
    <3> QED BY <3>1, <3>2, PhasedOther
  <2> QED BY <1>6, <2>1
<1>8. Joins'
  BY <1>3, <1>4, BusyIs, JoinsOneThread
<1> QED BY <1>4, <1>5, <1>7, <1>8 DEF Typed

StartBase(t) == [calls |-> ActiveCalls(t), handling |-> HandledBy(t), joins |-> base[t].joins \cup {t}]

\* What StartThreads does, with the threads it takes.
Starts(t, fs, new) ==
  /\ new \in [1..Len(fs) -> Unused] /\ IsInjective(new) /\ new \in Seq(Thread) /\ Len(new) = Len(fs)
  /\ awaits'[t] = new /\ \A u \in Thread : u # t => awaits'[u] = awaits[u]
  /\ value' = value /\ error' = error /\ doing'[t] = "join" /\ t \notin Range(new)
  /\ \A i \in 1..Len(fs) : /\ frames'[new[i]] = <<fs[i]>> /\ doing'[new[i]] = "run"
                           /\ base'[new[i]] = StartBase(t)
  /\ \A u \in Thread : u \notin Range(new) =>
       /\ frames'[u] = frames[u] /\ base'[u] = base[u] /\ (u # t => doing'[u] = doing[u])

\* There are free threads to start.
LEMMA NewThreads ==
  ASSUME Typed, NEW n \in Nat, n <= Cardinality(Unused)
  PROVE  \E new \in [1..n -> Unused] : IsInjective(new)
<1>1. IsFiniteSet(1..MaxThreads)
  BY EngineAssumption, FS_Interval
<1>2. IsFiniteSet(Unused)
  BY <1>1, FS_Subset DEF Unused, Thread
<1>3. Cardinality(Unused) \in Nat /\ ExistsBijection(1..Cardinality(Unused), Unused)
  BY <1>2, FS_CardinalityType
<1>4. PICK all \in [1..Cardinality(Unused) -> Unused] : IsInjective(all)
  BY <1>3 DEF ExistsBijection, Bijection, Injection
<1> DEFINE new == [i \in 1..n |-> all[i]]
<1>5. 1..n \subseteq 1..Cardinality(Unused)
  BY <1>3
<1>6. new \in [1..n -> Unused] /\ IsInjective(new)
  BY <1>4, <1>5 DEF IsInjective
<1> QED BY <1>6

\* What starting threads does to the others and to those started.
LEMMA StartedAre ==
  ASSUME Typed, NEW t \in Thread, doing[t] = "run", NEW fs \in Seq(Frames), StartThreads(t, fs)
  PROVE  /\ frames' \in [Thread -> Seq(Frames)] /\ doing' \in [Thread -> Doings]
         /\ awaits' \in [Thread -> Seq(Thread)]
         /\ base' \in [Thread -> [calls : Seq(Names), handling : Nat, joins : SUBSET Thread]]
         /\ StartBase(t) \in [calls : Seq(Names), handling : Nat, joins : SUBSET Thread]
         /\ \E new : Starts(t, fs, new)
<1>1. /\ frames \in [Thread -> Seq(Frames)] /\ doing \in [Thread -> Doings]
      /\ awaits \in [Thread -> Seq(Thread)]
      /\ base \in [Thread -> [calls : Seq(Names), handling : Nat, joins : SUBSET Thread]]
  BY DEF Typed, TypeInv
<1>2. Len(fs) \in Nat /\ DOMAIN fs = 1..Len(fs) /\ \A i \in 1..Len(fs) : fs[i] \in Frames
  OBVIOUS
<1> DEFINE new == CHOOSE ts \in [DOMAIN fs -> Unused] : IsInjective(ts)
           At(u) == CHOOSE i \in DOMAIN fs : new[i] = u
<1>3. new \in [1..Len(fs) -> Unused] /\ IsInjective(new)
  <2>1. Len(fs) <= Cardinality(Unused)
    BY DEF StartThreads
  <2>2. \E ts \in [1..Len(fs) -> Unused] : IsInjective(ts)
    BY <1>2, <2>1, NewThreads
  <2> QED BY <1>2, <2>2
<1>4. /\ frames' = [u \in Thread |-> IF u \in Range(new) THEN <<fs[At(u)]>> ELSE frames[u]]
      /\ doing' = [u \in Thread |-> CASE u = t -> "join"
                                      [] u \in Range(new) -> "run"
                                      [] OTHER -> doing[u]]
      /\ awaits' = [awaits EXCEPT ![t] = new]
      /\ base' = [u \in Thread |-> IF u \in Range(new) THEN StartBase(t) ELSE base[u]]
      /\ value' = value /\ error' = error
  BY DEF StartThreads, StartBase
<1> HIDE DEF new
<1>5. Unused \subseteq Thread /\ t \notin Unused
  BY DEF Unused
<1>6. Range(new) \subseteq Unused /\ \A i \in 1..Len(fs) : new[i] \in Range(new)
  BY <1>3 DEF Range
<1>7. \A i \in 1..Len(fs) : At(new[i]) = i
  BY <1>2, <1>3 DEF IsInjective
<1>8. \A u \in Range(new) : At(u) \in 1..Len(fs)
  BY <1>2, <1>3, <1>7 DEF Range
<1> HIDE DEF At
<1>9. new \in Seq(Thread) /\ Len(new) = Len(fs)
  BY <1>2, <1>3, <1>5
<1>10. StartBase(t) \in [calls : Seq(Names), handling : Nat, joins : SUBSET Thread]
  <2>1. frames[t] \in Seq(Frames) /\ base[t] \in [calls : Seq(Names), handling : Nat, joins : SUBSET Thread]
    BY <1>1
  <2>2. Calls(frames[t]) \in Seq(Names)
    BY <2>1, CallsType
  <2>3. Handling(frames[t]) \in Nat
    <3>1. \E f \in Frames : TRUE
      BY <2>1, InnerIs, BusyIs DEF Busy
    <3> QED BY <2>1, <3>1, HandlingAppend
  <2>4. base[t].calls \o Calls(frames[t]) \in Seq(Names) /\ base[t].handling + Handling(frames[t]) \in Nat
    BY <2>1, <2>2, <2>3
  <2>5. base[t].joins \cup {t} \in SUBSET Thread
    BY <2>1
  <2> QED BY <2>4, <2>5 DEF StartBase, ActiveCalls, HandledBy
<1>11. frames' \in [Thread -> Seq(Frames)] /\ doing' \in [Thread -> Doings]
  <2>1. \A u \in Range(new) : <<fs[At(u)]>> \in Seq(Frames)
    BY <1>2, <1>8
  <2>2. \A u \in Thread : (CASE u = t -> "join" [] u \in Range(new) -> "run" [] OTHER -> doing[u]) \in Doings
    BY <1>1, <1>5, <1>6 DEF Doings
  <2> QED BY <1>1, <1>4, <2>1, <2>2
<1>12. awaits' \in [Thread -> Seq(Thread)]
  BY <1>1, <1>4, <1>9
<1>13. base' \in [Thread -> [calls : Seq(Names), handling : Nat, joins : SUBSET Thread]]
  BY <1>1, <1>4, <1>10
<1>14. Starts(t, fs, new)
  <2>1. awaits'[t] = new /\ \A u \in Thread : u # t => awaits'[u] = awaits[u]
    BY <1>1, <1>4
  <2>2. doing'[t] = "join" /\ t \notin Range(new)
    BY <1>4, <1>5, <1>6
  <2>3. ASSUME NEW i \in 1..Len(fs)
        PROVE frames'[new[i]] = <<fs[i]>> /\ doing'[new[i]] = "run" /\ base'[new[i]] = StartBase(t)
    <3>1. new[i] \in Range(new) /\ new[i] \in Thread /\ new[i] # t /\ At(new[i]) = i
      BY <1>5, <1>6, <1>7
    <3> QED BY <1>4, <3>1
  <2>4. ASSUME NEW u \in Thread, u \notin Range(new)
        PROVE frames'[u] = frames[u] /\ base'[u] = base[u] /\ (u # t => doing'[u] = doing[u])
    BY <1>4, <2>4
  <2> QED BY <1>3, <1>4, <1>9, <2>1, <2>2, <2>3, <2>4 DEF Starts
<1> QED BY <1>10, <1>11, <1>12, <1>13, <1>14

\* The frames that threads are started with by a step whose workflow is f.
Bodies(fs, f, n) ==
  /\ fs # <<>> /\ \A i \in 1..Len(fs) : /\ fs[i].kind # "workflow" /\ Fits(<<>>, fs[i], program, n)
                                        /\ TopFits(fs[i], "run", program)
  /\ StepOf(f).loop # "parallel" => Len(fs) = 1 /\ (fs[1].kind = "handler" => fs[1].dict = f.dict)

\* A thread that is waited for was started by the one that waits.
LEMMA NotAwaited ==
  ASSUME Typed, NEW x \in Thread, NEW u \in Range(awaits[x])
  PROVE  /\ StartedBy(x, u) /\ u \in Thread /\ doing[x] = "join" /\ doing[u] # "free" /\ u # x
         /\ awaits[x] \in Seq(Thread) /\ awaits[x] # <<>> /\ Phased(x)
<1>1. awaits[x] \in Seq(Thread)
  BY DEF Typed, TypeInv
<1>2. u \in Thread /\ awaits[x] # <<>>
  BY <1>1 DEF Range
<1>3. StartedBy(x, u) /\ Phased(x)
  BY DEF Typed, Joins
<1> QED BY <1>1, <1>2, <1>3 DEF StartedBy, Phased

\* Types and shapes are kept when threads are started,
LEMMA StartTyped ==
  ASSUME Typed, NEW t \in Thread, doing[t] = "run", Inner(t).kind = "workflow",
         Inner(t).pc <= Len(program[Inner(t).name]), MoreDicts, program' = program,
         leaked' \in BOOLEAN, timeouts' = timeouts,
         NEW fs \in Seq(Frames), Bodies(fs, Inner(t), Len(dicts')), StartThreads(t, fs)
  PROVE  Typed'
<1>1. /\ frames' \in [Thread -> Seq(Frames)] /\ doing' \in [Thread -> Doings]
      /\ awaits' \in [Thread -> Seq(Thread)]
      /\ base' \in [Thread -> [calls : Seq(Names), handling : Nat, joins : SUBSET Thread]]
      /\ \E new : Starts(t, fs, new)
  BY StartedAre
<1>2. PICK new : Starts(t, fs, new)
  BY <1>1
<1>3. TypeInv'
  BY <1>1, <1>2 DEF Typed, TypeInv, MoreDicts, Starts
<1>4. Unused \subseteq Thread /\ t \notin Unused /\ \A u \in Unused : doing[u] = "free"
  BY DEF Unused
<1>5. Range(new) \subseteq Unused /\ \A u \in Range(new) : \E i \in 1..Len(fs) : u = new[i]
  BY <1>2 DEF Starts, Range
<1>6. Len(dicts) \in Nat /\ Len(dicts') \in Nat /\ Len(dicts) <= Len(dicts')
  BY DEF Typed, TypeInv, MoreDicts
<1>7. frames[t] # <<>> /\ Phased(t) /\ awaits[t] = <<>>
  BY BusyIs DEF Busy
<1>8. ASSUME NEW u \in Range(new) PROVE Phased(u)'
  <2>1. PICK i \in 1..Len(fs) : u = new[i]
    BY <1>5
  <2>2. frames'[u] = <<fs[i]>> /\ doing'[u] = "run"
    BY <1>2, <2>1 DEF Starts
  <2>3. doing[u] = "free" /\ u \in Thread /\ u # t
    BY <1>4, <1>5
  <2>4. Phased(u)
    BY <2>3 DEF Typed
  <2>5. value[u] = 0 /\ error[u] = NoError /\ awaits[u] = <<>>
    BY <2>3, <2>4 DEF Phased
  <2>6. value'[u] = 0 /\ error'[u] = NoError /\ awaits'[u] = <<>>
    BY <1>2, <2>3, <2>5 DEF Starts
  <2>7. fs[i] \in Frames /\ Fits(<<>>, fs[i], program, Len(dicts')) /\ TopFits(fs[i], "run", program)
    BY <2>1 DEF Bodies
  <2>8. Stacked(<<fs[i]>>, program, Len(dicts'))
    BY <2>7, StackedOne
  <2>9. Last(<<fs[i]>>) = fs[i] /\ <<fs[i]>> # <<>>
    BY DEF Last
  <2> QED BY <1>6, <2>2, <2>6, <2>7, <2>8, <2>9 DEF Phased, Inner
<1>9. Phased(t)'
  <2>1. frames'[t] = frames[t] /\ doing'[t] = "join" /\ value'[t] = value[t] /\ error'[t] = error[t]
    BY <1>2, <1>4, <1>5 DEF Starts
  <2>2. awaits'[t] # <<>>
    <3>1. Len(fs) # 0 /\ Len(fs) \in Nat
      BY DEF Bodies
    <3> QED BY <1>2, <3>1 DEF Starts
  <2>3. value[t] = 0 /\ error[t] = NoError
    BY <1>7 DEF Phased
  <2>4. Stacked(frames[t], program, Len(dicts'))
    BY <1>6, <1>7, StackedMore DEF Phased
  <2>5. TopFits(Inner(t), "join", program)
    BY <1>7 DEF Phased, TopFits
  <2> QED BY <1>6, <1>7, <2>1, <2>2, <2>3, <2>4, <2>5 DEF Phased, Inner
<1>10. ASSUME NEW u \in Thread, u # t, u \notin Range(new) PROVE Phased(u)'
  <2>1. TypeInv /\ Phased(u)
    BY DEF Typed
  <2>2. frames'[u] = frames[u] /\ doing'[u] = doing[u] /\ value'[u] = value[u]
        /\ error'[u] = error[u] /\ awaits'[u] = awaits[u]
    BY <1>2, <1>10 DEF Starts
  <2> QED BY <2>1, <2>2, PhasedOther
<1>11. ASSUME NEW u \in Range(new) PROVE StartedBy(t, u)'
  <2>1. PICK i \in 1..Len(fs) : u = new[i]
    BY <1>5
  <2>2. frames'[u] = <<fs[i]>> /\ doing'[u] = "run" /\ base'[u] = StartBase(t)
    BY <1>2, <2>1 DEF Starts
  <2>3. doing[u] = "free" /\ u \in Thread /\ u # t
    BY <1>4, <1>5
  <2>4. frames'[t] = frames[t] /\ base'[t] = base[t]
    BY <1>2, <1>4, <1>5 DEF Starts
  <2>5. ActiveCalls(t)' = ActiveCalls(t) /\ HandledBy(t)' = HandledBy(t) /\ Inner(t)' = Inner(t)
    BY <2>4 DEF ActiveCalls, HandledBy, Inner
  <2>6. StepOf(Inner(t))' = StepOf(Inner(t))
    BY <2>5 DEF StepOf
  <2>7. \A x \in Thread : u \in Range(awaits'[x]) => x = t
    <3>1. ASSUME NEW x \in Thread, x # t PROVE u \notin Range(awaits'[x])
      <4>1. awaits'[x] = awaits[x]
        BY <1>2, <3>1 DEF Starts
      <4> QED BY <2>3, <4>1, NotAwaited
    <3> QED BY <3>1
  <2>8. fs[i].kind # "workflow" /\ <<fs[i]>>[1] = fs[i]
    BY <2>1 DEF Bodies
  <2>9. StepOf(Inner(t)).loop # "parallel" =>
          Len(awaits'[t]) = 1 /\ (fs[i].kind = "handler" => fs[i].dict = Inner(t).dict)
    <3>1. ASSUME StepOf(Inner(t)).loop # "parallel" PROVE i = 1 /\ Len(fs) = 1
      BY <2>1, <3>1 DEF Bodies
    <3> QED BY <1>2, <3>1 DEF Bodies, Starts
  <2>10. base'[u].calls = ActiveCalls(t) /\ base'[u].handling = HandledBy(t)
         /\ base'[u].joins = base[t].joins \cup {t}
    BY <2>2 DEF StartBase
  <2> QED BY <2>2, <2>3, <2>4, <2>5, <2>6, <2>7, <2>8, <2>9, <2>10 DEF StartedBy
<1>12. ASSUME NEW x \in Thread, x # t, NEW u \in Range(awaits'[x]) PROVE StartedBy(x, u)'
  <2>1. awaits'[x] = awaits[x] /\ u \in Range(awaits[x])
    BY <1>2, <1>12 DEF Starts
  <2>2. StartedBy(x, u) /\ u \in Thread /\ doing[x] = "join" /\ doing[u] # "free"
    BY <2>1, NotAwaited
  <2>3. x \notin Range(new) /\ u \notin Range(new)
    BY <1>4, <1>5, <2>2
  <2>4. frames'[x] = frames[x] /\ base'[x] = base[x] /\ frames'[u] = frames[u] /\ base'[u] = base[u]
        /\ doing'[u] # "free"
    BY <1>2, <2>2, <2>3 DEF Starts
  <2>5. ActiveCalls(x)' = ActiveCalls(x) /\ HandledBy(x)' = HandledBy(x) /\ Inner(x)' = Inner(x)
    BY <2>4 DEF ActiveCalls, HandledBy, Inner
  <2>6. StepOf(Inner(x))' = StepOf(Inner(x))
    BY <2>5 DEF StepOf
  <2>7. \A y \in Thread : u \in Range(awaits'[y]) => y = x
    <3>1. u \notin Range(awaits'[t])
      BY <1>2, <2>3 DEF Starts
    <3>2. \A y \in Thread : y # t => awaits'[y] = awaits[y]
      BY <1>2 DEF Starts
    <3> QED BY <2>2, <3>1, <3>2 DEF StartedBy
  <2> QED BY <2>1, <2>2, <2>4, <2>5, <2>6, <2>7 DEF StartedBy
<1>13. Joins'
  <2>1. Range(awaits'[t]) = Range(new)
    BY <1>2 DEF Starts
  <2> QED BY <1>11, <1>12, <2>1 DEF Joins
<1> QED BY <1>3, <1>8, <1>9, <1>10, <1>13 DEF Typed

\* when they are joined,
LEMMA EndTyped ==
  ASSUME Typed, NEW t \in Thread, AllEnded(t), MoreDicts, program' = program, frames' = frames,
         leaked' \in BOOLEAN, timeouts' = timeouts,
         NEW how \in {"return", "raise"}, NEW d \in 0..Len(dicts'), NEW e \in Errs,
         how = "return" => d # 0 /\ e = NoError, how = "raise" => d = 0 /\ e # NoError,
         EndJoin(t, how, d, e)
  PROVE  Typed'
<1> DEFINE joined == Range(awaits[t])
<1>1. /\ frames \in [Thread -> Seq(Frames)] /\ doing \in [Thread -> Doings]
      /\ value \in [Thread -> Nat] /\ error \in [Thread -> Errs] /\ awaits \in [Thread -> Seq(Thread)]
      /\ base \in [Thread -> [calls : Seq(Names), handling : Nat, joins : SUBSET Thread]]
      /\ Len(dicts) \in Nat /\ Len(dicts') \in Nat /\ Len(dicts) <= Len(dicts') /\ d \in Nat
  BY DEF Typed, TypeInv, MoreDicts
<1>2. doing[t] = "join" /\ \A u \in joined : doing[u] = "ended" /\ u \in Thread /\ u # t
  BY NotAwaited DEF AllEnded
<1> HIDE DEF joined
<1>3. /\ doing'[t] = how /\ value'[t] = d /\ error'[t] = e /\ awaits'[t] = <<>>
      /\ \A u \in joined : doing'[u] = "free" /\ value'[u] = 0 /\ error'[u] = NoError /\ base'[u] = NoBase
      /\ \A u \in Thread : u \notin joined => base'[u] = base[u]
      /\ \A u \in Thread : u # t => awaits'[u] = awaits[u]
      /\ \A u \in Thread : u # t /\ u \notin joined =>
           doing'[u] = doing[u] /\ value'[u] = value[u] /\ error'[u] = error[u]
  BY <1>1, <1>2 DEF EndJoin, joined
<1>4. TypeInv'
  <2>1. doing' \in [Thread -> Doings] /\ value' \in [Thread -> Nat]
    BY <1>1 DEF EndJoin, Doings
  <2>2. error' \in [Thread -> Errs]
    BY <1>1, NoErrorType DEF EndJoin
  <2>3. base' \in [Thread -> [calls : Seq(Names), handling : Nat, joins : SUBSET Thread]]
    BY <1>1, NoErrorType DEF EndJoin
  <2>4. awaits' \in [Thread -> Seq(Thread)]
    <3>1. <<>> \in Seq(Thread)
      OBVIOUS
    <3> QED BY <1>1, <3>1 DEF EndJoin
  <2> QED BY <1>1, <2>1, <2>2, <2>3, <2>4 DEF Typed, TypeInv, MoreDicts
<1>5. Phased(t)'
  <2>1. Phased(t) /\ frames[t] # <<>>
    BY <1>2 DEF Typed, Phased
  <2>2. Stacked(frames[t], program, Len(dicts'))
    BY <1>1, <2>1, StackedMore DEF Phased
  <2>3. TopFits(Inner(t), how, program)
    BY <1>2, <2>1 DEF Phased, TopFits
  <2> QED BY <1>3, <2>1, <2>2, <2>3 DEF Phased, Inner
<1>6. ASSUME NEW u \in joined PROVE Phased(u)'
  <2>1. frames[u] = <<>> /\ u \in Thread /\ awaits[u] = <<>> /\ u # t
    BY <1>2 DEF Typed, Phased
  <2>2. awaits'[u] = <<>>
    BY <1>3, <2>1
  <2>3. Stacked(<<>>, program, Len(dicts')) /\ 0 \in 0..Len(dicts')
    BY <1>1, StackedEmpty
  <2> QED BY <1>3, <2>1, <2>2, <2>3 DEF Phased, Inner
<1>7. ASSUME NEW u \in Thread, u # t, u \notin joined PROVE Phased(u)'
  <2>1. TypeInv /\ Phased(u)
    BY DEF Typed
  <2>2. frames'[u] = frames[u] /\ doing'[u] = doing[u] /\ value'[u] = value[u]
        /\ error'[u] = error[u] /\ awaits'[u] = awaits[u]
    BY <1>3, <1>7
  <2> QED BY <2>1, <2>2, PhasedOther
<1>8. ASSUME NEW x \in Thread, NEW u \in Range(awaits'[x]) PROVE StartedBy(x, u)'
  <2>1. x # t
    BY <1>3 DEF Range
  <2>2. awaits'[x] = awaits[x] /\ u \in Range(awaits[x])
    BY <1>3, <2>1
  <2>3. StartedBy(x, u) /\ u \in Thread /\ doing[x] = "join" /\ doing[u] # "free"
    BY <2>2, NotAwaited
  <2>4. x \notin joined
    BY <1>2, <2>3
  <2>5. u \notin joined
    BY <2>1, <2>2, NotAwaited DEF joined, StartedBy
  <2>6. base'[x] = base[x] /\ base'[u] = base[u] /\ doing'[u] # "free"
    BY <1>3, <2>3, <2>4, <2>5
  <2>7. ActiveCalls(x)' = ActiveCalls(x) /\ HandledBy(x)' = HandledBy(x) /\ Inner(x)' = Inner(x)
    BY <2>6 DEF ActiveCalls, HandledBy, Inner
  <2>8. StepOf(Inner(x))' = StepOf(Inner(x))
    BY <2>7 DEF StepOf
  <2>9. \A y \in Thread : u \in Range(awaits'[y]) => y = x
    <3>1. \A y \in Thread : u \in Range(awaits'[y]) => u \in Range(awaits[y])
      BY <1>3 DEF Range
    <3> QED BY <2>3, <3>1 DEF StartedBy
  <2> QED BY <2>2, <2>3, <2>6, <2>7, <2>8, <2>9 DEF StartedBy
<1> QED BY <1>4, <1>5, <1>6, <1>7, <1>8 DEF Typed, Joins

\* and when one is abandoned.
LEMMA TimeoutTyped ==
  ASSUME Typed, NEW t \in Thread, JoinTimesOut(t)
  PROVE  Typed'
<1>1. /\ doing \in [Thread -> Doings] /\ error \in [Thread -> Errs] /\ awaits \in [Thread -> Seq(Thread)]
      /\ doing[t] = "join" /\ dicts \in Seq(Seq(Names)) /\ timeouts \in 0..MaxTimeouts
      /\ timeouts < MaxTimeouts /\ timeouts' = timeouts + 1
      /\ doing' = [doing EXCEPT ![t] = "raise"] /\ error' = [error EXCEPT ![t] = NewError(t, "timeout")]
      /\ awaits' = [awaits EXCEPT ![t] = <<>>]
      /\ program' = program /\ dicts' = dicts /\ frames' = frames /\ value' = value /\ base' = base
      /\ leaked' = leaked
  BY DEF Typed, TypeInv, JoinTimesOut
<1>2. Phased(t) /\ frames[t] # <<>> /\ frames[t] \in Seq(Frames) /\ Inner(t) \in Frames
  BY <1>1, InnerIs DEF Typed, Phased, TypeInv
<1>3. NewError(t, "timeout") \in Errs /\ NewError(t, "timeout") # NoError
  <2>1. Handling(frames[t]) \in Nat /\ base[t].handling \in Nat
    BY <1>2, HandlingAppend DEF Typed, TypeInv
  <2> QED BY <2>1 DEF NewError, NoError, Errs, HandledBy
<1>4. MoreDicts
  BY <1>1 DEF MoreDicts
<1>5. TypeInv'
  <2>1. timeouts' \in 0..MaxTimeouts
    BY <1>1, EngineAssumption
  <2>2. doing' \in [Thread -> Doings] /\ error' \in [Thread -> Errs]
    BY <1>1, <1>3 DEF Doings
  <2>3. awaits' \in [Thread -> Seq(Thread)]
    <3>1. <<>> \in Seq(Thread)
      OBVIOUS
    <3> QED BY <1>1, <3>1
  <2> QED BY <1>1, <2>1, <2>2, <2>3 DEF Typed, TypeInv
<1>6. Phased(t)'
  <2>1. doing'[t] = "raise" /\ error'[t] # NoError /\ awaits'[t] = <<>> /\ value'[t] = 0
    BY <1>1, <1>2, <1>3 DEF Phased
  <2>2. TopFits(Inner(t), "raise", program)
    BY <1>1, <1>2 DEF Phased, TopFits
  <2> QED BY <1>1, <1>2, <2>1, <2>2 DEF Phased, Inner
<1>7. ASSUME NEW u \in Thread, u # t PROVE Phased(u)'
  <2>1. TypeInv /\ Phased(u)
    BY DEF Typed
  <2>2. doing'[u] = doing[u] /\ error'[u] = error[u] /\ awaits'[u] = awaits[u]
    BY <1>1, <1>7
  <2> QED BY <1>1, <1>4, <2>1, <2>2, PhasedOther
<1>8. ASSUME NEW x \in Thread, NEW u \in Range(awaits'[x]) PROVE StartedBy(x, u)'
  <2>1. x # t
    BY <1>1 DEF Range
  <2>2. awaits'[x] = awaits[x] /\ u \in Range(awaits[x])
    BY <1>1, <2>1
  <2>3. StartedBy(x, u) /\ u \in Thread /\ doing[u] # "free"
    BY <2>2, NotAwaited
  <2>4. doing'[u] # "free"
    BY <1>1, <2>3
  <2>5. ActiveCalls(x)' = ActiveCalls(x) /\ HandledBy(x)' = HandledBy(x) /\ Inner(x)' = Inner(x)
    BY <1>1 DEF ActiveCalls, HandledBy, Inner
  <2>6. StepOf(Inner(x))' = StepOf(Inner(x))
    BY <1>1, <2>5 DEF StepOf
  <2>7. \A y \in Thread : u \in Range(awaits'[y]) => y = x
    <3>1. \A y \in Thread : u \in Range(awaits'[y]) => u \in Range(awaits[y])
      BY <1>1 DEF Range
    <3> QED BY <2>3, <3>1 DEF StartedBy
  <2> QED BY <1>1, <2>2, <2>3, <2>4, <2>5, <2>6, <2>7 DEF StartedBy
<1> QED BY <1>5, <1>6, <1>7, <1>8 DEF Typed, Joins

Changes(t, g)   == Continue(t, Append(Front(frames[t]), g))
Enters(t, g, f) == Continue(t, Append(Append(Front(frames[t]), g), f))

\* A new error is one, of the errors handled now.
LEMMA NewErrorType ==
  ASSUME Typed, NEW t \in Thread, frames[t] # <<>>, NEW k \in {"error", "timeout", "circular"}
  PROVE  NewError(t, k) \in Errs /\ NewError(t, k) # NoError /\ NewError(t, k).under = HandledBy(t)
<1>1. frames[t] \in Seq(Frames) /\ Inner(t) \in Frames
  BY InnerIs
<1>2. Handling(frames[t]) \in Nat /\ base[t].handling \in Nat
  BY <1>1, HandlingAppend DEF Typed, TypeInv
<1> QED BY <1>2 DEF NewError, NoError, Errs, HandledBy

\* The innermost frame of a busy thread, by its kind.
LEMMA BusyInner ==
  ASSUME Typed, NEW t \in Thread, Busy(t)
  PROVE  /\ frames[t] # <<>> /\ Inner(t) \in Frames /\ Inner(t).dict \in 1..Len(dicts) /\ Len(dicts) \in Nat
         /\ Inner(t).kind = "workflow" => Inner(t) \in WorkflowFrames /\ Inner(t).pc >= 1
         /\ Inner(t).kind = "workflow" /\ doing[t] # "run" => Inner(t).pc <= Len(program[Inner(t).name])
         /\ Inner(t).kind = "workflow" /\ doing[t] = "run" => Inner(t).handles = NoError
         /\ Inner(t).kind = "handler" => Inner(t) \in HandlerFrames
         /\ Inner(t).kind = "handler" /\ doing[t] = "run" => Inner(t).target = None
         /\ Inner(t).kind = "handler" /\ doing[t] # "run" => Inner(t).target # None /\ Inner(t).target \in Names
         /\ Inner(t).kind = "loop" => Inner(t) \in LoopFrames /\ Inner(t).left <= MaxItems
<1>1. frames[t] # <<>> /\ Inner(t) \in Frames /\ TopFits(Inner(t), doing[t], program)
      /\ Fits(Front(frames[t]), Inner(t), program, Len(dicts))
  BY BusyIs, InnerIs
<1>2. Len(dicts) \in Nat
  BY DEF Typed, TypeInv
<1>3. Inner(t).kind = "workflow" => Inner(t) \in WorkflowFrames /\ Inner(t).pc >= 1
  <2>1. Inner(t).kind = "workflow" => Inner(t) \in WorkflowFrames
    BY <1>1, FrameKinds
  <2>2. Inner(t).kind = "workflow" => Inner(t).pc \in 1..Len(program[Inner(t).name]) + 1
    BY <1>1 DEF Fits
  <2> QED BY <2>1, <2>2 DEF WorkflowFrames
<1>4. Inner(t).kind = "handler" => Inner(t) \in HandlerFrames
  BY <1>1, FrameKinds
<1>5. Inner(t).kind = "loop" => Inner(t) \in LoopFrames
  BY <1>1, FrameKinds
<1>6. Inner(t).kind = "handler" => Inner(t).target \in Names \cup {None}
  BY <1>4 DEF HandlerFrames
<1> QED BY <1>1, <1>2, <1>3, <1>4, <1>5, <1>6 DEF Fits, TopFits

\* The step at the place that a workflow has reached.
LEMMA StepIs ==
  ASSUME Typed, NEW f \in WorkflowFrames, f.pc >= 1, f.pc <= Len(program[f.name])
  PROVE  /\ StepOf(f) \in Step /\ f.pc \in DOMAIN program[f.name] /\ Len(program[f.name]) \in Nat
         /\ StepOf(f).onError \in Names \cup {None} /\ StepOf(f).targets \subseteq Names
<1>1. f.name \in Names /\ f.pc \in Nat /\ program \in [Names -> Seq(Step)]
  BY DEF WorkflowFrames, Typed, TypeInv
<1>2. program[f.name] \in Seq(Step)
  BY <1>1
<1>3. StepOf(f) \in Step /\ f.pc \in DOMAIN program[f.name] /\ Len(program[f.name]) \in Nat
  BY <1>1, <1>2 DEF StepOf
<1> QED BY <1>3 DEF Step

\* A thread at a step is busy with a workflow that handles no error.
LEMMA AtStepIs ==
  ASSUME Typed, NEW t \in Thread, AtStep(t)
  PROVE  /\ Busy(t) /\ doing[t] = "run" /\ Inner(t) \in WorkflowFrames /\ Inner(t).kind = "workflow"
         /\ Inner(t).handles = NoError /\ Inner(t).pc >= 1 /\ Inner(t).pc <= Len(program[Inner(t).name])
         /\ StepOf(Inner(t)) \in Step
<1>1. Busy(t) /\ doing[t] = "run" /\ Inner(t).kind = "workflow"
  BY DEF AtStep, Running, Busy
<1>2. Inner(t) \in WorkflowFrames /\ Inner(t).handles = NoError /\ Inner(t).pc >= 1
  BY <1>1, BusyInner
<1>3. program[Inner(t).name] \in Seq(Step)
  BY <1>2 DEF WorkflowFrames, Typed, TypeInv
<1>4. Inner(t).pc <= Len(program[Inner(t).name])
  BY <1>3 DEF AtStep
<1> QED BY <1>1, <1>2, <1>4, StepIs

\* A skipped step only moves the workflow on.
LEMMA SkipIs ==
  ASSUME Typed, NEW t \in Thread, SkipStep(t)
  PROVE  \E g \in WorkflowFrames :
           /\ Changes(t, g) /\ g.dict = Inner(t).dict /\ g.handles = NoError /\ g.name = Inner(t).name
           /\ g.pc = Inner(t).pc + 1 /\ AtStep(t)
<1>1. Inner(t) \in WorkflowFrames /\ Inner(t).handles = NoError /\ AtStep(t)
  BY AtStepIs DEF SkipStep
<1> DEFINE g == [Inner(t) EXCEPT !.pc = @ + 1]
<1>2. g \in WorkflowFrames /\ g.dict = Inner(t).dict /\ g.handles = NoError /\ g.name = Inner(t).name
      /\ g.pc = Inner(t).pc + 1
  BY <1>1 DEF WorkflowFrames
<1>3. Changes(t, g)
  BY DEF SkipStep, Replace, Changes
<1> QED BY <1>1, <1>2, <1>3

\* What runs a step in one thread.
IsBody(f, s, d) ==
  /\ f \in Frames /\ f.dict = d
  /\ \/ f.kind = "loop" /\ f.left <= MaxItems
     \/ f.kind = "handler" /\ f.target = None

\* What a step runs: a handler that has not called, or a loop.
LEMMA BodyIs ==
  ASSUME NEW s \in Step, NEW d \in Nat, NEW f \in Body(s, d)
  PROVE  IsBody(f, s, d)
<1>1. s.loop \in {"none", "sequential", "parallel"} /\ MaxItems \in Nat
  BY EngineAssumption DEF Step
<1>2. HandlerFrame(s, d) \in HandlerFrames /\ HandlerFrame(s, d).kind = "handler"
      /\ HandlerFrame(s, d).target = None /\ HandlerFrame(s, d).dict = d
  BY DEF HandlerFrame, HandlerFrames
<1>3. \A n \in 0..MaxItems : LoopFrame(s, d, n) \in LoopFrames /\ LoopFrame(s, d, n).kind = "loop"
                              /\ LoopFrame(s, d, n).left <= MaxItems /\ LoopFrame(s, d, n).dict = d
  BY <1>1 DEF LoopFrame, LoopFrames
<1>4. f = HandlerFrame(s, d) \/ \E n \in 0..MaxItems : f = LoopFrame(s, d, n)
  BY <1>1 DEF Body
<1>5. IsBody(HandlerFrame(s, d), s, d)
  BY <1>2 DEF IsBody, Frames
<1>6. ASSUME NEW n \in 0..MaxItems PROVE IsBody(LoopFrame(s, d, n), s, d)
  <2> DEFINE l == LoopFrame(s, d, n)
  <2>1. l \in LoopFrames /\ l.kind = "loop" /\ l.left <= MaxItems /\ l.dict = d
    BY <1>3
  <2> HIDE DEF l
  <2>2. IsBody(l, s, d)
    BY <2>1 DEF IsBody, Frames
  <2> QED BY <2>2 DEF l
<1> QED BY <1>4, <1>5, <1>6

\* A step starts on the stack of its workflow or in a thread of its own.
LEMMA StartStepIs ==
  ASSUME Typed, NEW t \in Thread, StartStep(t)
  PROVE  \E f : /\ IsBody(f, StepOf(Inner(t)), Inner(t).dict) /\ AtStep(t)
                /\ \/ Enters(t, Inner(t), f)
                   \/ StepOf(Inner(t)).loop # "parallel" /\ StartThreads(t, <<f>>)
<1>1. /\ AtStep(t) /\ Busy(t) /\ StepOf(Inner(t)) \in Step /\ Inner(t).dict \in Nat
      /\ frames[t] = Append(Front(frames[t]), Inner(t))
  <2>1. AtStep(t)
    BY DEF StartStep
  <2> QED BY <2>1, AtStepIs, BusyIs, InnerIs DEF WorkflowFrames
<1>2. PICK f \in Body(StepOf(Inner(t)), Inner(t).dict) :
        IF StepOf(Inner(t)).timed /\ StepOf(Inner(t)).loop # "parallel"
        THEN StartThreads(t, <<f>>) ELSE Push(t, f)
  BY DEF StartStep
<1>3. IsBody(f, StepOf(Inner(t)), Inner(t).dict)
  BY <1>1, BodyIs
<1>4. Push(t, f) => Enters(t, Inner(t), f)
  BY <1>1 DEF Push, Enters
<1> QED BY <1>1, <1>2, <1>3, <1>4

\* After a step the workflow goes on with the dictionary that came back.
LEMMA StepReturnsIs ==
  ASSUME Typed, NEW t \in Thread, StepReturns(t)
  PROVE  /\ doing[t] = "return" /\ Busy(t) /\ Inner(t) \in WorkflowFrames
         /\ Inner(t).kind = "workflow" /\ Inner(t).pc <= Len(program[Inner(t).name])
         /\ \E g \in WorkflowFrames :
              /\ Changes(t, g) /\ g.dict = value[t] /\ g.handles = NoError /\ g.name = Inner(t).name
              /\ g.pc = Inner(t).pc + 1
<1>1. doing[t] = "return" /\ Inner(t).kind = "workflow" /\ Busy(t)
  BY DEF StepReturns, Busy
<1>2. Inner(t) \in WorkflowFrames /\ Inner(t).pc <= Len(program[Inner(t).name]) /\ value[t] \in Nat
  BY <1>1, BusyInner DEF Typed, TypeInv
<1> DEFINE g == [Inner(t) EXCEPT !.pc = NextPc(Inner(t)), !.dict = value[t], !.handles = NoError]
<1>3. g \in WorkflowFrames /\ g.dict = value[t] /\ g.handles = NoError /\ g.name = Inner(t).name
      /\ g.pc = Inner(t).pc + 1
  <2>1. NextPc(Inner(t)) = Inner(t).pc + 1 /\ Inner(t).pc + 1 \in Nat /\ NoError \in Errs
    BY <1>2, NoErrorType DEF WorkflowFrames, NextPc
  <2> QED BY <1>2, <2>1 DEF WorkflowFrames
<1>4. Changes(t, g)
  BY DEF StepReturns, Replace, Changes
<1> QED BY <1>1, <1>2, <1>3, <1>4

\* A called workflow starts at its first step.
LEMMA NewWorkflow ==
  ASSUME NEW n \in Names, NEW d \in Nat
  PROVE  /\ WorkflowFrame(n, d) \in WorkflowFrames /\ WorkflowFrame(n, d).dict = d
         /\ WorkflowFrame(n, d).pc = 1 /\ WorkflowFrame(n, d).handles = NoError
         /\ WorkflowFrame(n, d).name = n /\ WorkflowFrame(n, d).kind = "workflow"
BY NoErrorType DEF WorkflowFrame, WorkflowFrames

\* An error workflow starts on top of the workflow that handles the error,
LEMMA HandleErrorIs ==
  ASSUME Typed, NEW t \in Thread, HandleError(t)
  PROVE  /\ doing[t] = "raise" /\ Busy(t) /\ Inner(t) \in WorkflowFrames /\ Inner(t).handles = NoError
         /\ Inner(t).kind = "workflow" /\ Inner(t).pc <= Len(program[Inner(t).name])
         /\ \E g \in WorkflowFrames, f \in WorkflowFrames :
              /\ Enters(t, g, f) /\ g.dict = Inner(t).dict /\ g.handles = error[t] /\ g.name = Inner(t).name
              /\ g.pc = Inner(t).pc
              /\ f.dict = Inner(t).dict /\ f.handles = NoError /\ f.pc = 1
<1>1. doing[t] = "raise" /\ Inner(t).kind = "workflow" /\ Busy(t) /\ Inner(t).handles = NoError
      /\ StepOf(Inner(t)).onError # None
  BY DEF HandleError, Busy
<1>2. Inner(t) \in WorkflowFrames /\ Inner(t).pc >= 1 /\ Inner(t).pc <= Len(program[Inner(t).name])
      /\ error[t] \in Errs /\ Inner(t).dict \in Nat
  BY <1>1, BusyInner DEF Typed, TypeInv
<1>3. StepOf(Inner(t)).onError \in Names
  BY <1>1, <1>2, StepIs
<1> DEFINE g == [Inner(t) EXCEPT !.handles = error[t]]
           f == WorkflowFrame(StepOf(Inner(t)).onError, Inner(t).dict)
<1>4. g \in WorkflowFrames /\ g.dict = Inner(t).dict /\ g.handles = error[t] /\ g.name = Inner(t).name
      /\ g.pc = Inner(t).pc
  BY <1>2 DEF WorkflowFrames
<1>5. f \in WorkflowFrames /\ f.dict = Inner(t).dict /\ f.handles = NoError /\ f.pc = 1
  BY <1>2, <1>3, NewWorkflow
<1>6. Front(frames[t]) \o <<g, f>> = Append(Append(Front(frames[t]), g), f)
  <2>1. Front(frames[t]) \in Seq(Frames) /\ g \in Frames /\ f \in Frames
    BY <1>1, <1>4, <1>5, BusyIs, InnerIs DEF Frames
  <2> HIDE DEF f, g
  <2> QED BY <2>1, TwoMore
<1>7. Enters(t, g, f)
  BY <1>6 DEF HandleError, Enters
<1> HIDE DEF f, g
<1> QED BY <1>1, <1>2, <1>4, <1>5, <1>7

\* an item on top of its loop, with a new dictionary,
LEMMA LoopRunsIs ==
  ASSUME Typed, NEW t \in Thread, LoopRunsItem(t)
  PROVE  /\ doing[t] = "run" /\ Busy(t) /\ Inner(t) \in LoopFrames /\ Inner(t).kind = "loop"
         /\ dicts' = Append(dicts, dicts[Inner(t).dict]) /\ dicts[Inner(t).dict] \in Seq(Names)
         /\ \E g \in LoopFrames, f \in HandlerFrames :
              /\ Enters(t, g, f) /\ g.dict = Inner(t).dict /\ g.left <= MaxItems
              /\ f.dict = Len(dicts) + 1 /\ f.target = None
<1>1. doing[t] = "run" /\ Inner(t).kind = "loop" /\ Busy(t) /\ Inner(t).left > 0
      /\ dicts' = Append(dicts, dicts[Inner(t).dict])
  BY DEF LoopRunsItem, Running, Busy
<1>c. PICK s \in ItemSteps(t) : \E call \in ItemCalls(s, s # Inner(t).step) :
        Continue(t, Front(frames[t]) \o <<[Inner(t) EXCEPT !.left = @ - 1, !.step = s],
                                          HandlerFrame(call, Len(dicts'))>>)
  BY DEF LoopRunsItem
<1>a. PICK call \in ItemCalls(s, s # Inner(t).step) :
        Continue(t, Front(frames[t]) \o <<[Inner(t) EXCEPT !.left = @ - 1, !.step = s],
                                          HandlerFrame(call, Len(dicts'))>>)
  BY <1>c
<1>2. Inner(t) \in LoopFrames /\ Inner(t).left <= MaxItems /\ Inner(t).dict \in 1..Len(dicts)
      /\ dicts \in Seq(Seq(Names)) /\ Inner(t).step \in Step /\ MaxItems \in Nat
  BY <1>1, BusyInner, EngineAssumption DEF Typed, TypeInv, LoopFrames
<1>3. dicts[Inner(t).dict] \in Seq(Names) /\ Len(dicts') = Len(dicts) + 1 /\ Len(dicts) \in Nat
  BY <1>1, <1>2
<1>b. s \in Step /\ call \in Step
  <2>1. \A n \in Names : \A j \in DOMAIN program[n] : program[n][j] \in Step
    BY DEF Typed, TypeInv
  <2>2. s \in Step
    BY <1>2, <2>1 DEF ItemSteps
  <2> QED BY <2>2 DEF ItemCalls, Step
<1> DEFINE g == [Inner(t) EXCEPT !.left = @ - 1, !.step = s]
           f == HandlerFrame(call, Len(dicts'))
<1>4. g \in LoopFrames /\ g.dict = Inner(t).dict /\ g.left <= MaxItems
  <2>1. Inner(t).left \in Nat /\ Inner(t).left - 1 \in Nat /\ Inner(t).left - 1 <= MaxItems
    BY <1>1, <1>2 DEF LoopFrames
  <2> QED BY <1>2, <1>b, <2>1 DEF LoopFrames
<1>5. f \in HandlerFrames /\ f.dict = Len(dicts) + 1 /\ f.target = None
  <2>1. <<>> \in Seq(Names)
    OBVIOUS
  <2> QED BY <1>b, <1>3, <2>1 DEF HandlerFrame, HandlerFrames
<1>6. Front(frames[t]) \o <<g, f>> = Append(Append(Front(frames[t]), g), f)
  <2>1. Front(frames[t]) \in Seq(Frames) /\ g \in Frames /\ f \in Frames
    BY <1>1, <1>4, <1>5, BusyIs, InnerIs DEF Frames
  <2> HIDE DEF f, g
  <2> QED BY <2>1, TwoMore
<1>7. Enters(t, g, f)
  BY <1>6, <1>a DEF Enters
<1> HIDE DEF f, g
<1> QED BY <1>1, <1>2, <1>3, <1>4, <1>5, <1>7

\* after which the loop goes on with the dictionary that came back,
LEMMA ItemReturnsIs ==
  ASSUME Typed, NEW t \in Thread, ItemReturns(t)
  PROVE  /\ doing[t] = "return" /\ Busy(t) /\ Inner(t) \in LoopFrames /\ Inner(t).kind = "loop"
         /\ \E g \in LoopFrames : Changes(t, g) /\ g.dict = value[t] /\ g.left <= MaxItems
<1>1. doing[t] = "return" /\ Inner(t).kind = "loop" /\ Busy(t)
  BY DEF ItemReturns, Busy
<1>2. Inner(t) \in LoopFrames /\ Inner(t).left <= MaxItems /\ value[t] \in Nat
  BY <1>1, BusyInner DEF Typed, TypeInv
<1> DEFINE g == [Inner(t) EXCEPT !.dict = value[t]]
<1>3. g \in LoopFrames /\ g.dict = value[t] /\ g.left <= MaxItems
  BY <1>2 DEF LoopFrames
<1>4. Changes(t, g)
  BY DEF ItemReturns, Replace, Changes
<1> QED BY <1>1, <1>2, <1>3, <1>4

\* and a called workflow on top of its handler.
LEMMA CallIs ==
  ASSUME Typed, NEW t \in Thread, NEW n \in Names, CallWorkflow(t, n)
  PROVE  /\ doing[t] = "run" /\ Busy(t) /\ Inner(t) \in HandlerFrames /\ Inner(t).kind = "handler"
         /\ Inner(t).target = None
         /\ dicts' = [dicts EXCEPT ![Inner(t).dict] = Append(@, n)] /\ dicts[Inner(t).dict] \in Seq(Names)
         /\ n \notin Range(dicts[Inner(t).dict]) /\ Inner(t).dict \in 1..Len(dicts)
         /\ \E g \in HandlerFrames, f \in WorkflowFrames :
              /\ Enters(t, g, f) /\ g.dict = Inner(t).dict /\ g.target = n
              /\ g.saved = dicts[Inner(t).dict]
              /\ f.dict = Inner(t).dict /\ f.handles = NoError /\ f.pc = 1
<1>1. doing[t] = "run" /\ Inner(t).kind = "handler" /\ Busy(t)
      /\ dicts' = [dicts EXCEPT ![Inner(t).dict] = Append(@, n)] /\ n \notin Range(dicts[Inner(t).dict])
  BY DEF CallWorkflow, Running, Busy, IsCircular
<1>2. Inner(t) \in HandlerFrames /\ Inner(t).target = None /\ Inner(t).dict \in 1..Len(dicts)
      /\ dicts \in Seq(Seq(Names)) /\ Inner(t).dict \in Nat
  BY <1>1, BusyInner DEF Typed, TypeInv
<1>3. dicts[Inner(t).dict] \in Seq(Names)
  BY <1>2
<1> DEFINE g == [Inner(t) EXCEPT !.target = n, !.saved = dicts[Inner(t).dict]]
           f == WorkflowFrame(n, Inner(t).dict)
<1>4. g \in HandlerFrames /\ g.dict = Inner(t).dict /\ g.target = n /\ g.saved = dicts[Inner(t).dict]
  BY <1>2, <1>3 DEF HandlerFrames
<1>5. f \in WorkflowFrames /\ f.dict = Inner(t).dict /\ f.handles = NoError /\ f.pc = 1
  BY <1>2, NewWorkflow
<1>6. Front(frames[t]) \o <<g, f>> = Append(Append(Front(frames[t]), g), f)
  <2>1. Front(frames[t]) \in Seq(Frames) /\ g \in Frames /\ f \in Frames
    BY <1>1, <1>4, <1>5, BusyIs, InnerIs DEF Frames
  <2> HIDE DEF f, g
  <2> QED BY <2>1, TwoMore
<1>7. Enters(t, g, f)
  BY <1>6 DEF CallWorkflow, Enters
<1> HIDE DEF f, g
<1> QED BY <1>1, <1>2, <1>3, <1>4, <1>5, <1>7

\* A frame fits where another of its kind did.
LEMMA FitsSame ==
  ASSUME NEW b, NEW f, NEW g, NEW p, NEW n \in Nat, NEW m \in Nat, Fits(b, f, p, n),
         g.kind = f.kind, g.dict \in 1..m, g.kind = "handler" => g.dict = f.dict,
         g.kind = "workflow" => g.pc \in 1..Len(p[g.name]) + 1, g.kind = "loop" => g.left <= MaxItems
  PROVE  Fits(b, g, p, m)
BY DEF Fits

\* There are no fewer dictionaries.
LEMMA DictLens ==
  ASSUME Typed, MoreDicts
  PROVE  Len(dicts) \in Nat /\ Len(dicts') \in Nat /\ Len(dicts) <= Len(dicts')
BY DEF Typed, TypeInv, MoreDicts

\* Types and shapes are kept when the innermost frame is rewritten,
LEMMA ChangesTyped ==
  ASSUME Typed, NEW t \in Thread, Busy(t), MoreDicts, program' = program,
         leaked' \in BOOLEAN, timeouts' = timeouts,
         NEW g \in Frames, g.kind = Inner(t).kind, g.dict \in 1..Len(dicts'),
         g.kind = "handler" => g.dict = Inner(t).dict,
         g.kind = "workflow" => g.pc \in 1..Len(program[g.name]) + 1, g.kind = "loop" => g.left <= MaxItems,
         TopFits(g, "run", program), Changes(t, g)
  PROVE  Typed' /\ OneThread(t)
<1>1. /\ frames[t] \in Seq(Frames) /\ frames[t] # <<>> /\ Inner(t) = Last(frames[t])
      /\ Front(frames[t]) \in Seq(Frames)
      /\ Stacked(Front(frames[t]), program, Len(dicts))
      /\ Fits(Front(frames[t]), Inner(t), program, Len(dicts))
  BY BusyIs, InnerIs
<1>2. Len(dicts) \in Nat /\ Len(dicts') \in Nat /\ Len(dicts) <= Len(dicts')
  BY DictLens
<1> DEFINE r == Append(Front(frames[t]), g)
<1>3. Fits(Front(frames[t]), g, program, Len(dicts'))
  BY <1>1, <1>2, FitsSame
<1>4. Stacked(Front(frames[t]), program, Len(dicts'))
  BY <1>1, <1>2, StackedMore
<1>5. Stacked(r, program, Len(dicts'))
  BY <1>1, <1>3, <1>4, StackedAppend
<1>6. r \in Seq(Frames) /\ FirstKept(r, frames[t]) /\ Last(r) = g
  BY <1>1, Regrown
<1>7. Continue(t, r)
  BY DEF Changes
<1> HIDE DEF r
<1> QED BY <1>5, <1>6, <1>7, ContinueTyped

\* and when a frame is entered from it.
LEMMA EntersTyped ==
  ASSUME Typed, NEW t \in Thread, Busy(t), MoreDicts, program' = program,
         leaked' \in BOOLEAN, timeouts' = timeouts,
         NEW g \in Frames, g.kind = Inner(t).kind, g.dict \in 1..Len(dicts'),
         g.kind = "handler" => g.dict = Inner(t).dict,
         g.kind = "workflow" => g.pc \in 1..Len(program[g.name]) + 1, g.kind = "loop" => g.left <= MaxItems,
         NEW f \in Frames, f.dict \in 1..Len(dicts'),
         f.kind = "workflow" => f.pc \in 1..Len(program[f.name]) + 1, f.kind = "loop" => f.left <= MaxItems,
         g.kind = "workflow" => g.pc <= Len(program[g.name]),
         g.kind = "handler" => g.target # None,
         g.kind = "workflow" /\ f.kind = "workflow" => g.handles # NoError,
         g.kind = "workflow" /\ f.kind = "handler" => f.dict = g.dict,
         TopFits(f, "run", program), Enters(t, g, f)
  PROVE  Typed' /\ OneThread(t)
<1>1. /\ frames[t] \in Seq(Frames) /\ frames[t] # <<>> /\ Inner(t) = Last(frames[t])
      /\ Front(frames[t]) \in Seq(Frames)
      /\ Stacked(Front(frames[t]), program, Len(dicts))
      /\ Fits(Front(frames[t]), Inner(t), program, Len(dicts))
  BY BusyIs, InnerIs
<1>2. Len(dicts) \in Nat /\ Len(dicts') \in Nat /\ Len(dicts) <= Len(dicts')
  BY DictLens
<1> DEFINE r == Append(Front(frames[t]), g)
<1>3. Fits(Front(frames[t]), g, program, Len(dicts'))
  BY <1>1, <1>2, FitsSame
<1>4. Stacked(Front(frames[t]), program, Len(dicts'))
  BY <1>1, <1>2, StackedMore
<1>5. Stacked(r, program, Len(dicts'))
  BY <1>1, <1>3, <1>4, StackedAppend
<1>6. r \in Seq(Frames) /\ FirstKept(r, frames[t]) /\ Last(r) = g /\ r # <<>>
  BY <1>1, Regrown DEF FirstKept
<1>7. Continue(t, Append(r, f))
  BY DEF Enters
<1> HIDE DEF r
<1>8. Fits(r, f, program, Len(dicts'))
  BY <1>6 DEF Fits
<1>9. Stacked(Append(r, f), program, Len(dicts'))
  BY <1>5, <1>6, <1>8, StackedAppend
<1>10. FirstKept(Append(r, f), frames[t]) /\ Append(r, f) \in Seq(Frames) /\ Last(Append(r, f)) = f
  BY <1>1, <1>6, FirstOfAppend, LastOfAppend
<1> QED BY <1>7, <1>9, <1>10, ContinueTyped

\* No dictionary is lost if none is changed,
LEMMA SameDicts ==
  ASSUME Typed, dicts' = dicts
  PROVE  MoreDicts
BY DEF Typed, TypeInv, MoreDicts

\* one is made,
LEMMA OneMoreDict ==
  ASSUME Typed, NEW s \in Seq(Names), dicts' = Append(dicts, s)
  PROVE  /\ MoreDicts /\ Len(dicts') = Len(dicts) + 1 /\ Len(dicts) \in Nat
         /\ dicts'[Len(dicts) + 1] = s /\ \A i \in 1..Len(dicts) : dicts'[i] = dicts[i]
<1>1. dicts \in Seq(Seq(Names))
  BY DEF Typed, TypeInv
<1>2. dicts' \in Seq(Seq(Names)) /\ Len(dicts') = Len(dicts) + 1 /\ Len(dicts) \in Nat
  BY <1>1
<1>3. dicts'[Len(dicts) + 1] = s /\ \A i \in 1..Len(dicts) : dicts'[i] = dicts[i]
  BY <1>1
<1> QED BY <1>2, <1>3 DEF MoreDicts

\* or one is written.
LEMMA ChangedDict ==
  ASSUME Typed, NEW d \in 1..Len(dicts), NEW s \in Seq(Names), dicts' = [dicts EXCEPT ![d] = s]
  PROVE  /\ MoreDicts /\ Len(dicts') = Len(dicts) /\ Len(dicts) \in Nat
         /\ dicts'[d] = s /\ \A i \in 1..Len(dicts) : i # d => dicts'[i] = dicts[i]
<1>1. dicts \in Seq(Seq(Names))
  BY DEF Typed, TypeInv
<1>2. dicts' \in Seq(Seq(Names)) /\ Len(dicts') = Len(dicts) /\ Len(dicts) \in Nat
  BY <1>1
<1>3. dicts'[d] = s /\ \A i \in 1..Len(dicts) : i # d => dicts'[i] = dicts[i]
  BY <1>1
<1> QED BY <1>2, <1>3 DEF MoreDicts

\* SkipStep keeps types and shapes.
LEMMA SkipTyped ==
  ASSUME Typed, NEW t \in Thread, SkipStep(t)
  PROVE  Typed' /\ OneThread(t)
<1>1. PICK g \in WorkflowFrames :
        /\ Changes(t, g) /\ g.dict = Inner(t).dict /\ g.handles = NoError /\ g.name = Inner(t).name
        /\ g.pc = Inner(t).pc + 1 /\ AtStep(t)
  BY SkipIs
<1>2. Busy(t) /\ Inner(t) \in WorkflowFrames /\ Inner(t).pc >= 1 /\ Inner(t).pc <= Len(program[Inner(t).name])
      /\ Len(program[Inner(t).name]) \in Nat /\ Inner(t).kind = "workflow" /\ Inner(t).pc \in Nat
  BY <1>1, AtStepIs, StepIs DEF WorkflowFrames
<1>3. UNCHANGED <<program, dicts, leaked, timeouts>> /\ leaked' \in BOOLEAN
  BY DEF SkipStep, Typed, TypeInv
<1>4. MoreDicts /\ g.dict \in 1..Len(dicts')
  BY <1>1, <1>2, <1>3, SameDicts, BusyInner
<1>5. g.kind = "workflow" /\ g \in Frames /\ g.pc \in 1..Len(program[g.name]) + 1
  BY <1>1, <1>2 DEF WorkflowFrames, Frames
<1>6. TopFits(g, "run", program)
  BY <1>1, <1>5 DEF TopFits
<1> QED BY <1>1, <1>2, <1>3, <1>4, <1>5, <1>6, ChangesTyped

\* StartStep keeps types and shapes.
LEMMA StartStepTyped ==
  ASSUME Typed, NEW t \in Thread, StartStep(t)
  PROVE  Typed'
<1>1. PICK f : /\ IsBody(f, StepOf(Inner(t)), Inner(t).dict) /\ AtStep(t)
               /\ \/ Enters(t, Inner(t), f)
                  \/ StepOf(Inner(t)).loop # "parallel" /\ StartThreads(t, <<f>>)
  BY StartStepIs
<1>2. Busy(t) /\ Inner(t) \in WorkflowFrames /\ Inner(t).pc >= 1 /\ Inner(t).pc <= Len(program[Inner(t).name])
      /\ Len(program[Inner(t).name]) \in Nat /\ Inner(t).kind = "workflow" /\ Inner(t).pc \in Nat
      /\ doing[t] = "run" /\ Inner(t) \in Frames
  BY <1>1, AtStepIs, StepIs DEF WorkflowFrames, Frames
<1>3. UNCHANGED <<program, dicts, leaked, timeouts>> /\ leaked' \in BOOLEAN
  BY DEF StartStep, Typed, TypeInv
<1>4. MoreDicts /\ Inner(t).dict \in 1..Len(dicts') /\ Len(dicts') = Len(dicts)
  BY <1>2, <1>3, SameDicts, BusyInner
<1>5. f \in Frames /\ f.dict = Inner(t).dict /\ f.kind # "workflow"
      /\ (f.kind = "loop" => f.left <= MaxItems) /\ (f.kind = "handler" => f.target = None)
  BY <1>1 DEF IsBody
<1>6. TopFits(f, "run", program)
  BY <1>5 DEF TopFits
<1>7. CASE Enters(t, Inner(t), f)
  BY <1>2, <1>3, <1>4, <1>5, <1>6, <1>7, EntersTyped
<1>8. CASE StepOf(Inner(t)).loop # "parallel" /\ StartThreads(t, <<f>>)
  <2>1. Bodies(<<f>>, Inner(t), Len(dicts'))
    <3>1. Len(<<f>>) = 1 /\ <<f>>[1] = f /\ <<f>> # <<>>
      OBVIOUS
    <3>2. Fits(<<>>, f, program, Len(dicts'))
      BY <1>4, <1>5 DEF Fits
    <3> QED BY <1>5, <1>6, <3>1, <3>2 DEF Bodies
  <2>2. <<f>> \in Seq(Frames)
    BY <1>5
  <2> QED BY <1>2, <1>3, <1>4, <1>8, <2>1, <2>2, StartTyped
<1> QED BY <1>1, <1>7, <1>8

\* A parallel loop starts handlers, each with a copy of its own.
LEMMA ParallelIs ==
  ASSUME Typed, NEW t \in Thread, StartParallel(t)
  PROVE  /\ AtStep(t) /\ StepOf(Inner(t)).loop = "parallel"
         /\ \E n \in Nat \ {0}, fs \in Seq(Frames) :
              /\ dicts' = dicts \o [i \in 1..n |-> dicts[Inner(t).dict]]
              /\ Len(fs) = n /\ StartThreads(t, fs)
              /\ \A i \in 1..n : /\ fs[i] \in HandlerFrames /\ fs[i].target = None
                                 /\ fs[i].dict = Len(dicts) + i /\ fs[i].kind = "handler"
<1>1. /\ AtStep(t) /\ StepOf(Inner(t)) \in Step /\ StepOf(Inner(t)).loop = "parallel" /\ Len(dicts) \in Nat
      /\ MaxItems \in Nat
  <2>1. AtStep(t) /\ StepOf(Inner(t)).loop = "parallel"
    BY DEF StartParallel
  <2> QED BY <2>1, AtStepIs, EngineAssumption DEF Typed, TypeInv
<1>2. PICK n \in 1..MaxItems :
        /\ dicts' = dicts \o [i \in 1..n |-> dicts[Inner(t).dict]]
        /\ StartThreads(t, [i \in 1..n |-> HandlerFrame(StepOf(Inner(t)), Len(dicts) + i)])
  BY DEF StartParallel
<1> DEFINE fs == [i \in 1..n |-> HandlerFrame(StepOf(Inner(t)), Len(dicts) + i)]
<1>3. n \in Nat \ {0}
  BY <1>1
<1>4. \A i \in 1..n : /\ fs[i] \in HandlerFrames /\ fs[i].target = None
                      /\ fs[i].dict = Len(dicts) + i /\ fs[i].kind = "handler"
  <2>1. <<>> \in Seq(Names)
    OBVIOUS
  <2>2. ASSUME NEW i \in 1..n PROVE HandlerFrame(StepOf(Inner(t)), Len(dicts) + i) \in HandlerFrames
    <3>1. Len(dicts) + i \in Nat
      BY <1>1
    <3> QED BY <1>1, <2>1, <3>1 DEF HandlerFrame, HandlerFrames
  <2> QED BY <2>2 DEF HandlerFrame
<1>5. fs \in Seq(Frames) /\ Len(fs) = n
  <2>1. \A i \in 1..n : fs[i] \in Frames
    BY <1>4 DEF Frames
  <2>2. fs \in [1..n -> Frames]
    BY <2>1
  <2> QED BY <1>3, <2>2
<1>6. StartThreads(t, fs)
  BY <1>2
<1> HIDE DEF fs
<1> QED BY <1>1, <1>2, <1>3, <1>4, <1>5, <1>6

\* The copies are dictionaries after all others.
LEMMA ManyMoreDicts ==
  ASSUME Typed, NEW s \in Seq(Names), NEW n \in Nat, dicts' = dicts \o [i \in 1..n |-> s]
  PROVE  /\ MoreDicts /\ Len(dicts') = Len(dicts) + n /\ Len(dicts) \in Nat
         /\ \A i \in 1..n : dicts'[Len(dicts) + i] = s
         /\ \A i \in 1..Len(dicts) : dicts'[i] = dicts[i]
<1> DEFINE new == [i \in 1..n |-> s]
<1>1. dicts \in Seq(Seq(Names)) /\ new \in Seq(Seq(Names)) /\ Len(new) = n /\ \A i \in 1..n : new[i] = s
  BY DEF Typed, TypeInv
<1>2. dicts' = dicts \o new
  OBVIOUS
<1> HIDE DEF new
<1>3. dicts' \in Seq(Seq(Names)) /\ Len(dicts') = Len(dicts) + n /\ Len(dicts) \in Nat
  BY <1>1, <1>2
<1>4. \A i \in 1..Len(dicts) : dicts'[i] = dicts[i]
  BY <1>1, <1>2
<1>5. ASSUME NEW i \in 1..n PROVE dicts'[Len(dicts) + i] = s
  BY <1>1, <1>2
<1> QED BY <1>3, <1>4, <1>5 DEF MoreDicts

\* StartParallel keeps types and shapes.
LEMMA ParallelTyped ==
  ASSUME Typed, NEW t \in Thread, StartParallel(t)
  PROVE  Typed'
<1>1. PICK n \in Nat \ {0}, fs \in Seq(Frames) :
        /\ dicts' = dicts \o [i \in 1..n |-> dicts[Inner(t).dict]]
        /\ Len(fs) = n /\ StartThreads(t, fs)
        /\ \A i \in 1..n : /\ fs[i] \in HandlerFrames /\ fs[i].target = None
                           /\ fs[i].dict = Len(dicts) + i /\ fs[i].kind = "handler"
  BY ParallelIs
<1>2. AtStep(t) /\ StepOf(Inner(t)).loop = "parallel"
  BY ParallelIs
<1>3. Busy(t) /\ Inner(t) \in WorkflowFrames /\ Inner(t).pc <= Len(program[Inner(t).name])
      /\ Inner(t).kind = "workflow" /\ doing[t] = "run"
  BY <1>2, AtStepIs
<1>4. UNCHANGED <<program, leaked, timeouts>> /\ leaked' \in BOOLEAN
  BY DEF StartParallel, Typed, TypeInv
<1>5. dicts[Inner(t).dict] \in Seq(Names)
  <2>1. Inner(t).dict \in 1..Len(dicts)
    BY <1>3, BusyInner
  <2> QED BY <2>1 DEF Typed, TypeInv
<1>6. MoreDicts /\ Len(dicts') = Len(dicts) + n /\ Len(dicts) \in Nat
  BY <1>1, <1>5, ManyMoreDicts
<1>7. Bodies(fs, Inner(t), Len(dicts'))
  <2>1. fs # <<>>
    BY <1>1
  <2>2. ASSUME NEW i \in 1..n
        PROVE  fs[i].kind # "workflow" /\ Fits(<<>>, fs[i], program, Len(dicts')) /\ TopFits(fs[i], "run", program)
    <3>1. fs[i].kind = "handler" /\ fs[i].dict \in 1..Len(dicts') /\ fs[i].target = None
      BY <1>1, <1>6
    <3> QED BY <3>1 DEF Fits, TopFits
  <2> QED BY <1>1, <1>2, <2>1, <2>2 DEF Bodies
<1> QED BY <1>1, <1>3, <1>4, <1>6, <1>7, StartTyped

\* A join returns what a thread has returned, or a copy of it.
LEMMA JoinReturnsIs ==
  ASSUME Typed, NEW t \in Thread, JoinReturns(t)
  PROVE  \E c \in Range(awaits[t]) :
           /\ AllEnded(t) /\ doing[t] = "join" /\ doing[c] = "ended" /\ error[c] = NoError /\ c \in Thread
           /\ value[c] \in 1..Len(dicts) /\ StartedBy(t, c) /\ frames[c] = <<>>
           /\ \/ /\ dicts' = Append(dicts, dicts[value[c]]) /\ dicts[value[c]] \in Seq(Names)
                 /\ EndJoin(t, "return", Len(dicts) + 1, NoError)
              \/ UNCHANGED dicts /\ EndJoin(t, "return", value[c], NoError)
<1>1. doing[t] = "join" /\ AllEnded(t) /\ \A u \in Range(awaits[t]) : doing[u] = "ended" /\ error[u] = NoError
  BY DEF JoinReturns, AllEnded
<1>2. awaits[t] \in Seq(Thread) /\ awaits[t] # <<>>
  BY <1>1 DEF Typed, TypeInv, Phased
<1> DEFINE c == Last(awaits[t])
<1>3. c \in Range(awaits[t])
  <2>1. Len(awaits[t]) \in DOMAIN awaits[t]
    BY <1>2
  <2> QED BY <2>1 DEF Last, Range
<1> HIDE DEF c
<1>4. c \in Thread /\ StartedBy(t, c) /\ doing[c] = "ended" /\ error[c] = NoError
  BY <1>1, <1>3, NotAwaited
<1>5. Phased(c) /\ Len(dicts) \in Nat /\ dicts \in Seq(Seq(Names))
  BY <1>4 DEF Typed, TypeInv
<1>6. value[c] \in 1..Len(dicts) /\ frames[c] = <<>>
  BY <1>4, <1>5 DEF Phased
<1>7. dicts[value[c]] \in Seq(Names)
  BY <1>5, <1>6
<1>8. \/ dicts' = Append(dicts, dicts[value[c]]) /\ EndJoin(t, "return", Len(dicts) + 1, NoError)
      \/ UNCHANGED dicts /\ EndJoin(t, "return", value[c], NoError)
  BY DEF JoinReturns, c
<1> QED BY <1>1, <1>3, <1>4, <1>6, <1>7, <1>8

\* JoinReturns keeps types and shapes.
LEMMA JoinReturnsTyped ==
  ASSUME Typed, NEW t \in Thread, JoinReturns(t)
  PROVE  Typed'
<1>1. PICK c \in Range(awaits[t]) :
           /\ AllEnded(t) /\ doing[t] = "join" /\ doing[c] = "ended" /\ error[c] = NoError /\ c \in Thread
           /\ value[c] \in 1..Len(dicts) /\ StartedBy(t, c) /\ frames[c] = <<>>
           /\ \/ /\ dicts' = Append(dicts, dicts[value[c]]) /\ dicts[value[c]] \in Seq(Names)
                 /\ EndJoin(t, "return", Len(dicts) + 1, NoError)
              \/ UNCHANGED dicts /\ EndJoin(t, "return", value[c], NoError)
  BY JoinReturnsIs
<1>2. UNCHANGED <<program, frames, leaked, timeouts>> /\ leaked' \in BOOLEAN /\ NoError \in Errs
  BY NoErrorType DEF JoinReturns, Typed, TypeInv
<1>3. CASE dicts' = Append(dicts, dicts[value[c]]) /\ dicts[value[c]] \in Seq(Names)
           /\ EndJoin(t, "return", Len(dicts) + 1, NoError)
  <2>1. MoreDicts /\ Len(dicts) + 1 \in 0..Len(dicts') /\ Len(dicts) + 1 # 0
    <3>1. MoreDicts /\ Len(dicts') = Len(dicts) + 1 /\ Len(dicts) \in Nat
      BY <1>3, OneMoreDict
    <3> QED BY <3>1
  <2> QED BY <1>1, <1>2, <1>3, <2>1, EndTyped
<1>4. CASE UNCHANGED dicts /\ EndJoin(t, "return", value[c], NoError)
  <2>1. MoreDicts /\ value[c] \in 0..Len(dicts') /\ value[c] # 0
    BY <1>1, <1>4, SameDicts
  <2> QED BY <1>1, <1>2, <1>4, <2>1, EndTyped
<1> QED BY <1>1, <1>3, <1>4

\* JoinRaises keeps types and shapes.
LEMMA JoinRaisesTyped ==
  ASSUME Typed, NEW t \in Thread, JoinRaises(t)
  PROVE  Typed'
<1>1. AllEnded(t) /\ UNCHANGED <<program, dicts, frames, leaked, timeouts>> /\ leaked' \in BOOLEAN
  BY DEF JoinRaises, Typed, TypeInv
<1>2. PICK u \in Range(awaits[t]) : error[u] # NoError /\ EndJoin(t, "raise", 0, error[u])
  BY DEF JoinRaises
<1>3. u \in Thread
  BY <1>2, NotAwaited
<1>4. error[u] \in Errs /\ MoreDicts /\ 0 \in 0..Len(dicts')
  BY <1>1, <1>3, SameDicts, DictLens DEF Typed, TypeInv
<1> QED BY <1>1, <1>2, <1>4, EndTyped

\* StepReturns keeps types and shapes.
LEMMA StepReturnsTyped ==
  ASSUME Typed, NEW t \in Thread, StepReturns(t)
  PROVE  Typed' /\ OneThread(t)
<1>1. /\ doing[t] = "return" /\ Busy(t) /\ Inner(t) \in WorkflowFrames
      /\ Inner(t).kind = "workflow" /\ Inner(t).pc <= Len(program[Inner(t).name])
  BY StepReturnsIs
<1>2. PICK g \in WorkflowFrames :
              /\ Changes(t, g) /\ g.dict = value[t] /\ g.handles = NoError /\ g.name = Inner(t).name
              /\ g.pc = Inner(t).pc + 1
  BY StepReturnsIs
<1>3. UNCHANGED <<program, dicts, leaked, timeouts>> /\ leaked' \in BOOLEAN
  BY DEF StepReturns, Typed, TypeInv
<1>4. MoreDicts /\ g.dict \in 1..Len(dicts')
  <2>1. value[t] \in 1..Len(dicts)
    BY <1>1, BusyIs DEF Phased
  <2> QED BY <1>2, <1>3, <2>1, SameDicts
<1>5. g.kind = "workflow" /\ g \in Frames /\ g.pc \in 1..Len(program[g.name]) + 1
  <2>1. Inner(t).pc >= 1 /\ Inner(t).pc \in Nat /\ Len(program[Inner(t).name]) \in Nat
    BY <1>1, BusyInner, StepIs DEF WorkflowFrames
  <2> QED BY <1>1, <1>2, <2>1 DEF WorkflowFrames, Frames
<1>6. TopFits(g, "run", program)
  BY <1>2, <1>5 DEF TopFits
<1> QED BY <1>1, <1>2, <1>3, <1>4, <1>5, <1>6, ChangesTyped

\* HandleError keeps types and shapes.
LEMMA HandleErrorTyped ==
  ASSUME Typed, NEW t \in Thread, HandleError(t)
  PROVE  Typed' /\ OneThread(t)
<1>1. /\ doing[t] = "raise" /\ Busy(t) /\ Inner(t) \in WorkflowFrames /\ Inner(t).handles = NoError
      /\ Inner(t).kind = "workflow" /\ Inner(t).pc <= Len(program[Inner(t).name])
  BY HandleErrorIs
<1>2. PICK g \in WorkflowFrames, f \in WorkflowFrames :
              /\ Enters(t, g, f) /\ g.dict = Inner(t).dict /\ g.handles = error[t] /\ g.name = Inner(t).name
              /\ g.pc = Inner(t).pc
              /\ f.dict = Inner(t).dict /\ f.handles = NoError /\ f.pc = 1
  BY HandleErrorIs
<1>3. UNCHANGED <<program, dicts, leaked, timeouts>> /\ leaked' \in BOOLEAN
  BY DEF HandleError, Typed, TypeInv
<1>4. MoreDicts /\ g.dict \in 1..Len(dicts') /\ f.dict \in 1..Len(dicts')
  BY <1>1, <1>2, <1>3, SameDicts, BusyInner
<1>5. g.kind = "workflow" /\ g \in Frames /\ g.pc \in 1..Len(program[g.name]) + 1 /\ g.pc <= Len(program[g.name])
  <2>1. Inner(t).pc >= 1 /\ Inner(t).pc \in Nat /\ Len(program[Inner(t).name]) \in Nat
    BY <1>1, BusyInner, StepIs DEF WorkflowFrames
  <2> QED BY <1>1, <1>2, <2>1 DEF WorkflowFrames, Frames
<1>6. f.kind = "workflow" /\ f \in Frames /\ f.pc \in 1..Len(program[f.name]) + 1
  <2>1. f.name \in Names /\ program \in [Names -> Seq(Step)]
    BY DEF WorkflowFrames, Typed, TypeInv
  <2>2. Len(program[f.name]) \in Nat
    BY <2>1
  <2> QED BY <1>2, <2>2 DEF WorkflowFrames, Frames
<1>7. TopFits(f, "run", program)
  BY <1>2, <1>6 DEF TopFits
<1>8. g.handles # NoError
  BY <1>1, <1>2, BusyIs DEF Phased
<1> QED BY <1>1, <1>2, <1>3, <1>4, <1>5, <1>6, <1>7, <1>8, EntersTyped

\* LoopRunsItem keeps types and shapes.
LEMMA LoopRunsTyped ==
  ASSUME Typed, NEW t \in Thread, LoopRunsItem(t)
  PROVE  Typed' /\ OneThread(t)
<1>1. /\ doing[t] = "run" /\ Busy(t) /\ Inner(t) \in LoopFrames /\ Inner(t).kind = "loop"
      /\ dicts' = Append(dicts, dicts[Inner(t).dict]) /\ dicts[Inner(t).dict] \in Seq(Names)
  BY LoopRunsIs
<1>2. PICK g \in LoopFrames, f \in HandlerFrames :
              /\ Enters(t, g, f) /\ g.dict = Inner(t).dict /\ g.left <= MaxItems
              /\ f.dict = Len(dicts) + 1 /\ f.target = None
  BY LoopRunsIs
<1>3. UNCHANGED <<program, leaked, timeouts>> /\ leaked' \in BOOLEAN
  BY DEF LoopRunsItem, Typed, TypeInv
<1>4. MoreDicts /\ Len(dicts') = Len(dicts) + 1 /\ Len(dicts) \in Nat
  BY <1>1, OneMoreDict
<1>5. g.dict \in 1..Len(dicts') /\ f.dict \in 1..Len(dicts')
  <2>1. Inner(t).dict \in 1..Len(dicts)
    BY <1>1, BusyInner
  <2> QED BY <1>2, <1>4, <2>1
<1>6. g.kind = "loop" /\ g \in Frames /\ f.kind = "handler" /\ f \in Frames
  BY DEF LoopFrames, HandlerFrames, Frames
<1>7. TopFits(f, "run", program)
  BY <1>2, <1>6 DEF TopFits
<1> QED BY <1>1, <1>2, <1>3, <1>4, <1>5, <1>6, <1>7, EntersTyped

\* ItemReturns keeps types and shapes.
LEMMA ItemReturnsTyped ==
  ASSUME Typed, NEW t \in Thread, ItemReturns(t)
  PROVE  Typed' /\ OneThread(t)
<1>1. doing[t] = "return" /\ Busy(t) /\ Inner(t) \in LoopFrames /\ Inner(t).kind = "loop"
  BY ItemReturnsIs
<1>2. PICK g \in LoopFrames : Changes(t, g) /\ g.dict = value[t] /\ g.left <= MaxItems
  BY ItemReturnsIs
<1>3. UNCHANGED <<program, dicts, leaked, timeouts>> /\ leaked' \in BOOLEAN
  BY DEF ItemReturns, Typed, TypeInv
<1>4. MoreDicts /\ g.dict \in 1..Len(dicts')
  <2>1. value[t] \in 1..Len(dicts)
    BY <1>1, BusyIs DEF Phased
  <2> QED BY <1>2, <1>3, <2>1, SameDicts
<1>5. g.kind = "loop" /\ g \in Frames
  BY DEF LoopFrames, Frames
<1>6. TopFits(g, "run", program)
  BY <1>5 DEF TopFits
<1> QED BY <1>1, <1>2, <1>3, <1>4, <1>5, <1>6, ChangesTyped

\* CallWorkflow keeps types and shapes.
LEMMA CallTyped ==
  ASSUME Typed, NEW t \in Thread, NEW n \in Names, CallWorkflow(t, n)
  PROVE  Typed' /\ OneThread(t)
<1>1. /\ doing[t] = "run" /\ Busy(t) /\ Inner(t) \in HandlerFrames /\ Inner(t).kind = "handler"
      /\ dicts' = [dicts EXCEPT ![Inner(t).dict] = Append(@, n)] /\ dicts[Inner(t).dict] \in Seq(Names)
      /\ Inner(t).dict \in 1..Len(dicts)
  BY CallIs
<1>2. PICK g \in HandlerFrames, f \in WorkflowFrames :
              /\ Enters(t, g, f) /\ g.dict = Inner(t).dict /\ g.target = n
              /\ g.saved = dicts[Inner(t).dict]
              /\ f.dict = Inner(t).dict /\ f.handles = NoError /\ f.pc = 1
  BY CallIs
<1>3. UNCHANGED <<program, leaked, timeouts>> /\ leaked' \in BOOLEAN
  BY DEF CallWorkflow, Typed, TypeInv
<1>4. MoreDicts /\ Len(dicts') = Len(dicts)
  <2>1. Append(dicts[Inner(t).dict], n) \in Seq(Names)
    BY <1>1
  <2>2. dicts' = [dicts EXCEPT ![Inner(t).dict] = Append(dicts[Inner(t).dict], n)]
    BY <1>1
  <2> QED BY <1>1, <2>1, <2>2, ChangedDict
<1>5. g.dict \in 1..Len(dicts') /\ f.dict \in 1..Len(dicts') /\ g.target # None
  BY <1>1, <1>2, <1>4, EngineAssumption
<1>6. g.kind = "handler" /\ g \in Frames /\ f.kind = "workflow" /\ f \in Frames
  BY DEF WorkflowFrames, HandlerFrames, Frames
<1>7. f.pc \in 1..Len(program[f.name]) + 1
  <2>1. f.name \in Names /\ program \in [Names -> Seq(Step)]
    BY DEF WorkflowFrames, Typed, TypeInv
  <2>2. Len(program[f.name]) \in Nat
    BY <2>1
  <2> QED BY <1>2, <2>2
<1>8. TopFits(f, "run", program)
  BY <1>2, <1>6 DEF TopFits
<1> QED BY <1>1, <1>2, <1>3, <1>4, <1>5, <1>6, <1>7, <1>8, EntersTyped

\* The actions that leave a frame: with a value,
Returns(t, d) ==
  /\ Leave(t, d, NoError) /\ Busy(t) /\ d \in 1..Len(dicts)
  /\ \/ doing[t] = "run" /\ d = Inner(t).dict /\ UNCHANGED dicts /\ (WorkflowEnds(t) \/ LoopEnds(t) \/ HandlerReturns(t))
     \/ /\ CallReturns(t) /\ doing[t] = "return" /\ d = value[t] /\ Inner(t).kind = "handler"
        /\ Inner(t) \in HandlerFrames /\ dicts' = [dicts EXCEPT ![d] = Inner(t).saved]

\* or with an exception.
Raises(t, e) ==
  /\ Leave(t, 0, e) /\ Busy(t) /\ e \in Errs /\ e # NoError /\ UNCHANGED dicts
  /\ \/ /\ doing[t] = "run" /\ e.under = HandledBy(t) /\ UNCHANGED leaked
        /\ Inner(t).kind \in {"workflow", "handler"}
     \/ /\ doing[t] = "raise" /\ Inner(t).kind = "workflow" /\ UNCHANGED leaked
        /\ e = IF Inner(t).handles # NoError THEN Inner(t).handles ELSE error[t]
     \/ /\ doing[t] = "raise" /\ Inner(t).kind \in {"handler", "loop"} /\ e = error[t]
        /\ leaked' = (leaked \/ Inner(t).kind = "handler")

Leaves(t) ==
  /\ UNCHANGED <<program, timeouts>> /\ leaked' \in BOOLEAN
  /\ (\E d \in 1..Len(dicts) : Returns(t, d) /\ UNCHANGED leaked) \/ (\E e \in Errs : Raises(t, e))

\* These actions leave a frame with a value,
LEMMA ReturnsAre ==
  ASSUME Typed, NEW t \in Thread,
         WorkflowEnds(t) \/ LoopEnds(t) \/ HandlerReturns(t) \/ CallReturns(t)
  PROVE  Leaves(t)
<1>1. Busy(t) /\ UNCHANGED <<program, timeouts, leaked>> /\ leaked' \in BOOLEAN
  BY DEF Busy, WorkflowEnds, LoopEnds, HandlerReturns, CallReturns, Running, Typed, TypeInv
<1>2. Inner(t).dict \in 1..Len(dicts)
  BY <1>1, BusyInner
<1>3. CASE WorkflowEnds(t) \/ LoopEnds(t) \/ HandlerReturns(t)
  <2>1. Leave(t, Inner(t).dict, NoError) /\ doing[t] = "run" /\ UNCHANGED dicts
    BY <1>3 DEF WorkflowEnds, LoopEnds, HandlerReturns, Running, Return
  <2>2. Returns(t, Inner(t).dict)
    BY <1>1, <1>2, <1>3, <2>1 DEF Returns
  <2> QED BY <1>1, <1>2, <2>2 DEF Leaves
<1>4. CASE CallReturns(t)
  <2>1. Leave(t, value[t], NoError) /\ doing[t] = "return" /\ Inner(t).kind = "handler"
        /\ dicts' = [dicts EXCEPT ![value[t]] = Inner(t).saved]
    BY <1>4 DEF CallReturns, Return, RestoredStack
  <2>2. value[t] \in 1..Len(dicts) /\ Inner(t) \in HandlerFrames
    BY <1>1, <2>1, BusyIs, BusyInner DEF Phased
  <2>3. Returns(t, value[t])
    BY <1>1, <1>4, <2>1, <2>2 DEF Returns
  <2> QED BY <1>1, <2>2, <2>3 DEF Leaves
<1> QED BY <1>3, <1>4

\* and these with an exception.
LEMMA RaisesAre ==
  ASSUME Typed, NEW t \in Thread,
         \/ EntryFails(t) \/ HandlerRaises(t) \/ (\E n \in Names : RefuseCall(t, n))
         \/ WorkflowRaises(t) \/ PassOn(t)
  PROVE  Leaves(t)
<1>1. Busy(t) /\ UNCHANGED <<program, timeouts, dicts>>
  BY DEF Busy, EntryFails, HandlerRaises, RefuseCall, WorkflowRaises, PassOn, Running
<1>2. frames[t] # <<>> /\ Phased(t) /\ leaked \in BOOLEAN /\ error[t] \in Errs
  BY <1>1, BusyIs DEF Typed, TypeInv
<1>3. CASE EntryFails(t) \/ HandlerRaises(t) \/ (\E n \in Names : RefuseCall(t, n))
  <2>1. PICK k \in {"error", "circular"} : Leave(t, 0, NewError(t, k))
    BY <1>3 DEF EntryFails, HandlerRaises, RefuseCall, Raise
  <2>2. doing[t] = "run" /\ UNCHANGED leaked /\ Inner(t).kind \in {"workflow", "handler"}
    BY <1>3 DEF EntryFails, HandlerRaises, RefuseCall, Running
  <2>3. NewError(t, k) \in Errs /\ NewError(t, k) # NoError /\ NewError(t, k).under = HandledBy(t)
    BY <1>2, NewErrorType
  <2>4. Raises(t, NewError(t, k))
    BY <1>1, <2>1, <2>2, <2>3 DEF Raises
  <2> QED BY <1>1, <1>2, <2>2, <2>3, <2>4 DEF Leaves
<1>4. CASE WorkflowRaises(t)
  <2> DEFINE e == IF Inner(t).handles # NoError THEN Inner(t).handles ELSE error[t]
  <2>1. Leave(t, 0, e) /\ doing[t] = "raise" /\ Inner(t).kind = "workflow" /\ UNCHANGED leaked
    BY <1>4 DEF WorkflowRaises, Raise, ErrorToRaise
  <2>2. Inner(t) \in WorkflowFrames /\ error[t] # NoError
    BY <1>1, <1>2, <2>1, BusyInner DEF Phased
  <2>3. e \in Errs /\ e # NoError
    BY <1>2, <2>2 DEF WorkflowFrames
  <2>4. Raises(t, e)
    BY <1>1, <2>1, <2>3 DEF Raises
  <2> QED BY <1>1, <1>2, <2>1, <2>3, <2>4 DEF Leaves
<1>5. CASE PassOn(t)
  <2>1. Leave(t, 0, error[t]) /\ doing[t] = "raise" /\ Inner(t).kind \in {"handler", "loop"}
        /\ leaked' = (leaked \/ Inner(t).kind = "handler")
    BY <1>5 DEF PassOn, Raise
  <2>2. error[t] # NoError
    BY <1>2, <2>1 DEF Phased
  <2>3. Raises(t, error[t])
    BY <1>1, <1>2, <2>1, <2>2 DEF Raises
  <2>4. leaked' \in BOOLEAN
    BY <1>2, <2>1
  <2> QED BY <1>1, <1>2, <2>3, <2>4 DEF Leaves
<1> QED BY <1>3, <1>4, <1>5

\* Leaving a frame keeps types and shapes.
LEMMA LeavesTyped ==
  ASSUME Typed, NEW t \in Thread, Leaves(t)
  PROVE  Typed' /\ OneThread(t)
<1>1. UNCHANGED <<program, timeouts>> /\ leaked' \in BOOLEAN
  BY DEF Leaves
<1>2. ASSUME NEW d \in 1..Len(dicts), Returns(t, d) PROVE Typed' /\ OneThread(t)
  <2>1. Leave(t, d, NoError) /\ Busy(t) /\ NoError \in Errs
    BY <1>2, NoErrorType DEF Returns
  <2>2. d \in 0..Len(dicts) /\ d # 0
    OBVIOUS
  <2>3. CASE dicts' = dicts
    BY <1>1, <2>1, <2>2, <2>3, SameDicts, LeaveTyped
  <2>4. CASE Inner(t) \in HandlerFrames /\ dicts' = [dicts EXCEPT ![d] = Inner(t).saved]
    <3>1. Inner(t).saved \in Seq(Names)
      BY <2>4 DEF HandlerFrames
    <3>2. MoreDicts
      BY <2>4, <3>1, ChangedDict
    <3> QED BY <1>1, <2>1, <2>2, <3>2, LeaveTyped
  <2> QED BY <1>2, <2>3, <2>4 DEF Returns
<1>3. ASSUME NEW e \in Errs, Raises(t, e) PROVE Typed' /\ OneThread(t)
  <2>1. Leave(t, 0, e) /\ Busy(t) /\ e # NoError /\ dicts' = dicts
    BY <1>3 DEF Raises
  <2>2. MoreDicts /\ 0 \in 0..Len(dicts)
    BY <2>1, SameDicts, DictLens
  <2> QED BY <1>1, <2>1, <2>2, LeaveTyped
<1> QED BY <1>2, <1>3 DEF Leaves

\* The steps of a thread, those that leave a frame as one case.
LEMMA StepCases ==
  ASSUME Typed, NEW t \in Thread, ThreadStep(t)
  PROVE  \/ SkipStep(t) \/ StartStep(t) \/ StartParallel(t)
         \/ JoinReturns(t) \/ JoinRaises(t) \/ JoinTimesOut(t)
         \/ StepReturns(t) \/ HandleError(t) \/ LoopRunsItem(t) \/ ItemReturns(t)
         \/ (\E n \in Names : CallWorkflow(t, n)) \/ Leaves(t)
BY ReturnsAre, RaisesAre DEF ThreadStep

\* The job's thread starts on one frame.
LEMMA TypedInit == Init => Typed
<1> SUFFICES ASSUME Init PROVE Typed
  OBVIOUS
<1>1. WorkflowFrame(Top, 1) \in WorkflowFrames /\ WorkflowFrame(Top, 1).dict = 1
      /\ WorkflowFrame(Top, 1).pc = 1 /\ WorkflowFrame(Top, 1).handles = NoError
      /\ WorkflowFrame(Top, 1).name = Top /\ WorkflowFrame(Top, 1).kind = "workflow"
  BY NewWorkflow, EngineAssumption
<1> DEFINE f == WorkflowFrame(Top, 1)
<1>2. /\ frames = [t \in Thread |-> IF t = Main THEN <<f>> ELSE <<>>]
      /\ doing = [t \in Thread |-> IF t = Main THEN "run" ELSE "free"]
      /\ value = [t \in Thread |-> 0] /\ error = [t \in Thread |-> NoError]
      /\ awaits = [t \in Thread |-> <<>>] /\ base = [t \in Thread |-> NoBase]
      /\ dicts = <<<<>>>> /\ leaked = FALSE /\ timeouts = 0 /\ program \in Programs
  BY DEF Init
<1> HIDE DEF f
<1>3. f \in Frames /\ f \in WorkflowFrames /\ f.dict = 1 /\ f.pc = 1 /\ f.handles = NoError
      /\ f.name \in Names /\ f.kind = "workflow" /\ <<f>> \in Seq(Frames) /\ <<>> \in Seq(Frames)
  BY <1>1, EngineAssumption DEF f, Frames
<1>4. program \in [Names -> Seq(Step)] /\ program[f.name] \in Seq(Step) /\ Len(program[f.name]) \in Nat
      /\ Len(program[f.name]) >= 1
  <2>1. program \in [Names -> Seq(Step) \ {<<>>}]
    BY <1>2, EngineAssumption
  <2>2. program[f.name] \in Seq(Step) /\ program[f.name] # <<>>
    BY <1>3, <2>1
  <2> QED BY <2>1, <2>2
<1>5. TypeInv
  <2>a. <<>> \in Seq(Names)
    OBVIOUS
  <2>b. <<<<>>>> \in Seq(Seq(Names))
    BY <2>a
  <2>c. MaxTimeouts \in Nat /\ 0 \in 0..MaxTimeouts
    BY EngineAssumption
  <2>1. dicts \in Seq(Seq(Names)) /\ timeouts \in 0..MaxTimeouts /\ leaked \in BOOLEAN
    BY <1>2, <2>b, <2>c
  <2>2. frames \in [Thread -> Seq(Frames)] /\ doing \in [Thread -> Doings]
    BY <1>2, <1>3 DEF Doings
  <2>3. value \in [Thread -> Nat] /\ error \in [Thread -> Errs] /\ awaits \in [Thread -> Seq(Thread)]
    BY <1>2, NoErrorType
  <2>4. base \in [Thread -> [calls : Seq(Names), handling : Nat, joins : SUBSET Thread]]
    BY <1>2, NoErrorType
  <2> QED BY <1>2, <1>4, <2>1, <2>2, <2>3, <2>4 DEF TypeInv
<1>6. Len(dicts) = 1
  BY <1>2
<1>7. ASSUME NEW t \in Thread PROVE Phased(t)
  <2>1. value[t] = 0 /\ error[t] = NoError /\ awaits[t] = <<>> /\ 0 \in 0..Len(dicts)
    BY <1>2, <1>6
  <2>2. CASE t = Main
    <3>1. frames[t] = <<f>> /\ doing[t] = "run" /\ <<f>> # <<>> /\ Last(<<f>>) = f
      BY <1>2, <2>2 DEF Last
    <3>2. Fits(<<>>, f, program, Len(dicts))
      BY <1>3, <1>4, <1>6 DEF Fits
    <3>3. Stacked(<<f>>, program, Len(dicts))
      BY <1>3, <3>2, StackedOne
    <3>4. TopFits(f, "run", program)
      BY <1>3 DEF TopFits
    <3> QED BY <2>1, <3>1, <3>3, <3>4 DEF Phased, Inner
  <2>3. CASE t # Main
    <3>1. frames[t] = <<>> /\ doing[t] = "free"
      BY <1>2, <2>3
    <3> QED BY <2>1, <3>1, StackedEmpty DEF Phased, Inner
  <2> QED BY <2>2, <2>3
<1>8. Joins
  BY <1>2 DEF Joins, Range
<1> QED BY <1>5, <1>7, <1>8 DEF Typed

\* Nothing happens.
LEMMA TypedStuttering ==
  ASSUME Typed, UNCHANGED vars
  PROVE  Typed'
<1>1. UNCHANGED <<program, dicts, frames, doing, value, error, awaits, base, leaked, timeouts>>
  BY DEF vars, threadVars
<1>2. TypeInv'
  BY <1>1 DEF Typed, TypeInv
<1>3. \A u \in Thread : Phased(u)'
  BY <1>1 DEF Typed, Phased, Inner
<1>4. Joins'
  <2> SUFFICES ASSUME NEW x \in Thread, NEW u \in Range(awaits[x]) PROVE StartedBy(x, u)'
    BY <1>1 DEF Joins
  <2>1. StartedBy(x, u)
    BY DEF Typed, Joins
  <2>2. ActiveCalls(x)' = ActiveCalls(x) /\ HandledBy(x)' = HandledBy(x) /\ Inner(x)' = Inner(x)
    BY <1>1 DEF ActiveCalls, HandledBy, Inner
  <2>3. StepOf(Inner(x))' = StepOf(Inner(x))
    BY <1>1, <2>2 DEF StepOf
  <2> QED BY <1>1, <2>1, <2>2, <2>3 DEF StartedBy
<1> QED BY <1>2, <1>3, <1>4 DEF Typed

\* Every step keeps types and shapes.
LEMMA TypedStep ==
  ASSUME Typed, [Next]_vars
  PROVE  Typed'
<1>1. ASSUME NEW t \in Thread, ThreadStep(t) PROVE Typed'
  <2> USE <1>1
  <2>1. CASE SkipStep(t) BY <2>1, SkipTyped
  <2>2. CASE StartStep(t) BY <2>2, StartStepTyped
  <2>3. CASE StartParallel(t) BY <2>3, ParallelTyped
  <2>4. CASE JoinReturns(t) BY <2>4, JoinReturnsTyped
  <2>5. CASE JoinRaises(t) BY <2>5, JoinRaisesTyped
  <2>6. CASE JoinTimesOut(t) BY <2>6, TimeoutTyped
  <2>7. CASE StepReturns(t) BY <2>7, StepReturnsTyped
  <2>8. CASE HandleError(t) BY <2>8, HandleErrorTyped
  <2>9. CASE LoopRunsItem(t) BY <2>9, LoopRunsTyped
  <2>10. CASE ItemReturns(t) BY <2>10, ItemReturnsTyped
  <2>11. CASE \E n \in Names : CallWorkflow(t, n) BY <2>11, CallTyped
  <2>12. CASE Leaves(t) BY <2>12, LeavesTyped
  <2> QED BY <2>1, <2>2, <2>3, <2>4, <2>5, <2>6, <2>7, <2>8, <2>9, <2>10, <2>11, <2>12, StepCases
<1> QED BY <1>1, TypedStuttering DEF Next

\* Which is more than the type invariant says.
LEMMA TypedIsTypeOK == Typed => TypeOK
<1> SUFFICES ASSUME Typed PROVE TypeOK
  OBVIOUS
<1>1. ASSUME NEW t \in Thread, NEW i \in DOMAIN frames[t] PROVE FrameOK(frames[t][i])
  <2> DEFINE f == frames[t][i]
  <2>1. frames[t] \in Seq(Frames) /\ Stacked(frames[t], program, Len(dicts)) /\ program \in [Names -> Seq(Step)]
        /\ dicts \in Seq(Seq(Names))
    BY DEF Typed, TypeInv, Phased
  <2>2. f \in Frames /\ Fits(SubSeq(frames[t], 1, i - 1), f, program, Len(dicts))
    BY <2>1 DEF Stacked
  <2> HIDE DEF f
  <2>3. f.dict \in DOMAIN dicts /\ (f.kind = "workflow" => f.pc \in 1..Len(program[f.name]) + 1)
        /\ (f.kind = "loop" => f.left <= MaxItems)
    BY <2>1, <2>2 DEF Fits
  <2>4. CASE f.kind = "workflow"
    <3>1. f \in WorkflowFrames
      BY <2>2, <2>4, FrameKinds
    <3>2. f.name \in Names
      BY <3>1 DEF WorkflowFrames
    <3> QED BY <2>3, <2>4, <3>2 DEF FrameOK, f
  <2>5. CASE f.kind = "handler"
    <3>1. f \in HandlerFrames
      BY <2>2, <2>5, FrameKinds
    <3>2. f.step \in Step /\ f.target \in Names \cup {None} /\ f.saved \in Seq(Names)
      BY <3>1 DEF HandlerFrames
    <3> QED BY <2>3, <2>5, <3>2 DEF FrameOK, f
  <2>6. CASE f.kind = "loop"
    <3>1. f \in LoopFrames /\ MaxItems \in Nat
      BY <2>2, <2>6, FrameKinds, EngineAssumption
    <3>2. f.step \in Step /\ f.left \in Nat
      BY <3>1 DEF LoopFrames
    <3>3. f.left \in 0..MaxItems
      BY <2>3, <2>6, <3>1, <3>2
    <3> QED BY <2>3, <2>6, <3>2, <3>3 DEF FrameOK, f
  <2> QED BY <2>2, <2>4, <2>5, <2>6, FrameKinds DEF f
<1>2. ASSUME NEW t \in Thread
      PROVE  /\ frames[t] = <<>> <=> doing[t] \in {"ended", "free"}
             /\ doing[t] \in {"run", "join", "return", "raise", "ended", "free"}
             /\ doing[t] = "return" => value[t] \in DOMAIN dicts
             /\ error[t] # NoError <=> (doing[t] = "raise" \/ (doing[t] = "ended" /\ value[t] = 0))
             /\ Range(awaits[t]) \subseteq Thread
  <2>1. Phased(t) /\ dicts \in Seq(Seq(Names)) /\ awaits[t] \in Seq(Thread) /\ doing[t] \in Doings
    BY DEF Typed, TypeInv
  <2>2. Range(awaits[t]) \subseteq Thread
    BY <2>1 DEF Range
  <2>3. doing[t] = "return" => value[t] \in DOMAIN dicts
    BY <2>1 DEF Phased
  <2> QED BY <2>1, <2>2, <2>3 DEF Phased, Doings
<1>3. DOMAIN program = Names /\ dicts \in Seq(Seq(Names)) /\ timeouts \in 0..MaxTimeouts /\ leaked \in BOOLEAN
  BY DEF Typed, TypeInv
<1> QED BY <1>1, <1>2, <1>3 DEF TypeOK

\* Everything keeps its type, and the stack of every thread its shape (engine.py).
THEOREM EngineTypes == Spec => []TypeOK
<1>1. Spec => []Typed
  BY TypedInit, TypedStep, PTL DEF Spec
<1> QED BY <1>1, TypedIsTypeOK, PTL

-----------------------------------------------------------------------------
(* Errors *)

\* The handled errors of a stack, frame by frame.
LEMMA HandledAppend ==
  ASSUME NEW s \in Seq(Frames), NEW f \in Frames, NEW h
  PROVE  Handled(Append(s, f), h) <=> Handled(s, h) /\ HandlesFit(s, f, h)
<1>1. /\ DOMAIN Append(s, f) = 1..(Len(s) + 1) /\ DOMAIN s = 1..Len(s) /\ Len(s) \in Nat
      /\ SubSeq(Append(s, f), 1, Len(s)) = s
      /\ Append(s, f)[Len(s) + 1] = f
      /\ \A i \in 1..Len(s) : /\ Append(s, f)[i] = s[i]
                              /\ SubSeq(Append(s, f), 1, i - 1) = SubSeq(s, 1, i - 1)
  OBVIOUS
<1>2. 1..(Len(s) + 1) = 1..Len(s) \cup {Len(s) + 1} /\ (Len(s) + 1) - 1 = Len(s)
  BY <1>1
<1>3. HandlesFit(SubSeq(Append(s, f), 1, (Len(s) + 1) - 1), Append(s, f)[Len(s) + 1], h) <=> HandlesFit(s, f, h)
  BY <1>1, <1>2
<1>4. \A i \in 1..Len(s) : HandlesFit(SubSeq(Append(s, f), 1, i - 1), Append(s, f)[i], h)
                            <=> HandlesFit(SubSeq(s, 1, i - 1), s[i], h)
  BY <1>1
<1> QED BY <1>1, <1>2, <1>3, <1>4 DEF Handled

\* The empty stack handles nothing.
LEMMA HandledEmpty == ASSUME NEW h PROVE Handled(<<>>, h)
BY DEF Handled

\* A thread starts on a frame that handles nothing.
LEMMA HandledOne ==
  ASSUME NEW f \in Frames, f.kind # "workflow", NEW h
  PROVE  Handled(<<f>>, h)
<1>1. <<f>>[1] = f /\ DOMAIN <<f>> = {1}
  OBVIOUS
<1> QED BY <1>1 DEF Handled, HandlesFit

\* What the stack of a thread handles, by its innermost frame.
LEMMA HandledByInner ==
  ASSUME Typed, ErrorsOK, NEW t \in Thread, frames[t] # <<>>
  PROVE  /\ Handled(Front(frames[t]), base[t].handling)
         /\ HandlesFit(Front(frames[t]), Inner(t), base[t].handling)
         /\ Handling(Front(frames[t])) \in Nat /\ base[t].handling \in Nat
         /\ ~(Inner(t).kind = "workflow" /\ Inner(t).handles # NoError)
              => HandledBy(t) = base[t].handling + Handling(Front(frames[t]))
         /\ error[t] # NoError => error[t].under = HandledBy(t)
<1>1. Front(frames[t]) \in Seq(Frames) /\ Inner(t) \in Frames /\ frames[t] = Append(Front(frames[t]), Inner(t))
  BY InnerIs
<1>2. Handled(frames[t], base[t].handling) /\ base[t].handling \in Nat
      /\ (error[t] # NoError => error[t].under = HandledBy(t))
  BY DEF ErrorsOK, Under, OriginalErrorIsRaised, Typed, TypeInv
<1>3. Handling(Front(frames[t])) \in Nat
      /\ Handling(frames[t]) = Handling(Front(frames[t]))
                                 + (IF Inner(t).kind = "workflow" /\ Inner(t).handles # NoError THEN 1 ELSE 0)
  BY <1>1, HandlingAppend
<1>4. ~(Inner(t).kind = "workflow" /\ Inner(t).handles # NoError)
        => Handling(frames[t]) = Handling(Front(frames[t]))
  BY <1>3
<1> QED BY <1>1, <1>2, <1>3, <1>4, HandledAppend DEF HandledBy

\* One thread moves, the errors of the others are theirs.
LEMMA ErrorsOneThread ==
  ASSUME Typed, ErrorsOK, NEW t \in Thread, OneThread(t),
         Handled(frames'[t], base'[t].handling),
         error'[t] # NoError => error'[t].under = HandledBy(t)'
  PROVE  ErrorsOK'
<1> SUFFICES ASSUME NEW u \in Thread, u # t
             PROVE  Handled(frames'[u], base'[u].handling)
                    /\ (error'[u] # NoError => error'[u].under = HandledBy(u)')
  BY DEF ErrorsOK, Under, OriginalErrorIsRaised
<1>1. frames'[u] = frames[u] /\ base'[u] = base[u] /\ error'[u] = error[u]
  BY DEF OneThread
<1>2. HandledBy(u)' = HandledBy(u)
  BY <1>1 DEF HandledBy
<1> QED BY <1>1, <1>2 DEF ErrorsOK, Under, OriginalErrorIsRaised

\* A workflow that goes on handles no error any more.
LEMMA ChangesErrors ==
  ASSUME Typed, ErrorsOK, NEW t \in Thread, Busy(t), OneThread(t),
         NEW g \in Frames, g.kind = "workflow" => g.handles = NoError, Changes(t, g)
  PROVE  ErrorsOK'
<1>1. Front(frames[t]) \in Seq(Frames) /\ Handled(Front(frames[t]), base[t].handling)
  BY BusyIs, InnerIs, HandledByInner
<1>2. Handled(Append(Front(frames[t]), g), base[t].handling)
  BY <1>1, HandledAppend DEF HandlesFit
<1>3. frames'[t] = Append(Front(frames[t]), g) /\ error'[t] = NoError /\ base' = base
  BY DEF Changes, Continue, Typed, TypeInv
<1> QED BY <1>2, <1>3, ErrorsOneThread

\* What is entered handles no error; its caller may handle its own.
LEMMA EntersErrors ==
  ASSUME Typed, ErrorsOK, NEW t \in Thread, Busy(t), OneThread(t),
         NEW g \in Frames, NEW f \in Frames,
         \/ g.kind = "workflow" => g.handles = NoError
         \/ g.handles = error[t] /\ Inner(t).kind = "workflow" /\ Inner(t).handles = NoError,
         f.kind = "workflow" => f.handles = NoError, Enters(t, g, f)
  PROVE  ErrorsOK'
<1>1. Front(frames[t]) \in Seq(Frames) /\ Handled(Front(frames[t]), base[t].handling)
      /\ (~(Inner(t).kind = "workflow" /\ Inner(t).handles # NoError)
              => HandledBy(t) = base[t].handling + Handling(Front(frames[t])))
      /\ (error[t] # NoError => error[t].under = HandledBy(t))
  BY BusyIs, InnerIs, HandledByInner
<1>2. HandlesFit(Front(frames[t]), g, base[t].handling)
  BY <1>1 DEF HandlesFit
<1> DEFINE r == Append(Front(frames[t]), g)
<1>3. Handled(r, base[t].handling) /\ r \in Seq(Frames)
  BY <1>1, <1>2, HandledAppend, LastOfAppend
<1> HIDE DEF r
<1>4. Handled(Append(r, f), base[t].handling)
  BY <1>3, HandledAppend DEF HandlesFit
<1>5. frames'[t] = Append(r, f) /\ error'[t] = NoError /\ base' = base
  BY DEF Enters, Continue, Typed, TypeInv, r
<1> QED BY <1>4, <1>5, ErrorsOneThread

\* The frame that is left, and what is left of the thread.
LEMMA LeaveIs ==
  ASSUME Typed, NEW t \in Thread, Busy(t), NEW d, NEW e, Leave(t, d, e)
  PROVE  /\ frames'[t] = Front(frames[t]) /\ awaits' = awaits
         /\ \/ /\ frames'[t] = <<>> /\ Abandoned(t) /\ base'[t] = NoBase /\ error'[t] = NoError
               /\ value'[t] = 0 /\ doing'[t] = "free"
            \/ /\ frames'[t] # <<>> \/ ~Abandoned(t)
               /\ base'[t] = base[t] /\ error'[t] = e /\ value'[t] = d
               /\ frames'[t] = <<>> => doing'[t] = "ended"
               /\ frames'[t] # <<>> => doing'[t] = (IF e = NoError THEN "return" ELSE "raise")
<1>1. /\ frames \in [Thread -> Seq(Frames)] /\ doing \in [Thread -> Doings]
      /\ value \in [Thread -> Nat] /\ error \in [Thread -> Errs]
      /\ base \in [Thread -> [calls : Seq(Names), handling : Nat, joins : SUBSET Thread]]
  BY DEF Typed, TypeInv
<1>2. frames'[t] = Front(frames[t]) /\ awaits' = awaits
  BY <1>1 DEF Leave
<1>3. Front(frames[t]) = <<>> /\ Abandoned(t) =>
        base'[t] = NoBase /\ error'[t] = NoError /\ value'[t] = 0 /\ doing'[t] = "free"
  BY <1>1 DEF Leave
<1>4. Front(frames[t]) # <<>> \/ ~Abandoned(t) => base'[t] = base[t] /\ error'[t] = e /\ value'[t] = d
  BY <1>1 DEF Leave
<1>5. Front(frames[t]) = <<>> /\ ~Abandoned(t) => doing'[t] = "ended"
  BY <1>1 DEF Leave
<1>6. Front(frames[t]) # <<>> => doing'[t] = (IF e = NoError THEN "return" ELSE "raise")
  BY <1>1 DEF Leave
<1> QED BY <1>2, <1>3, <1>4, <1>5, <1>6

\* The exception that leaves a frame is that of what was handled outside.
LEMMA LeavesErrors ==
  ASSUME Typed, ErrorsOK, NEW t \in Thread, Leaves(t), OneThread(t)
  PROVE  ErrorsOK'
<1>1. ASSUME NEW d, NEW e, Busy(t), Leave(t, d, e),
             e # NoError => e.under = base[t].handling + Handling(Front(frames[t]))
      PROVE  ErrorsOK'
  <2>1. Handled(Front(frames[t]), base[t].handling)
    BY <1>1, BusyIs, HandledByInner
  <2>2. \/ frames'[t] = <<>> /\ base'[t] = NoBase /\ error'[t] = NoError
        \/ frames'[t] = Front(frames[t]) /\ base'[t] = base[t] /\ error'[t] = e
    BY <1>1, LeaveIs
  <2>3. CASE frames'[t] = <<>> /\ base'[t] = NoBase /\ error'[t] = NoError
    BY <2>3, HandledEmpty, ErrorsOneThread
  <2>4. CASE frames'[t] = Front(frames[t]) /\ base'[t] = base[t] /\ error'[t] = e
    <3>1. HandledBy(t)' = base[t].handling + Handling(Front(frames[t]))
      BY <2>4 DEF HandledBy
    <3> QED BY <1>1, <2>1, <2>4, <3>1, ErrorsOneThread
  <2> QED BY <2>2, <2>3, <2>4
<1>2. ASSUME NEW d \in 1..Len(dicts), Returns(t, d) PROVE ErrorsOK'
  BY <1>1, <1>2 DEF Returns
<1>3. ASSUME NEW e \in Errs, Raises(t, e) PROVE ErrorsOK'
  <2>1. Leave(t, 0, e) /\ Busy(t) /\ e # NoError
    BY <1>3 DEF Raises
  <2>2. /\ HandlesFit(Front(frames[t]), Inner(t), base[t].handling)
        /\ ~(Inner(t).kind = "workflow" /\ Inner(t).handles # NoError)
              => HandledBy(t) = base[t].handling + Handling(Front(frames[t]))
        /\ error[t] # NoError => error[t].under = HandledBy(t)
    BY <2>1, BusyIs, HandledByInner
  <2>3. Inner(t).kind = "workflow" /\ doing[t] = "run" => Inner(t).handles = NoError
    BY <2>1, BusyInner
  <2>4. e.under = base[t].handling + Handling(Front(frames[t]))
    BY <1>3, <2>2, <2>3 DEF Raises, HandlesFit
  <2> QED BY <1>1, <2>1, <2>4
<1> QED BY <1>2, <1>3 DEF Leaves

\* Started threads have raised nothing.
LEMMA StartErrors ==
  ASSUME Typed, ErrorsOK, NEW t \in Thread, doing[t] = "run", NEW fs \in Seq(Frames),
         \A i \in 1..Len(fs) : fs[i].kind # "workflow", StartThreads(t, fs)
  PROVE  ErrorsOK'
<1>1. PICK new : Starts(t, fs, new)
  BY StartedAre
<1> SUFFICES ASSUME NEW u \in Thread
             PROVE  Handled(frames'[u], base'[u].handling)
                    /\ (error'[u] # NoError => error'[u].under = HandledBy(u)')
  BY DEF ErrorsOK, Under, OriginalErrorIsRaised
<1>2. CASE u \in Range(new)
  <2>1. PICK i \in 1..Len(fs) : u = new[i]
    BY <1>1, <1>2 DEF Starts, Range
  <2>2. frames'[u] = <<fs[i]>> /\ fs[i] \in Frames /\ fs[i].kind # "workflow"
    BY <1>1, <2>1 DEF Starts
  <2>3. doing[u] = "free"
    BY <1>1, <2>1 DEF Starts, Unused
  <2>4. error'[u] = NoError
    BY <1>1, <2>3 DEF Starts, Typed, Phased
  <2> QED BY <2>2, <2>4, HandledOne
<1>3. CASE u \notin Range(new)
  <2>1. frames'[u] = frames[u] /\ base'[u] = base[u] /\ error'[u] = error[u]
    BY <1>1, <1>3 DEF Starts
  <2>2. HandledBy(u)' = HandledBy(u)
    BY <2>1 DEF HandledBy
  <2> QED BY <2>1, <2>2 DEF ErrorsOK, Under, OriginalErrorIsRaised
<1> QED BY <1>2, <1>3

\* What the end of a join changes.
LEMMA EndJoinIs ==
  ASSUME Typed, NEW t \in Thread, AllEnded(t), NEW how, NEW d, NEW e, EndJoin(t, how, d, e)
  PROVE  /\ doing[t] = "join" /\ t \notin Range(awaits[t])
         /\ doing'[t] = how /\ value'[t] = d /\ error'[t] = e /\ awaits'[t] = <<>> /\ base'[t] = base[t]
         /\ \A u \in Range(awaits[t]) :
              /\ u \in Thread /\ doing[u] = "ended" /\ frames[u] = <<>> /\ StartedBy(t, u)
              /\ doing'[u] = "free" /\ value'[u] = 0 /\ error'[u] = NoError /\ base'[u] = NoBase
         /\ \A u \in Thread : u # t /\ u \notin Range(awaits[t]) =>
              /\ doing'[u] = doing[u] /\ value'[u] = value[u] /\ error'[u] = error[u]
              /\ base'[u] = base[u]
         /\ \A u \in Thread : u # t => awaits'[u] = awaits[u]
<1> DEFINE joined == Range(awaits[t])
<1>1. /\ doing \in [Thread -> Doings] /\ awaits \in [Thread -> Seq(Thread)]
  BY DEF Typed, TypeInv
<1>2. doing[t] = "join" /\ \A u \in joined : doing[u] = "ended" /\ u \in Thread /\ u # t /\ StartedBy(t, u)
  BY NotAwaited DEF AllEnded
<1>3. \A u \in joined : frames[u] = <<>>
  BY <1>2 DEF Typed, Phased
<1> HIDE DEF joined
<1>4. t \notin joined
  BY <1>2
<1> QED BY <1>1, <1>2, <1>3, <1>4 DEF EndJoin, joined

\* What a thread has raised belongs to the thread that joins it.
LEMMA EndErrors ==
  ASSUME Typed, ErrorsOK, NEW t \in Thread, AllEnded(t), frames' = frames,
         NEW how, NEW d, NEW e, e # NoError => e.under = HandledBy(t), EndJoin(t, how, d, e)
  PROVE  ErrorsOK'
<1> SUFFICES ASSUME NEW u \in Thread
             PROVE  Handled(frames'[u], base'[u].handling)
                    /\ (error'[u] # NoError => error'[u].under = HandledBy(u)')
  BY DEF ErrorsOK, Under, OriginalErrorIsRaised
<1>1. CASE u \in Range(awaits[t])
  BY <1>1, EndJoinIs, HandledEmpty
<1>2. CASE u \notin Range(awaits[t])
  <2>1. base'[u] = base[u] /\ (u = t => error'[u] = e) /\ (u # t => error'[u] = error[u])
    BY <1>2, EndJoinIs
  <2>2. HandledBy(u)' = HandledBy(u)
    BY <2>1 DEF HandledBy
  <2> QED BY <2>1, <2>2 DEF ErrorsOK, Under, OriginalErrorIsRaised
<1> QED BY <1>1, <1>2

\* A step on its workflow's stack moves one thread.
LEMMA StartStepOneThread ==
  ASSUME Typed, NEW t \in Thread, StartStep(t), NEW f \in Frames, Enters(t, Inner(t), f)
  PROVE  OneThread(t)
<1>1. Busy(t) /\ program' = program
  BY AtStepIs DEF StartStep
<1>2. /\ frames[t] \in Seq(Frames) /\ frames[t] # <<>> /\ Inner(t) \in Frames
      /\ frames[t] = Append(Front(frames[t]), Inner(t))
  BY <1>1, BusyIs, InnerIs
<1>3. Append(frames[t], f)[1] = frames[t][1]
  BY <1>2
<1>4. Continue(t, Append(frames[t], f))
  BY <1>2 DEF Enters
<1>5. FirstKept(Append(frames[t], f), frames[t])
  BY <1>2, <1>3 DEF FirstKept
<1>6. frames'[t] = Append(frames[t], f) /\ doing'[t] = "run" /\ base' = base /\ awaits' = awaits
  BY <1>4 DEF Continue, Typed, TypeInv
<1>7. \A u \in Thread : u # t => /\ frames'[u] = frames[u] /\ doing'[u] = doing[u]
                                 /\ value'[u] = value[u] /\ error'[u] = error[u]
  BY <1>4 DEF Continue, Typed, TypeInv
<1> QED BY <1>1, <1>5, <1>6, <1>7 DEF OneThread

\* No error at the start.
LEMMA ErrorsInit == Init => ErrorsOK
<1> SUFFICES ASSUME Init PROVE ErrorsOK
  OBVIOUS
<1>1. Typed
  BY TypedInit
<1> SUFFICES ASSUME NEW t \in Thread PROVE Handled(frames[t], base[t].handling) /\ error[t] = NoError
  BY DEF ErrorsOK, Under, OriginalErrorIsRaised
<1>2. error[t] = NoError
  BY DEF Init
<1> DEFINE f == WorkflowFrame(Top, 1)
<1>3. f \in WorkflowFrames /\ f.handles = NoError
  BY NewWorkflow, EngineAssumption
<1>4. frames[t] = IF t = Main THEN <<f>> ELSE <<>>
  BY DEF Init
<1> HIDE DEF f
<1>5. Handled(<<f>>, base[t].handling)
  <2>1. <<f>>[1] = f /\ DOMAIN <<f>> = {1}
    OBVIOUS
  <2> QED BY <1>3, <2>1 DEF Handled, HandlesFit
<1> QED BY <1>2, <1>4, <1>5, HandledEmpty

\* Every step keeps errors with the handling they belong to.
LEMMA ErrorsStep ==
  ASSUME Typed, ErrorsOK, [Next]_vars
  PROVE  ErrorsOK'
<1>1. ASSUME NEW t \in Thread, ThreadStep(t) PROVE ErrorsOK'
  <2>1. CASE SkipStep(t)
    <3>1. PICK g \in WorkflowFrames : Changes(t, g) /\ g.handles = NoError /\ AtStep(t)
      BY <2>1, SkipIs
    <3> QED BY <2>1, <3>1, AtStepIs, SkipTyped, ChangesErrors DEF Frames
  <2>2. CASE StartStep(t)
    <3>1. PICK f : /\ IsBody(f, StepOf(Inner(t)), Inner(t).dict) /\ AtStep(t)
                   /\ Enters(t, Inner(t), f) \/ StartThreads(t, <<f>>)
      BY <2>2, StartStepIs
    <3>2. f \in Frames /\ f.kind # "workflow" /\ Inner(t).handles = NoError /\ Inner(t) \in Frames
          /\ Busy(t) /\ doing[t] = "run"
      BY <3>1, AtStepIs DEF IsBody, Frames
    <3>3. CASE Enters(t, Inner(t), f)
      <4>1. OneThread(t)
        BY <2>2, <3>2, <3>3, StartStepOneThread
      <4> QED BY <3>2, <3>3, <4>1, EntersErrors
    <3>4. CASE StartThreads(t, <<f>>)
      <4>1. <<f>> \in Seq(Frames) /\ \A i \in 1..Len(<<f>>) : <<f>>[i].kind # "workflow"
        BY <3>2
      <4> QED BY <3>2, <3>4, <4>1, StartErrors
    <3> QED BY <3>1, <3>3, <3>4
  <2>3. CASE StartParallel(t)
    <3>1. PICK n \in Nat \ {0}, fs \in Seq(Frames) :
              /\ Len(fs) = n /\ StartThreads(t, fs)
              /\ \A i \in 1..n : fs[i].kind = "handler"
      BY <2>3, ParallelIs
    <3>2. doing[t] = "run"
      BY <2>3, ParallelIs, AtStepIs
    <3> QED BY <3>1, <3>2, StartErrors
  <2>4. CASE JoinReturns(t)
    <3>1. \E d : EndJoin(t, "return", d, NoError)
      BY <2>4, JoinReturnsIs
    <3> QED BY <2>4, <3>1, EndErrors DEF JoinReturns
  <2>5. CASE JoinRaises(t)
    <3>1. PICK u \in Range(awaits[t]) : error[u] # NoError /\ EndJoin(t, "raise", 0, error[u])
      BY <2>5 DEF JoinRaises
    <3>2. AllEnded(t) /\ frames' = frames
      BY <2>5 DEF JoinRaises
    <3>3. u \in Thread /\ frames[u] = <<>> /\ base[u].handling = HandledBy(t)
      BY <3>1, <3>2, EndJoinIs DEF StartedBy
    <3>4. error[u].under = base[u].handling + 0 /\ base[u].handling \in Nat
      BY <3>1, <3>3, HandlingEmpty DEF ErrorsOK, OriginalErrorIsRaised, HandledBy, Typed, TypeInv
    <3> QED BY <3>1, <3>2, <3>3, <3>4, EndErrors
  <2>6. CASE JoinTimesOut(t)
    <3>1. /\ frames' = frames /\ base' = base /\ frames[t] # <<>>
          /\ error' = [error EXCEPT ![t] = NewError(t, "timeout")]
      BY <2>6 DEF JoinTimesOut, Typed, Phased
    <3>2. \A u \in Thread : HandledBy(u)' = HandledBy(u)
      BY <3>1 DEF HandledBy
    <3>3. NewError(t, "timeout").under = HandledBy(t)
      BY DEF NewError
    <3>4. OriginalErrorIsRaised'
      BY <3>1, <3>2, <3>3 DEF OriginalErrorIsRaised, ErrorsOK, Typed, TypeInv
    <3> QED BY <3>1, <3>4 DEF ErrorsOK, Under
  <2>7. CASE StepReturns(t)
    BY <2>7, StepReturnsIs, StepReturnsTyped, ChangesErrors DEF Frames
  <2>8. CASE HandleError(t)
    <3>1. PICK g \in WorkflowFrames, f \in WorkflowFrames :
              Enters(t, g, f) /\ g.handles = error[t] /\ f.handles = NoError
      BY <2>8, HandleErrorIs
    <3> QED BY <2>8, <3>1, HandleErrorIs, HandleErrorTyped, EntersErrors DEF Frames
  <2>9. CASE LoopRunsItem(t)
    <3>1. PICK g \in LoopFrames, f \in HandlerFrames : Enters(t, g, f)
      BY <2>9, LoopRunsIs
    <3>2. g.kind = "loop" /\ f.kind = "handler" /\ g \in Frames /\ f \in Frames
      BY DEF LoopFrames, HandlerFrames, Frames
    <3> QED BY <2>9, <3>1, <3>2, LoopRunsIs, LoopRunsTyped, EntersErrors
  <2>10. CASE ItemReturns(t)
    <3>1. PICK g \in LoopFrames : Changes(t, g)
      BY <2>10, ItemReturnsIs
    <3>2. g.kind = "loop" /\ g \in Frames
      BY DEF LoopFrames, Frames
    <3> QED BY <2>10, <3>1, <3>2, ItemReturnsIs, ItemReturnsTyped, ChangesErrors
  <2>11. CASE \E n \in Names : CallWorkflow(t, n)
    <3>1. PICK n \in Names : CallWorkflow(t, n)
      BY <2>11
    <3>2. PICK g \in HandlerFrames, f \in WorkflowFrames : Enters(t, g, f) /\ f.handles = NoError
      BY <3>1, CallIs
    <3>3. g.kind = "handler" /\ g \in Frames /\ f \in Frames
      BY DEF HandlerFrames, Frames
    <3> QED BY <3>1, <3>2, <3>3, CallIs, CallTyped, EntersErrors
  <2>12. CASE Leaves(t)
    BY <2>12, LeavesTyped, LeavesErrors
  <2> QED BY <1>1, <2>1, <2>2, <2>3, <2>4, <2>5, <2>6, <2>7, <2>8, <2>9, <2>10, <2>11, <2>12, StepCases
<1>2. ASSUME UNCHANGED vars PROVE ErrorsOK'
  <2>1. frames' = frames /\ base' = base /\ error' = error
    BY <1>2 DEF vars, threadVars
  <2>2. \A u \in Thread : HandledBy(u)' = HandledBy(u)
    BY <2>1 DEF HandledBy
  <2> QED BY <2>1, <2>2 DEF ErrorsOK, Under, OriginalErrorIsRaised
<1> QED BY <1>1, <1>2 DEF Next

\* "If the error workflow also fails, the original exception is raised"
\* (_handle_on_error): no exception leaves the handling of the error during
\* which it was raised, through calls, loops, threads and timeouts.
THEOREM ErrorsAreOriginal == Spec => []OriginalErrorIsRaised
<1>1. Spec => [](Typed /\ ErrorsOK)
  <2>1. Init => Typed /\ ErrorsOK
    BY TypedInit, ErrorsInit
  <2>2. Typed /\ ErrorsOK /\ [Next]_vars => (Typed /\ ErrorsOK)'
    BY TypedStep, ErrorsStep
  <2> QED BY <2>1, <2>2, PTL DEF Spec
<1>2. ErrorsOK => OriginalErrorIsRaised
  BY DEF ErrorsOK
<1> QED BY <1>1, <1>2, PTL

-----------------------------------------------------------------------------
(* The kinds of steps *)

OldKept == Len(dicts) <= Len(dicts') /\ \A i \in 1..Len(dicts) : dicts'[i] = dicts[i]

\* t goes on with g in place of its innermost frame,
Rewrites(t, g) ==
  /\ Changes(t, g) /\ Busy(t) /\ OneThread(t) /\ UNCHANGED dicts
  /\ g \in Frames /\ g.kind = Inner(t).kind /\ ~IsCall(g) /\ ~IsCall(Inner(t))
  /\ \/ doing[t] = "run" /\ g.dict = Inner(t).dict
     \/ doing[t] = "return" /\ g.dict = value[t]

\* enters the frame f for a step or for an error,
EntersStep(t, g, f) ==
  g.kind = "workflow" /\ f.dict = Inner(t).dict /\ ~IsCall(g) /\ UNCHANGED dicts

\* for an item of a loop,
EntersItem(t, g, f) ==
  /\ g.kind = "loop" /\ f.kind = "handler" /\ f.dict = Len(dicts) + 1 /\ Len(dicts') = Len(dicts) + 1
  /\ dicts'[Len(dicts) + 1] = dicts[Inner(t).dict] /\ OldKept /\ ~IsCall(g)

\* or for a call,
EntersCall(t, g, f) ==
  /\ IsCall(g) /\ f.kind = "workflow" /\ g.target \in Names /\ g.saved = dicts[Inner(t).dict]
  /\ g.target \notin Range(dicts[Inner(t).dict]) /\ f.dict = Inner(t).dict
  /\ Len(dicts') = Len(dicts) /\ dicts'[Inner(t).dict] = Append(dicts[Inner(t).dict], g.target)
  /\ \A i \in 1..Len(dicts) : i # Inner(t).dict => dicts'[i] = dicts[i]

Opens(t, g, f) ==
  /\ Enters(t, g, f) /\ Busy(t) /\ OneThread(t)
  /\ g \in Frames /\ f \in Frames /\ g.kind = Inner(t).kind /\ g.dict = Inner(t).dict
  /\ ~IsCall(f) /\ ~IsCall(Inner(t))
  /\ doing[t] = "run" \/ (doing[t] = "raise" /\ Inner(t).kind = "workflow" /\ Inner(t).handles = NoError)
  /\ EntersStep(t, g, f) \/ EntersItem(t, g, f) \/ EntersCall(t, g, f)

\* starts threads,
Spawns(t, fs) ==
  /\ StartThreads(t, fs) /\ doing[t] = "run" /\ Inner(t).kind = "workflow" /\ fs \in Seq(Frames)
  /\ OldKept /\ program' = program
  /\ \A i \in 1..Len(fs) : fs[i].kind # "workflow" /\ ~IsCall(fs[i])
  /\ \/ /\ StepOf(Inner(t)).loop # "parallel" /\ Len(fs) = 1 /\ fs[1].dict = Inner(t).dict
     \/ /\ StepOf(Inner(t)).loop = "parallel" /\ Len(dicts') = Len(dicts) + Len(fs)
        /\ \A i \in 1..Len(fs) : fs[i].dict = Len(dicts) + i /\ dicts'[Len(dicts) + i] = dicts[Inner(t).dict]

\* or goes on after a join.
EndsWith(t, c, how, d, e) ==
  /\ AllEnded(t) /\ c \in Range(awaits[t]) /\ EndJoin(t, how, d, e) /\ OldKept
  /\ program' = program /\ frames' = frames
  /\ \/ /\ how = "return" /\ e = NoError /\ error[c] = NoError /\ value[c] \in 1..Len(dicts)
        /\ \/ d = value[c]
           \/ d = Len(dicts) + 1 /\ Len(dicts') = Len(dicts) + 1 /\ dicts'[d] = dicts[value[c]]
     \/ how = "raise" /\ d = 0 /\ e = error[c] /\ error[c] # NoError

\* SkipStep, StepReturns and ItemReturns rewrite the innermost frame.
LEMMA RewritesAre ==
  ASSUME Typed, NEW t \in Thread, SkipStep(t) \/ StepReturns(t) \/ ItemReturns(t)
  PROVE  (\E g : Rewrites(t, g)) /\ UNCHANGED <<program, leaked, timeouts>>
<1>1. UNCHANGED <<program, dicts, leaked, timeouts>>
  BY DEF SkipStep, StepReturns, ItemReturns
<1>2. OneThread(t)
  BY SkipTyped, StepReturnsTyped, ItemReturnsTyped
<1>3. CASE SkipStep(t)
  <2>1. PICK g \in WorkflowFrames : Changes(t, g) /\ g.dict = Inner(t).dict /\ AtStep(t)
    BY <1>3, SkipIs
  <2>2. Busy(t) /\ doing[t] = "run" /\ Inner(t).kind = "workflow"
    BY <2>1, AtStepIs
  <2>3. g \in Frames /\ g.kind = "workflow"
    BY DEF Frames, WorkflowFrames
  <2> QED BY <1>1, <1>2, <2>1, <2>2, <2>3 DEF Rewrites, IsCall
<1>4. CASE StepReturns(t)
  <2>1. PICK g \in WorkflowFrames : Changes(t, g) /\ g.dict = value[t]
    BY <1>4, StepReturnsIs
  <2>2. Busy(t) /\ doing[t] = "return" /\ Inner(t).kind = "workflow"
    BY <1>4, StepReturnsIs
  <2>3. g \in Frames /\ g.kind = "workflow"
    BY DEF Frames, WorkflowFrames
  <2> QED BY <1>1, <1>2, <2>1, <2>2, <2>3 DEF Rewrites, IsCall
<1>5. CASE ItemReturns(t)
  <2>1. PICK g \in LoopFrames : Changes(t, g) /\ g.dict = value[t]
    BY <1>5, ItemReturnsIs
  <2>2. Busy(t) /\ doing[t] = "return" /\ Inner(t).kind = "loop"
    BY <1>5, ItemReturnsIs
  <2>3. g \in Frames /\ g.kind = "loop"
    BY DEF Frames, LoopFrames
  <2> QED BY <1>1, <1>2, <2>1, <2>2, <2>3 DEF Rewrites, IsCall
<1> QED BY <1>1, <1>3, <1>4, <1>5

\* Dictionaries that are not changed are kept.
LEMMA KeptOld ==
  ASSUME Typed, dicts' = dicts
  PROVE  OldKept
BY DEF OldKept, Typed, TypeInv

\* A step opens a frame, or spawns threads.
LEMMA StartIs ==
  ASSUME Typed, NEW t \in Thread, StartStep(t) \/ StartParallel(t)
  PROVE  /\ (\E g, f : Opens(t, g, f)) \/ (\E fs : Spawns(t, fs))
         /\ UNCHANGED <<program, leaked, timeouts>>
<1>1. UNCHANGED <<program, leaked, timeouts>>
  BY DEF StartStep, StartParallel
<1>2. CASE StartStep(t)
  <2>1. PICK f : /\ IsBody(f, StepOf(Inner(t)), Inner(t).dict) /\ AtStep(t)
                 /\ \/ Enters(t, Inner(t), f)
                    \/ StepOf(Inner(t)).loop # "parallel" /\ StartThreads(t, <<f>>)
    BY <1>2, StartStepIs
  <2>2. f \in Frames /\ f.kind # "workflow" /\ f.dict = Inner(t).dict /\ ~IsCall(f)
    BY <2>1 DEF IsBody, IsCall
  <2>3. Busy(t) /\ doing[t] = "run" /\ Inner(t).kind = "workflow" /\ Inner(t) \in Frames /\ UNCHANGED dicts
        /\ ~IsCall(Inner(t))
    BY <1>2, <2>1, AtStepIs DEF Frames, StartStep, IsCall
  <2>4. CASE Enters(t, Inner(t), f)
    <3>1. OneThread(t)
      BY <1>2, <2>2, <2>4, StartStepOneThread
    <3>2. Opens(t, Inner(t), f)
      BY <2>2, <2>3, <2>4, <3>1 DEF Opens, EntersStep
    <3> QED BY <1>1, <3>2
  <2>5. CASE StepOf(Inner(t)).loop # "parallel" /\ StartThreads(t, <<f>>)
    <3>1. <<f>> \in Seq(Frames) /\ Len(<<f>>) = 1 /\ <<f>>[1] = f
      BY <2>2
    <3>2. Spawns(t, <<f>>)
      BY <1>1, <2>2, <2>3, <2>5, <3>1, KeptOld DEF Spawns
    <3> QED BY <1>1, <3>2
  <2> QED BY <2>1, <2>4, <2>5
<1>3. CASE StartParallel(t)
  <2>1. PICK n \in Nat \ {0}, fs \in Seq(Frames) :
          /\ dicts' = dicts \o [i \in 1..n |-> dicts[Inner(t).dict]]
          /\ Len(fs) = n /\ StartThreads(t, fs)
          /\ \A i \in 1..n : /\ fs[i] \in HandlerFrames /\ fs[i].target = None
                             /\ fs[i].dict = Len(dicts) + i /\ fs[i].kind = "handler"
    BY <1>3, ParallelIs
  <2>2. AtStep(t) /\ StepOf(Inner(t)).loop = "parallel"
    BY <1>3, ParallelIs
  <2>3. doing[t] = "run" /\ Inner(t).kind = "workflow" /\ Inner(t).dict \in 1..Len(dicts)
    BY <2>2, AtStepIs, BusyInner
  <2>4. dicts[Inner(t).dict] \in Seq(Names)
    BY <2>3 DEF Typed, TypeInv
  <2>5. /\ MoreDicts /\ Len(dicts') = Len(dicts) + n /\ Len(dicts) \in Nat
        /\ \A i \in 1..n : dicts'[Len(dicts) + i] = dicts[Inner(t).dict]
        /\ \A i \in 1..Len(dicts) : dicts'[i] = dicts[i]
    BY <2>1, <2>4, ManyMoreDicts
  <2>6. OldKept
    BY <2>5 DEF OldKept, MoreDicts
  <2>7. Spawns(t, fs)
    BY <1>1, <2>1, <2>2, <2>3, <2>5, <2>6 DEF Spawns, IsCall
  <2> QED BY <1>1, <2>7
<1> QED BY <1>2, <1>3

\* HandleError, LoopRunsItem and CallWorkflow open a frame.
LEMMA OpensAre ==
  ASSUME Typed, NEW t \in Thread,
         HandleError(t) \/ LoopRunsItem(t) \/ (\E n \in Names : CallWorkflow(t, n))
  PROVE  (\E g, f : Opens(t, g, f)) /\ UNCHANGED <<program, leaked, timeouts>>
<1>1. UNCHANGED <<program, leaked, timeouts>>
  BY DEF HandleError, LoopRunsItem, CallWorkflow
<1>2. CASE HandleError(t)
  <2>1. PICK g \in WorkflowFrames, f \in WorkflowFrames :
          Enters(t, g, f) /\ g.dict = Inner(t).dict /\ f.dict = Inner(t).dict
    BY <1>2, HandleErrorIs
  <2>2. /\ doing[t] = "raise" /\ Busy(t) /\ Inner(t).kind = "workflow" /\ Inner(t).handles = NoError
        /\ OneThread(t) /\ UNCHANGED dicts
    BY <1>2, HandleErrorIs, HandleErrorTyped DEF HandleError
  <2>3. g \in Frames /\ f \in Frames /\ g.kind = "workflow" /\ f.kind = "workflow"
    BY DEF Frames, WorkflowFrames
  <2>4. Opens(t, g, f)
    BY <2>1, <2>2, <2>3 DEF Opens, IsCall, EntersStep
  <2> QED BY <1>1, <2>4
<1>3. CASE LoopRunsItem(t)
  <2>1. /\ doing[t] = "run" /\ Busy(t) /\ Inner(t).kind = "loop"
        /\ dicts' = Append(dicts, dicts[Inner(t).dict]) /\ dicts[Inner(t).dict] \in Seq(Names)
        /\ OneThread(t)
    BY <1>3, LoopRunsIs, LoopRunsTyped
  <2>2. PICK g \in LoopFrames, f \in HandlerFrames :
          Enters(t, g, f) /\ g.dict = Inner(t).dict /\ f.dict = Len(dicts) + 1 /\ f.target = None
    BY <1>3, LoopRunsIs
  <2>3. /\ Len(dicts') = Len(dicts) + 1 /\ Len(dicts) \in Nat
        /\ dicts'[Len(dicts) + 1] = dicts[Inner(t).dict] /\ \A i \in 1..Len(dicts) : dicts'[i] = dicts[i]
    BY <2>1, OneMoreDict
  <2>4. g \in Frames /\ f \in Frames /\ g.kind = "loop" /\ f.kind = "handler"
    BY DEF Frames, LoopFrames, HandlerFrames
  <2>5. OldKept
    BY <2>3 DEF OldKept
  <2>6. Opens(t, g, f)
    BY <2>1, <2>2, <2>3, <2>4, <2>5 DEF Opens, IsCall, EntersItem
  <2> QED BY <1>1, <2>6
<1>4. CASE \E n \in Names : CallWorkflow(t, n)
  <2>1. PICK n \in Names : CallWorkflow(t, n)
    BY <1>4
  <2>2. /\ doing[t] = "run" /\ Busy(t) /\ Inner(t).kind = "handler" /\ Inner(t).target = None
        /\ dicts' = [dicts EXCEPT ![Inner(t).dict] = Append(@, n)] /\ dicts[Inner(t).dict] \in Seq(Names)
        /\ n \notin Range(dicts[Inner(t).dict]) /\ Inner(t).dict \in 1..Len(dicts) /\ OneThread(t)
    BY <2>1, CallIs, CallTyped
  <2>3. PICK g \in HandlerFrames, f \in WorkflowFrames :
              /\ Enters(t, g, f) /\ g.dict = Inner(t).dict /\ g.target = n
              /\ g.saved = dicts[Inner(t).dict] /\ f.dict = Inner(t).dict
    BY <2>1, CallIs
  <2>4. g \in Frames /\ f \in Frames /\ g.kind = "handler" /\ f.kind = "workflow" /\ n # None
    BY EngineAssumption DEF Frames, WorkflowFrames, HandlerFrames
  <2>5. Append(dicts[Inner(t).dict], n) \in Seq(Names)
        /\ dicts' = [dicts EXCEPT ![Inner(t).dict] = Append(dicts[Inner(t).dict], n)]
    BY <2>2
  <2>6. /\ Len(dicts') = Len(dicts) /\ dicts'[Inner(t).dict] = Append(dicts[Inner(t).dict], n)
        /\ \A i \in 1..Len(dicts) : i # Inner(t).dict => dicts'[i] = dicts[i]
    BY <2>2, <2>5, ChangedDict
  <2>7. Opens(t, g, f)
    BY <2>2, <2>3, <2>4, <2>6 DEF Opens, IsCall, EntersCall
  <2> QED BY <1>1, <2>7
<1> QED BY <1>2, <1>3, <1>4

\* JoinReturns and JoinRaises end a join.
LEMMA EndsAre ==
  ASSUME Typed, NEW t \in Thread, JoinReturns(t) \/ JoinRaises(t)
  PROVE  (\E c, how, d, e : EndsWith(t, c, how, d, e)) /\ UNCHANGED <<program, leaked, timeouts>>
<1>1. UNCHANGED <<program, frames, leaked, timeouts>> /\ AllEnded(t)
  BY DEF JoinReturns, JoinRaises
<1>2. CASE JoinReturns(t)
  <2>1. PICK c \in Range(awaits[t]) :
           /\ error[c] = NoError /\ value[c] \in 1..Len(dicts)
           /\ \/ /\ dicts' = Append(dicts, dicts[value[c]]) /\ dicts[value[c]] \in Seq(Names)
                 /\ EndJoin(t, "return", Len(dicts) + 1, NoError)
              \/ UNCHANGED dicts /\ EndJoin(t, "return", value[c], NoError)
    BY <1>2, JoinReturnsIs
  <2>2. CASE /\ dicts' = Append(dicts, dicts[value[c]]) /\ dicts[value[c]] \in Seq(Names)
             /\ EndJoin(t, "return", Len(dicts) + 1, NoError)
    <3>1. /\ Len(dicts') = Len(dicts) + 1 /\ Len(dicts) \in Nat
          /\ dicts'[Len(dicts) + 1] = dicts[value[c]] /\ \A i \in 1..Len(dicts) : dicts'[i] = dicts[i]
      BY <2>2, OneMoreDict
    <3>2. OldKept
      BY <3>1 DEF OldKept
    <3>3. EndsWith(t, c, "return", Len(dicts) + 1, NoError)
      BY <1>1, <2>1, <2>2, <3>1, <3>2 DEF EndsWith
    <3> QED BY <1>1, <3>3
  <2>3. CASE UNCHANGED dicts /\ EndJoin(t, "return", value[c], NoError)
    <3>1. EndsWith(t, c, "return", value[c], NoError)
      BY <1>1, <2>1, <2>3, KeptOld DEF EndsWith
    <3> QED BY <1>1, <3>1
  <2> QED BY <2>1, <2>2, <2>3
<1>3. CASE JoinRaises(t)
  <2>1. PICK u \in Range(awaits[t]) : error[u] # NoError /\ EndJoin(t, "raise", 0, error[u])
    BY <1>3 DEF JoinRaises
  <2>2. EndsWith(t, u, "raise", 0, error[u])
    BY <1>1, <1>3, <2>1, KeptOld DEF EndsWith, JoinRaises
  <2> QED BY <1>1, <2>2
<1> QED BY <1>2, <1>3

\* Every step but a timeout is of one of five kinds.
LEMMA StepKinds ==
  ASSUME Typed, NEW t \in Thread, ThreadStep(t)
  PROVE  \/ JoinTimesOut(t)
         \/ /\ UNCHANGED <<program, leaked, timeouts>>
            /\ \/ (\E g : Rewrites(t, g)) \/ (\E g, f : Opens(t, g, f)) \/ (\E fs : Spawns(t, fs))
               \/ \E c, how, d, e : EndsWith(t, c, how, d, e)
         \/ Leaves(t) /\ OneThread(t)
BY StepCases, RewritesAre, StartIs, OpensAre, EndsAre, LeavesTyped

-----------------------------------------------------------------------------
(* Which threads share a dictionary *)

\* A frame on top adds its dictionary.
LEMMA DictsAppend ==
  ASSUME NEW s \in Seq(Frames), NEW f \in Frames
  PROVE  Dicts(Append(s, f)) = Dicts(s) \cup {f.dict}
<1>1. DOMAIN Append(s, f) = DOMAIN s \cup {Len(s) + 1} /\ Append(s, f)[Len(s) + 1] = f
      /\ \A i \in DOMAIN s : Append(s, f)[i] = s[i]
  OBVIOUS
<1> QED BY <1>1 DEF Dicts

\* The empty stack refers to none.
LEMMA DictsEmpty == Dicts(<<>>) = {}
BY DEF Dicts

\* The end of a stack, frame by frame.
LEMMA AtopAppend ==
  ASSUME NEW s \in Seq(Frames), NEW f \in Frames, NEW d
  PROVE  Atop(Append(s, f), d) <=> Atop(s, d) /\ f.dict <= d /\ (f.kind = "loop" => f.dict < d)
<1>1. DOMAIN Append(s, f) = DOMAIN s \cup {Len(s) + 1} /\ Append(s, f)[Len(s) + 1] = f
      /\ \A i \in DOMAIN s : Append(s, f)[i] = s[i]
  OBVIOUS
<1> QED BY <1>1 DEF Atop

\* A stack climbs if it does below its innermost frame, which is at its end.
LEMMA ClimbsAppend ==
  ASSUME NEW s \in Seq(Frames), NEW f \in Frames
  PROVE  Climbs(Append(s, f)) <=> Climbs(s) /\ Atop(s, f.dict)
<1>1. /\ DOMAIN Append(s, f) = 1..(Len(s) + 1) /\ DOMAIN s = 1..Len(s) /\ Len(s) \in Nat
      /\ SubSeq(Append(s, f), 1, Len(s)) = s
      /\ Append(s, f)[Len(s) + 1] = f
      /\ \A i \in 1..Len(s) : /\ Append(s, f)[i] = s[i]
                              /\ SubSeq(Append(s, f), 1, i - 1) = SubSeq(s, 1, i - 1)
  OBVIOUS
<1>2. 1..(Len(s) + 1) = 1..Len(s) \cup {Len(s) + 1} /\ (Len(s) + 1) - 1 = Len(s)
  BY <1>1
<1>3. Atop(SubSeq(Append(s, f), 1, (Len(s) + 1) - 1), Append(s, f)[Len(s) + 1].dict) <=> Atop(s, f.dict)
  BY <1>1, <1>2
<1>4. \A i \in 1..Len(s) : Atop(SubSeq(Append(s, f), 1, i - 1), Append(s, f)[i].dict)
                            <=> Atop(SubSeq(s, 1, i - 1), s[i].dict)
  BY <1>1
<1> QED BY <1>1, <1>2, <1>3, <1>4 DEF Climbs

\* Short stacks climb.
LEMMA ClimbsShort ==
  ASSUME NEW f \in Frames
  PROVE  /\ Climbs(<<>>) /\ Climbs(<<f>>) /\ Dicts(<<f>>) = {f.dict} /\ <<f>> = Append(<<>>, f)
         /\ \A d : Atop(<<>>, d)
<1>1. <<f>> = Append(<<>>, f) /\ <<>> \in Seq(Frames)
  OBVIOUS
<1>2. Climbs(<<>>) /\ \A d : Atop(<<>>, d)
  BY DEF Climbs, Atop
<1>3. Climbs(Append(<<>>, f))
  BY <1>1, <1>2, ClimbsAppend
<1>4. Dicts(Append(<<>>, f)) = {} \cup {f.dict}
  BY <1>1, DictsAppend, DictsEmpty
<1> QED BY <1>1, <1>2, <1>3, <1>4

\* Dictionaries in use are dictionaries made.
LEMMA UsesAre ==
  ASSUME Typed, NEW u \in Thread
  PROVE  /\ \A d \in Uses(u) : d \in 1..Len(dicts)
         /\ \A i \in DOMAIN frames[u] : frames[u][i].dict \in 1..Len(dicts) /\ frames[u][i].dict \in Uses(u)
                                        /\ frames[u][i] \in Frames
         /\ Len(dicts) \in Nat
<1>1. Phased(u) /\ Len(dicts) \in Nat /\ frames[u] \in Seq(Frames)
  BY DEF Typed, TypeInv
<1>2. \A i \in DOMAIN frames[u] : frames[u][i].dict \in 1..Len(dicts)
  BY <1>1 DEF Phased, Stacked, Fits
<1>3. value[u] # 0 => value[u] \in 1..Len(dicts)
  BY <1>1 DEF Phased
<1> QED BY <1>1, <1>2, <1>3 DEF Uses, Dicts

\* A new dictionary is at the end of every stack.
LEMMA AtopNew ==
  ASSUME Typed, NEW u \in Thread, NEW d \in Nat, d > Len(dicts)
  PROVE  Atop(frames[u], d) /\ \A i \in DOMAIN frames[u] : frames[u][i].dict < d
<1>1. ASSUME NEW i \in DOMAIN frames[u] PROVE frames[u][i].dict < d /\ frames[u][i].dict <= d
  <2>1. frames[u][i].dict \in 1..Len(dicts) /\ Len(dicts) \in Nat
    BY UsesAre
  <2> QED BY <2>1
<1> QED BY <1>1 DEF Atop

\* What the innermost frame of a thread uses, and where its dictionary is.
LEMMA InnerUses ==
  ASSUME Typed, Tree, NEW t \in Thread, frames[t] # <<>>
  PROVE  /\ Dicts(frames[t]) = Dicts(Front(frames[t])) \cup {Inner(t).dict}
         /\ Inner(t).dict \in Uses(t) /\ Inner(t).dict \in 1..Len(dicts)
         /\ Climbs(Front(frames[t])) /\ Atop(Front(frames[t]), Inner(t).dict)
         /\ value[t] # 0 => /\ Atop(Front(frames[t]), value[t]) /\ value[t] \in Uses(t)
                            /\ Inner(t).dict <= value[t]
                            /\ Inner(t).kind = "loop" => Inner(t).dict < value[t]
<1>1. Front(frames[t]) \in Seq(Frames) /\ Inner(t) \in Frames /\ frames[t] = Append(Front(frames[t]), Inner(t))
  BY InnerIs
<1>2. Dicts(frames[t]) = Dicts(Front(frames[t])) \cup {Inner(t).dict}
  BY <1>1, DictsAppend
<1>3. Inner(t).dict \in Uses(t)
  BY <1>2 DEF Uses
<1>4. Climbs(frames[t]) /\ Rising(t)
  BY DEF Tree
<1>5. Climbs(Front(frames[t])) /\ Atop(Front(frames[t]), Inner(t).dict)
  BY <1>1, <1>4, ClimbsAppend
<1>6. value[t] # 0 => /\ Atop(Front(frames[t]), value[t]) /\ Inner(t).dict <= value[t]
                      /\ Inner(t).kind = "loop" => Inner(t).dict < value[t]
  BY <1>1, <1>4, AtopAppend DEF Rising
<1>7. value[t] # 0 => value[t] \in Uses(t)
  BY DEF Uses
<1> QED BY <1>2, <1>3, <1>5, <1>6, <1>7, UsesAre

\* One busy thread moves on, with its own dictionaries or new ones.
LEMMA TreeOneThread ==
  ASSUME Typed, Tree, NEW t \in Thread, Busy(t), OneThread(t),
         \A d \in Uses(t)' : d \in Uses(t) \/ (d \in Nat /\ d > Len(dicts)),
         \/ base'[t] = base[t] /\ doing'[t] # "free"
         \/ base'[t] = NoBase /\ Uses(t)' = {},
         Climbs(frames'[t]), Rising(t)'
  PROVE  Tree'
<1>1. ASSUME NEW u \in Thread, u # t
      PROVE  /\ frames'[u] = frames[u] /\ doing'[u] = doing[u] /\ base'[u] = base[u] /\ value'[u] = value[u]
             /\ Uses(u)' = Uses(u) /\ ActiveNames(u)' = ActiveNames(u) /\ Inner(u)' = Inner(u)
             /\ StepOf(Inner(u))' = StepOf(Inner(u)) /\ Rising(u)'
  <2>1. frames'[u] = frames[u] /\ doing'[u] = doing[u] /\ base'[u] = base[u] /\ value'[u] = value[u]
        /\ program' = program
    BY <1>1 DEF OneThread
  <2>2. Inner(u)' = Inner(u)
    BY <2>1 DEF Inner
  <2> QED BY <2>1, <2>2 DEF Uses, ActiveNames, StepOf, Tree, Rising
<1>2. \A u \in Thread : doing[u] = "join" => u # t
  BY BusyIs
<1>3. ASSUME NEW u \in Thread, NEW x \in base'[u].joins PROVE Below(x, u)'
  <2>1. base'[u] = base[u] /\ doing'[u] # "free"
    <3>1. CASE u # t
      <4>1. base'[u] = base[u] /\ doing'[u] = doing[u] /\ x \in base[u].joins
        BY <1>1, <3>1
      <4> QED BY <4>1 DEF Tree, Below
    <3>2. CASE u = t
      <4>1. base'[u] # NoBase
        BY DEF NoBase
      <4> QED BY <3>2, <4>1
    <3> QED BY <3>1, <3>2
  <2>2. x \in base[u].joins /\ Below(x, u)
    BY <2>1 DEF Tree
  <2>3. x \in Thread /\ x # t
    <3>1. base[u].joins \in SUBSET Thread
      BY DEF Typed, TypeInv
    <3> QED BY <1>2, <2>2, <3>1 DEF Below
  <2>4. \E c \in Range(awaits'[x]) : c = u \/ c \in base'[u].joins
    BY <2>1, <2>2 DEF Below, OneThread
  <2>5. ASSUME NEW d \in Uses(u)'
        PROVE  /\ Atop(frames[x], d)
               /\ StepOf(Inner(x)).loop = "parallel" => \A i \in DOMAIN frames[x] : frames[x][i].dict < d
    <3>1. d \in Uses(u) \/ (d \in Nat /\ d > Len(dicts))
      BY <1>1, <2>5
    <3>2. CASE d \in Uses(u)
      BY <2>2, <3>2 DEF Below
    <3>3. CASE d \in Nat /\ d > Len(dicts)
      BY <2>3, <3>3, AtopNew
    <3> QED BY <3>1, <3>2, <3>3
  <2>6. /\ frames'[x] = frames[x] /\ doing'[x] = doing[x]
        /\ ActiveNames(x)' = ActiveNames(x) /\ StepOf(Inner(x))' = StepOf(Inner(x))
    BY <1>1, <2>3
  <2> QED BY <2>1, <2>2, <2>4, <2>5, <2>6 DEF Below
<1>4. ASSUME NEW u \in Thread, u # t, NEW d \in Uses(t)', d \in Uses(u)'
      PROVE  t \in base'[u].joins \/ u \in base'[t].joins
  <2>1. d \in Uses(u) /\ base'[u] = base[u]
    BY <1>1, <1>4
  <2>2. d \in Uses(t)
    <3>1. d \in 1..Len(dicts) /\ Len(dicts) \in Nat
      BY <2>1, UsesAre
    <3>2. ~(d > Len(dicts))
      BY <3>1
    <3> QED BY <1>4, <3>2
  <2>3. t \in base[u].joins \/ u \in base[t].joins
    BY <1>4, <2>1, <2>2 DEF Tree, Apart
  <2>4. base'[t] = base[t]
    BY <1>4
  <2> QED BY <2>1, <2>3, <2>4
<1>5. ASSUME NEW a \in Thread, NEW b \in Thread PROVE Apart(a, b)'
  <2>1. CASE a # t /\ b # t
    <3>1. Uses(a)' = Uses(a) /\ Uses(b)' = Uses(b) /\ base'[a] = base[a] /\ base'[b] = base[b] /\ Apart(a, b)
      BY <1>1, <2>1 DEF Tree
    <3> QED BY <3>1 DEF Apart
  <2>2. CASE a = t
    BY <1>4, <2>2 DEF Apart
  <2>3. CASE b = t
    BY <1>4, <2>3 DEF Apart
  <2> QED BY <2>1, <2>2, <2>3
<1>6. ASSUME NEW u \in Thread PROVE Climbs(frames'[u]) /\ Rising(u)'
  BY <1>1 DEF Tree
<1> QED BY <1>3, <1>5, <1>6 DEF Tree

\* What a thread goes on with.
LEMMA ContinueIs ==
  ASSUME Typed, NEW t \in Thread, NEW fs, Continue(t, fs)
  PROVE  frames'[t] = fs /\ doing'[t] = "run" /\ value'[t] = 0 /\ error'[t] = NoError /\ base' = base /\ awaits' = awaits
BY DEF Typed, TypeInv, Continue

\* Rewriting a frame keeps the tree,
LEMMA TreeRewrites ==
  ASSUME Typed, Tree, NEW t \in Thread, NEW g, Rewrites(t, g)
  PROVE  Tree'
<1>1. /\ Busy(t) /\ OneThread(t) /\ g \in Frames
      /\ \/ doing[t] = "run" /\ g.dict = Inner(t).dict
         \/ doing[t] = "return" /\ g.dict = value[t]
  BY DEF Rewrites
<1>2. frames[t] # <<>> /\ Phased(t) /\ Front(frames[t]) \in Seq(Frames)
  BY <1>1, BusyIs, InnerIs
<1>3. frames'[t] = Append(Front(frames[t]), g) /\ doing'[t] = "run" /\ value'[t] = 0 /\ base' = base
  BY ContinueIs DEF Rewrites, Changes
<1>4. g.dict \in Uses(t) /\ Atop(Front(frames[t]), g.dict) /\ Climbs(Front(frames[t]))
      /\ Dicts(frames[t]) = Dicts(Front(frames[t])) \cup {Inner(t).dict}
  BY <1>1, <1>2, InnerUses DEF Phased
<1>5. Dicts(frames'[t]) = Dicts(Front(frames[t])) \cup {g.dict}
  BY <1>1, <1>2, <1>3, DictsAppend
<1>6. \A d \in Uses(t)' : d \in Uses(t)
  BY <1>3, <1>4, <1>5 DEF Uses
<1>7. Climbs(frames'[t])
  BY <1>1, <1>2, <1>3, <1>4, ClimbsAppend
<1> QED BY <1>1, <1>3, <1>6, <1>7, TreeOneThread DEF Rising

\* opening one,
LEMMA TreeOpens ==
  ASSUME Typed, Tree, NEW t \in Thread, NEW g, NEW f, Opens(t, g, f)
  PROVE  Tree'
<1>1. /\ Busy(t) /\ OneThread(t) /\ g \in Frames /\ f \in Frames /\ g.kind = Inner(t).kind
      /\ g.dict = Inner(t).dict
  BY DEF Opens
<1>2. frames[t] # <<>> /\ Front(frames[t]) \in Seq(Frames) /\ Len(dicts) \in Nat
  BY <1>1, BusyIs, InnerIs, UsesAre
<1> DEFINE r == Append(Front(frames[t]), g)
<1>3. frames'[t] = Append(r, f) /\ doing'[t] = "run" /\ value'[t] = 0 /\ base' = base
  BY ContinueIs DEF Opens, Enters
<1>4. g.dict \in Uses(t) /\ Atop(Front(frames[t]), g.dict) /\ Climbs(Front(frames[t])) /\ g.dict \in 1..Len(dicts)
      /\ Dicts(frames[t]) = Dicts(Front(frames[t])) \cup {Inner(t).dict}
  BY <1>1, <1>2, InnerUses
<1>5. \/ f.dict = g.dict /\ g.kind # "loop"
      \/ f.dict = Len(dicts) + 1
  BY <1>1 DEF Opens, EntersStep, EntersItem, EntersCall, IsCall
<1>6. r \in Seq(Frames) /\ Climbs(r) /\ Dicts(r) = Dicts(Front(frames[t])) \cup {g.dict}
  BY <1>1, <1>2, <1>4, ClimbsAppend, DictsAppend
<1>7. Atop(r, f.dict)
  <2>1. CASE f.dict = g.dict /\ g.kind # "loop"
    BY <1>1, <1>2, <1>4, <2>1, AtopAppend
  <2>2. CASE f.dict = Len(dicts) + 1
    <3>1. Atop(frames[t], Len(dicts) + 1) /\ frames[t] = Append(Front(frames[t]), Inner(t)) /\ Inner(t) \in Frames
      BY <1>2, AtopNew, InnerIs
    <3>2. Atop(Front(frames[t]), Len(dicts) + 1)
      BY <1>2, <3>1, AtopAppend
    <3>3. g.dict < Len(dicts) + 1 /\ g.dict <= Len(dicts) + 1
      BY <1>2, <1>4
    <3> QED BY <1>1, <1>2, <2>2, <3>2, <3>3, AtopAppend
  <2> QED BY <1>5, <2>1, <2>2
<1> HIDE DEF r
<1>8. Climbs(frames'[t]) /\ Dicts(frames'[t]) = Dicts(r) \cup {f.dict}
  BY <1>1, <1>3, <1>6, <1>7, ClimbsAppend, DictsAppend
<1>9. \A d \in Uses(t)' : d \in Uses(t) \/ (d \in Nat /\ d > Len(dicts))
  <2>1. \A d \in Uses(t)' : d \in Dicts(Front(frames[t])) \/ d = g.dict \/ d = f.dict
    BY <1>3, <1>6, <1>8 DEF Uses
  <2>2. f.dict \in Uses(t) \/ (f.dict \in Nat /\ f.dict > Len(dicts))
    BY <1>2, <1>4, <1>5
  <2> QED BY <1>4, <2>1, <2>2 DEF Uses
<1> QED BY <1>1, <1>3, <1>8, <1>9, TreeOneThread DEF Rising

\* leaving one,
LEMMA TreeLeaves ==
  ASSUME Typed, Tree, NEW t \in Thread, Leaves(t), OneThread(t)
  PROVE  Tree'
<1>1. ASSUME NEW d \in 0..Len(dicts), NEW e, Busy(t), Leave(t, d, e), d # 0 => d = Inner(t).dict \/ d = value[t]
      PROVE  Tree'
  <2>1. frames[t] # <<>> /\ d \in Nat
    BY <1>1, BusyIs, UsesAre
  <2>2. /\ Dicts(frames[t]) = Dicts(Front(frames[t])) \cup {Inner(t).dict} /\ Inner(t).dict \in Uses(t)
        /\ Climbs(Front(frames[t])) /\ (d # 0 => Atop(Front(frames[t]), d) /\ d \in Uses(t))
    BY <1>1, <2>1, InnerUses
  <2>3. frames'[t] = Front(frames[t])
        /\ \/ frames'[t] = <<>> /\ base'[t] = NoBase /\ value'[t] = 0
           \/ base'[t] = base[t] /\ value'[t] = d /\ doing'[t] # "free"
    <3>1. \/ frames'[t] = <<>> /\ base'[t] = NoBase /\ value'[t] = 0
          \/ /\ base'[t] = base[t] /\ value'[t] = d
             /\ frames'[t] = <<>> => doing'[t] = "ended"
             /\ frames'[t] # <<>> => doing'[t] = (IF e = NoError THEN "return" ELSE "raise")
      BY <1>1, LeaveIs
    <3> QED BY <1>1, <3>1, LeaveIs
  <2>4. Climbs(frames'[t]) /\ Rising(t)'
    BY <2>2, <2>3 DEF Rising
  <2>5. \A x \in Uses(t)' : x \in Uses(t)
    BY <2>2, <2>3 DEF Uses
  <2>6. \/ base'[t] = base[t] /\ doing'[t] # "free"
        \/ base'[t] = NoBase /\ Uses(t)' = {}
    <3>1. ASSUME frames'[t] = <<>>, value'[t] = 0 PROVE Uses(t)' = {}
      <4>1. Uses(t)' = Dicts(<<>>) \cup ({0} \ {0})
        BY <3>1 DEF Uses
      <4> QED BY <4>1, DictsEmpty
    <3> QED BY <2>3, <3>1
  <2> QED BY <1>1, <2>4, <2>5, <2>6, TreeOneThread
<1>2. ASSUME NEW d \in 1..Len(dicts), Returns(t, d) PROVE Tree'
  <2>1. d \in 0..Len(dicts) /\ Busy(t) /\ Leave(t, d, NoError) /\ (d = Inner(t).dict \/ d = value[t])
    BY <1>2 DEF Returns
  <2> QED BY <1>1, <2>1
<1>3. ASSUME NEW e \in Errs, Raises(t, e) PROVE Tree'
  <2>1. Busy(t) /\ Leave(t, 0, e) /\ 0 \in 0..Len(dicts)
    BY <1>3, UsesAre DEF Raises
  <2> QED BY <1>1, <2>1
<1> QED BY <1>2, <1>3 DEF Leaves

\* The threads that are started, and what they use.
LEMMA SpawnsIs ==
  ASSUME Typed, NEW t \in Thread, NEW fs, Spawns(t, fs)
  PROVE  \E new :
           /\ frames[t] # <<>> /\ t \notin Range(new) /\ awaits'[t] = new /\ doing'[t] = "join" /\ Phased(t)
           /\ program' = program /\ value' = value /\ error' = error
           /\ \A u \in Thread : u # t => awaits'[u] = awaits[u]
           /\ \A u \in Range(new) :
                /\ u \in Thread /\ doing[u] = "free" /\ doing'[u] = "run" /\ value[u] = 0 /\ awaits[u] = <<>>
                /\ base'[u] = StartBase(t)
                /\ \E i \in 1..Len(fs) :
                     /\ u = new[i] /\ frames'[u] = <<fs[i]>> /\ fs[i] \in Frames /\ Uses(u)' = {fs[i].dict}
                     /\ fs[i].kind # "workflow" /\ ~IsCall(fs[i])
                     /\ \/ StepOf(Inner(t)).loop # "parallel" /\ Len(fs) = 1 /\ fs[i].dict = Inner(t).dict
                        \/ /\ StepOf(Inner(t)).loop = "parallel" /\ fs[i].dict = Len(dicts) + i
                           /\ fs[i].dict \in 1..Len(dicts') /\ dicts'[fs[i].dict] = dicts[Inner(t).dict]
           /\ \A u \in Thread : u \notin Range(new) =>
                /\ frames'[u] = frames[u] /\ base'[u] = base[u] /\ (u # t => doing'[u] = doing[u])
                /\ Uses(u)' = Uses(u) /\ ActiveNames(u)' = ActiveNames(u) /\ Inner(u)' = Inner(u)
                /\ StepOf(Inner(u))' = StepOf(Inner(u)) /\ ActiveCalls(u)' = ActiveCalls(u)
<1>1. PICK new : Starts(t, fs, new)
  BY StartedAre DEF Spawns
<1>2. frames[t] # <<>> /\ t \notin Range(new) /\ awaits'[t] = new /\ doing'[t] = "join" /\ Phased(t)
      /\ program' = program /\ value' = value /\ error' = error
      /\ \A u \in Thread : u # t => awaits'[u] = awaits[u]
  BY <1>1, BusyIs DEF Starts, Spawns, Busy
<1>3. ASSUME NEW u \in Range(new)
      PROVE  /\ u \in Thread /\ doing[u] = "free" /\ doing'[u] = "run" /\ value[u] = 0 /\ awaits[u] = <<>>
             /\ base'[u] = StartBase(t)
             /\ \E i \in 1..Len(fs) :
                  /\ u = new[i] /\ frames'[u] = <<fs[i]>> /\ fs[i] \in Frames /\ Uses(u)' = {fs[i].dict}
                  /\ fs[i].kind # "workflow" /\ ~IsCall(fs[i])
                  /\ \/ StepOf(Inner(t)).loop # "parallel" /\ Len(fs) = 1 /\ fs[i].dict = Inner(t).dict
                     \/ /\ StepOf(Inner(t)).loop = "parallel" /\ fs[i].dict = Len(dicts) + i
                        /\ fs[i].dict \in 1..Len(dicts') /\ dicts'[fs[i].dict] = dicts[Inner(t).dict]
  <2>1. PICK i \in 1..Len(fs) : u = new[i]
    BY <1>1 DEF Starts, Range
  <2>2. u \in Thread /\ doing[u] = "free" /\ frames'[u] = <<fs[i]>> /\ doing'[u] = "run" /\ base'[u] = StartBase(t)
    BY <1>1, <2>1 DEF Starts, Unused
  <2>3. value[u] = 0 /\ awaits[u] = <<>>
    BY <2>2 DEF Typed, Phased
  <2>4. fs[i] \in Frames /\ fs[i].kind # "workflow" /\ ~IsCall(fs[i])
    BY <2>1 DEF Spawns
  <2>5. Uses(u)' = {fs[i].dict}
    <3>1. Dicts(frames'[u]) = {fs[i].dict} /\ value'[u] = 0
      BY <1>2, <2>2, <2>3, <2>4, ClimbsShort
    <3> QED BY <3>1 DEF Uses
  <2>6. \/ StepOf(Inner(t)).loop # "parallel" /\ Len(fs) = 1 /\ fs[i].dict = Inner(t).dict
        \/ /\ StepOf(Inner(t)).loop = "parallel" /\ fs[i].dict = Len(dicts) + i
           /\ fs[i].dict \in 1..Len(dicts') /\ dicts'[fs[i].dict] = dicts[Inner(t).dict]
    <3>1. CASE StepOf(Inner(t)).loop # "parallel"
      <4>1. Len(fs) = 1 /\ fs[1].dict = Inner(t).dict
        BY <3>1 DEF Spawns
      <4>2. i = 1
        BY <2>1, <4>1
      <4> QED BY <3>1, <4>1, <4>2
    <3>2. CASE StepOf(Inner(t)).loop = "parallel"
      <4>1. /\ Len(dicts') = Len(dicts) + Len(fs) /\ fs[i].dict = Len(dicts) + i
            /\ dicts'[Len(dicts) + i] = dicts[Inner(t).dict]
        BY <2>1, <3>2 DEF Spawns
      <4>2. Len(dicts) \in Nat /\ Len(fs) \in Nat
        BY UsesAre DEF Spawns
      <4>3. Len(dicts) + i \in 1..Len(dicts')
        BY <2>1, <4>1, <4>2
      <4> QED BY <3>2, <4>1, <4>3
    <3> QED BY <3>1, <3>2
  <2> QED BY <2>1, <2>2, <2>3, <2>4, <2>5, <2>6
<1>4. ASSUME NEW u \in Thread, u \notin Range(new)
      PROVE  /\ frames'[u] = frames[u] /\ base'[u] = base[u] /\ (u # t => doing'[u] = doing[u])
             /\ Uses(u)' = Uses(u) /\ ActiveNames(u)' = ActiveNames(u) /\ Inner(u)' = Inner(u)
             /\ StepOf(Inner(u))' = StepOf(Inner(u)) /\ ActiveCalls(u)' = ActiveCalls(u)
  <2>1. frames'[u] = frames[u] /\ base'[u] = base[u] /\ (u # t => doing'[u] = doing[u])
    BY <1>1, <1>4 DEF Starts
  <2>2. Inner(u)' = Inner(u)
    BY <2>1 DEF Inner
  <2> QED BY <1>2, <2>1, <2>2 DEF Uses, ActiveNames, StepOf, ActiveCalls
<1> QED BY <1>2, <1>3, <1>4

\* The names of a chain on another.
LEMMA RangeOfBoth ==
  ASSUME NEW a \in Seq(Names), NEW b \in Seq(Names)
  PROVE  Range(a \o b) = Range(a) \cup Range(b) /\ a \o b \in Seq(Names)
<1>1. a \o b \in Seq(Names) /\ Len(a \o b) = Len(a) + Len(b) /\ Len(a) \in Nat /\ Len(b) \in Nat
  OBVIOUS
<1>2. \A i \in 1..Len(a) : (a \o b)[i] = a[i]
  OBVIOUS
<1>3. \A i \in 1..Len(b) : (a \o b)[Len(a) + i] = b[i]
  OBVIOUS
<1>4. Range(a \o b) = {(a \o b)[i] : i \in 1..(Len(a) + Len(b))} /\ Range(a) = {a[i] : i \in 1..Len(a)}
      /\ Range(b) = {b[i] : i \in 1..Len(b)}
  BY <1>1 DEF Range
<1>5. \A i \in 1..(Len(a) + Len(b)) : i \in 1..Len(a) \/ (i - Len(a) \in 1..Len(b) /\ i = Len(a) + (i - Len(a)))
  BY <1>1
<1>6. \A i \in 1..Len(a) : i \in 1..(Len(a) + Len(b))
  BY <1>1
<1>7. \A i \in 1..Len(b) : Len(a) + i \in 1..(Len(a) + Len(b))
  BY <1>1
<1>8. ASSUME NEW x \in Range(a \o b) PROVE x \in Range(a) \cup Range(b)
  BY <1>2, <1>3, <1>4, <1>5
<1>9. ASSUME NEW x \in Range(a) \cup Range(b) PROVE x \in Range(a \o b)
  BY <1>2, <1>3, <1>4, <1>6, <1>7
<1> QED BY <1>1, <1>8, <1>9

\* The names of the calls that a thread runs in.
LEMMA ActiveNamesAre ==
  ASSUME Typed, NEW t \in Thread
  PROVE  /\ Range(ActiveCalls(t)) = ActiveNames(t) /\ ActiveCalls(t) \in Seq(Names)
         /\ base[t].calls \in Seq(Names) /\ Calls(frames[t]) \in Seq(Names) /\ base[t].joins \in SUBSET Thread
<1>1. frames[t] \in Seq(Frames) /\ base[t].calls \in Seq(Names) /\ base[t].joins \in SUBSET Thread
  BY DEF Typed, TypeInv
<1>2. Calls(frames[t]) \in Seq(Names) /\ Range(Calls(frames[t])) = Called(frames[t])
  BY <1>1, CallsType, CallsRange
<1> QED BY <1>1, <1>2, RangeOfBoth DEF ActiveCalls, ActiveNames

\* starting threads below a thread,
LEMMA TreeSpawns ==
  ASSUME Typed, Tree, NEW t \in Thread, NEW fs, Spawns(t, fs)
  PROVE  Tree'
<1>1. PICK new :
           /\ frames[t] # <<>> /\ t \notin Range(new) /\ awaits'[t] = new /\ doing'[t] = "join" /\ Phased(t)
           /\ program' = program /\ value' = value /\ error' = error
           /\ \A u \in Thread : u # t => awaits'[u] = awaits[u]
           /\ \A u \in Range(new) :
                /\ u \in Thread /\ doing[u] = "free" /\ doing'[u] = "run" /\ value[u] = 0 /\ awaits[u] = <<>>
                /\ base'[u] = StartBase(t)
                /\ \E i \in 1..Len(fs) :
                     /\ u = new[i] /\ frames'[u] = <<fs[i]>> /\ fs[i] \in Frames /\ Uses(u)' = {fs[i].dict}
                     /\ fs[i].kind # "workflow" /\ ~IsCall(fs[i])
                     /\ \/ StepOf(Inner(t)).loop # "parallel" /\ Len(fs) = 1 /\ fs[i].dict = Inner(t).dict
                        \/ /\ StepOf(Inner(t)).loop = "parallel" /\ fs[i].dict = Len(dicts) + i
                           /\ fs[i].dict \in 1..Len(dicts') /\ dicts'[fs[i].dict] = dicts[Inner(t).dict]
           /\ \A u \in Thread : u \notin Range(new) =>
                /\ frames'[u] = frames[u] /\ base'[u] = base[u] /\ (u # t => doing'[u] = doing[u])
                /\ Uses(u)' = Uses(u) /\ ActiveNames(u)' = ActiveNames(u) /\ Inner(u)' = Inner(u)
                /\ StepOf(Inner(u))' = StepOf(Inner(u)) /\ ActiveCalls(u)' = ActiveCalls(u)
  BY SpawnsIs
<1>2. /\ doing[t] = "run" /\ Inner(t).kind = "workflow" /\ Len(dicts) \in Nat
      /\ Inner(t).dict \in Uses(t) /\ Inner(t).dict \in 1..Len(dicts)
      /\ Climbs(Front(frames[t])) /\ Atop(Front(frames[t]), Inner(t).dict)
  BY <1>1, InnerUses, UsesAre DEF Spawns
<1>3. \A u \in Range(new) : base'[u].joins = base[t].joins \cup {t} /\ base'[u].calls = ActiveCalls(t)
  BY <1>1 DEF StartBase
<1>4. Atop(frames[t], Inner(t).dict)
  <2>1. Front(frames[t]) \in Seq(Frames) /\ Inner(t) \in Frames /\ frames[t] = Append(Front(frames[t]), Inner(t))
    BY <1>1, InnerIs
  <2>2. Inner(t).dict <= Inner(t).dict
    BY <1>2
  <2> QED BY <1>2, <2>1, <2>2, AtopAppend
<1>5. ASSUME NEW u \in Range(new), NEW d \in Uses(u)'
      PROVE  \/ StepOf(Inner(t)).loop # "parallel" /\ d = Inner(t).dict
             \/ d \in Nat /\ d > Len(dicts)
  BY <1>1, <1>2
<1>6. \A u \in Thread : doing[u] = "join" => u # t /\ u \notin Range(new)
  BY <1>1, <1>2
<1>7. ASSUME NEW u \in Thread, NEW x \in base'[u].joins PROVE Below(x, u)'
  <2>1. CASE u \in Range(new) /\ x = t
    <3>1. doing'[t] = "join" /\ doing'[u] # "free" /\ u \in Range(awaits'[t])
      BY <1>1, <2>1
    <3>2. ActiveNames(t)' = ActiveNames(t) /\ base'[u].calls = ActiveCalls(t) /\ Range(ActiveCalls(t)) = ActiveNames(t)
      BY <1>1, <1>3, <2>1, ActiveNamesAre
    <3>3. ASSUME NEW d \in Uses(u)'
          PROVE  /\ Atop(frames[t], d)
                 /\ StepOf(Inner(t)).loop = "parallel" => \A i \in DOMAIN frames[t] : frames[t][i].dict < d
      BY <1>4, <1>5, <2>1, AtopNew
    <3>4. frames'[t] = frames[t] /\ StepOf(Inner(t))' = StepOf(Inner(t))
      BY <1>1
    <3> QED BY <2>1, <3>1, <3>2, <3>3, <3>4 DEF Below
  <2>2. CASE u \in Range(new) /\ x # t
    <3>1. x \in base[t].joins
      BY <1>3, <2>2
    <3>2. Below(x, t) /\ x \in Thread
      BY <3>1, ActiveNamesAre DEF Tree
    <3>3. x \notin Range(new) /\ x # t
      BY <1>6, <3>2 DEF Below
    <3>4. /\ frames'[x] = frames[x] /\ doing'[x] = "join" /\ awaits'[x] = awaits[x] /\ doing'[u] # "free"
          /\ ActiveNames(x)' = ActiveNames(x) /\ StepOf(Inner(x))' = StepOf(Inner(x))
      BY <1>1, <2>2, <3>2, <3>3 DEF Below
    <3>5. \E c \in Range(awaits[x]) : c = u \/ c \in base'[u].joins
      BY <1>3, <2>2, <3>2 DEF Below
    <3>6. ActiveNames(x) \subseteq Range(base'[u].calls)
      <4>1. ActiveNames(x) \subseteq ActiveNames(t)
        BY <3>2 DEF Below, ActiveNames
      <4> QED BY <1>3, <2>2, <4>1, ActiveNamesAre
    <3>7. ASSUME NEW d \in Uses(u)'
          PROVE  /\ Atop(frames[x], d)
                 /\ StepOf(Inner(x)).loop = "parallel" => \A i \in DOMAIN frames[x] : frames[x][i].dict < d
      <4>1. CASE d = Inner(t).dict
        BY <1>2, <3>2, <4>1 DEF Below
      <4>2. CASE d \in Nat /\ d > Len(dicts)
        BY <3>2, <4>2, AtopNew
      <4> QED BY <1>5, <2>2, <4>1, <4>2
    <3> QED BY <3>4, <3>5, <3>6, <3>7 DEF Below
  <2>3. CASE u \notin Range(new)
    <3>1. base'[u] = base[u] /\ Uses(u)' = Uses(u)
      BY <1>1, <2>3
    <3>2. Below(x, u) /\ x \in Thread
      BY <3>1, ActiveNamesAre DEF Tree
    <3>3. x \notin Range(new) /\ x # t
      BY <1>6, <3>2 DEF Below
    <3>4. /\ frames'[x] = frames[x] /\ doing'[x] = "join" /\ awaits'[x] = awaits[x]
          /\ ActiveNames(x)' = ActiveNames(x) /\ StepOf(Inner(x))' = StepOf(Inner(x))
      BY <1>1, <3>2, <3>3 DEF Below
    <3>5. doing'[u] # "free"
      BY <1>1, <2>3, <3>2 DEF Below
    <3> QED BY <3>1, <3>2, <3>4, <3>5 DEF Below
  <2> QED BY <2>1, <2>2, <2>3
<1>8. ASSUME NEW a \in Range(new), NEW b \in Thread, a # b, NEW d \in Uses(a)', d \in Uses(b)'
      PROVE  b \in base'[a].joins
  <2>1. CASE b \in Range(new)
    <3>1. PICK i \in 1..Len(fs) :
            /\ a = new[i] /\ Uses(a)' = {fs[i].dict}
            /\ \/ Len(fs) = 1
               \/ fs[i].dict = Len(dicts) + i
      BY <1>1
    <3>2. PICK j \in 1..Len(fs) :
            /\ b = new[j] /\ Uses(b)' = {fs[j].dict}
            /\ \/ Len(fs) = 1
               \/ fs[j].dict = Len(dicts) + j
      BY <1>1, <2>1
    <3>3. CASE Len(fs) = 1
      <4>1. i = 1 /\ j = 1
        BY <3>1, <3>2, <3>3
      <4> QED BY <1>8, <3>1, <3>2, <4>1
    <3>4. CASE Len(fs) # 1
      <4>1. d = Len(dicts) + i /\ d = Len(dicts) + j /\ i \in Nat /\ j \in Nat
        BY <1>8, <3>1, <3>2, <3>4
      <4>2. i = j
        BY <1>2, <4>1
      <4> QED BY <1>8, <3>1, <3>2, <4>2
    <3> QED BY <3>3, <3>4
  <2>2. CASE b \notin Range(new)
    <3>1. d \in Uses(b)
      BY <1>1, <1>8, <2>2
    <3>2. d = Inner(t).dict
      <4>1. d \in 1..Len(dicts)
        BY <3>1, UsesAre
      <4>2. ~(d > Len(dicts))
        BY <1>2, <4>1
      <4> QED BY <1>5, <1>8, <4>2
    <3>3. b = t \/ t \in base[b].joins \/ b \in base[t].joins
      BY <1>2, <3>1, <3>2 DEF Tree, Apart
    <3>4. t \notin base[b].joins
      BY <1>2 DEF Tree, Below
    <3> QED BY <1>3, <3>3, <3>4
  <2> QED BY <2>1, <2>2
<1>9. ASSUME NEW a \in Thread, NEW b \in Thread PROVE Apart(a, b)'
  <2>1. CASE a \in Range(new)
    BY <1>8, <2>1 DEF Apart
  <2>2. CASE b \in Range(new)
    BY <1>8, <2>2 DEF Apart
  <2>3. CASE a \notin Range(new) /\ b \notin Range(new)
    <3>1. Uses(a)' = Uses(a) /\ Uses(b)' = Uses(b) /\ base'[a] = base[a] /\ base'[b] = base[b] /\ Apart(a, b)
      BY <1>1, <2>3 DEF Tree
    <3> QED BY <3>1 DEF Apart
  <2> QED BY <2>1, <2>2, <2>3
<1>10. ASSUME NEW u \in Thread PROVE Climbs(frames'[u]) /\ Rising(u)'
  <2>1. CASE u \in Range(new)
    BY <1>1, <2>1, ClimbsShort DEF Rising
  <2>2. CASE u \notin Range(new)
    <3>1. frames'[u] = frames[u] /\ value'[u] = value[u] /\ Climbs(frames[u]) /\ Rising(u)
      BY <1>1, <2>2 DEF Tree
    <3> QED BY <3>1 DEF Rising
  <2> QED BY <2>1, <2>2
<1> QED BY <1>7, <1>9, <1>10 DEF Tree

\* and joining them.
LEMMA TreeEnds ==
  ASSUME Typed, Tree, NEW t \in Thread, NEW c, NEW how, NEW d, NEW e, EndsWith(t, c, how, d, e)
  PROVE  Tree'
<1> DEFINE joined == Range(awaits[t])
<1>1. /\ doing[t] = "join" /\ t \notin joined
      /\ doing'[t] = how /\ value'[t] = d /\ awaits'[t] = <<>> /\ base'[t] = base[t]
      /\ \A u \in joined :
           /\ u \in Thread /\ doing[u] = "ended" /\ frames[u] = <<>> /\ StartedBy(t, u)
           /\ doing'[u] = "free" /\ value'[u] = 0 /\ base'[u] = NoBase
      /\ \A u \in Thread : u # t /\ u \notin joined =>
           doing'[u] = doing[u] /\ value'[u] = value[u] /\ base'[u] = base[u]
      /\ \A u \in Thread : u # t => awaits'[u] = awaits[u]
      /\ frames' = frames /\ program' = program /\ c \in joined
      /\ how \in {"return", "raise"} /\ Len(dicts) \in Nat
  BY EndJoinIs, UsesAre DEF EndsWith
<1>2. base[c].joins = base[t].joins \cup {t} /\ c \in Thread
  BY <1>1 DEF StartedBy
<1>3. d = 0 \/ (d = value[c] /\ d \in Uses(c)) \/ (d \in Nat /\ d > Len(dicts))
  <2>1. value[c] # 0 => value[c] \in Uses(c)
    BY DEF Uses
  <2> QED BY <1>1, <2>1 DEF EndsWith
<1> HIDE DEF joined
<1>4. ASSUME NEW u \in Thread
      PROVE  /\ frames'[u] = frames[u] /\ Inner(u)' = Inner(u) /\ StepOf(Inner(u))' = StepOf(Inner(u))
             /\ u \notin joined => ActiveNames(u)' = ActiveNames(u) /\ base'[u] = base[u]
             /\ u \in joined => Uses(u)' = {} /\ base'[u].joins = {}
             /\ u # t /\ u \notin joined => Uses(u)' = Uses(u) /\ Rising(u)'
             /\ \A x \in Uses(t)' : x \in Uses(t) \/ (x = d /\ d # 0)
  <2>1. frames'[u] = frames[u] /\ Inner(u)' = Inner(u) /\ StepOf(Inner(u))' = StepOf(Inner(u))
    BY <1>1 DEF Inner, StepOf
  <2>2. u \notin joined => ActiveNames(u)' = ActiveNames(u) /\ base'[u] = base[u]
    BY <1>1 DEF ActiveNames
  <2>3. u \in joined => Uses(u)' = {} /\ base'[u].joins = {}
    <3>1. ASSUME u \in joined PROVE Uses(u)' = Dicts(<<>>) \cup ({0} \ {0}) /\ base'[u].joins = {}
      BY <1>1, <3>1 DEF Uses, NoBase
    <3> QED BY <3>1, DictsEmpty
  <2>4. u # t /\ u \notin joined => Uses(u)' = Uses(u) /\ Rising(u)'
    BY <1>1 DEF Uses, Tree, Rising
  <2>5. \A x \in Uses(t)' : x \in Uses(t) \/ (x = d /\ d # 0)
    BY <1>1 DEF Uses
  <2> QED BY <2>1, <2>2, <2>3, <2>4, <2>5
<1>5. ASSUME NEW x \in Thread, x \in base[t].joins \cup {t}, d # 0
      PROVE  /\ Atop(frames[x], d)
             /\ StepOf(Inner(x)).loop = "parallel" => \A i \in DOMAIN frames[x] : frames[x][i].dict < d
  <2>1. CASE d = value[c] /\ d \in Uses(c)
    BY <1>2, <1>5, <2>1 DEF Tree, Below
  <2>2. CASE d \in Nat /\ d > Len(dicts)
    BY <2>2, AtopNew
  <2> QED BY <1>3, <1>5, <2>1, <2>2
<1>6. ASSUME NEW u \in Thread, NEW x \in base'[u].joins PROVE Below(x, u)'
  <2>1. u \notin joined
    BY <1>4
  <2>2. base'[u] = base[u] /\ Below(x, u) /\ x \in Thread
    BY <1>4, <2>1, ActiveNamesAre DEF Tree
  <2>3. x \notin joined
    BY <1>1, <2>2 DEF Below
  <2>4. x # t
    <3>1. ASSUME x = t PROVE FALSE
      <4>1. PICK y \in joined : y = u \/ y \in base[u].joins
        BY <2>2, <3>1 DEF Below, joined
      <4>2. y \in base[u].joins
        BY <2>1, <4>1
      <4>3. doing[y] = "join"
        BY <4>2 DEF Tree, Below
      <4> QED BY <1>1, <4>3
    <3> QED BY <3>1
  <2>5. /\ doing'[x] = "join" /\ awaits'[x] = awaits[x] /\ frames'[x] = frames[x]
        /\ ActiveNames(x)' = ActiveNames(x) /\ StepOf(Inner(x))' = StepOf(Inner(x))
    BY <1>1, <1>4, <2>2, <2>3, <2>4 DEF Below
  <2>6. doing'[u] # "free"
    BY <1>1, <2>1, <2>2 DEF Below
  <2>7. ASSUME NEW y \in Uses(u)'
        PROVE  /\ Atop(frames[x], y)
               /\ StepOf(Inner(x)).loop = "parallel" => \A i \in DOMAIN frames[x] : frames[x][i].dict < y
    <3>1. CASE y \in Uses(u)
      BY <2>2, <3>1 DEF Below
    <3>2. CASE u = t /\ y = d /\ d # 0
      BY <1>5, <2>2, <3>2
    <3> QED BY <1>4, <2>1, <3>1, <3>2
  <2> QED BY <2>2, <2>5, <2>6, <2>7 DEF Below
<1>7. ASSUME NEW b \in Thread, b # t, b \notin joined, NEW y \in Uses(t)', y \in Uses(b)'
      PROVE  t \in base'[b].joins \/ b \in base'[t].joins
  <2>1. y \in Uses(b) /\ base'[b] = base[b] /\ base'[t] = base[t]
    BY <1>1, <1>4, <1>7
  <2>2. CASE y \in Uses(t)
    BY <1>7, <2>1, <2>2 DEF Tree, Apart
  <2>3. CASE y = d /\ d # 0
    <3>1. y \in 1..Len(dicts)
      BY <2>1, UsesAre
    <3>2. ~(y > Len(dicts))
      BY <1>1, <3>1
    <3>3. y \in Uses(c)
      BY <1>3, <2>3, <3>2
    <3>4. c # b
      BY <1>1, <1>7
    <3>5. c \in base[b].joins \/ b \in base[c].joins
      BY <1>2, <2>1, <3>3, <3>4 DEF Tree, Apart
    <3>6. c \notin base[b].joins
      BY <1>1 DEF Tree, Below
    <3> QED BY <1>2, <1>7, <2>1, <3>5, <3>6
  <2> QED BY <1>4, <1>7, <2>2, <2>3
<1>8. ASSUME NEW a \in Thread, NEW b \in Thread PROVE Apart(a, b)'
  <2>1. CASE a \in joined \/ b \in joined
    BY <1>4, <2>1 DEF Apart
  <2>2. CASE a \notin joined /\ b \notin joined /\ a = t
    BY <1>7, <2>2 DEF Apart
  <2>3. CASE a \notin joined /\ b \notin joined /\ b = t
    BY <1>7, <2>3 DEF Apart
  <2>4. CASE a \notin joined /\ b \notin joined /\ a # t /\ b # t
    <3>1. Uses(a)' = Uses(a) /\ Uses(b)' = Uses(b) /\ base'[a] = base[a] /\ base'[b] = base[b] /\ Apart(a, b)
      BY <1>4, <2>4 DEF Tree
    <3> QED BY <3>1 DEF Apart
  <2> QED BY <2>1, <2>2, <2>3, <2>4
<1>9. ASSUME NEW u \in Thread PROVE Climbs(frames'[u]) /\ Rising(u)'
  <2>1. Climbs(frames'[u])
    BY <1>4 DEF Tree
  <2>2. CASE u \in joined
    BY <1>1, <2>1, <2>2 DEF Rising
  <2>3. CASE u = t
    BY <1>1, <1>5, <2>1, <2>3 DEF Rising
  <2> QED BY <1>4, <2>1, <2>2, <2>3
<1> QED BY <1>6, <1>8, <1>9 DEF Tree

\* One thread is a tree.
LEMMA TreeInit == Init => Tree
<1> SUFFICES ASSUME Init PROVE Tree
  OBVIOUS
<1> DEFINE f == WorkflowFrame(Top, 1)
<1>1. f \in Frames
  BY NewWorkflow, EngineAssumption DEF Frames
<1>2. \A t \in Thread : frames[t] = (IF t = Main THEN <<f>> ELSE <<>>) /\ value[t] = 0 /\ base[t] = NoBase
  BY DEF Init
<1> HIDE DEF f
<1>3. \A t \in Thread : Climbs(frames[t]) /\ Rising(t) /\ base[t].joins = {}
  BY <1>1, <1>2, ClimbsShort DEF Rising, NoBase
<1>4. \A t \in Thread : t # Main => Uses(t) = {}
  BY <1>2, DictsEmpty DEF Uses
<1>5. \A t, u \in Thread : Apart(t, u)
  BY <1>4 DEF Apart
<1> QED BY <1>3, <1>5 DEF Tree

\* The threads that share a dictionary form a tree as long as no step has timed out.
LEMMA TreeStep ==
  ASSUME Typed, Tree, NEW t \in Thread, ThreadStep(t), ~JoinTimesOut(t)
  PROVE  Tree'
BY StepKinds, TreeRewrites, TreeOpens, TreeSpawns, TreeEnds, TreeLeaves

-----------------------------------------------------------------------------
(* No call is forgotten *)

\* The named calls of a stack, frame by frame.
LEMMA NamedAppend ==
  ASSUME NEW s \in Seq(Frames), NEW f \in Frames, NEW cs, NEW ds
  PROVE  Named(Append(s, f), cs, ds) <=> Named(s, cs, ds) /\ NamesFit(s, f, cs, ds)
<1>1. /\ DOMAIN Append(s, f) = 1..(Len(s) + 1) /\ DOMAIN s = 1..Len(s) /\ Len(s) \in Nat
      /\ SubSeq(Append(s, f), 1, Len(s)) = s
      /\ Append(s, f)[Len(s) + 1] = f
      /\ \A i \in 1..Len(s) : /\ Append(s, f)[i] = s[i]
                              /\ SubSeq(Append(s, f), 1, i - 1) = SubSeq(s, 1, i - 1)
  OBVIOUS
<1>2. 1..(Len(s) + 1) = 1..Len(s) \cup {Len(s) + 1} /\ (Len(s) + 1) - 1 = Len(s)
  BY <1>1
<1>3. NamesFit(SubSeq(Append(s, f), 1, (Len(s) + 1) - 1), Append(s, f)[Len(s) + 1], cs, ds) <=> NamesFit(s, f, cs, ds)
  BY <1>1, <1>2
<1>4. \A i \in 1..Len(s) : NamesFit(SubSeq(Append(s, f), 1, i - 1), Append(s, f)[i], cs, ds)
                            <=> NamesFit(SubSeq(s, 1, i - 1), s[i], cs, ds)
  BY <1>1
<1> QED BY <1>1, <1>2, <1>3, <1>4 DEF Named

\* The empty stack has no calls to name.
LEMMA NamedEmpty == ASSUME NEW cs, NEW ds PROVE Named(<<>>, cs, ds)
BY DEF Named

\* What is called up to a frame is called in the stack.
LEMMA CalledPrefix ==
  ASSUME NEW s \in Seq(Frames), NEW i \in DOMAIN s
  PROVE  Called(Append(SubSeq(s, 1, i - 1), s[i])) \subseteq Called(s)
<1> DEFINE p == Append(SubSeq(s, 1, i - 1), s[i])
<1>1. i \in 1..Len(s) /\ Len(s) \in Nat /\ DOMAIN s = 1..Len(s)
  OBVIOUS
<1>2. DOMAIN p = 1..i /\ \A j \in 1..i : p[j] = s[j] /\ j \in DOMAIN s
  BY <1>1
<1> HIDE DEF p
<1>3. Calling(p) \subseteq Calling(s) /\ \A j \in Calling(p) : p[j] = s[j]
  BY <1>2 DEF Calling
<1>4. Called(p) \subseteq Called(s)
  BY <1>3 DEF Called
<1> QED BY <1>4 DEF p

\* A dictionary may get more names, or all that are active.
LEMMA NamedMore ==
  ASSUME NEW s \in Seq(Frames), NEW cs, NEW ds, NEW es, Named(s, cs, ds),
         \A d \in Dicts(s) : Range(ds[d]) \subseteq Range(es[d]) \/ cs \cup Called(s) \subseteq Range(es[d])
  PROVE  Named(s, cs, es)
<1> SUFFICES ASSUME NEW i \in DOMAIN s PROVE NamesFit(SubSeq(s, 1, i - 1), s[i], cs, es)
  BY DEF Named
<1>1. NamesFit(SubSeq(s, 1, i - 1), s[i], cs, ds) /\ s[i].dict \in Dicts(s)
  BY DEF Named, Dicts
<1>2. Called(Append(SubSeq(s, 1, i - 1), s[i])) \subseteq Called(s)
  BY CalledPrefix
<1> QED BY <1>1, <1>2 DEF NamesFit

\* A name at the end of a chain.
LEMMA RangeAppend ==
  ASSUME NEW s \in Seq(Names), NEW n \in Names
  PROVE  /\ Range(Append(s, n)) = Range(s) \cup {n} /\ Append(s, n) \in Seq(Names)
         /\ IsInjective(Append(s, n)) => IsInjective(s)
         /\ IsInjective(s) /\ n \notin Range(s) => IsInjective(Append(s, n))
<1>1. /\ Append(s, n) \in Seq(Names) /\ DOMAIN Append(s, n) = DOMAIN s \cup {Len(s) + 1}
      /\ Append(s, n)[Len(s) + 1] = n /\ \A i \in DOMAIN s : Append(s, n)[i] = s[i] /\ i # Len(s) + 1
  OBVIOUS
<1>2. Range(Append(s, n)) = Range(s) \cup {n}
  BY <1>1 DEF Range
<1>3. IsInjective(Append(s, n)) => IsInjective(s)
  BY <1>1 DEF IsInjective
<1>4. IsInjective(s) /\ n \notin Range(s) => IsInjective(Append(s, n))
  BY <1>1 DEF IsInjective, Range
<1> QED BY <1>1, <1>2, <1>3, <1>4

\* The calls in a stack fs of a thread that runs under the calls cs.
LEMMA CallsUnder ==
  ASSUME NEW cs \in Seq(Names), NEW s \in Seq(Frames)
  PROVE  /\ cs \o Calls(s) \in Seq(Names) /\ Range(cs \o Calls(s)) = Range(cs) \cup Called(s)
         /\ cs \o Calls(<<>>) = cs
         /\ \A f \in Frames :
              /\ IsCall(f) => cs \o Calls(Append(s, f)) = Append(cs \o Calls(s), f.target) /\ f.target \in Names
              /\ ~IsCall(f) => cs \o Calls(Append(s, f)) = cs \o Calls(s)
<1>1. Calls(s) \in Seq(Names) /\ Range(Calls(s)) = Called(s)
  BY CallsType, CallsRange
<1>2. /\ cs \o Calls(s) \in Seq(Names) /\ Range(cs \o Calls(s)) = Range(cs) \cup Called(s)
  BY <1>1, RangeOfBoth
<1>3. cs \o Calls(<<>>) = cs
  BY CallsEmpty
<1>4. ASSUME NEW f \in Frames
      PROVE  /\ IsCall(f) => cs \o Calls(Append(s, f)) = Append(cs \o Calls(s), f.target) /\ f.target \in Names
             /\ ~IsCall(f) => cs \o Calls(Append(s, f)) = cs \o Calls(s)
  <2>1. CASE ~IsCall(f)
    BY <2>1, CallsAppend
  <2>2. CASE IsCall(f)
    <3>1. f.target \in Names
      BY <2>2 DEF IsCall, Frames, WorkflowFrames, HandlerFrames, LoopFrames
    <3>2. Calls(Append(s, f)) = Append(Calls(s), f.target)
      BY <2>2, CallsAppend
    <3>3. ASSUME NEW a \in Seq(Names), NEW b \in Seq(Names), NEW n \in Names PROVE a \o Append(b, n) = Append(a \o b, n)
      OBVIOUS
    <3> QED BY <1>1, <2>2, <3>1, <3>2, <3>3
  <2> QED BY <2>1, <2>2
<1> QED BY <1>1, <1>2, <1>3, <1>4

OuterCalls(t) == base[t].calls \o Calls(Front(frames[t]))

\* The calls of a thread, by its innermost frame.
LEMMA InnerCalls ==
  ASSUME Typed, NEW t \in Thread, frames[t] # <<>>
  PROVE  /\ OuterCalls(t) \in Seq(Names) /\ base[t].calls \in Seq(Names)
         /\ Range(OuterCalls(t)) = Range(base[t].calls) \cup Called(Front(frames[t]))
         /\ Called(frames[t]) = Called(Front(frames[t])) \cup (IF IsCall(Inner(t)) THEN {Inner(t).target} ELSE {})
         /\ IsCall(Inner(t)) => ActiveCalls(t) = Append(OuterCalls(t), Inner(t).target) /\ Inner(t).target \in Names
         /\ ~IsCall(Inner(t)) => ActiveCalls(t) = OuterCalls(t)
         /\ \A g \in Frames :
              /\ IsCall(g) => base[t].calls \o Calls(Append(Front(frames[t]), g)) = Append(OuterCalls(t), g.target)
              /\ ~IsCall(g) => base[t].calls \o Calls(Append(Front(frames[t]), g)) = OuterCalls(t)
<1>1. Front(frames[t]) \in Seq(Frames) /\ Inner(t) \in Frames /\ frames[t] = Append(Front(frames[t]), Inner(t))
      /\ base[t].calls \in Seq(Names)
  BY InnerIs, ActiveNamesAre
<1> DEFINE s == Front(frames[t])
           cs == base[t].calls
           f == Inner(t)
<1>2. s \in Seq(Frames) /\ f \in Frames /\ frames[t] = Append(s, f) /\ cs \in Seq(Names)
  BY <1>1
<1> HIDE DEF s, cs, f
<1>3. cs \o Calls(s) \in Seq(Names) /\ Range(cs \o Calls(s)) = Range(cs) \cup Called(s)
  BY <1>2, CallsUnder
<1>4. \A g \in Frames :
        /\ IsCall(g) => cs \o Calls(Append(s, g)) = Append(cs \o Calls(s), g.target) /\ g.target \in Names
        /\ ~IsCall(g) => cs \o Calls(Append(s, g)) = cs \o Calls(s)
  BY <1>2, CallsUnder
<1>5. Called(frames[t]) = Called(s) \cup (IF IsCall(f) THEN {f.target} ELSE {})
  BY <1>2, CalledAppend
<1>6. OuterCalls(t) = cs \o Calls(s) /\ ActiveCalls(t) = cs \o Calls(Append(s, f))
  BY <1>2 DEF OuterCalls, ActiveCalls, s, cs
<1>7. /\ IsCall(f) => ActiveCalls(t) = Append(OuterCalls(t), f.target) /\ f.target \in Names
      /\ ~IsCall(f) => ActiveCalls(t) = OuterCalls(t)
  BY <1>2, <1>4, <1>6
<1> QED BY <1>2, <1>3, <1>4, <1>5, <1>6, <1>7 DEF s, cs, f

\* Which names the innermost frame finds.
LEMMA InnerNames ==
  ASSUME Typed, AllNamed, NEW t \in Thread, frames[t] # <<>>
  PROVE  /\ Named(Front(frames[t]), Range(base[t].calls), dicts)
         /\ NamesFit(Front(frames[t]), Inner(t), Range(base[t].calls), dicts)
         /\ IsInjective(OuterCalls(t))
         /\ ActiveNames(t) \subseteq Range(dicts[Inner(t).dict])
         /\ Range(OuterCalls(t)) \subseteq ActiveNames(t)
         /\ IsCall(Inner(t)) => Range(OuterCalls(t)) \subseteq Range(Inner(t).saved)
<1>1. Front(frames[t]) \in Seq(Frames) /\ Inner(t) \in Frames /\ frames[t] = Append(Front(frames[t]), Inner(t))
  BY InnerIs
<1>2. Named(frames[t], Range(base[t].calls), dicts) /\ IsInjective(ActiveCalls(t))
  BY DEF AllNamed, NamesOf
<1>3. Named(Front(frames[t]), Range(base[t].calls), dicts)
      /\ NamesFit(Front(frames[t]), Inner(t), Range(base[t].calls), dicts)
  BY <1>1, <1>2, NamedAppend
<1>4. IsInjective(OuterCalls(t))
  BY <1>2, InnerCalls, RangeAppend
<1>5. ActiveNames(t) \subseteq Range(dicts[Inner(t).dict])
  BY <1>1, <1>3 DEF NamesFit, ActiveNames
<1>6. Range(OuterCalls(t)) \subseteq ActiveNames(t)
  BY InnerCalls DEF ActiveNames
<1>7. IsCall(Inner(t)) => Range(OuterCalls(t)) \subseteq Range(Inner(t).saved)
  BY <1>3, InnerCalls DEF NamesFit, IsCall
<1> QED BY <1>3, <1>4, <1>5, <1>6, <1>7

\* The names of a thread that does nothing, while dictionaries get names.
LEMMA NamesOther ==
  ASSUME Typed, AllNamed, NEW u \in Thread, frames'[u] = frames[u], base'[u] = base[u],
         value'[u] \in {value[u], 0},
         \A d \in Uses(u) : Range(dicts[d]) \subseteq Range(dicts'[d]) \/ ActiveNames(u) \subseteq Range(dicts'[d])
  PROVE  NamesOf(u)'
<1>1. NamesOf(u) /\ frames[u] \in Seq(Frames)
  BY DEF AllNamed, Typed, TypeInv
<1>2. Named(frames[u], Range(base[u].calls), dicts')
  <2>1. \A d \in Dicts(frames[u]) : \/ Range(dicts[d]) \subseteq Range(dicts'[d])
                                    \/ Range(base[u].calls) \cup Called(frames[u]) \subseteq Range(dicts'[d])
    BY DEF Uses, ActiveNames
  <2> QED BY <1>1, <2>1, NamedMore DEF NamesOf
<1>3. ActiveNames(u)' = ActiveNames(u) /\ ActiveCalls(u)' = ActiveCalls(u)
  BY DEF ActiveNames, ActiveCalls
<1>4. value'[u] # 0 => ActiveNames(u) \subseteq Range(dicts'[value'[u]])
  <2>1. value[u] # 0 => value[u] \in Uses(u)
    BY DEF Uses
  <2> QED BY <1>1, <2>1 DEF NamesOf
<1> QED BY <1>1, <1>2, <1>3, <1>4 DEF NamesOf

\* One thread moves, and takes no name of another's.
LEMMA NamesOneThread ==
  ASSUME Typed, AllNamed, NEW t \in Thread, OneThread(t), NamesOf(t)',
         \A u \in Thread \ {t} : \A d \in Uses(u) :
            Range(dicts[d]) \subseteq Range(dicts'[d]) \/ ActiveNames(u) \subseteq Range(dicts'[d])
  PROVE  AllNamed'
<1>1. ASSUME NEW u \in Thread, u # t PROVE NamesOf(u)'
  <2>1. frames'[u] = frames[u] /\ base'[u] = base[u] /\ value'[u] \in {value[u], 0}
    BY <1>1 DEF OneThread
  <2> QED BY <1>1, <2>1, NamesOther
<1> QED BY <1>1 DEF AllNamed

\* Kept dictionaries have their names.
LEMMA OldGrown ==
  ASSUME Typed, OldKept
  PROVE  \A u \in Thread : \A d \in Uses(u) : Range(dicts[d]) \subseteq Range(dicts'[d])
BY UsesAre DEF OldKept

\* No call is forgotten when a frame is rewritten,
LEMMA NamesRewrites ==
  ASSUME Typed, AllNamed, NEW t \in Thread, NEW g, Rewrites(t, g)
  PROVE  AllNamed'
<1>1. /\ Busy(t) /\ OneThread(t) /\ g \in Frames /\ ~IsCall(g) /\ ~IsCall(Inner(t)) /\ dicts' = dicts
      /\ \/ doing[t] = "run" /\ g.dict = Inner(t).dict
         \/ doing[t] = "return" /\ g.dict = value[t]
  BY DEF Rewrites
<1>2. frames[t] # <<>> /\ Phased(t) /\ Front(frames[t]) \in Seq(Frames)
  BY <1>1, BusyIs, InnerIs
<1>3. frames'[t] = Append(Front(frames[t]), g) /\ value'[t] = 0 /\ base'[t] = base[t]
  BY ContinueIs DEF Rewrites, Changes
<1>4. ActiveNames(t) \subseteq Range(dicts[g.dict])
  <2>1. value[t] # 0 => ActiveNames(t) \subseteq Range(dicts[value[t]])
    BY DEF AllNamed, NamesOf
  <2> QED BY <1>1, <1>2, <2>1, InnerNames DEF Phased
<1>5. NamesFit(Front(frames[t]), g, Range(base[t].calls), dicts)
  <2>1. Called(Append(Front(frames[t]), g)) = Called(Front(frames[t]))
    BY <1>1, <1>2, CalledAppend
  <2>2. Called(Front(frames[t])) = Called(frames[t])
    BY <1>1, <1>2, InnerCalls
  <2> QED BY <1>1, <1>4, <2>1, <2>2 DEF NamesFit, ActiveNames, IsCall
<1>6. Named(frames'[t], Range(base[t].calls), dicts)
  BY <1>1, <1>2, <1>3, <1>5, InnerNames, NamedAppend
<1>7. ActiveCalls(t)' = OuterCalls(t)
  BY <1>1, <1>2, <1>3, InnerCalls DEF ActiveCalls
<1>8. NamesOf(t)'
  BY <1>1, <1>2, <1>3, <1>6, <1>7, InnerNames DEF NamesOf
<1> QED BY <1>1, <1>8, NamesOneThread

\* when one is opened (a call is one more name, and was none before),
LEMMA NamesOpens ==
  ASSUME Typed, AllNamed, NEW t \in Thread, NEW g, NEW f, Opens(t, g, f)
  PROVE  AllNamed'
<1>1. /\ Busy(t) /\ OneThread(t) /\ g \in Frames /\ f \in Frames /\ g.dict = Inner(t).dict
      /\ ~IsCall(f) /\ ~IsCall(Inner(t))
  BY DEF Opens
<1>2. frames[t] # <<>> /\ Front(frames[t]) \in Seq(Frames) /\ Inner(t).dict \in 1..Len(dicts) /\ Len(dicts) \in Nat
  BY <1>1, BusyIs, InnerIs, BusyInner
<1> DEFINE r == Append(Front(frames[t]), g)
           cs == Range(base[t].calls)
           N == IF IsCall(g) THEN {g.target} ELSE {}
<1>3. frames'[t] = Append(r, f) /\ value'[t] = 0 /\ base'[t] = base[t]
  BY ContinueIs DEF Opens, Enters
<1>4. cs \cup Called(Front(frames[t])) \subseteq Range(dicts[Inner(t).dict])
  BY <1>2, InnerNames, InnerCalls
<1>5. r \in Seq(Frames) /\ Called(r) = Called(Front(frames[t])) \cup N /\ Called(Append(r, f)) = Called(r)
  <2>1. r \in Seq(Frames) /\ Called(r) = Called(Front(frames[t])) \cup N
    BY <1>1, <1>2, CalledAppend
  <2> HIDE DEF r
  <2>2. Called(Append(r, f)) = Called(r) \cup {}
    BY <1>1, <2>1, CalledAppend
  <2> QED BY <2>1, <2>2
<1>6. /\ \A d \in 1..Len(dicts) : Range(dicts[d]) \subseteq Range(dicts'[d])
      /\ Range(dicts[Inner(t).dict]) \cup N \subseteq Range(dicts'[g.dict])
      /\ Range(dicts[Inner(t).dict]) \cup N \subseteq Range(dicts'[f.dict])
      /\ IsCall(g) => g.saved = dicts[Inner(t).dict] /\ g.target \notin Range(dicts[Inner(t).dict])
                      /\ g.target \in Names
  <2>1. CASE EntersStep(t, g, f)
    BY <1>1, <1>2, <2>1 DEF EntersStep
  <2>2. CASE EntersItem(t, g, f)
    BY <1>1, <1>2, <2>2 DEF EntersItem, OldKept
  <2>3. CASE EntersCall(t, g, f)
    <3>1. dicts[Inner(t).dict] \in Seq(Names)
      BY <1>2 DEF Typed, TypeInv
    <3>2. Range(dicts'[Inner(t).dict]) = Range(dicts[Inner(t).dict]) \cup {g.target}
      BY <2>3, <3>1, RangeAppend DEF EntersCall
    <3> QED BY <1>1, <1>2, <2>3, <3>2 DEF EntersCall
  <2> QED BY <2>1, <2>2, <2>3 DEF Opens
<1> HIDE DEF r, cs, N
<1>7. Named(Front(frames[t]), cs, dicts')
  <2>1. Named(Front(frames[t]), cs, dicts)
    BY <1>2, InnerNames DEF cs
  <2>2. \A d \in Dicts(Front(frames[t])) : d \in 1..Len(dicts)
    <3>1. Inner(t) \in Frames /\ frames[t] = Append(Front(frames[t]), Inner(t))
      BY <1>2, InnerIs
    <3>2. Dicts(frames[t]) = Dicts(Front(frames[t])) \cup {Inner(t).dict}
      BY <1>2, <3>1, DictsAppend
    <3> QED BY <3>2, UsesAre DEF Uses
  <2> QED BY <1>2, <1>6, <2>1, <2>2, NamedMore
<1>8. NamesFit(Front(frames[t]), g, cs, dicts')
  BY <1>4, <1>5, <1>6 DEF NamesFit, IsCall, r
<1>9. NamesFit(r, f, cs, dicts')
  BY <1>1, <1>4, <1>5, <1>6 DEF NamesFit, IsCall
<1>10. Named(Append(r, f), cs, dicts')
  BY <1>1, <1>2, <1>5, <1>7, <1>8, <1>9, NamedAppend DEF r
<1>11. ActiveCalls(t)' = IF IsCall(g) THEN Append(OuterCalls(t), g.target) ELSE OuterCalls(t)
  <2>1. ActiveCalls(t)' = base[t].calls \o Calls(Append(r, f))
    BY <1>3 DEF ActiveCalls
  <2>2. base[t].calls \o Calls(Append(r, f)) = base[t].calls \o Calls(r)
    <3>1. base[t].calls \in Seq(Names)
      BY <1>2, InnerCalls
    <3> QED BY <1>1, <1>5, <3>1, CallsUnder
  <2> QED BY <1>1, <1>2, <2>1, <2>2, InnerCalls DEF r
<1>12. IsInjective(ActiveCalls(t)')
  <2>1. IsInjective(OuterCalls(t)) /\ OuterCalls(t) \in Seq(Names)
        /\ Range(OuterCalls(t)) \subseteq Range(dicts[Inner(t).dict])
    BY <1>2, InnerNames, InnerCalls
  <2> QED BY <1>6, <1>11, <2>1, RangeAppend
<1>13. NamesOf(t)'
  BY <1>3, <1>10, <1>12 DEF NamesOf, cs
<1>14. \A u \in Thread : \A d \in Uses(u) : Range(dicts[d]) \subseteq Range(dicts'[d])
  BY <1>6, UsesAre
<1> QED BY <1>1, <1>13, <1>14, NamesOneThread

\* A thread that has gone has no names.
LEMMA NamesGone ==
  ASSUME NEW t \in Thread, frames'[t] = <<>>, base'[t] = NoBase, value'[t] = 0
  PROVE  NamesOf(t)'
<1>1. ActiveCalls(t)' = <<>>
  BY CallsEmpty DEF ActiveCalls, NoBase
<1>2. IsInjective(<<>>)
  BY DEF IsInjective
<1> QED BY <1>1, <1>2, NamedEmpty DEF NamesOf

\* when one is left with the names of what remains,
LEMMA NamesLeave ==
  ASSUME Typed, AllNamed, NEW t \in Thread, Busy(t), NEW d, NEW e, Leave(t, d, e),
         Named(Front(frames[t]), Range(base[t].calls), dicts'),
         d # 0 => Range(OuterCalls(t)) \subseteq Range(dicts'[d])
  PROVE  NamesOf(t)'
<1>1. frames[t] # <<>> /\ frames'[t] = Front(frames[t])
  BY BusyIs, LeaveIs
<1>2. \/ frames'[t] = <<>> /\ base'[t] = NoBase /\ value'[t] = 0
      \/ base'[t] = base[t] /\ value'[t] = d
  BY LeaveIs
<1>3. CASE base'[t] = base[t] /\ value'[t] = d
  <2>1. ActiveCalls(t)' = OuterCalls(t) /\ ActiveNames(t)' = Range(OuterCalls(t))
    BY <1>1, <1>3, InnerCalls DEF ActiveCalls, OuterCalls, ActiveNames
  <2> QED BY <1>1, <1>3, <2>1, InnerNames DEF NamesOf
<1> QED BY <1>2, <1>3, NamesGone

\* as it is: a handler puts back the names it found,
LEMMA NamesLeaves ==
  ASSUME Typed, Tree, AllNamed, NEW t \in Thread, Leaves(t), OneThread(t)
  PROVE  AllNamed'
<1>1. ASSUME NEW d, NEW e, Busy(t), Leave(t, d, e), dicts' = dicts,
             d # 0 => d = Inner(t).dict
      PROVE  AllNamed'
  <2>1. frames[t] # <<>>
    BY <1>1, BusyIs
  <2>2. NamesOf(t)'
    BY <1>1, <2>1, InnerNames, NamesLeave
  <2> QED BY <1>1, <2>2, NamesOneThread
<1>2. ASSUME NEW d \in 1..Len(dicts), Returns(t, d) PROVE AllNamed'
  <2>1. Busy(t) /\ Leave(t, d, NoError)
    BY <1>2 DEF Returns
  <2>2. CASE d = Inner(t).dict /\ UNCHANGED dicts
    BY <1>1, <2>1, <2>2
  <2>3. CASE /\ CallReturns(t) /\ doing[t] = "return" /\ d = value[t] /\ Inner(t).kind = "handler"
             /\ Inner(t) \in HandlerFrames /\ dicts' = [dicts EXCEPT ![d] = Inner(t).saved]
    <3>1. frames[t] # <<>> /\ IsCall(Inner(t)) /\ Inner(t).saved \in Seq(Names) /\ Front(frames[t]) \in Seq(Frames)
      BY <2>1, <2>3, BusyIs, BusyInner, InnerIs DEF IsCall, HandlerFrames
    <3>2. dicts'[d] = Inner(t).saved /\ \A x \in 1..Len(dicts) : x # d => dicts'[x] = dicts[x]
      BY <2>3, <3>1, ChangedDict
    <3>3. Range(OuterCalls(t)) \subseteq Range(Inner(t).saved)
          /\ Range(OuterCalls(t)) = Range(base[t].calls) \cup Called(Front(frames[t]))
      BY <3>1, InnerNames, InnerCalls
    <3>4. Named(Front(frames[t]), Range(base[t].calls), dicts')
      <4>1. \A x \in Dicts(Front(frames[t])) : x \in 1..Len(dicts)
        <5>1. Inner(t) \in Frames /\ frames[t] = Append(Front(frames[t]), Inner(t))
          BY <3>1, InnerIs
        <5>2. Dicts(frames[t]) = Dicts(Front(frames[t])) \cup {Inner(t).dict}
          BY <3>1, <5>1, DictsAppend
        <5> QED BY <5>2, UsesAre DEF Uses
      <4>2. \A x \in Dicts(Front(frames[t])) :
              \/ Range(dicts[x]) \subseteq Range(dicts'[x])
              \/ Range(base[t].calls) \cup Called(Front(frames[t])) \subseteq Range(dicts'[x])
        BY <3>2, <3>3, <4>1
      <4> QED BY <3>1, <4>2, InnerNames, NamedMore
    <3>5. NamesOf(t)'
      BY <2>1, <3>2, <3>3, <3>4, NamesLeave
    <3>6. ASSUME NEW u \in Thread \ {t}, NEW x \in Uses(u)
          PROVE  Range(dicts[x]) \subseteq Range(dicts'[x]) \/ ActiveNames(u) \subseteq Range(dicts'[x])
      <4>1. x \in 1..Len(dicts)
        BY UsesAre
      <4>2. CASE x = d
        <5>1. d \in Uses(t)
          BY <2>3 DEF Uses
        <5>2. t \in base[u].joins \/ u \in base[t].joins
          BY <4>2, <5>1 DEF Tree, Apart
        <5>3. t \notin base[u].joins
          BY <2>3 DEF Tree, Below
        <5>4. ActiveNames(u) \subseteq Range(base[t].calls)
          BY <5>2, <5>3 DEF Tree, Below
        <5> QED BY <3>2, <3>3, <4>2, <5>4
      <4> QED BY <3>2, <4>1, <4>2
    <3> QED BY <3>5, <3>6, NamesOneThread
  <2> QED BY <1>2, <2>2, <2>3 DEF Returns
<1>3. ASSUME NEW e \in Errs, Raises(t, e) PROVE AllNamed'
  BY <1>1, <1>3 DEF Raises
<1> QED BY <1>2, <1>3 DEF Leaves

\* when threads are started,
LEMMA NamesSpawns ==
  ASSUME Typed, AllNamed, NEW t \in Thread, NEW fs, Spawns(t, fs)
  PROVE  AllNamed'
<1>1. PICK new :
           /\ frames[t] # <<>> /\ value' = value
           /\ \A u \in Range(new) :
                /\ u \in Thread /\ value[u] = 0 /\ base'[u] = StartBase(t)
                /\ \E i \in 1..Len(fs) :
                     /\ frames'[u] = <<fs[i]>> /\ fs[i] \in Frames /\ ~IsCall(fs[i])
                     /\ fs[i].dict = Inner(t).dict \/ dicts'[fs[i].dict] = dicts[Inner(t).dict]
           /\ \A u \in Thread : u \notin Range(new) => frames'[u] = frames[u] /\ base'[u] = base[u]
  <2>1. PICK new :
           /\ frames[t] # <<>> /\ value' = value
           /\ \A u \in Range(new) :
                /\ u \in Thread /\ value[u] = 0 /\ base'[u] = StartBase(t)
                /\ \E i \in 1..Len(fs) :
                     /\ frames'[u] = <<fs[i]>> /\ fs[i] \in Frames /\ ~IsCall(fs[i])
                     /\ \/ fs[i].dict = Inner(t).dict
                        \/ dicts'[fs[i].dict] = dicts[Inner(t).dict]
           /\ \A u \in Thread : u \notin Range(new) => frames'[u] = frames[u] /\ base'[u] = base[u]
    BY SpawnsIs
  <2> QED BY <2>1
<1>2. /\ OldKept /\ Inner(t).dict \in 1..Len(dicts) /\ ActiveNames(t) \subseteq Range(dicts[Inner(t).dict])
      /\ Range(ActiveCalls(t)) = ActiveNames(t) /\ ActiveCalls(t) \in Seq(Names) /\ IsInjective(ActiveCalls(t))
  <2>1. Busy(t)
    BY DEF Spawns, Busy
  <2> QED BY <1>1, <2>1, BusyInner, InnerNames, ActiveNamesAre DEF Spawns, AllNamed, NamesOf
<1>3. ASSUME NEW u \in Range(new) PROVE NamesOf(u)'
  <2>1. PICK f \in Frames : /\ frames'[u] = <<f>> /\ ~IsCall(f)
                            /\ f.dict = Inner(t).dict \/ dicts'[f.dict] = dicts[Inner(t).dict]
    BY <1>1
  <2>2. u \in Thread /\ value'[u] = 0 /\ base'[u].calls = ActiveCalls(t)
    BY <1>1 DEF StartBase
  <2>3. dicts'[f.dict] = dicts[Inner(t).dict]
    BY <1>2, <2>1 DEF OldKept
  <2>4. <<>> \in Seq(Frames) /\ <<f>> = Append(<<>>, f)
    OBVIOUS
  <2>5. Called(<<f>>) = {}
    BY <2>1, <2>4, CalledAppend, CallsEmpty
  <2>6. NamesFit(<<>>, f, Range(ActiveCalls(t)), dicts')
    BY <1>2, <2>1, <2>3, <2>4, <2>5 DEF NamesFit, IsCall
  <2>7. Named(<<f>>, Range(ActiveCalls(t)), dicts')
    <3> DEFINE cs == Range(ActiveCalls(t))
    <3> HIDE DEF cs
    <3>1. Named(<<>>, cs, dicts')
      BY NamedEmpty
    <3>2. NamesFit(<<>>, f, cs, dicts')
      BY <2>6 DEF cs
    <3>3. Named(Append(<<>>, f), cs, dicts')
      BY <2>4, <3>1, <3>2, NamedAppend
    <3> QED BY <2>4, <3>3 DEF cs
  <2>8. ActiveCalls(u)' = ActiveCalls(t)
    <3>1. ActiveCalls(t) \o Calls(Append(<<>>, f)) = ActiveCalls(t) \o Calls(<<>>)
          /\ ActiveCalls(t) \o Calls(<<>>) = ActiveCalls(t)
      BY <1>2, <2>1, <2>4, CallsUnder
    <3>2. ActiveCalls(u)' = ActiveCalls(t) \o Calls(<<f>>)
      BY <2>1, <2>2 DEF ActiveCalls
    <3> QED BY <2>4, <3>1, <3>2
  <2> QED BY <1>2, <2>1, <2>2, <2>7, <2>8 DEF NamesOf
<1>4. ASSUME NEW u \in Thread, u \notin Range(new) PROVE NamesOf(u)'
  <2>1. frames'[u] = frames[u] /\ base'[u] = base[u] /\ value'[u] \in {value[u], 0}
    BY <1>1, <1>4
  <2> QED BY <1>2, <2>1, OldGrown, NamesOther
<1> QED BY <1>3, <1>4 DEF AllNamed

\* and when they are joined.
LEMMA NamesEnds ==
  ASSUME Typed, AllNamed, NEW t \in Thread, NEW c, NEW how, NEW d, NEW e, EndsWith(t, c, how, d, e)
  PROVE  AllNamed'
<1>1. /\ t \notin Range(awaits[t]) /\ value'[t] = d /\ base'[t] = base[t]
      /\ \A u \in Range(awaits[t]) : frames[u] = <<>> /\ value'[u] = 0 /\ base'[u] = NoBase
      /\ \A u \in Thread : u # t /\ u \notin Range(awaits[t]) => value'[u] = value[u] /\ base'[u] = base[u]
      /\ frames' = frames /\ c \in Range(awaits[t]) /\ c \in Thread /\ StartedBy(t, c) /\ OldKept
  BY EndJoinIs DEF EndsWith
<1>2. ActiveNames(t) \subseteq ActiveNames(c) /\ ActiveNames(t)' = ActiveNames(t) /\ ActiveCalls(t)' = ActiveCalls(t)
  <2>1. base[c].calls = ActiveCalls(t) /\ Range(ActiveCalls(t)) = ActiveNames(t)
    BY <1>1, ActiveNamesAre DEF StartedBy
  <2> QED BY <1>1, <2>1 DEF ActiveNames, ActiveCalls
<1>3. d # 0 => ActiveNames(t) \subseteq Range(dicts'[d])
  <2>1. ASSUME d # 0 PROVE value[c] \in 1..Len(dicts) /\ dicts'[d] = dicts[value[c]]
    BY <1>1, <2>1 DEF EndsWith, OldKept
  <2>2. value[c] # 0 => ActiveNames(c) \subseteq Range(dicts[value[c]])
    BY <1>1 DEF AllNamed, NamesOf
  <2>3. ASSUME d # 0 PROVE value[c] # 0
    BY <2>1, <2>3, UsesAre
  <2> QED BY <1>2, <2>1, <2>2, <2>3
<1>4. NamesOf(t)'
  <2>1. frames[t] \in Seq(Frames) /\ NamesOf(t)
    BY DEF AllNamed, Typed, TypeInv
  <2>2. \A x \in Dicts(frames[t]) : Range(dicts[x]) \subseteq Range(dicts'[x])
    BY <1>1, OldGrown DEF Uses
  <2>3. Named(frames[t], Range(base[t].calls), dicts')
    BY <2>1, <2>2, NamedMore DEF NamesOf
  <2> QED BY <1>1, <1>2, <1>3, <2>1, <2>3 DEF NamesOf
<1>5. ASSUME NEW u \in Range(awaits[t]) PROVE NamesOf(u)'
  BY <1>1, NamesGone, NotAwaited
<1>6. ASSUME NEW u \in Thread, u # t, u \notin Range(awaits[t]) PROVE NamesOf(u)'
  <2>1. frames'[u] = frames[u] /\ base'[u] = base[u] /\ value'[u] \in {value[u], 0}
    BY <1>1, <1>6
  <2> QED BY <1>1, <2>1, OldGrown, NamesOther
<1> QED BY <1>4, <1>5, <1>6 DEF AllNamed

\* No calls at the start.
LEMMA NamesInit == Init => AllNamed
<1> SUFFICES ASSUME Init, NEW t \in Thread PROVE NamesOf(t)
  BY DEF AllNamed
<1> DEFINE f == WorkflowFrame(Top, 1)
<1>1. f \in Frames /\ f.kind = "workflow"
  BY NewWorkflow, EngineAssumption DEF Frames
<1>2. frames[t] = (IF t = Main THEN <<f>> ELSE <<>>) /\ value[t] = 0 /\ base[t].calls = <<>>
  BY DEF Init, NoBase
<1> HIDE DEF f
<1>3. <<f>> = Append(<<>>, f) /\ <<>> \in Seq(Frames) /\ <<>> \in Seq(Names) /\ Range(<<>>) = {} /\ ~IsCall(f)
  BY <1>1 DEF IsCall, Range
<1>4. Called(<<f>>) = {} /\ Calls(<<f>>) = <<>> /\ Calls(<<>>) = <<>>
  BY <1>1, <1>3, CalledAppend, CallsAppend, CallsEmpty
<1>5. NamesFit(<<>>, f, Range(<<>>), dicts)
  BY <1>1, <1>3, <1>4 DEF NamesFit
<1>6. Named(frames[t], Range(base[t].calls), dicts)
  <2>1. Named(<<>>, Range(base[t].calls), dicts)
    BY NamedEmpty
  <2>2. base[t].calls = <<>> /\ f \in Frames /\ <<>> \in Seq(Frames)
    BY <1>1, <1>2, <1>3
  <2>3. NamesFit(<<>>, f, Range(base[t].calls), dicts)
    BY <1>5, <2>2
  <2>4. Named(Append(<<>>, f), Range(base[t].calls), dicts)
    BY <2>1, <2>2, <2>3, NamedAppend
  <2> QED BY <1>2, <1>3, <2>1, <2>4
<1>7. ActiveCalls(t) = <<>> /\ IsInjective(<<>>)
  BY <1>2, <1>4 DEF ActiveCalls, IsInjective
<1> QED BY <1>2, <1>6, <1>7 DEF NamesOf

\* No step but a timeout makes a call forgotten.
LEMMA NamesStep ==
  ASSUME Typed, Tree, AllNamed, NEW t \in Thread, ThreadStep(t), ~JoinTimesOut(t)
  PROVE  AllNamed'
BY StepKinds, NamesRewrites, NamesOpens, NamesSpawns, NamesEnds, NamesLeaves

-----------------------------------------------------------------------------
(* The dictionaries say which calls are active *)

\* What a stack relies on, frame by frame.
LEMMA KeptAppend ==
  ASSUME NEW s \in Seq(Frames), NEW f \in Frames, NEW cs, NEW ds
  PROVE  Kept(Append(s, f), cs, ds) <=> Kept(s, cs, ds) /\ TrueFit(s, f, cs, ds)
<1>1. /\ DOMAIN Append(s, f) = 1..(Len(s) + 1) /\ DOMAIN s = 1..Len(s) /\ Len(s) \in Nat
      /\ SubSeq(Append(s, f), 1, Len(s)) = s
      /\ Append(s, f)[Len(s) + 1] = f
      /\ \A i \in 1..Len(s) : /\ Append(s, f)[i] = s[i]
                              /\ SubSeq(Append(s, f), 1, i - 1) = SubSeq(s, 1, i - 1)
  OBVIOUS
<1>2. 1..(Len(s) + 1) = 1..Len(s) \cup {Len(s) + 1} /\ (Len(s) + 1) - 1 = Len(s)
  BY <1>1
<1>3. TrueFit(SubSeq(Append(s, f), 1, (Len(s) + 1) - 1), Append(s, f)[Len(s) + 1], cs, ds) <=> TrueFit(s, f, cs, ds)
  BY <1>1, <1>2
<1>4. \A i \in 1..Len(s) : TrueFit(SubSeq(Append(s, f), 1, i - 1), Append(s, f)[i], cs, ds)
                            <=> TrueFit(SubSeq(s, 1, i - 1), s[i], cs, ds)
  BY <1>1
<1> QED BY <1>1, <1>2, <1>3, <1>4 DEF Kept

\* The empty stack relies on nothing.
LEMMA KeptEmpty == ASSUME NEW cs, NEW ds PROVE Kept(<<>>, cs, ds)
BY DEF Kept

\* The dictionaries that the loops of a stack rely on are not changed.
LoopsKeep(s, ds, es) ==
  \A i \in DOMAIN s : i # 1 /\ s[i].kind = "loop" => es[s[i - 1].dict] = ds[s[i - 1].dict]

\* What a stack relies on is true as long as its loops find what they left.
LEMMA KeptMore ==
  ASSUME NEW s \in Seq(Frames), NEW cs, NEW ds, NEW es, Kept(s, cs, ds), LoopsKeep(s, ds, es)
  PROVE  Kept(s, cs, es)
<1> SUFFICES ASSUME NEW i \in DOMAIN s PROVE TrueFit(SubSeq(s, 1, i - 1), s[i], cs, es)
  BY DEF Kept
<1>1. TrueFit(SubSeq(s, 1, i - 1), s[i], cs, ds)
  BY DEF Kept
<1>2. i \in 1..Len(s) /\ Len(s) \in Nat
  OBVIOUS
<1>3. CASE i = 1
  <2>1. SubSeq(s, 1, i - 1) = <<>>
    BY <1>2, <1>3
  <2> QED BY <1>1, <2>1 DEF TrueFit
<1>4. CASE i # 1
  <2>1. i - 1 \in 1..Len(s) /\ Len(SubSeq(s, 1, i - 1)) = i - 1 /\ SubSeq(s, 1, i - 1)[i - 1] = s[i - 1]
    BY <1>2, <1>4
  <2>2. Last(SubSeq(s, 1, i - 1)) = s[i - 1]
    BY <2>1 DEF Last
  <2>3. s[i].kind = "loop" => es[s[i - 1].dict] = ds[s[i - 1].dict]
    BY <1>4 DEF LoopsKeep
  <2> HIDE DEF Kept, LoopsKeep
  <2> QED BY <1>1, <2>2, <2>3 DEF TrueFit
<1> QED BY <1>3, <1>4

\* The loops of a stack run on dictionaries before d.
LEMMA LoopsBefore ==
  ASSUME NEW s \in Seq(Frames), NEW d \in Nat, Climbs(s), NEW i \in DOMAIN s, i # 1,
         s[i].kind = "loop" => s[i].dict < d
  PROVE  /\ i - 1 \in DOMAIN s
         /\ s[i].kind = "loop" => s[i - 1].dict # d
<1>1. i \in 1..Len(s) /\ i - 1 \in 1..Len(s) /\ DOMAIN s = 1..Len(s) /\ Len(s) \in Nat
      /\ i - 1 \in DOMAIN SubSeq(s, 1, i - 1) /\ SubSeq(s, 1, i - 1)[i - 1] = s[i - 1]
  OBVIOUS
<1>2. s[i - 1].dict <= s[i].dict
  BY <1>1 DEF Climbs, Atop
<1>3. s[i - 1].dict \in Nat /\ s[i].dict \in Nat
  <2>1. s[i - 1] \in Frames /\ s[i] \in Frames
    BY <1>1
  <2> QED BY <2>1, FrameKinds
<1> QED BY <1>1, <1>2, <1>3

\* A stack whose loops are before d relies on dictionaries before d.
LEMMA KeptUpTo ==
  ASSUME Typed, NEW s \in Seq(Frames), NEW d \in Nat, Climbs(s),
         \A i \in DOMAIN s : s[i].dict \in 1..Len(dicts),
         \A i \in DOMAIN s : s[i].kind = "loop" => s[i].dict < d,
         \A x \in 1..Len(dicts) : x # d => dicts'[x] = dicts[x]
  PROVE  LoopsKeep(s, dicts, dicts')
<1> SUFFICES ASSUME NEW i \in DOMAIN s, i # 1, s[i].kind = "loop" PROVE dicts'[s[i - 1].dict] = dicts[s[i - 1].dict]
  BY DEF LoopsKeep
<1>1. i - 1 \in DOMAIN s /\ s[i - 1].dict # d
  BY LoopsBefore
<1> QED BY <1>1

\* What the truth about a thread is about does not change.
Same(u) ==
  /\ LoopsKeep(frames[u], dicts, dicts')
  /\ doing[u] \in {"run", "raise"} => dicts'[Inner(u).dict] = dicts[Inner(u).dict]
  /\ value[u] # 0 => dicts'[value[u]] = dicts[value[u]]
  /\ \A c \in Range(awaits[u]) : Untouched(u, c) => dicts'[Inner(u).dict] = dicts[Inner(u).dict]

\* The innermost frame is the last, and uses its dictionary.
LEMMA InnerPlace ==
  ASSUME Typed, NEW u \in Thread, frames[u] # <<>>
  PROVE  /\ Len(frames[u]) \in DOMAIN frames[u] /\ Inner(u) = frames[u][Len(frames[u])] /\ 1 \in DOMAIN frames[u]
         /\ Inner(u).dict \in Uses(u)
<1>1. frames[u] \in Seq(Frames)
  BY DEF Typed, TypeInv
<1>2. Len(frames[u]) \in DOMAIN frames[u] /\ Inner(u) = frames[u][Len(frames[u])] /\ 1 \in DOMAIN frames[u]
  BY <1>1 DEF Inner, Last
<1> QED BY <1>2, UsesAre

\* Nothing changes for a thread that uses no changed dictionary,
LEMMA SameOutside ==
  ASSUME Typed, NEW u \in Thread, \A d \in Uses(u) : dicts'[d] = dicts[d]
  PROVE  Same(u)
<1>1. frames[u] \in Seq(Frames) /\ Phased(u)
  BY DEF Typed, TypeInv
<1>2. LoopsKeep(frames[u], dicts, dicts')
  <2> SUFFICES ASSUME NEW i \in DOMAIN frames[u], i # 1 PROVE frames[u][i - 1].dict \in Uses(u)
    BY DEF LoopsKeep
  <2>1. i - 1 \in DOMAIN frames[u]
    BY <1>1
  <2> QED BY <2>1, UsesAre
<1>3. frames[u] # <<>> => dicts'[Inner(u).dict] = dicts[Inner(u).dict]
  BY InnerPlace
<1>4. doing[u] \in {"run", "raise"} => frames[u] # <<>>
  BY <1>1 DEF Phased
<1>5. \A c \in Range(awaits[u]) : frames[u] # <<>>
  BY NotAwaited DEF Phased
<1>6. value[u] # 0 => value[u] \in Uses(u)
  BY DEF Uses
<1> QED BY <1>2, <1>3, <1>4, <1>5, <1>6 DEF Same

\* hence for none if the dictionaries are kept.
LEMMA SameOld ==
  ASSUME Typed, OldKept, NEW u \in Thread
  PROVE  Same(u)
BY UsesAre, SameOutside DEF OldKept

\* A busy thread changes one dictionary, after those its loops run on.
LEMMA SameElsewhere ==
  ASSUME Typed, Tree, NEW t \in Thread, Busy(t), NEW d \in Uses(t),
         \A i \in DOMAIN frames[t] : frames[t][i].kind = "loop" => frames[t][i].dict < d,
         \A x \in 1..Len(dicts) : x # d => dicts'[x] = dicts[x],
         NEW u \in Thread, u # t
  PROVE  Same(u)
<1>1. CASE d \notin Uses(u)
  <2>1. \A x \in Uses(u) : dicts'[x] = dicts[x]
    BY <1>1, UsesAre
  <2> QED BY <2>1, SameOutside
<1>2. CASE d \in Uses(u)
  <2>1. u \in base[t].joins /\ Below(u, t)
    <3>1. t \in base[u].joins \/ u \in base[t].joins
      BY <1>2 DEF Tree, Apart
    <3>2. t \notin base[u].joins
      BY BusyIs DEF Tree, Below
    <3> QED BY <3>1, <3>2 DEF Tree
  <2>2. doing[u] = "join" /\ Atop(frames[u], d) /\ Phased(u) /\ frames[u] \in Seq(Frames) /\ Climbs(frames[u])
    BY <2>1 DEF Below, Typed, TypeInv, Tree
  <2>3. frames[u] # <<>> /\ value[u] = 0
    BY <2>2 DEF Phased
  <2>4. d \in 1..Len(dicts) /\ Len(dicts) \in Nat /\ Inner(u).dict \in 1..Len(dicts)
    BY <2>3, UsesAre, InnerPlace
  <2>5. LoopsKeep(frames[u], dicts, dicts')
    <3>1. \A i \in DOMAIN frames[u] : frames[u][i].kind = "loop" => frames[u][i].dict < d
      BY <2>2 DEF Atop
    <3>2. \A i \in DOMAIN frames[u] : frames[u][i].dict \in 1..Len(dicts)
      BY UsesAre
    <3>3. d \in Nat
      BY <2>4
    <3> QED BY <2>2, <3>1, <3>2, <3>3, KeptUpTo
  <2>6. ASSUME NEW c \in Range(awaits[u]), Untouched(u, c) PROVE dicts'[Inner(u).dict] = dicts[Inner(u).dict]
    <3>1. StartedBy(u, c) /\ c \in Thread
      BY NotAwaited
    <3>2. ASSUME NEW e \in 1..Len(dicts), Inner(u).dict <= e, e < d PROVE Inner(u).dict # d
      BY <2>4, <3>2
    <3>3. CASE StepOf(Inner(u)).loop = "parallel"
      <4>1. Inner(u).dict < d
        BY <2>1, <2>3, <3>3, InnerPlace DEF Below
      <4>2. Inner(u).dict # d
        BY <2>4, <4>1
      <4> QED BY <2>4, <4>2
    <3>4. CASE StepOf(Inner(u)).loop # "parallel"
      <4>1. c = t \/ c \in base[t].joins
        <5>1. PICK x \in Range(awaits[u]) : x = t \/ x \in base[t].joins
          BY <2>1 DEF Below
        <5>2. Len(awaits[u]) = 1 /\ awaits[u] \in Seq(Thread)
          BY <3>1, <3>4, NotAwaited DEF StartedBy
        <5>3. x = awaits[u][1] /\ c = awaits[u][1]
          BY <5>2 DEF Range
        <5> QED BY <5>1, <5>3
      <4>2. doing[c] # "ended"
        <5>1. CASE c = t
          BY <5>1, BusyIs
        <5>2. CASE c \in base[t].joins
          BY <5>2 DEF Tree, Below
        <5> QED BY <4>1, <5>1, <5>2
      <4>3. frames[c] # <<>> /\ frames[c][1].kind = "loop"
        BY <2>6, <3>4, <4>2 DEF Untouched
      <4>4. 1 \in DOMAIN frames[c] /\ frames[c][1].dict \in Uses(c) /\ frames[c][1].dict \in 1..Len(dicts)
        BY <3>1, <4>3, InnerPlace, UsesAre
      <4>5. frames[c][1].dict < d
        <5>1. CASE c = t
          BY <4>3, <4>4, <5>1
        <5>2. CASE c \in base[t].joins
          <6>1. Atop(frames[c], d)
            BY <5>2 DEF Tree, Below
          <6> QED BY <4>3, <4>4, <6>1 DEF Atop
        <5> QED BY <4>1, <5>1, <5>2
      <4>6. Below(u, c)
        BY <3>1 DEF StartedBy, Tree
      <4>7. Inner(u).dict <= frames[c][1].dict
        <5>1. Atop(frames[u], frames[c][1].dict)
          BY <4>4, <4>6 DEF Below
        <5> QED BY <2>3, <5>1, InnerPlace DEF Atop
      <4> QED BY <2>4, <3>2, <4>4, <4>5, <4>7
    <3> QED BY <3>3, <3>4
  <2> QED BY <2>2, <2>3, <2>5, <2>6 DEF Same
<1> QED BY <1>1, <1>2

\* The truth about a thread that does nothing,
LEMMA TrueOther ==
  ASSUME Typed, NEW u \in Thread, TrueOf(u), program' = program,
         frames'[u] = frames[u], base'[u] = base[u], doing'[u] = doing[u], value'[u] = value[u],
         awaits'[u] = awaits[u], Same(u),
         \A c \in Range(awaits[u]) : Untouched(u, c)' => Untouched(u, c) \/ dicts'[Inner(u).dict] = ActiveCalls(u)
  PROVE  TrueOf(u)'
<1>1. Inner(u)' = Inner(u) /\ ActiveCalls(u)' = ActiveCalls(u)
  BY DEF Inner, ActiveCalls
<1>2. Kept(frames[u], base[u].calls, dicts')
  <2>1. frames[u] \in Seq(Frames)
    BY DEF Typed, TypeInv
  <2>2. Kept(frames[u], base[u].calls, dicts) /\ LoopsKeep(frames[u], dicts, dicts')
    BY DEF TrueOf, Same
  <2> QED BY <2>1, <2>2, KeptMore
<1>3. \A c \in Range(awaits[u]) : Untouched(u, c)' => dicts'[Inner(u).dict] = ActiveCalls(u)
  BY DEF TrueOf, Same
<1> QED BY <1>1, <1>2, <1>3 DEF TrueOf, Same

\* while one thread moves.
LEMMA TruthOneThread ==
  ASSUME Typed, Truth, NEW t \in Thread, Busy(t), OneThread(t), TrueOf(t)',
         \A u \in Thread \ {t} : Same(u),
         doing'[t] = "ended" /\ error'[t] # NoError =>
           \A u \in Thread \ {t} : t \in Range(awaits[u]) => Untouched(u, t) \/ dicts'[Inner(u).dict] = ActiveCalls(u)
  PROVE  Truth'
<1>1. ASSUME NEW u \in Thread, u # t PROVE TrueOf(u)'
  <2>1. /\ frames'[u] = frames[u] /\ doing'[u] = doing[u] /\ value'[u] = value[u] /\ base'[u] = base[u]
        /\ program' = program /\ awaits'[u] = awaits[u]
    BY <1>1 DEF OneThread
  <2>2. Inner(u)' = Inner(u) /\ StepOf(Inner(u))' = StepOf(Inner(u))
    BY <2>1 DEF Inner, StepOf
  <2>3. ASSUME NEW c \in Range(awaits[u]), Untouched(u, c)'
        PROVE  Untouched(u, c) \/ dicts'[Inner(u).dict] = ActiveCalls(u)
    <3>1. c \in Thread
      BY NotAwaited
    <3>2. CASE c # t
      <4>1. frames'[c] = frames[c] /\ doing'[c] = doing[c] /\ error'[c] = error[c]
        BY <3>1, <3>2 DEF OneThread
      <4> QED BY <2>2, <2>3, <4>1 DEF Untouched
    <3>3. CASE c = t
      <4>1. frames'[t] # <<>> /\ frames'[t][1].kind = "loop" => frames[t] # <<>> /\ frames[t][1].kind = "loop"
        BY BusyIs DEF OneThread, FirstKept
      <4> QED BY <1>1, <2>2, <2>3, <3>3, <4>1 DEF Untouched
    <3> QED BY <3>2, <3>3
  <2> QED BY <1>1, <2>1, <2>3, TrueOther DEF Truth
<1> QED BY <1>1 DEF Truth

\* The truth survives that a frame is rewritten,
LEMMA TruthRewrites ==
  ASSUME Typed, Truth, NEW t \in Thread, NEW g, Rewrites(t, g)
  PROVE  Truth'
<1>1. /\ Busy(t) /\ OneThread(t) /\ g \in Frames /\ g.kind = Inner(t).kind
      /\ ~IsCall(g) /\ ~IsCall(Inner(t)) /\ dicts' = dicts
      /\ \/ doing[t] = "run" /\ g.dict = Inner(t).dict
         \/ doing[t] = "return" /\ g.dict = value[t]
  BY DEF Rewrites
<1>2. /\ frames[t] # <<>> /\ Phased(t) /\ Front(frames[t]) \in Seq(Frames) /\ Inner(t) \in Frames
      /\ frames[t] = Append(Front(frames[t]), Inner(t)) /\ awaits[t] = <<>> /\ TrueOf(t)
  BY <1>1, BusyIs, InnerIs DEF Truth
<1>3. /\ frames'[t] = Append(Front(frames[t]), g) /\ doing'[t] = "run" /\ value'[t] = 0 /\ base'[t] = base[t]
      /\ awaits'[t] = <<>>
  BY <1>2, ContinueIs DEF Rewrites, Changes
<1>4. Kept(Front(frames[t]), base[t].calls, dicts) /\ TrueFit(Front(frames[t]), Inner(t), base[t].calls, dicts)
  <2>1. Kept(frames[t], base[t].calls, dicts)
    BY <1>2 DEF TrueOf
  <2> QED BY <1>2, <2>1, KeptAppend
<1>5. TrueFit(Front(frames[t]), g, base[t].calls, dicts)
  BY <1>1, <1>4 DEF TrueFit, IsCall
<1>6. Kept(frames'[t], base[t].calls, dicts)
  BY <1>1, <1>2, <1>3, <1>4, <1>5, KeptAppend
<1>7. dicts[g.dict] = ActiveCalls(t)
  BY <1>1, <1>2 DEF TrueOf, Phased
<1>8. ActiveCalls(t)' = ActiveCalls(t)
  <2>1. ActiveCalls(t)' = OuterCalls(t)
    BY <1>1, <1>2, <1>3, InnerCalls DEF ActiveCalls
  <2> QED BY <1>1, <1>2, <2>1, InnerCalls
<1>9. Inner(t)' = g
  <2>1. Last(Append(Front(frames[t]), g)) = g
    BY <1>1, <1>2, LastOfAppend
  <2> QED BY <1>3, <2>1 DEF Inner
<1>10. TrueOf(t)'
  <2>1. \A c \in Range(awaits'[t]) : FALSE
    BY <1>3 DEF Range
  <2> QED BY <1>1, <1>3, <1>6, <1>7, <1>8, <1>9, <2>1 DEF TrueOf
<1>11. \A u \in Thread : Same(u)
  BY <1>1, KeptOld, SameOld
<1> QED BY <1>1, <1>3, <1>10, <1>11, TruthOneThread

\* What is known of a stack below its innermost frame.
LEMMA FrontKept ==
  ASSUME Typed, Tree, Truth, NEW t \in Thread, frames[t] # <<>>
  PROVE  /\ Front(frames[t]) \in Seq(Frames) /\ Inner(t) \in Frames /\ frames[t] = Append(Front(frames[t]), Inner(t))
         /\ Kept(Front(frames[t]), base[t].calls, dicts) /\ TrueFit(Front(frames[t]), Inner(t), base[t].calls, dicts)
         /\ Climbs(Front(frames[t])) /\ Atop(Front(frames[t]), Inner(t).dict) /\ Inner(t).dict \in 1..Len(dicts)
         /\ \A i \in DOMAIN Front(frames[t]) : Front(frames[t])[i].dict \in 1..Len(dicts)
         /\ \A i \in DOMAIN frames[t] :
              frames[t][i].kind = "loop" => frames[t][i] = Inner(t) \/ frames[t][i].dict < Inner(t).dict
<1>1. /\ Front(frames[t]) \in Seq(Frames) /\ Inner(t) \in Frames /\ frames[t] = Append(Front(frames[t]), Inner(t))
      /\ frames[t] \in Seq(Frames)
  BY InnerIs
<1>2. Kept(frames[t], base[t].calls, dicts)
  BY DEF Truth, TrueOf
<1>3. Kept(Front(frames[t]), base[t].calls, dicts) /\ TrueFit(Front(frames[t]), Inner(t), base[t].calls, dicts)
  BY <1>1, <1>2, KeptAppend
<1>4. Climbs(Front(frames[t])) /\ Atop(Front(frames[t]), Inner(t).dict) /\ Inner(t).dict \in 1..Len(dicts)
  BY InnerUses
<1> DEFINE s == Front(frames[t])
           f == Inner(t)
<1>5. s \in Seq(Frames) /\ f \in Frames /\ frames[t] = Append(s, f)
  BY <1>1
<1> HIDE DEF s, f
<1>6. /\ \A i \in DOMAIN s : i \in DOMAIN frames[t] /\ frames[t][i] = s[i]
      /\ \A i \in DOMAIN frames[t] : frames[t][i] = f \/ (i \in DOMAIN s /\ frames[t][i] = s[i])
  BY <1>5
<1>7. \A i \in DOMAIN s : s[i].dict \in 1..Len(dicts)
  BY <1>6, UsesAre
<1>8. \A i \in DOMAIN frames[t] : frames[t][i].kind = "loop" => frames[t][i] = f \/ frames[t][i].dict < f.dict
  <2>1. Atop(s, f.dict)
    BY <1>4 DEF s, f
  <2> QED BY <1>6, <2>1 DEF Atop
<1> QED BY <1>1, <1>3, <1>4, <1>7, <1>8 DEF s, f

\* that one is opened,
LEMMA TruthOpens ==
  ASSUME Typed, Tree, Truth, NEW t \in Thread, NEW g, NEW f, Opens(t, g, f)
  PROVE  Truth'
<1>1. /\ Busy(t) /\ OneThread(t) /\ g \in Frames /\ f \in Frames /\ g.kind = Inner(t).kind
      /\ g.dict = Inner(t).dict /\ ~IsCall(f) /\ ~IsCall(Inner(t))
      /\ doing[t] = "run" \/ (doing[t] = "raise" /\ Inner(t).kind = "workflow" /\ Inner(t).handles = NoError)
  BY DEF Opens
<1>2. /\ frames[t] # <<>> /\ awaits[t] = <<>> /\ TrueOf(t)
      /\ Front(frames[t]) \in Seq(Frames) /\ Inner(t).dict \in 1..Len(dicts) /\ Len(dicts) \in Nat
      /\ Kept(Front(frames[t]), base[t].calls, dicts) /\ TrueFit(Front(frames[t]), Inner(t), base[t].calls, dicts)
      /\ Climbs(Front(frames[t])) /\ Atop(Front(frames[t]), Inner(t).dict)
      /\ \A i \in DOMAIN Front(frames[t]) : Front(frames[t])[i].dict \in 1..Len(dicts)
  BY <1>1, BusyIs, BusyInner, FrontKept DEF Truth
<1> DEFINE r == Append(Front(frames[t]), g)
           d == Inner(t).dict
           cs == base[t].calls
<1>3. /\ frames'[t] = Append(r, f) /\ value'[t] = 0 /\ base'[t] = base[t] /\ doing'[t] = "run" /\ awaits'[t] = <<>>
  BY <1>2, ContinueIs DEF Opens, Enters
<1>4. dicts[d] = OuterCalls(t) /\ OuterCalls(t) \in Seq(Names) /\ cs \in Seq(Names)
  BY <1>1, <1>2, InnerCalls DEF TrueOf
<1>5. \/ EntersStep(t, g, f)
      \/ EntersItem(t, g, f)
      \/ EntersCall(t, g, f)
  BY DEF Opens
<1>6. \A x \in 1..Len(dicts) : x # d => dicts'[x] = dicts[x]
  BY <1>5 DEF EntersStep, EntersItem, EntersCall, OldKept
<1>7. ~IsCall(g) => dicts'[d] = dicts[d]
  BY <1>2, <1>5 DEF EntersStep, EntersItem, EntersCall, OldKept
<1>8. Kept(Front(frames[t]), cs, dicts')
  <2>1. \A i \in DOMAIN Front(frames[t]) : Front(frames[t])[i].kind = "loop" => Front(frames[t])[i].dict < d
    BY <1>2 DEF Atop
  <2>2. d \in Nat
    BY <1>2
  <2>3. LoopsKeep(Front(frames[t]), dicts, dicts')
    BY <1>2, <1>6, <2>1, <2>2, KeptUpTo
  <2> QED BY <1>2, <2>3, KeptMore
<1>9. base[t].calls \o Calls(r) = IF IsCall(g) THEN Append(OuterCalls(t), g.target) ELSE OuterCalls(t)
  BY <1>1, <1>2, InnerCalls
<1>10. r \in Seq(Frames) /\ r # <<>> /\ Last(r) = g /\ Last(Append(r, f)) = f
  <2>1. r \in Seq(Frames) /\ r # <<>> /\ Last(r) = g
    BY <1>1, <1>2, LastOfAppend
  <2> HIDE DEF r
  <2>2. Last(Append(r, f)) = f
    BY <1>1, <2>1, LastOfAppend
  <2> QED BY <2>1, <2>2
<1>11. TrueFit(Front(frames[t]), g, cs, dicts')
  <2>1. IsCall(g) => g.saved = OuterCalls(t)
    BY <1>4, <1>5 DEF EntersStep, EntersItem, EntersCall
  <2>2. ASSUME g.kind = "loop", Front(frames[t]) # <<>>
        PROVE  dicts'[Last(Front(frames[t])).dict] = OuterCalls(t)
    <3>1. dicts[Last(Front(frames[t])).dict] = OuterCalls(t)
      BY <1>1, <1>2, <2>2 DEF TrueFit, OuterCalls
    <3>2. Last(Front(frames[t])).dict \in 1..Len(dicts)
      <4>1. Len(Front(frames[t])) \in DOMAIN Front(frames[t])
        BY <1>2, <2>2
      <4> QED BY <1>2, <4>1 DEF Last
    <3>3. ~IsCall(g)
      BY <2>2 DEF IsCall
    <3> QED BY <1>6, <1>7, <3>1, <3>2, <3>3
  <2> QED BY <2>1, <2>2 DEF TrueFit, IsCall, OuterCalls
<1>12. TrueFit(r, f, cs, dicts')
  <2>1. ASSUME f.kind = "loop" PROVE dicts'[g.dict] = cs \o Calls(r)
    <3>1. ~IsCall(g)
      BY <1>5, <2>1 DEF EntersStep, EntersItem, EntersCall
    <3> QED BY <1>1, <1>4, <1>7, <1>9, <3>1
  <2> QED BY <1>1, <1>10, <2>1 DEF TrueFit, IsCall
<1> HIDE DEF r
<1>13. Kept(frames'[t], cs, dicts')
  <2>1. Kept(r, cs, dicts')
    BY <1>1, <1>2, <1>8, <1>11, KeptAppend DEF r
  <2> QED BY <1>1, <1>3, <1>10, <1>12, <2>1, KeptAppend
<1>14. ActiveCalls(t)' = cs \o Calls(r)
  <2>1. ActiveCalls(t)' = cs \o Calls(Append(r, f))
    BY <1>3 DEF ActiveCalls
  <2> QED BY <1>1, <1>4, <1>10, <2>1, CallsUnder
<1>15. dicts'[f.dict] = cs \o Calls(r)
  <2>1. CASE EntersStep(t, g, f)
    BY <1>4, <1>7, <1>9, <2>1 DEF EntersStep
  <2>2. CASE EntersItem(t, g, f)
    BY <1>4, <1>9, <2>2 DEF EntersItem
  <2>3. CASE EntersCall(t, g, f)
    BY <1>4, <1>9, <2>3 DEF EntersCall
  <2> QED BY <1>5, <2>1, <2>2, <2>3
<1>16. TrueOf(t)'
  <2>1. \A c \in Range(awaits'[t]) : FALSE
    BY <1>3 DEF Range
  <2>2. Inner(t)' = f
    BY <1>3, <1>10 DEF Inner
  <2> QED BY <1>3, <1>13, <1>14, <1>15, <2>1, <2>2 DEF TrueOf
<1>17. ASSUME NEW u \in Thread \ {t} PROVE Same(u)
  <2>1. CASE EntersStep(t, g, f)
    BY <2>1, KeptOld, SameOld DEF EntersStep
  <2>2. CASE EntersItem(t, g, f)
    BY <2>2, SameOld DEF EntersItem
  <2>3. CASE EntersCall(t, g, f)
    <3>1. \A i \in DOMAIN frames[t] : frames[t][i].kind = "loop" => frames[t][i].dict < d
      <4>1. Inner(t).kind # "loop"
        BY <1>1, <2>3 DEF EntersCall, IsCall
      <4> QED BY <1>2, <4>1, FrontKept
    <3>2. d \in Uses(t)
      BY <1>2, InnerPlace
    <3> QED BY <1>1, <1>6, <3>1, <3>2, SameElsewhere
  <2> QED BY <1>5, <2>1, <2>2, <2>3
<1> QED BY <1>1, <1>3, <1>16, <1>17, TruthOneThread

\* Of a thread that is gone nothing is said.
LEMMA TruthGone ==
  ASSUME NEW t \in Thread, frames'[t] = <<>>, value'[t] = 0, awaits'[t] = <<>>, doing'[t] = "free"
  PROVE  TrueOf(t)'
<1>1. \A c \in Range(awaits'[t]) : FALSE
  BY DEF Range
<1> QED BY <1>1, KeptEmpty DEF TrueOf

\* That a frame is left with the truth for the one below,
LEMMA TruthLeave ==
  ASSUME Typed, NEW t \in Thread, Busy(t), NEW d, NEW e, Leave(t, d, e),
         Kept(Front(frames[t]), base[t].calls, dicts'),
         d # 0 => dicts'[d] = OuterCalls(t),
         (e # NoError /\ Front(frames[t]) # <<>> /\ Last(Front(frames[t])).kind = "workflow"
          /\ Last(Front(frames[t])).handles = NoError)
            => dicts'[Last(Front(frames[t])).dict] = OuterCalls(t)
  PROVE  TrueOf(t)'
<1>1. frames[t] # <<>> /\ frames'[t] = Front(frames[t]) /\ awaits'[t] = <<>>
  BY BusyIs, LeaveIs
<1>2. \/ frames'[t] = <<>> /\ value'[t] = 0 /\ doing'[t] = "free"
      \/ /\ base'[t] = base[t] /\ value'[t] = d
         /\ frames'[t] = <<>> => doing'[t] = "ended"
         /\ frames'[t] # <<>> => doing'[t] = (IF e = NoError THEN "return" ELSE "raise")
  BY LeaveIs
<1>3. CASE /\ base'[t] = base[t] /\ value'[t] = d
           /\ frames'[t] = <<>> => doing'[t] = "ended"
           /\ frames'[t] # <<>> => doing'[t] = (IF e = NoError THEN "return" ELSE "raise")
  <2>1. ActiveCalls(t)' = OuterCalls(t) /\ Inner(t)' = Last(Front(frames[t]))
    BY <1>1, <1>3 DEF ActiveCalls, OuterCalls, Inner
  <2>2. \A c \in Range(awaits'[t]) : FALSE
    BY <1>1 DEF Range
  <2>3. doing'[t] # "run"
    BY <1>3
  <2>4. doing'[t] = "raise" => e # NoError /\ Front(frames[t]) # <<>>
    BY <1>1, <1>3
  <2> QED BY <1>1, <1>3, <2>1, <2>2, <2>3, <2>4 DEF TrueOf
<1> QED BY <1>1, <1>2, <1>3, TruthGone

\* be it with a value: a handler puts back the chain it found,
LEMMA TruthReturns ==
  ASSUME Typed, Tree, Truth, NEW t \in Thread, NEW d \in 1..Len(dicts), Returns(t, d), OneThread(t)
  PROVE  Truth'
<1>1. Busy(t) /\ Leave(t, d, NoError)
  BY DEF Returns
<1>0. frames[t] # <<>> /\ Phased(t) /\ TrueOf(t) /\ d \in Nat
  BY <1>1, BusyIs, UsesAre DEF Truth
<1>2. /\ frames[t] # <<>> /\ Phased(t) /\ TrueOf(t) /\ d \in Nat
      /\ Front(frames[t]) \in Seq(Frames) /\ Climbs(Front(frames[t]))
      /\ Kept(Front(frames[t]), base[t].calls, dicts) /\ TrueFit(Front(frames[t]), Inner(t), base[t].calls, dicts)
      /\ \A i \in DOMAIN Front(frames[t]) : Front(frames[t])[i].dict \in 1..Len(dicts)
  BY <1>0, FrontKept
<1>3. /\ dicts'[d] = OuterCalls(t) /\ Kept(Front(frames[t]), base[t].calls, dicts')
      /\ \A u \in Thread \ {t} : Same(u)
  <2>1. CASE doing[t] = "run" /\ d = Inner(t).dict /\ dicts' = dicts
    <3>1. ~IsCall(Inner(t))
      BY <1>1, <2>1, BusyInner DEF IsCall
    <3>2. dicts[d] = OuterCalls(t)
      BY <1>2, <2>1, <3>1, InnerCalls DEF TrueOf
    <3> QED BY <1>2, <2>1, <3>2, KeptOld, SameOld
  <2>2. CASE /\ doing[t] = "return" /\ d = value[t] /\ Inner(t).kind = "handler"
             /\ Inner(t) \in HandlerFrames /\ dicts' = [dicts EXCEPT ![d] = Inner(t).saved]
    <3>1. Inner(t).saved \in Seq(Names) /\ Inner(t).target # None
      BY <1>1, <2>2, BusyInner DEF HandlerFrames
    <3>2. dicts'[d] = Inner(t).saved /\ \A x \in 1..Len(dicts) : x # d => dicts'[x] = dicts[x]
      BY <2>2, <3>1, ChangedDict
    <3>3. Inner(t).saved = OuterCalls(t)
      BY <1>2, <2>2, <3>1 DEF TrueFit, OuterCalls
    <3>4. d \in Uses(t) /\ Atop(Front(frames[t]), d) /\ Atop(frames[t], d)
      <4>1. value[t] # 0
        BY <1>2, <2>2 DEF Phased
      <4> QED BY <1>2, <2>2, <4>1, InnerUses DEF Tree, Rising
    <3>5. Kept(Front(frames[t]), base[t].calls, dicts')
      <4>1. \A i \in DOMAIN Front(frames[t]) : Front(frames[t])[i].kind = "loop" => Front(frames[t])[i].dict < d
        BY <3>4 DEF Atop
      <4>2. LoopsKeep(Front(frames[t]), dicts, dicts')
        BY <1>2, <3>2, <4>1, KeptUpTo
      <4> QED BY <1>2, <4>2, KeptMore
    <3>6. ASSUME NEW u \in Thread \ {t} PROVE Same(u)
      <4>1. \A i \in DOMAIN frames[t] : frames[t][i].kind = "loop" => frames[t][i].dict < d
        BY <3>4 DEF Atop
      <4> QED BY <1>1, <3>2, <3>4, <4>1, SameElsewhere
    <3> QED BY <3>2, <3>3, <3>5, <3>6
  <2> QED BY <2>1, <2>2 DEF Returns
<1>4. TrueOf(t)'
  <2>1. d # 0 => dicts'[d] = OuterCalls(t)
    BY <1>3
  <2>2. (NoError # NoError /\ Front(frames[t]) # <<>> /\ Last(Front(frames[t])).kind = "workflow"
         /\ Last(Front(frames[t])).handles = NoError)
            => dicts'[Last(Front(frames[t])).dict] = OuterCalls(t)
    OBVIOUS
  <2> QED BY <1>1, <1>3, <2>1, <2>2, TruthLeave
<1>5. error'[t] = NoError
  BY <1>1, LeaveIs
<1> QED BY <1>1, <1>3, <1>4, <1>5, TruthOneThread

\* or with an exception that has passed no call,
LEMMA TruthRaises ==
  ASSUME Typed, Tree, Truth, NEW t \in Thread, NEW e \in Errs, Raises(t, e), OneThread(t), ~leaked'
  PROVE  Truth'
<1>1. Busy(t) /\ Leave(t, 0, e) /\ dicts' = dicts
  BY DEF Raises
<1>2. /\ frames[t] # <<>> /\ Phased(t) /\ TrueOf(t) /\ Inner(t) \in Frames
      /\ Front(frames[t]) \in Seq(Frames) /\ frames[t] = Append(Front(frames[t]), Inner(t))
      /\ Fits(Front(frames[t]), Inner(t), program, Len(dicts))
      /\ Kept(Front(frames[t]), base[t].calls, dicts) /\ TrueFit(Front(frames[t]), Inner(t), base[t].calls, dicts)
  BY <1>1, BusyIs, InnerIs, FrontKept DEF Truth
<1>3. ASSUME Inner(t).kind = "handler"
      PROVE  doing[t] = "run" /\ dicts[Inner(t).dict] = OuterCalls(t)
  <2>1. doing[t] = "run"
    BY <1>3 DEF Raises
  <2>2. ~IsCall(Inner(t))
    BY <1>1, <2>1, BusyInner DEF IsCall
  <2>3. ActiveCalls(t) = OuterCalls(t)
    BY <1>2, <2>2, InnerCalls
  <2> QED BY <1>2, <2>1, <2>3 DEF TrueOf
<1>4. ASSUME Front(frames[t]) # <<>>, Last(Front(frames[t])).kind = "workflow",
             Last(Front(frames[t])).handles = NoError
      PROVE  dicts[Last(Front(frames[t])).dict] = OuterCalls(t)
  <2>1. CASE Inner(t).kind = "workflow"
    BY <1>2, <1>4, <2>1 DEF Fits
  <2>2. CASE Inner(t).kind = "loop"
    BY <1>2, <1>4, <2>2 DEF TrueFit, OuterCalls
  <2>3. CASE Inner(t).kind = "handler"
    <3>1. Inner(t).dict = Last(Front(frames[t])).dict
      BY <1>2, <1>4, <2>3 DEF Fits
    <3> QED BY <1>3, <2>3, <3>1
  <2> QED BY <1>2, <2>1, <2>2, <2>3, FrameKinds
<1>5. TrueOf(t)'
  <2>1. Kept(Front(frames[t]), base[t].calls, dicts') /\ (0 # 0 => dicts'[0] = OuterCalls(t))
    BY <1>1, <1>2
  <2>2. (e # NoError /\ Front(frames[t]) # <<>> /\ Last(Front(frames[t])).kind = "workflow"
         /\ Last(Front(frames[t])).handles = NoError)
            => dicts'[Last(Front(frames[t])).dict] = OuterCalls(t)
    BY <1>1, <1>4
  <2> QED BY <1>1, <2>1, <2>2, TruthLeave
<1>6. ASSUME doing'[t] = "ended", NEW u \in Thread \ {t}, t \in Range(awaits[u])
      PROVE  Untouched(u, t) \/ dicts[Inner(u).dict] = ActiveCalls(u)
  <2>1. StartedBy(u, t)
    BY <1>6, NotAwaited
  <2>2. Front(frames[t]) = <<>>
    <3>1. frames'[t] = Front(frames[t]) /\ (frames'[t] # <<>> => doing'[t] \in {"return", "raise"})
      BY <1>1, <1>6, LeaveIs
    <3> QED BY <1>6, <3>1
  <2>3. frames[t][1] = Inner(t)
    BY <1>2, <2>2
  <2>4. CASE Inner(t).kind = "loop"
    BY <1>2, <2>3, <2>4 DEF Untouched
  <2>5. CASE Inner(t).kind = "handler" /\ StepOf(Inner(u)).loop # "parallel"
    <3>1. Inner(t).dict = Inner(u).dict
      BY <1>2, <2>1, <2>3, <2>5 DEF StartedBy
    <3>2. base[t].calls = ActiveCalls(u)
      BY <2>1 DEF StartedBy
    <3>3. OuterCalls(t) = base[t].calls
      <4>1. base[t].calls \in Seq(Names) /\ <<>> \in Seq(Frames)
        BY ActiveNamesAre
      <4> QED BY <2>2, <4>1, CallsUnder DEF OuterCalls
    <3> QED BY <1>3, <2>5, <3>1, <3>2, <3>3
  <2>6. CASE StepOf(Inner(u)).loop = "parallel"
    BY <2>6 DEF Untouched
  <2>7. Inner(t).kind # "workflow"
    BY <1>2, <2>1, <2>3 DEF StartedBy
  <2> QED BY <1>2, <2>4, <2>5, <2>6, <2>7, FrameKinds
<1>7. \A u \in Thread : Same(u)
  BY <1>1, KeptOld, SameOld
<1> QED BY <1>1, <1>5, <1>6, <1>7, TruthOneThread

\* both together,
LEMMA TruthLeaves ==
  ASSUME Typed, Tree, Truth, NEW t \in Thread, Leaves(t), OneThread(t), ~leaked'
  PROVE  Truth'
BY TruthReturns, TruthRaises DEF Leaves

\* that threads are started,
LEMMA TruthSpawns ==
  ASSUME Typed, Truth, NEW t \in Thread, NEW fs, Spawns(t, fs)
  PROVE  Truth'
<1>1. PICK new :
           /\ frames[t] # <<>> /\ t \notin Range(new) /\ awaits'[t] = new /\ doing'[t] = "join"
           /\ program' = program /\ value' = value /\ error' = error
           /\ \A u \in Thread : u # t => awaits'[u] = awaits[u]
           /\ \A u \in Range(new) :
                /\ u \in Thread /\ doing[u] = "free" /\ doing'[u] = "run" /\ value[u] = 0 /\ awaits[u] = <<>>
                /\ base'[u] = StartBase(t)
                /\ \E i \in 1..Len(fs) :
                     /\ frames'[u] = <<fs[i]>> /\ fs[i] \in Frames /\ ~IsCall(fs[i])
                     /\ fs[i].dict = Inner(t).dict \/ dicts'[fs[i].dict] = dicts[Inner(t).dict]
           /\ \A u \in Thread : u \notin Range(new) =>
                frames'[u] = frames[u] /\ base'[u] = base[u] /\ (u # t => doing'[u] = doing[u])
  <2>1. PICK new :
           /\ frames[t] # <<>> /\ t \notin Range(new) /\ awaits'[t] = new /\ doing'[t] = "join"
           /\ program' = program /\ value' = value /\ error' = error
           /\ \A u \in Thread : u # t => awaits'[u] = awaits[u]
           /\ \A u \in Range(new) :
                /\ u \in Thread /\ doing[u] = "free" /\ doing'[u] = "run" /\ value[u] = 0 /\ awaits[u] = <<>>
                /\ base'[u] = StartBase(t)
                /\ \E i \in 1..Len(fs) :
                     /\ frames'[u] = <<fs[i]>> /\ fs[i] \in Frames /\ ~IsCall(fs[i])
                     /\ \/ fs[i].dict = Inner(t).dict
                        \/ dicts'[fs[i].dict] = dicts[Inner(t).dict]
           /\ \A u \in Thread : u \notin Range(new) =>
                frames'[u] = frames[u] /\ base'[u] = base[u] /\ (u # t => doing'[u] = doing[u])
    BY SpawnsIs
  <2> QED BY <2>1
<1>2. /\ OldKept /\ Inner(t).dict \in 1..Len(dicts) /\ doing[t] = "run" /\ TrueOf(t) /\ value[t] = 0
      /\ dicts[Inner(t).dict] = ActiveCalls(t) /\ ActiveCalls(t) \in Seq(Names)
      /\ dicts'[Inner(t).dict] = ActiveCalls(t)
  <2>1. Busy(t) /\ doing[t] = "run" /\ OldKept
    BY DEF Spawns, Busy
  <2>2. Inner(t).dict \in 1..Len(dicts) /\ TrueOf(t) /\ Phased(t)
    BY <2>1, BusyInner, BusyIs DEF Truth
  <2>3. dicts[Inner(t).dict] = ActiveCalls(t) /\ value[t] = 0
    BY <2>1, <2>2 DEF TrueOf, Phased
  <2>4. dicts'[Inner(t).dict] = dicts[Inner(t).dict]
    BY <2>1, <2>2 DEF OldKept
  <2> QED BY <2>1, <2>2, <2>3, <2>4, ActiveNamesAre
<1>3. ASSUME NEW u \in Range(new) PROVE TrueOf(u)'
  <2>1. PICK f \in Frames : /\ frames'[u] = <<f>> /\ ~IsCall(f)
                            /\ f.dict = Inner(t).dict \/ dicts'[f.dict] = dicts[Inner(t).dict]
    BY <1>1
  <2>2. u \in Thread /\ value'[u] = 0 /\ base'[u].calls = ActiveCalls(t) /\ awaits'[u] = <<>> /\ doing'[u] = "run"
    BY <1>1 DEF StartBase
  <2>3. dicts'[f.dict] = ActiveCalls(t)
    BY <1>2, <2>1
  <2>4. <<>> \in Seq(Frames) /\ <<f>> = Append(<<>>, f) /\ Last(<<f>>) = f
    BY DEF Last
  <2>5. Kept(<<f>>, ActiveCalls(t), dicts')
    <3> DEFINE cs == ActiveCalls(t)
    <3> HIDE DEF cs
    <3>1. Kept(<<>>, cs, dicts')
      BY KeptEmpty
    <3>2. TrueFit(<<>>, f, cs, dicts')
      BY <2>1 DEF TrueFit, IsCall
    <3>3. Kept(Append(<<>>, f), cs, dicts')
      BY <2>4, <3>1, <3>2, KeptAppend
    <3> QED BY <2>4, <3>3 DEF cs
  <2>6. ActiveCalls(u)' = ActiveCalls(t)
    <3>1. ActiveCalls(t) \o Calls(Append(<<>>, f)) = ActiveCalls(t) \o Calls(<<>>)
          /\ ActiveCalls(t) \o Calls(<<>>) = ActiveCalls(t)
      BY <1>2, <2>1, <2>4, CallsUnder
    <3>2. ActiveCalls(u)' = ActiveCalls(t) \o Calls(<<f>>)
      BY <2>1, <2>2 DEF ActiveCalls
    <3> QED BY <2>4, <3>1, <3>2
  <2>7. Inner(u)' = f
    BY <2>1, <2>4 DEF Inner
  <2>8. \A c \in Range(awaits'[u]) : FALSE
    BY <2>2 DEF Range
  <2> QED BY <2>1, <2>2, <2>3, <2>5, <2>6, <2>7, <2>8 DEF TrueOf
<1>4. TrueOf(t)'
  <2>1. frames'[t] = frames[t] /\ base'[t] = base[t] /\ value'[t] = 0 /\ doing'[t] = "join"
    BY <1>1, <1>2
  <2>2. Inner(t)' = Inner(t) /\ ActiveCalls(t)' = ActiveCalls(t)
    BY <2>1 DEF Inner, ActiveCalls
  <2>3. Kept(frames[t], base[t].calls, dicts')
    <3>1. frames[t] \in Seq(Frames)
      BY DEF Typed, TypeInv
    <3>2. Kept(frames[t], base[t].calls, dicts) /\ LoopsKeep(frames[t], dicts, dicts')
      BY <1>2, SameOld DEF TrueOf, Same
    <3> QED BY <3>1, <3>2, KeptMore
  <2> QED BY <1>2, <2>1, <2>2, <2>3 DEF TrueOf
<1>5. ASSUME NEW u \in Thread, u # t, u \notin Range(new) PROVE TrueOf(u)'
  <2>1. /\ frames'[u] = frames[u] /\ base'[u] = base[u] /\ doing'[u] = doing[u] /\ value'[u] = value[u]
        /\ awaits'[u] = awaits[u] /\ program' = program /\ Same(u) /\ TrueOf(u)
    BY <1>1, <1>2, <1>5, SameOld DEF Truth
  <2>2. Inner(u)' = Inner(u) /\ StepOf(Inner(u))' = StepOf(Inner(u))
    BY <2>1 DEF Inner, StepOf
  <2>3. ASSUME NEW c \in Range(awaits[u]), Untouched(u, c)' PROVE Untouched(u, c)
    <3>1. c \in Thread /\ doing[c] # "free"
      BY NotAwaited
    <3>2. c \notin Range(new)
      BY <1>1, <3>1
    <3>3. frames'[c] = frames[c] /\ error'[c] = error[c] /\ (doing'[c] = "ended" => doing[c] = "ended")
      BY <1>1, <3>1, <3>2
    <3> QED BY <2>2, <2>3, <3>3 DEF Untouched
  <2> QED BY <2>1, <2>3, TrueOther
<1> QED BY <1>3, <1>4, <1>5 DEF Truth

\* and that they are joined.
LEMMA TruthEnds ==
  ASSUME Typed, Truth, NEW t \in Thread, NEW c, NEW how, NEW d, NEW e, EndsWith(t, c, how, d, e)
  PROVE  Truth'
<1>1. /\ doing[t] = "join" /\ t \notin Range(awaits[t])
      /\ doing'[t] = how /\ value'[t] = d /\ awaits'[t] = <<>> /\ base'[t] = base[t]
      /\ \A u \in Range(awaits[t]) :
           /\ u \in Thread /\ doing[u] = "ended" /\ frames[u] = <<>> /\ StartedBy(t, u)
           /\ doing'[u] = "free" /\ value'[u] = 0
      /\ \A u \in Thread : u # t /\ u \notin Range(awaits[t]) =>
           doing'[u] = doing[u] /\ value'[u] = value[u] /\ error'[u] = error[u] /\ base'[u] = base[u]
      /\ \A u \in Thread : u # t => awaits'[u] = awaits[u]
  BY EndJoinIs DEF EndsWith
<1>2. frames' = frames /\ program' = program /\ OldKept /\ c \in Range(awaits[t])
  BY DEF EndsWith
<1>3. frames[t] # <<>> /\ TrueOf(t) /\ TrueOf(c) /\ Inner(t).dict \in 1..Len(dicts)
  <2>1. frames[t] # <<>>
    BY <1>1 DEF Typed, Phased
  <2> QED BY <1>1, <1>2, <2>1, InnerPlace, UsesAre DEF Truth
<1>4. ActiveCalls(c) = ActiveCalls(t)
  <2>1. frames[c] = <<>> /\ base[c].calls = ActiveCalls(t) /\ c \in Thread
    BY <1>1, <1>2 DEF StartedBy
  <2>2. base[c].calls \in Seq(Names)
    BY <2>1, ActiveNamesAre
  <2>3. base[c].calls \o <<>> = base[c].calls
    BY <2>2
  <2> QED BY <2>1, <2>3, CallsEmpty DEF ActiveCalls
<1>5. Inner(t)' = Inner(t) /\ ActiveCalls(t)' = ActiveCalls(t)
  BY <1>1, <1>2 DEF Inner, ActiveCalls
<1>6. \/ how = "return" /\ d # 0 /\ dicts'[d] = ActiveCalls(t)
      \/ how = "raise" /\ d = 0 /\ dicts'[Inner(t).dict] = ActiveCalls(t)
  <2>1. CASE /\ how = "return" /\ value[c] \in 1..Len(dicts)
             /\ d = value[c] \/ (d = Len(dicts) + 1 /\ dicts'[d] = dicts[value[c]])
    <3>1. dicts[value[c]] = ActiveCalls(c) /\ Len(dicts) \in Nat
      BY <1>3, <2>1, UsesAre DEF TrueOf
    <3>2. dicts'[value[c]] = dicts[value[c]]
      BY <1>2, <2>1 DEF OldKept
    <3>3. d # 0
      BY <2>1, <3>1
    <3> QED BY <1>4, <2>1, <3>1, <3>2, <3>3
  <2>2. CASE how = "raise" /\ d = 0 /\ error[c] # NoError
    <3>1. Untouched(t, c)
      BY <1>1, <1>2, <2>2 DEF Untouched
    <3>2. dicts[Inner(t).dict] = ActiveCalls(t)
      BY <1>2, <1>3, <3>1 DEF TrueOf
    <3> QED BY <1>2, <1>3, <2>2, <3>2 DEF OldKept
  <2> QED BY <2>1, <2>2 DEF EndsWith
<1>7. TrueOf(t)'
  <2>1. Kept(frames[t], base[t].calls, dicts')
    <3>1. frames[t] \in Seq(Frames)
      BY DEF Typed, TypeInv
    <3>2. Kept(frames[t], base[t].calls, dicts) /\ LoopsKeep(frames[t], dicts, dicts')
      BY <1>2, <1>3, SameOld DEF TrueOf, Same
    <3> QED BY <3>1, <3>2, KeptMore
  <2>2. \A x \in Range(awaits'[t]) : FALSE
    BY <1>1 DEF Range
  <2> QED BY <1>1, <1>2, <1>5, <1>6, <2>1, <2>2 DEF TrueOf
<1>8. ASSUME NEW u \in Range(awaits[t]) PROVE TrueOf(u)'
  <2>1. awaits[u] = <<>> /\ u # t /\ u \in Thread
    BY <1>1 DEF Typed, Phased
  <2> QED BY <1>1, <1>2, <2>1, TruthGone
<1>9. ASSUME NEW u \in Thread, u # t, u \notin Range(awaits[t]) PROVE TrueOf(u)'
  <2>1. /\ frames'[u] = frames[u] /\ base'[u] = base[u] /\ doing'[u] = doing[u] /\ value'[u] = value[u]
        /\ awaits'[u] = awaits[u] /\ Same(u) /\ TrueOf(u)
    BY <1>1, <1>2, <1>9, SameOld DEF Truth
  <2>2. Inner(u)' = Inner(u) /\ StepOf(Inner(u))' = StepOf(Inner(u))
    BY <1>2, <2>1 DEF Inner, StepOf
  <2>3. ASSUME NEW x \in Range(awaits[u]), Untouched(u, x)' PROVE Untouched(u, x)
    <3>1. x \in Thread
      BY NotAwaited
    <3>2. x \notin Range(awaits[t])
      BY <1>1, <1>9 DEF StartedBy
    <3>3. x = t => doing'[x] # "ended"
      BY <1>1, <1>6
    <3>4. x # t => doing'[x] = doing[x] /\ error'[x] = error[x]
      BY <1>1, <3>1, <3>2
    <3> QED BY <1>2, <2>2, <2>3, <3>3, <3>4 DEF Untouched
  <2> QED BY <1>2, <2>1, <2>3, TrueOther
<1> QED BY <1>7, <1>8, <1>9 DEF Truth

\* At the start the empty chain is the truth.
LEMMA TruthInit == Init => Truth
<1> SUFFICES ASSUME Init, NEW t \in Thread PROVE TrueOf(t)
  BY DEF Truth
<1> DEFINE f == WorkflowFrame(Top, 1)
<1>1. f \in Frames /\ f.kind = "workflow" /\ f.dict = 1
  BY NewWorkflow, EngineAssumption DEF Frames
<1>2. /\ frames[t] = (IF t = Main THEN <<f>> ELSE <<>>) /\ value[t] = 0 /\ base[t].calls = <<>>
      /\ doing[t] = (IF t = Main THEN "run" ELSE "free") /\ awaits[t] = <<>> /\ dicts[1] = <<>>
  BY DEF Init, NoBase
<1> HIDE DEF f
<1>3. <<f>> = Append(<<>>, f) /\ <<>> \in Seq(Frames) /\ <<>> \in Seq(Names) /\ ~IsCall(f) /\ Last(<<f>>) = f
  BY <1>1 DEF IsCall, Last
<1>4. Calls(<<f>>) = <<>> /\ Calls(<<>>) = <<>>
  BY <1>1, <1>3, CallsAppend, CallsEmpty
<1>5. Kept(frames[t], base[t].calls, dicts)
  <2>1. TrueFit(<<>>, f, base[t].calls, dicts)
    BY <1>1 DEF TrueFit
  <2>2. Kept(<<>>, base[t].calls, dicts)
    BY KeptEmpty
  <2>3. Kept(Append(<<>>, f), base[t].calls, dicts)
    BY <1>1, <1>3, <2>1, <2>2, KeptAppend
  <2> QED BY <1>2, <1>3, <2>2, <2>3
<1>6. ActiveCalls(t) = <<>>
  BY <1>2, <1>4 DEF ActiveCalls
<1>7. doing[t] = "run" => Inner(t) = f
  BY <1>2, <1>3 DEF Inner
<1>8. \A c \in Range(awaits[t]) : FALSE
  BY <1>2 DEF Range
<1>9. doing[t] # "raise"
  BY <1>2
<1> QED BY <1>1, <1>2, <1>5, <1>6, <1>7, <1>8, <1>9 DEF TrueOf

\* Every step but a timeout, and an exception that passes a call, keeps it.
LEMMA TruthStep ==
  ASSUME Typed, Tree, Truth, NEW t \in Thread, ThreadStep(t), ~JoinTimesOut(t), ~leaked'
  PROVE  Truth'
BY StepKinds, TruthRewrites, TruthOpens, TruthSpawns, TruthEnds, TruthLeaves

\* As long as no step has timed out, and the truth as long as no call has failed.
Tracked == timeouts = 0 => Tree /\ AllNamed /\ (~leaked => Truth)

\* Timeouts and leaks are not undone.
LEMMA HistoryGrows ==
  ASSUME Typed, NEW t \in Thread, ThreadStep(t)
  PROVE  /\ timeouts' = 0 => timeouts = 0 /\ ~JoinTimesOut(t)
         /\ leaked => leaked'
<1>1. timeouts \in Nat /\ leaked \in BOOLEAN
  BY EngineAssumption DEF Typed, TypeInv
<1>2. CASE JoinTimesOut(t)
  <2>1. timeouts' = timeouts + 1 /\ leaked' = leaked
    BY <1>2 DEF JoinTimesOut
  <2>2. timeouts' # 0
    BY <1>1, <2>1
  <2> QED BY <2>1, <2>2
<1>3. CASE ~JoinTimesOut(t)
  <2>1. timeouts' = timeouts
    BY <1>3, StepKinds DEF Leaves
  <2>2. leaked' = leaked \/ \E e \in Errs : Raises(t, e)
    BY <1>3, StepKinds DEF Leaves
  <2>3. ASSUME NEW e \in Errs, Raises(t, e), leaked PROVE leaked'
    BY <2>3 DEF Raises
  <2> QED BY <1>3, <2>1, <2>2, <2>3
<1> QED BY <1>2, <1>3

\* Every step, whichever it is, keeps all of it as far as it goes.
LEMMA TrackedStep ==
  ASSUME Typed, Tracked, [Next]_vars
  PROVE  Tracked'
<1>1. ASSUME NEW t \in Thread, ThreadStep(t) PROVE Tracked'
  <2> SUFFICES ASSUME timeouts' = 0 PROVE Tree' /\ AllNamed' /\ (~leaked' => Truth')
    BY DEF Tracked
  <2>1. timeouts = 0 /\ ~JoinTimesOut(t) /\ (leaked => leaked')
    BY <1>1, HistoryGrows
  <2>2. Tree /\ AllNamed /\ (~leaked => Truth)
    BY <2>1 DEF Tracked
  <2>3. Tree' /\ AllNamed'
    BY <1>1, <2>1, <2>2, TreeStep, NamesStep
  <2>4. ASSUME ~leaked' PROVE Truth'
    <3>1. Truth
      BY <2>1, <2>2, <2>4
    <3> QED BY <1>1, <2>1, <2>2, <2>4, <3>1, TruthStep
  <2> QED BY <2>3, <2>4
<1>2. ASSUME UNCHANGED vars PROVE Tracked'
  <2>1. /\ program' = program /\ dicts' = dicts /\ frames' = frames /\ doing' = doing /\ value' = value
        /\ error' = error /\ awaits' = awaits /\ base' = base /\ leaked' = leaked /\ timeouts' = timeouts
    BY <1>2 DEF vars, threadVars
  <2>2. \A u \in Thread : Uses(u)' = Uses(u) /\ ActiveNames(u)' = ActiveNames(u) /\ ActiveCalls(u)' = ActiveCalls(u)
                          /\ Inner(u)' = Inner(u) /\ StepOf(Inner(u))' = StepOf(Inner(u))
    BY <2>1 DEF Uses, ActiveNames, ActiveCalls, Inner, StepOf
  <2>3. Tree => Tree'
    <3> SUFFICES ASSUME Tree PROVE Tree'
      OBVIOUS
    <3>1. ASSUME NEW u \in Thread, NEW x \in base[u].joins PROVE Below(x, u)'
      <4>1. Below(x, u) /\ x \in Thread
        BY ActiveNamesAre DEF Tree
      <4> QED BY <2>1, <2>2, <4>1 DEF Below
    <3>2. ASSUME NEW a \in Thread, NEW b \in Thread PROVE Apart(a, b)'
      <4>1. Apart(a, b)
        BY DEF Tree
      <4> QED BY <2>1, <2>2, <4>1 DEF Apart
    <3>3. ASSUME NEW u \in Thread PROVE Climbs(frames'[u]) /\ Rising(u)'
      <4>1. Climbs(frames[u]) /\ Rising(u)
        BY DEF Tree
      <4> QED BY <2>1, <4>1 DEF Rising
    <3> QED BY <2>1, <3>1, <3>2, <3>3 DEF Tree
  <2>4. AllNamed <=> AllNamed'
    BY <2>1, <2>2 DEF AllNamed, NamesOf
  <2>5. Truth <=> Truth'
    BY <2>1, <2>2 DEF Truth, TrueOf, Untouched
  <2> QED BY <2>1, <2>3, <2>4, <2>5 DEF Tracked
<1> QED BY <1>1, <1>2 DEF Next

\* The dictionary of a running thread says the calls it runs in, and no workflow
\* is called while a call of it is active (engine.py, subworkflow.py).
THEOREM CallsTracked == Spec => []CallsAreTracked
<1>1. Init => Typed /\ Tracked
  BY TypedInit, TreeInit, NamesInit, TruthInit DEF Tracked
<1>2. Typed /\ Tracked /\ [Next]_vars => (Typed /\ Tracked)'
  BY TypedStep, TrackedStep
<1>3. Typed /\ Tracked => CallsAreTracked
  <2> SUFFICES ASSUME Typed, Tracked PROVE StackIsTrue /\ CallsDoNotNest
    BY DEF CallsAreTracked
  <2>1. StackIsTrue
    <3> SUFFICES ASSUME ~leaked, timeouts = 0, NEW t \in Thread
                 PROVE  /\ doing[t] = "run" => dicts[Inner(t).dict] = ActiveCalls(t)
                        /\ doing[t] = "ended" /\ error[t] = NoError => dicts[value[t]] = ActiveCalls(t)
      BY DEF StackIsTrue
    <3>1. TrueOf(t) /\ Phased(t)
      BY DEF Tracked, Truth, Typed
    <3> QED BY <3>1 DEF TrueOf, Phased
  <2>2. CallsDoNotNest
    BY DEF CallsDoNotNest, Tracked, AllNamed, NamesOf
  <2> QED BY <2>1, <2>2
<1> QED BY <1>1, <1>2, <1>3, PTL DEF Spec

-----------------------------------------------------------------------------
(* Validation against the engine *)

\* The step's type has a spec; no module says that it writes the items of a list,
\* or has an option for the source.
Declares(step) ==
  /\ HasSpec(step)
  /\ SpecOf(step).writes \cap ForeachKeys = {}
  /\ SpecOf(step).inputKey # "source"

\* An accepted workflow of modules with specs is never refused by the engine
\* half way (validate_workflow, _enforce_step_safety).
THEOREM AcceptedIsExecuted ==
  ASSUME NEW wf, NEW mode \in {"trusted", "untrusted"}
  PROVE  ValidIsNotRefused(wf, mode)
<1> SUFFICES ASSUME Valid(wf, mode), NEW i \in DOMAIN wf, Refused(wf[i], mode)
             PROVE  ~HasSpec(wf[i]) /\ mode = "untrusted"
  BY DEF ValidIsNotRefused
<1>1. i \notin Errors(wf, mode)
  BY DEF Valid
<1>2. ~HasSpec(wf[i])
  BY <1>1 DEF Errors, Refused
<1> QED BY <1>2 DEF Refused

\* Among the places of a sequence there is a first one and a last one.
LEMMA EndsOfPlaces ==
  ASSUME NEW n \in Nat, NEW S \in SUBSET (1 .. n), S # {}
  PROVE  Min(S) \in S /\ Max(S) \in S /\ \A i \in S : Max(S) >= i
<1>1. \E m \in S : \A i \in S : m <= i
  BY LeastElement
<1>2. Min(S) \in S
  BY <1>1 DEF Min
<1>3. Max(S) \in S /\ \A i \in S : Max(S) >= i
  <2> DEFINE T == {m \in Nat : \E i \in S : m + i = n}
  <2>1. \A i \in S : \E m \in T : m + i = n
    OBVIOUS
  <2>2. T # {}
    BY <2>1
  <2>3. PICK m \in T : \A k \in T : m <= k
    BY <2>2, LeastElement
  <2>4. PICK x \in S : m + x = n
    OBVIOUS
  <2>5. \A i \in S : x >= i
    <3> SUFFICES ASSUME NEW i \in S PROVE x >= i
      OBVIOUS
    <3>1. PICK k \in T : k + i = n
      BY <2>1
    <3> QED BY <2>3, <2>4, <3>1
  <2> QED BY <2>4, <2>5 DEF Max
<1> QED BY <1>2, <1>3

\* A key that the handler looks for is one that validation looks at, unless an
\* option that it does not know names it.
LEMMA ReadsAreSeen ==
  ASSUME NEW step, NEW k \in ReadBy(step)
  PROVE  \/ k \in EffectiveReads(step)
         \/ \E d \in DOMAIN step.inputs \ {SpecOf(step).inputKey} : step.inputs[d] = k
<1> PICK d \in SpecOf(step).reads : k = KeyFor(step.inputs, d)
  BY DEF ReadBy
<1>1. CASE d = SpecOf(step).inputKey \/ d \notin DOMAIN step.inputs
  BY <1>1 DEF EffectiveReads, KeyFor
<1>2. CASE d # SpecOf(step).inputKey /\ d \in DOMAIN step.inputs
  BY <1>2 DEF KeyFor
<1> QED BY <1>1, <1>2

\* And the other way round.
LEMMA SeenAreRead ==
  ASSUME NEW step, Declares(step), NEW k \in EffectiveReads(step), k # "source"
  PROVE  \/ k \in ReadBy(step)
         \/ k \in DOMAIN step.inputs \ {SpecOf(step).inputKey}
<1> PICK d \in SpecOf(step).reads :
           k = IF d = SpecOf(step).inputKey THEN KeyFor(step.inputs, d) ELSE d
  BY DEF EffectiveReads
<1>1. CASE d = SpecOf(step).inputKey
  BY <1>1 DEF ReadBy, Declares
<1>2. CASE d # SpecOf(step).inputKey
  BY <1>2 DEF ReadBy, KeyFor
<1> QED BY <1>1, <1>2

\* A key that validation takes for available and that a run may not find was
\* promised by a step that does not keep its word in every run.
LEMMA PromisesMayFail ==
  ASSUME NEW wf, NEW i \in Nat \ {0}, \A j \in 1 .. i : Declares(wf[j]),
         NEW k \in Available(wf, i), MayMiss(wf, i, k)
  PROVE  MissedUnseen(wf, i, k)
<1>1. PICK j \in 1 .. i - 1 : k \in Promised(wf[j])
  BY DEF Available, MayMiss
<1>2. PICK n \in 0 .. i - 1 : /\ n > 0 => MayDrop(wf[n], k)
                              /\ \A m \in n + 1 .. i - 1 : MayKeep(wf[m], k)
  BY DEF MayMiss
<1> SUFFICES ASSUME RunsOnce(wf[j])
             PROVE  k \in SpecOf(wf[j]).sometimes \cup DOMAIN wf[j].outputs
  BY <1>1 DEF MissedUnseen
<1>3. wf[j].foreach = "no" /\ k \in SpecOf(wf[j]).writes
  BY <1>1 DEF RunsOnce, Promised
<1>4. k \notin ForeachKeys
  BY <1>3 DEF Declares
<1>5. n = 0
  BY <1>2, <1>4 DEF MayDrop
<1>6. MayKeep(wf[j], k)
  BY <1>2, <1>5
<1>7. k \notin WrittenBy(wf[j])
  BY <1>6 DEF MayKeep
<1> QED BY <1>3, <1>7 DEF WrittenBy, KeyFor

\* A run may miss a key that validation does not take for available, unless a
\* step certainly gives its result that name and none removes it.
LEMMA UnavailableMayMiss ==
  ASSUME NEW wf, NEW i \in Nat \ {0}, \A j \in 1 .. i : HasSpec(wf[j]),
         NEW k, k \notin Available(wf, i), ~WarnedInVain(wf, i, k)
  PROVE  MayMiss(wf, i, k)
<1> DEFINE drops == {m \in 1 .. i - 1 : MayDrop(wf[m], k)}
<1>1. k \notin Initially /\ ~(k \in ForeachKeys /\ wf[i].foreach # "no")
  BY DEF Available, WarnedInVain
<1>2. ASSUME NEW j \in 1 .. i - 1, ~MayKeep(wf[j], k)
      PROVE  \E m \in j + 1 .. i - 1 : m \in drops
  <2>1. RunsOnce(wf[j]) /\ k \in WrittenBy(wf[j])
    BY <1>2 DEF MayKeep
  <2>2. k \notin SpecOf(wf[j]).writes
    BY DEF Available, Promised
  <2>3. \E d \in DOMAIN wf[j].outputs : wf[j].outputs[d] = k
    BY <2>1, <2>2 DEF WrittenBy, KeyFor
  <2> QED BY <2>1, <2>3 DEF WarnedInVain
<1>3. CASE drops = {}
  <2>1. \A j \in 0 + 1 .. i - 1 : MayKeep(wf[j], k)
    BY <1>2, <1>3
  <2>2. 0 \in 0 .. i - 1 /\ ~(0 > 0)
    OBVIOUS
  <2> QED BY <1>1, <2>1, <2>2 DEF MayMiss
<1>4. CASE drops # {}
  <2> DEFINE n == Max(drops)
  <2>1. i - 1 \in Nat /\ drops \in SUBSET (1 .. i - 1)
    OBVIOUS
  <2>2. n \in drops /\ \A m \in drops : n >= m
    BY <1>4, <2>1, EndsOfPlaces
  <2>3. n \in 0 .. i - 1 /\ MayDrop(wf[n], k)
    BY <2>2
  <2>4. ASSUME NEW j \in n + 1 .. i - 1 PROVE MayKeep(wf[j], k)
    <3> SUFFICES ASSUME ~MayKeep(wf[j], k) PROVE FALSE
      OBVIOUS
    <3>1. j \in 1 .. i - 1 /\ j > n
      BY <2>2
    <3>2. PICK m \in j + 1 .. i - 1 : m \in drops
      BY <1>2, <3>1
    <3> QED BY <2>2, <3>1, <3>2
  <2> QED BY <1>1, <2>3, <2>4 DEF MayMiss
<1> QED BY <1>3, <1>4

\* For every workflow of modules that declare what they do, started by itself, a
\* step that may not find a key has its warning and a warning is about such a
\* key, but for the named reasons (validate_workflow).
THEOREM WarningsAreExact ==
  ASSUME NEW S, NEW wf \in Seq(S), \A i \in DOMAIN wf : Declares(wf[i])
  PROVE  WarningsAreRight(wf)
<1> SUFFICES ASSUME NEW i \in DOMAIN wf
             PROVE  /\ \A k \in ReadBy(wf[i]) :
                         MayMiss(wf, i, k) => <<i, k>> \in Missing(wf) \/ MissedUnseen(wf, i, k)
                    /\ \A k \in EffectiveReads(wf[i]) :
                         <<i, k>> \in Missing(wf) =>
                           (k \in ReadBy(wf[i]) /\ MayMiss(wf, i, k)) \/ WarnedInVain(wf, i, k)
  BY DEF WarningsAreRight
<1>1. i \in Nat \ {0} /\ \A j \in 1 .. i : j \in DOMAIN wf
  OBVIOUS
<1>2. \A j \in DOMAIN wf : HasSpec(wf[j])
  BY DEF Declares
<1>3. \A k : <<i, k>> \in Missing(wf) <=>
               k \in EffectiveReads(wf[i]) /\ k # "source" /\ k \notin Available(wf, i)
  BY <1>2 DEF Missing
<1>4. ASSUME NEW k \in ReadBy(wf[i]), MayMiss(wf, i, k), <<i, k>> \notin Missing(wf)
      PROVE  MissedUnseen(wf, i, k)
  <2>1. CASE k = "source"
    BY <2>1 DEF MissedUnseen
  <2>2. CASE \E d \in DOMAIN wf[i].inputs \ {SpecOf(wf[i]).inputKey} : wf[i].inputs[d] = k
    BY <2>2 DEF MissedUnseen
  <2>3. CASE k \in Available(wf, i)
    BY <1>1, <1>4, <2>3, PromisesMayFail
  <2> QED BY <1>3, <1>4, <2>1, <2>2, <2>3, ReadsAreSeen
<1>5. ASSUME NEW k \in EffectiveReads(wf[i]), <<i, k>> \in Missing(wf), ~WarnedInVain(wf, i, k)
      PROVE  k \in ReadBy(wf[i]) /\ MayMiss(wf, i, k)
  <2>1. k # "source" /\ k \notin Available(wf, i)
    BY <1>3, <1>5
  <2>2. MayMiss(wf, i, k)
    BY <1>1, <1>2, <1>5, <2>1, UnavailableMayMiss
  <2>3. k \in ReadBy(wf[i])
    BY <1>5, <2>1, SeenAreRead DEF WarnedInVain
  <2> QED BY <2>2, <2>3
<1> QED BY <1>4, <1>5

-----------------------------------------------------------------------------
(* Which workflow a name stands for *)

\* What the files hold that a name can stand for.
Claims(dir, n, i) == dir[Sorted[i]] \in Workflows /\ (dir[Sorted[i]].name = n \/ Sorted[i][1] = n)
OrBuiltin(n)      == IF n \in BuiltinNames THEN BuiltinWorkflow(n) ELSE NotFound

\* A listing shows a file that says the name, if there is one, and nothing at
\* all if a file escapes it.
LEMMA SpoiltIsRaised ==
  ASSUME NEW dir \in Dirs, IsSpoilt(dir)
  PROVE  Listed(dir) = Raised
<1>1. PICK f \in Files : dir[f] \in Escaping
  BY DEF IsSpoilt
<1>2. PICK i \in DOMAIN Sorted : Sorted[i] = f
  BY FilesAssumption
<1>3. LoadFile(dir[Sorted[i]], FALSE, FALSE) = Raised /\ i \in Listing(dir)
  BY <1>1, <1>2, FilesAssumption DEF LoadFile, Listing
<1> QED BY <1>3 DEF Listed

LEMMA WhatIsListed ==
  ASSUME NEW dir \in Dirs, NEW n \in WorkflowNames, ~IsSpoilt(dir)
  PROVE  LET says == {i \in DOMAIN Sorted : dir[Sorted[i]] \in Workflows /\ dir[Sorted[i]].name = n}
         IN  /\ says = {} => Listed(dir)[n] = OrBuiltin(n)
             /\ says # {} => \E i \in says : Listed(dir)[n] = dir[Sorted[i]]
<1> DEFINE says == {i \in DOMAIN Sorted : dir[Sorted[i]] \in Workflows /\ dir[Sorted[i]].name = n}
           read(i) == LoadFile(dir[Sorted[i]], FALSE, FALSE)
           Says == {i \in Listing(dir) : read(i) # Invalid /\ read(i).name = n}
<1>1. \A i \in DOMAIN Sorted : Sorted[i] \in Files /\ dir[Sorted[i]] \in Contents
  BY FilesAssumption DEF Dirs
<1>2. \A i \in DOMAIN Sorted : read(i) = dir[Sorted[i]] /\ dir[Sorted[i]] \notin Escaping
  BY <1>1 DEF LoadFile, IsSpoilt
<1>3. Says = says
  <2> SUFFICES ASSUME NEW i \in DOMAIN Sorted
               PROVE  dir[Sorted[i]] \notin {NoFile, Invalid} <=> dir[Sorted[i]] \in Workflows
    BY <1>2, FilesAssumption DEF Listing
  <2> QED BY <1>1, <1>2, FilesAssumption DEF Contents
<1>a. \A i \in Listing(dir) : read(i) # Raised
  <2>1. \A i \in Listing(dir) : dir[Sorted[i]] \in Workflows \cup {Invalid}
    BY <1>1, <1>2 DEF Contents, Listing
  <2>2. Raised \notin Workflows \cup {Invalid}
    BY FilesAssumption
  <2>3. \A i \in Listing(dir) : read(i) = dir[Sorted[i]]
    BY <1>2 DEF Listing
  <2> HIDE DEF read
  <2> QED BY <2>1, <2>2, <2>3
<1>4. Listed(dir)[n] = IF Says # {} THEN read(Max(Says)) ELSE OrBuiltin(n)
  BY <1>a DEF Listed, OrBuiltin
<1>5. says # {} => Max(says) \in says
  <2>1. says \in SUBSET (1 .. Len(Sorted)) /\ Len(Sorted) \in Nat
    BY FilesAssumption
  <2> HIDE DEF says
  <2> QED BY <2>1, EndsOfPlaces
<1>6. \A i \in says : i \in DOMAIN Sorted
  OBVIOUS
<1> HIDE DEF says, read, Says
<1> QED BY <1>2, <1>3, <1>4, <1>5, <1>6 DEF says

\* A run takes a file that claims the name, if there is one, or stops at one
\* that misses a secret or escapes the search.
LEMMA WhatIsLoaded ==
  ASSUME NEW dir \in Dirs, NEW n \in WorkflowNames, NEW strict \in BOOLEAN
  PROVE  LET claims == {i \in DOMAIN Sorted : Claims(dir, n, i)}
             runs == Load(dir, n, strict)
         IN  \/ (strict \/ IsSpoilt(dir)) /\ runs = Raised
             \/ claims = {} /\ ~IsSpoilt(dir) /\ runs = OrBuiltin(n)
             \/ \E i \in claims : runs = dir[Sorted[i]]
<1> DEFINE claims == {i \in DOMAIN Sorted : Claims(dir, n, i)}
           read(i) == LoadFile(dir[Sorted[i]], TRUE, strict)
           ends == {i \in Listing(dir) : /\ read(i) # Invalid
                                         /\ read(i) = Raised \/ read(i).name = n \/ Sorted[i][1] = n}
<1>1. \A i \in DOMAIN Sorted : Sorted[i] \in Files /\ dir[Sorted[i]] \in Contents
  BY FilesAssumption DEF Dirs
<1>2. \A i \in DOMAIN Sorted : dir[Sorted[i]] \in Workflows =>
         (strict /\ read(i) = Raised) \/ read(i) = dir[Sorted[i]]
  BY FilesAssumption DEF LoadFile
<1>a. \A i \in DOMAIN Sorted : dir[Sorted[i]] \in Escaping => read(i) = Raised /\ IsSpoilt(dir)
  BY <1>1, FilesAssumption DEF LoadFile, IsSpoilt
<1>b. IsSpoilt(dir) => ends # {}
  <2> SUFFICES ASSUME NEW f \in Files, dir[f] \in Escaping PROVE ends # {}
    BY DEF IsSpoilt
  <2>1. PICK i \in DOMAIN Sorted : Sorted[i] = f
    BY FilesAssumption
  <2>2. read(i) = Raised /\ read(i) # Invalid
    BY <1>a, <2>1, FilesAssumption
  <2>3. i \in Listing(dir)
    BY <2>1, FilesAssumption DEF Listing
  <2> HIDE DEF read
  <2> QED BY <2>2, <2>3
<1>3. claims \subseteq ends
  <2> SUFFICES ASSUME NEW i \in claims PROVE i \in ends
    OBVIOUS
  <2>1. i \in DOMAIN Sorted /\ Claims(dir, n, i)
    OBVIOUS
  <2>2. i \in Listing(dir)
    BY <2>1, FilesAssumption DEF Listing, Claims
  <2>3. read(i) # Invalid
    BY <1>2, <2>1, FilesAssumption DEF Claims
  <2>4. read(i) = Raised \/ read(i).name = n \/ Sorted[i][1] = n
    BY <1>2, <2>1 DEF Claims
  <2> HIDE DEF read, claims
  <2> QED BY <2>2, <2>3, <2>4
<1>4. ASSUME NEW i \in ends
      PROVE  \/ (strict \/ IsSpoilt(dir)) /\ read(i) = Raised
             \/ i \in claims /\ read(i) = dir[Sorted[i]]
  <2>1. i \in DOMAIN Sorted /\ dir[Sorted[i]] # NoFile
    BY DEF Listing
  <2>2. dir[Sorted[i]] \in Workflows \/ dir[Sorted[i]] \in Escaping
    BY <1>1, <2>1 DEF Contents, LoadFile
  <2>a. CASE dir[Sorted[i]] \in Escaping
    BY <1>a, <2>1, <2>a
  <2>3. CASE dir[Sorted[i]] \in Workflows /\ read(i) = dir[Sorted[i]]
    <3>1. read(i) # Raised
      BY <2>2, <2>3, FilesAssumption
    <3>2. dir[Sorted[i]].name = n \/ Sorted[i][1] = n
      <4> HIDE DEF read
      <4> QED BY <2>3, <3>1
    <3> QED BY <2>1, <2>2, <2>3, <3>2 DEF Claims
  <2> QED BY <1>2, <2>1, <2>2, <2>a, <2>3
<1>5. Load(dir, n, strict) = IF ends # {} THEN read(Min(ends)) ELSE OrBuiltin(n)
  BY DEF Load, OrBuiltin
<1>6. ends # {} => Min(ends) \in ends
  <2>1. ends \subseteq DOMAIN Sorted
    BY DEF Listing
  <2>2. DOMAIN Sorted = 1 .. Len(Sorted) /\ Len(Sorted) \in Nat
    BY FilesAssumption
  <2> HIDE DEF ends
  <2> QED BY <2>1, <2>2, EndsOfPlaces
<1> HIDE DEF claims, read, ends
<1>7. \/ (strict \/ IsSpoilt(dir)) /\ Load(dir, n, strict) = Raised
      \/ claims = {} /\ ~IsSpoilt(dir) /\ Load(dir, n, strict) = OrBuiltin(n)
      \/ \E i \in claims : Load(dir, n, strict) = dir[Sorted[i]]
  BY <1>3, <1>4, <1>5, <1>6, <1>b
<1> QED BY <1>7 DEF claims

\* Whatever is in the files of a directory: listing and run agree, or a file that
\* nothing can read hides them all ...
THEOREM ListingsAreTrue ==
  ASSUME NEW dir \in Dirs, NEW n \in WorkflowNames, NEW strict \in BOOLEAN
  PROVE  ListedIsLoaded(dir, n, strict)
<1> DEFINE shown == Listed(dir)[n]
           runs == Load(dir, n, strict)
           says == {i \in DOMAIN Sorted : dir[Sorted[i]] \in Workflows /\ dir[Sorted[i]].name = n}
           claims == {i \in DOMAIN Sorted : Claims(dir, n, i)}
<1>a. \/ (strict \/ IsSpoilt(dir)) /\ runs = Raised
      \/ claims = {} /\ ~IsSpoilt(dir) /\ runs = OrBuiltin(n)
      \/ \E i \in claims : runs = dir[Sorted[i]]
  BY WhatIsLoaded
<1>4. \A i \in claims : Sorted[i] \in Claimants(dir, n)
  BY FilesAssumption DEF Claims, Claimants, Dirs
<1>b. IsSpoilt(dir) =>
        /\ Listed(dir) = Raised
        /\ runs = Raised \/ \E f \in Claimants(dir, n) : runs = dir[f]
  <2> HIDE DEF runs, claims
  <2> QED BY <1>a, <1>4, SpoiltIsRaised
<1> SUFFICES ASSUME \A f, g \in Claimants(dir, n) : f = g, ~IsSpoilt(dir)
             PROVE  \/ shown = runs
                    \/ shown \in {NotFound, BuiltinWorkflow(n)} /\ runs \in Workflows /\ runs.name # n
                    \/ strict /\ runs = Raised
  BY <1>b DEF ListedIsLoaded
<1>1. \/ says = {} /\ shown = OrBuiltin(n)
      \/ \E i \in says : shown = dir[Sorted[i]]
  BY WhatIsListed
<1>2. \/ strict /\ runs = Raised
      \/ claims = {} /\ runs = OrBuiltin(n)
      \/ \E i \in claims : runs = dir[Sorted[i]]
  BY <1>a
<1>3. says \subseteq claims
  BY DEF Claims
<1>5. \A i \in claims : dir[Sorted[i]] \in Workflows
  BY DEF Claims
<1>6. \A i, j \in claims : dir[Sorted[i]] = dir[Sorted[j]]
  BY <1>4
<1>7. CASE \E i \in claims : runs = dir[Sorted[i]]
  <2>1. PICK i \in claims : runs = dir[Sorted[i]]
    BY <1>7
  <2>2. CASE says = {}
    <3>1. runs \in Workflows /\ runs.name # n
      BY <1>5, <2>1, <2>2
    <3> HIDE DEF shown, runs, says
    <3> QED BY <1>1, <2>2, <3>1 DEF OrBuiltin
  <2> HIDE DEF shown, runs, says, claims
  <2> QED BY <1>1, <1>3, <1>6, <2>1, <2>2
<1> HIDE DEF shown, runs, says, claims
<1> QED BY <1>1, <1>2, <1>3, <1>7

\* ... and what is saved under its name is what the editor shows and, unless
\* others claim the name, what runs, until it is deleted.
THEOREM SavedTextsRun ==
  ASSUME NEW dir \in Dirs, NEW w \in Workflows
  PROVE  SavedIsRun(dir, w)
<1> DEFINE n == w.name
           yaml == <<n, "yaml">>
           yml == <<n, "yml">>
           saved == SaveWorkflow(dir, n, w)
           once == DeleteWorkflow(saved, n)
           cleared == DeleteWorkflow(once, n)
<1>1. n \in WorkflowNames /\ yaml \in Files /\ yml \in Files /\ yaml # yml /\ w # NoFile /\ w # Invalid
  BY FilesAssumption DEF Workflows, Files
<1>2. saved = [dir EXCEPT ![yaml] = w] /\ saved \in Dirs /\ saved[yaml] = w
  BY <1>1 DEF SaveWorkflow, Dirs, Contents
<1>3. Shown(saved, n) = IF n \in ReservedNames THEN NotFound ELSE w
  <2>1. w # Undecodable /\ saved[FileNamed(saved, n)] = w
    BY <1>1, <1>2, FilesAssumption DEF FileNamed, Escaping
  <2> HIDE DEF saved, n
  <2> QED BY <1>1, <2>1 DEF Shown
<1> SUFFICES ASSUME Claimants(saved, n) = {yaml}, ~IsSpoilt(saved)
             PROVE  /\ Load(saved, n, FALSE) = w
                    /\ Listed(saved)[n] = w
                    /\ Load(cleared, n, FALSE) = OrBuiltin(n)
  BY <1>3, Zenon DEF SavedIsRun, OrBuiltin
<1>4. PICK p \in DOMAIN Sorted : Sorted[p] = yaml
  BY <1>1, FilesAssumption
<1>5. \A i \in DOMAIN Sorted : Claims(saved, n, i) => Sorted[i] = yaml
  <2>1. \A i \in DOMAIN Sorted : Claims(saved, n, i) => Sorted[i] \in Claimants(saved, n)
    BY <1>2, FilesAssumption DEF Claims, Claimants, Dirs
  <2> QED BY <2>1
<1>6. Load(saved, n, FALSE) = w
  <2>1. Claims(saved, n, p)
    BY <1>2, <1>4 DEF Claims
  <2> QED BY <1>1, <1>2, <1>5, <2>1, WhatIsLoaded
<1>7. Listed(saved)[n] = w
  <2>1. \A i \in DOMAIN Sorted : saved[Sorted[i]] \in Workflows /\ saved[Sorted[i]].name = n => Sorted[i] = yaml
    BY <1>5 DEF Claims
  <2>2. saved[Sorted[p]] \in Workflows /\ saved[Sorted[p]].name = n
    BY <1>2, <1>4
  <2> HIDE DEF n, saved
  <2> DEFINE says == {i \in DOMAIN Sorted : saved[Sorted[i]] \in Workflows /\ saved[Sorted[i]].name = n}
  <2>3. \A i \in says : saved[Sorted[i]] = w
    BY <1>2, <2>1
  <2>4. says # {}
    BY <2>2
  <2>5. says # {} => \E i \in says : Listed(saved)[n] = saved[Sorted[i]]
    BY <1>1, <1>2, WhatIsListed
  <2> QED BY <2>3, <2>4, <2>5
<1>8. Load(cleared, n, FALSE) = OrBuiltin(n)
  <2>1. once = [saved EXCEPT ![yaml] = NoFile] /\ once \in Dirs
    BY <1>1, <1>2 DEF DeleteWorkflow, FileNamed, Dirs, Contents
  <2>2. once[yaml] = NoFile /\ \A f \in Files : f # yaml => once[f] = saved[f]
    BY <1>1, <1>2, <2>1 DEF Dirs
  <2>3. /\ cleared \in Dirs /\ cleared[yaml] = NoFile
        /\ \A f \in Files : cleared[f] = NoFile \/ cleared[f] = once[f]
    BY <1>1, <2>1, <2>2 DEF DeleteWorkflow, FileNamed, Dirs, Contents
  <2>4. \A i \in DOMAIN Sorted : ~Claims(cleared, n, i)
    <3> SUFFICES ASSUME NEW i \in DOMAIN Sorted, Claims(cleared, n, i) PROVE FALSE
      OBVIOUS
    <3>1. Sorted[i] \in Files /\ cleared[Sorted[i]] \in Workflows /\ cleared[Sorted[i]] # NoFile
      BY FilesAssumption DEF Claims
    <3>2. Sorted[i] # yaml
      BY <2>3, <3>1
    <3>3. cleared[Sorted[i]] = saved[Sorted[i]]
      BY <2>2, <2>3, <3>1, <3>2
    <3> QED BY <1>5, <3>2, <3>3 DEF Claims
  <2>5. ~IsSpoilt(cleared)
    <3>1. \A f \in Files : cleared[f] \in Escaping => saved[f] \in Escaping
      BY <2>2, <2>3, FilesAssumption
    <3> QED BY <3>1 DEF IsSpoilt
  <2> HIDE DEF cleared, n
  <2> QED BY <1>1, <2>3, <2>4, <2>5, WhatIsLoaded
<1> QED BY <1>6, <1>7, <1>8
=============================================================================
