--------------------------- MODULE WorkflowEngine ---------------------------
(***************************************************************************)
(* The workflow engine of solux: execute_workflow runs the steps of a      *)
(* workflow one after the other, a step may call another workflow          *)
(* (meta.subworkflow, meta.branch), loop over a list, run under a timeout  *)
(* in a thread that is abandoned when the time is up, and name a workflow  *)
(* to run when it fails.                                                   *)
(*                                                                         *)
(* All of them hand on one mutable dictionary, ctx.data.  Of its contents  *)
(* only "_subworkflow_stack" is kept here, by which circular calls are     *)
(* refused: sub-workflows push on it and pop from it, foreach copies it,   *)
(* and abandoned threads still write to it.                                *)
(*                                                                         *)
(* A thread is a Python stack: a sequence of frames, the innermost last.   *)
(***************************************************************************)
EXTENDS Naturals, FiniteSets, Sequences, SequencesExt

CONSTANTS
  Names,        \* names of workflows
  Top,          \* the workflow the job names
  None,         \* no workflow
  Programs,     \* what the workflow files may say: functions from Names to steps
  MaxThreads,   \* bound: threads at a time, the first is the job's own
  MaxItems,     \* bound: length of the list of a foreach
  MaxDepth,     \* the recursion limit, in frames
  MaxTimeouts   \* bound: how often a step times out

\* A step is plain (targets = {}), calls one workflow, or branches to several.
Step == [targets : SUBSET Names, onError : Names \cup {None},
         loop : {"none", "sequential", "parallel"}, timed : BOOLEAN]

ASSUME EngineAssumption ==
  /\ Top \in Names /\ None \notin Names
  /\ Programs \subseteq [Names -> Seq(Step) \ {<<>>}]
  /\ {MaxThreads, MaxItems, MaxDepth, MaxTimeouts} \subseteq Nat

VARIABLES
  program,      \* the workflow files
  dicts,        \* per dictionary ever made: its _subworkflow_stack
  (* per thread *)
  frames,       \* its stack
  doing,        \* "run", "join", "return", "raise", "ended", or "free"
  value,        \* what is being returned: an index of dicts
  error,        \* what is being raised
  awaits,       \* the threads it joins
  (* history *)
  base,         \* per thread: the calls, handled errors and joins it was started under
  leaked,       \* an exception has passed a sub-workflow call
  timeouts      \* how many steps have timed out

threadVars == <<frames, doing, value, error, awaits>>
vars == <<program, dicts, threadVars, base, leaked, timeouts>>

Thread == 1..MaxThreads
Main   == 1

NoError == [kind |-> "none", under |-> 0]
NoBase  == [calls |-> <<>>, handling |-> 0, joins |-> {}]

-----------------------------------------------------------------------------
(* Frames *)

\* execute_workflow at step pc; handles is the exception of that step while
\* its on_error workflow runs.
WorkflowFrame(n, d) == [kind |-> "workflow", name |-> n, pc |-> 1, dict |-> d, handles |-> NoError]

\* A step's handler; target and saved (its local call_stack) once it has called.
HandlerFrame(s, d) == [kind |-> "handler", step |-> s, dict |-> d, target |-> None, saved |-> <<>>]

\* _run_foreach: the sequential loop over the handler.
LoopFrame(s, d, n) == [kind |-> "loop", step |-> s, dict |-> d, left |-> n]

\* The handlers in a stack that have called a workflow, and the workflows they
\* called, outermost first.
Calling(fs) == {i \in DOMAIN fs : fs[i].kind = "handler" /\ fs[i].target # None}
Calls(fs) ==
  LET Nth(k) == CHOOSE i \in Calling(fs) : Cardinality({j \in Calling(fs) : j < i}) = k - 1
  IN  [k \in 1..Cardinality(Calling(fs)) |-> fs[Nth(k)].target]

\* How many errors the workflows in a stack are handling.
Handling(fs) ==
  Cardinality({i \in DOMAIN fs : fs[i].kind = "workflow" /\ fs[i].handles # NoError})

\* The same for a thread, with those of the threads that wait for it
\* (base[t].joins).
ActiveCalls(t) == base[t].calls \o Calls(frames[t])
HandledBy(t)   == base[t].handling + Handling(frames[t])

Inner(t)   == Last(frames[t])
StepOf(f)  == program[f.name][f.pc]

Init ==
  /\ program \in Programs
  /\ dicts = <<<<>>>>
  /\ frames = [t \in Thread |-> IF t = Main THEN <<WorkflowFrame(Top, 1)>> ELSE <<>>]
  /\ doing = [t \in Thread |-> IF t = Main THEN "run" ELSE "free"]
  /\ value = [t \in Thread |-> 0]
  /\ error = [t \in Thread |-> NoError]
  /\ awaits = [t \in Thread |-> <<>>]
  /\ base = [t \in Thread |-> NoBase]
  /\ leaked = FALSE
  /\ timeouts = 0

-----------------------------------------------------------------------------
(* What a thread does to its stack *)

Running(t, kind) == doing[t] = "run" /\ Inner(t).kind = kind

\* t goes on with fs on its stack.
Continue(t, fs) ==
  /\ frames' = [frames EXCEPT ![t] = fs]
  /\ doing' = [doing EXCEPT ![t] = "run"]
  /\ value' = [value EXCEPT ![t] = 0]
  /\ error' = [error EXCEPT ![t] = NoError]
  /\ UNCHANGED <<awaits, base>>

Push(t, f)    == Continue(t, Append(frames[t], f))
Replace(t, f) == Continue(t, Append(Front(frames[t]), f))

\* Nobody waits for t any more.
Abandoned(t) == t # Main /\ \A u \in Thread : t \notin Range(awaits[u])

\* The innermost frame of t is left, with a value (d # 0) or with an exception.
\* The result of an abandoned thread is dropped.
Leave(t, d, e) ==
  LET fs      == Front(frames[t])
      dropped == fs = <<>> /\ Abandoned(t)
  IN /\ frames' = [frames EXCEPT ![t] = fs]
     /\ doing' = [doing EXCEPT ![t] = CASE dropped                    -> "free"
                                       [] fs = <<>> /\ ~Abandoned(t)   -> "ended"
                                       [] fs # <<>> /\ e = NoError     -> "return"
                                       [] fs # <<>> /\ e # NoError     -> "raise"]
     /\ value' = [value EXCEPT ![t] = IF dropped THEN 0 ELSE d]
     /\ error' = [error EXCEPT ![t] = IF dropped THEN NoError ELSE e]
     /\ base' = [base EXCEPT ![t] = IF dropped THEN NoBase ELSE @]
     /\ UNCHANGED awaits

Return(t, d) == Leave(t, d, NoError)
Raise(t, e)  == Leave(t, 0, e)

\* A new exception; under says how many errors are being handled around it.
NewError(t, kind) == [kind |-> kind, under |-> HandledBy(t)]

Unused == {t \in Thread : doing[t] = "free"}

\* t starts one thread per frame of fs and waits for them.
StartThreads(t, fs) ==
  /\ Len(fs) <= Cardinality(Unused)
  /\ LET new == CHOOSE ts \in [DOMAIN fs -> Unused] : IsInjective(ts)
         At(u) == CHOOSE i \in DOMAIN fs : new[i] = u
     IN /\ frames' = [u \in Thread |-> IF u \in Range(new) THEN <<fs[At(u)]>> ELSE frames[u]]
        /\ doing' = [u \in Thread |-> CASE u = t -> "join"
                                        [] u \in Range(new) -> "run"
                                        [] OTHER -> doing[u]]
        /\ awaits' = [awaits EXCEPT ![t] = new]
        /\ base' = [u \in Thread |-> IF u \in Range(new)
                                     THEN [calls |-> ActiveCalls(t), handling |-> HandledBy(t),
                                           joins |-> base[t].joins \cup {t}]
                                     ELSE base[u]]
  /\ UNCHANGED <<value, error>>

-----------------------------------------------------------------------------
(* execute_workflow *)

\* The interpreter raises RecursionError in the next workflow it enters.
TooDeep(t) == Len(frames[t]) > MaxDepth

AtStep(t) ==
  /\ Running(t, "workflow")
  /\ Inner(t).pc \in DOMAIN program[Inner(t).name]
  /\ ~TooDeep(t)

\* The file does not load or validate, or the recursion limit is reached.
EntryFails(t) ==
  /\ Running(t, "workflow") /\ Inner(t).pc = 1
  /\ Raise(t, NewError(t, "error"))
  /\ UNCHANGED <<program, dicts, leaked, timeouts>>

\* Its when: is false.
SkipStep(t) ==
  /\ AtStep(t)
  /\ Replace(t, [Inner(t) EXCEPT !.pc = @ + 1])
  /\ UNCHANGED <<program, dicts, leaked, timeouts>>

\* What the step runs in one thread; a parallel loop over no items is an empty
\* sequential one.
Body(s, d) ==
  CASE s.loop = "none"       -> {HandlerFrame(s, d)}
    [] s.loop = "sequential" -> {LoopFrame(s, d, n) : n \in 0..MaxItems}
    [] s.loop = "parallel"   -> {LoopFrame(s, d, 0)}

\* _run_step_with_optional_timeout.
StartStep(t) ==
  /\ AtStep(t)
  /\ LET s == StepOf(Inner(t)) IN
     \E body \in Body(s, Inner(t).dict) :
       IF s.timed /\ s.loop # "parallel" THEN StartThreads(t, <<body>>) ELSE Push(t, body)
  /\ UNCHANGED <<program, dicts, leaked, timeouts>>

\* _run_parallel_foreach: one thread and one copy of the dictionary per item,
\* whatever the timeout.
StartParallel(t) ==
  /\ AtStep(t)
  /\ LET s == StepOf(Inner(t)) IN
     /\ s.loop = "parallel"
     /\ \E n \in 1..MaxItems :
          /\ dicts' = dicts \o [i \in 1..n |-> dicts[Inner(t).dict]]
          /\ StartThreads(t, [i \in 1..n |-> HandlerFrame(s, Len(dicts) + i)])
  /\ UNCHANGED <<program, leaked, timeouts>>

\* The joined threads end; t goes on below its innermost frame.
EndJoin(t, how, d, e) ==
  LET joined == Range(awaits[t]) IN
  /\ doing' = [u \in Thread |-> IF u = t THEN how ELSE IF u \in joined THEN "free" ELSE doing[u]]
  /\ value' = [u \in Thread |-> IF u = t THEN d ELSE IF u \in joined THEN 0 ELSE value[u]]
  /\ error' = [u \in Thread |-> IF u = t THEN e ELSE IF u \in joined THEN NoError ELSE error[u]]
  /\ base' = [u \in Thread |-> IF u \in joined THEN NoBase ELSE base[u]]
  /\ awaits' = [awaits EXCEPT ![t] = <<>>]

AllEnded(t) == doing[t] = "join" /\ \A u \in Range(awaits[t]) : doing[u] = "ended"

\* Every thread has returned: a parallel loop goes on with a copy of the
\* dictionary of the last item.
JoinReturns(t) ==
  /\ AllEnded(t)
  /\ \A u \in Range(awaits[t]) : error[u] = NoError
  /\ LET d == value[Last(awaits[t])] IN
     IF StepOf(Inner(t)).loop = "parallel"
     THEN /\ dicts' = Append(dicts, dicts[d])
          /\ EndJoin(t, "return", Len(dicts) + 1, NoError)
     ELSE /\ UNCHANGED dicts
          /\ EndJoin(t, "return", d, NoError)
  /\ UNCHANGED <<program, frames, leaked, timeouts>>

\* One has raised: whichever was the first to.
JoinRaises(t) ==
  /\ AllEnded(t)
  /\ \E u \in Range(awaits[t]) :
       error[u] # NoError /\ EndJoin(t, "raise", 0, error[u])
  /\ UNCHANGED <<program, dicts, frames, leaked, timeouts>>

\* StepTimeoutError: the thread is left to itself, on the same dictionary.
JoinTimesOut(t) ==
  /\ doing[t] = "join" /\ ~AllEnded(t)
  /\ StepOf(Inner(t)).loop # "parallel"
  /\ timeouts < MaxTimeouts
  /\ timeouts' = timeouts + 1
  /\ doing' = [doing EXCEPT ![t] = "raise"]
  /\ error' = [error EXCEPT ![t] = NewError(t, "timeout")]
  /\ awaits' = [awaits EXCEPT ![t] = <<>>]
  /\ UNCHANGED <<program, dicts, frames, value, base, leaked>>

\* Mutation: the step whose error was handled is run once more.
NextPc_Retry(f) == IF f.handles # NoError THEN f.pc ELSE f.pc + 1

NextPc(f) == f.pc + 1

\* The step, or the workflow that handled its error, has returned.
StepReturns(t) ==
  /\ doing[t] = "return" /\ Inner(t).kind = "workflow"
  /\ Replace(t, [Inner(t) EXCEPT !.pc = NextPc(Inner(t)), !.dict = value[t], !.handles = NoError])
  /\ UNCHANGED <<program, dicts, leaked, timeouts>>

\* _handle_on_error, with the dictionary the step was started with.
HandleError(t) ==
  LET f == Inner(t) IN
  /\ doing[t] = "raise" /\ f.kind = "workflow" /\ f.handles = NoError
  /\ StepOf(f).onError # None
  /\ Continue(t, Front(frames[t]) \o <<[f EXCEPT !.handles = error[t]],
                                      WorkflowFrame(StepOf(f).onError, f.dict)>>)
  /\ UNCHANGED <<program, dicts, leaked, timeouts>>

\* Mutation: the error of the error workflow is raised.
ErrorToRaise_Latest(f, e) == e

\* The original exception, when the error workflow has failed as well.
ErrorToRaise(f, e) == IF f.handles # NoError THEN f.handles ELSE e

WorkflowRaises(t) ==
  LET f == Inner(t) IN
  /\ doing[t] = "raise" /\ f.kind = "workflow"
  /\ f.handles # NoError \/ StepOf(f).onError = None
  /\ Raise(t, ErrorToRaise(f, error[t]))
  /\ UNCHANGED <<program, dicts, leaked, timeouts>>

WorkflowEnds(t) ==
  /\ Running(t, "workflow")
  /\ Inner(t).pc > Len(program[Inner(t).name])
  /\ Return(t, Inner(t).dict)
  /\ UNCHANGED <<program, dicts, leaked, timeouts>>

-----------------------------------------------------------------------------
(* The sequential foreach *)

\* The step of the next item.  The loop is a closure over the variables of
\* execute_workflow: in a thread that has been left to itself, step may have moved
\* on to a later one by now.
ItemSteps(t) ==
  LET s == Inner(t).step IN
  IF Len(frames[t]) > 1 \/ ~Abandoned(t) THEN {s}
  ELSE UNION {{program[n][j] : j \in {j \in DOMAIN program[n] :
                                        \E i \in 1..j : program[n][i] = s}} : n \in Names}

\* And so may handler, a little later: the old one calls nothing that the new
\* step names.
ItemCalls(s, moved) == {s} \cup IF moved THEN {[s EXCEPT !.targets = {}]} ELSE {}

LoopRunsItem(t) ==
  LET f == Inner(t) IN
  /\ Running(t, "loop") /\ f.left > 0
  /\ dicts' = Append(dicts, dicts[f.dict])
  /\ \E s \in ItemSteps(t) : \E call \in ItemCalls(s, s # f.step) :
       Continue(t, Front(frames[t]) \o <<[f EXCEPT !.left = @ - 1, !.step = s],
                                         HandlerFrame(call, Len(dicts'))>>)
  /\ UNCHANGED <<program, leaked, timeouts>>

LoopEnds(t) ==
  /\ Running(t, "loop") /\ Inner(t).left = 0
  /\ Return(t, Inner(t).dict)
  /\ UNCHANGED <<program, dicts, leaked, timeouts>>

ItemReturns(t) ==
  /\ doing[t] = "return" /\ Inner(t).kind = "loop"
  /\ Replace(t, [Inner(t) EXCEPT !.dict = value[t]])
  /\ UNCHANGED <<program, dicts, leaked, timeouts>>

-----------------------------------------------------------------------------
(* Handlers *)

\* A handler that calls no workflow returns the context it was given.
HandlerReturns(t) ==
  /\ Running(t, "handler") /\ Inner(t).step.targets = {}
  /\ Return(t, Inner(t).dict)
  /\ UNCHANGED <<program, dicts, leaked, timeouts>>

\* Any handler may raise: no branch matches, the sub-workflow does not load.
HandlerRaises(t) ==
  /\ Running(t, "handler")
  /\ Raise(t, NewError(t, "error"))
  /\ UNCHANGED <<program, dicts, leaked, timeouts>>

\* Mutation: only a workflow that calls itself is refused.
IsCircular_Direct(n, stack) == stack # <<>> /\ Last(stack) = n

IsCircular(n, stack) == n \in Range(stack)

CallWorkflow(t, n) ==
  LET f == Inner(t) IN
  /\ Running(t, "handler") /\ n \in f.step.targets
  /\ ~IsCircular(n, dicts[f.dict])
  /\ dicts' = [dicts EXCEPT ![f.dict] = Append(@, n)]
  /\ Continue(t, Front(frames[t]) \o <<[f EXCEPT !.target = n, !.saved = dicts[f.dict]],
                                      WorkflowFrame(n, f.dict)>>)
  /\ UNCHANGED <<program, leaked, timeouts>>

RefuseCall(t, n) ==
  /\ Running(t, "handler") /\ n \in Inner(t).step.targets
  /\ IsCircular(n, dicts[Inner(t).dict])
  /\ Raise(t, NewError(t, "circular"))
  /\ UNCHANGED <<program, dicts, leaked, timeouts>>

\* Mutation: the stack is left as it is.
RestoredStack_Kept(saved, now) == now

RestoredStack(saved, now) == saved

\* The called workflow has returned: the handler's own copy of the stack goes
\* into the dictionary that came back.
CallReturns(t) ==
  /\ doing[t] = "return" /\ Inner(t).kind = "handler"
  /\ dicts' = [dicts EXCEPT ![value[t]] = RestoredStack(Inner(t).saved, @)]
  /\ Return(t, value[t])
  /\ UNCHANGED <<program, leaked, timeouts>>

\* An exception passes a loop, or a call: nothing restores the stack.
PassOn(t) ==
  /\ doing[t] = "raise" /\ Inner(t).kind \in {"handler", "loop"}
  /\ Raise(t, error[t])
  /\ leaked' = (leaked \/ Inner(t).kind = "handler")
  /\ UNCHANGED <<program, dicts, timeouts>>

-----------------------------------------------------------------------------

ThreadStep(t) ==
  \/ EntryFails(t) \/ SkipStep(t) \/ StartStep(t) \/ StartParallel(t)
  \/ JoinReturns(t) \/ JoinRaises(t) \/ JoinTimesOut(t)
  \/ StepReturns(t) \/ HandleError(t) \/ WorkflowRaises(t) \/ WorkflowEnds(t)
  \/ LoopRunsItem(t) \/ LoopEnds(t) \/ ItemReturns(t)
  \/ HandlerReturns(t) \/ HandlerRaises(t)
  \/ \E n \in Names : CallWorkflow(t, n) \/ RefuseCall(t, n)
  \/ CallReturns(t) \/ PassOn(t)

Next == \E t \in Thread : ThreadStep(t)

Spec == Init /\ [][Next]_vars

\* Threads are scheduled and handlers return; no step has to time out.
FairSpec == Spec /\ \A t \in Thread : WF_vars(ThreadStep(t))

-----------------------------------------------------------------------------
(* Properties *)

FrameOK(f) ==
  CASE f.kind = "workflow" -> /\ f.name \in Names /\ f.dict \in DOMAIN dicts
                              /\ f.pc \in 1..Len(program[f.name]) + 1
    [] f.kind = "handler"  -> /\ f.step \in Step /\ f.dict \in DOMAIN dicts
                              /\ f.target \in Names \cup {None} /\ f.saved \in Seq(Names)
    [] f.kind = "loop"     -> /\ f.step \in Step /\ f.dict \in DOMAIN dicts
                              /\ f.left \in 0..MaxItems

TypeOK ==
  /\ DOMAIN program = Names
  /\ dicts \in Seq(Seq(Names))
  /\ \A t \in Thread :
       /\ \A i \in DOMAIN frames[t] : FrameOK(frames[t][i])
       /\ frames[t] = <<>> <=> doing[t] \in {"ended", "free"}
       /\ doing[t] \in {"run", "join", "return", "raise", "ended", "free"}
       /\ doing[t] = "return" => value[t] \in DOMAIN dicts
       /\ error[t] # NoError <=> (doing[t] = "raise" \/ (doing[t] = "ended" /\ value[t] = 0))
       /\ Range(awaits[t]) \subseteq Thread
  /\ timeouts \in 0..MaxTimeouts /\ leaked \in BOOLEAN

\* "Cycle detection: track the active call stack in ctx.data": what the
\* dictionary of a running thread says is the chain of calls it runs in, through
\* loops, parallel copies, threads of timed steps and handled errors, as long as
\* no sub-workflow has failed and no thread was abandoned.
StackIsTrue ==
  ~leaked /\ timeouts = 0 =>
    \A t \in Thread :
      /\ doing[t] = "run" => dicts[Inner(t).dict] = ActiveCalls(t)
      /\ doing[t] = "ended" /\ error[t] = NoError => dicts[value[t]] = ActiveCalls(t)

\* "circular references are caught": no workflow is called while a call of it
\* is active, however sub-workflows fail, unless a step has timed out.  Its
\* abandoned thread takes names off the stack of the others.
CallsDoNotNest ==
  timeouts = 0 => \A t \in Thread : IsInjective(ActiveCalls(t))

\* The call stack that the cycle detection relies on, and what comes of it.
CallsAreTracked == StackIsTrue /\ CallsDoNotNest

\* "If the error workflow also fails, the original exception is raised": no
\* exception leaves the handling of the error during which it was raised, so
\* what the worker sees, and decides about retries from, is the error of a step
\* and never one of an error workflow.
OriginalErrorIsRaised ==
  \A t \in Thread : error[t] # NoError => error[t].under = HandledBy(t)

\* Every execution ends, whichever workflows call each other and name each other
\* for errors, and no abandoned thread stays.
Terminates ==
  <>(doing[Main] = "ended" /\ \A t \in Thread \ {Main} : doing[t] = "free")
=============================================================================
