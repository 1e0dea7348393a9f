---------------------------- MODULE MCDefinitions ----------------------------
(* Model checking HotReload, and the definitions of the other modules. *)
EXTENDS HotReload, ModuleDiscovery, TextChunks, WorkflowFiles,
        WorkflowValidation, WhenExpressions

CONSTANTS s1, md, NoQuestion

MCStems == {s1}
MCOtherFiles == {md}

Always == <<Any, Any, Any, Any, Any>>
Odd == <<FromTo(1, 1), Any, Any, Any, Any>>
MCMoment(m) == <<m, 12, 1, 1, 1>>

Doc(n, w, wf) == [name |-> n, when |-> w, workflow |-> wf, enabled |-> TRUE]
Scheduled == Doc("a", [kind |-> "schedule", schedule |-> Always], "w1")
Interval  == Doc("b", [kind |-> "interval", minutes |-> 2], "w1")
Other     == Doc("a", [kind |-> "interval", minutes |-> 2], "w1")
Timeless  == Doc("b", [kind |-> "none"], "w1")
Disabled(d) == [d EXCEPT !.enabled = FALSE]
MCDocuments == {Scheduled, Interval, Other, Timeless, Disabled(Scheduled)}

MCStepTypes == {"fetch", "shell", "extra"}
MCBuiltins == <<[type |-> "fetch", aliases |-> {}, safety |-> "safe"],
                [type |-> "shell", aliases |-> {}, safety |-> "trusted_only"]>>

\* Up to two files, the one for a type that is restricted, the other an alias.
MCExternals ==
  LET files == [type : {"fetch", "shell"}, aliases : {{}, {"extra"}}, safety : {"safe", "trusted_only"}]
                 \cup {NoModule}
  IN  UNION {[1 .. n -> files] : n \in 0 .. 2}

Scenario(yaml, yml, m, e, b, f) ==
  [files |-> [p \in Paths |-> IF p = <<s1, "yaml">> THEN yaml ELSE IF p = <<s1, "yml">> THEN yml ELSE Absent],
   minutes |-> m, edits |-> e, bodies |-> b, faults |-> f]

\* No worker and no files: for the states that ask a question.
Idle == Scenario(Absent, Absent, 0, 0, {}, 0)

\* Any edit, with a fault; two edits; time and faults without an edit; an edit
\* while time passes; files that come and go; and files that nothing can read.
MCScenarios ==
  {Idle,
   Scenario(Scheduled, Absent, 0, 1, {Scheduled, Interval, Timeless, Broken, Unreadable}, 1),
   Scenario(Scheduled, Absent, 0, 2, {Disabled(Scheduled)}, 0),
   Scenario(Scheduled, Scheduled, 2, 0, {}, 1),
   Scenario(Interval, Absent, 3, 0, {}, 2),
   Scenario(Scheduled, Absent, 1, 1, {Scheduled, Other}, 0),
   Scenario(Interval, Absent, 2, 1, {Interval}, 0),
   Scenario(Timeless, Absent, 0, 3, {Broken}, 0),
   Scenario(Absent, Absent, 0, 3, {Timeless}, 0),
   Scenario(Scheduled, Absent, 0, 3, {Unreadable}, 0),
   Scenario(Unreadable, Scheduled, 0, 2, {Scheduled}, 0)}

-----------------------------------------------------------------------------
(* Questions to the definitions that have no state: what is asked *)

\* Fields at the ends of what a position allows, and beyond them.
MCItems(i) ==
  LET numbers == {-1, 0, 1, 2, 6, 7, MaxVals[i], MaxVals[i] + 1}
  IN  {Any, Text} \cup {Step(n) : n \in {0, 1, 2, 5, 15}}
        \cup {Number(n) : n \in numbers} \cup {FromTo(m, n) : m, n \in numbers}
        \cup {NameOf(n) : n \in {0, 1, 6, 7}} \cup {Stepped(m, n, 2) : m, n \in {0, 1, 5, 7}}

FieldQuestions == UNION {[asks : {"field"}, at : {i}, item : MCItems(i)] : i \in Positions}

ModuleQuestions == [asks : {"modules"}, external : MCExternals]

\* Every text of up to five characters.
TextQuestions == [asks : {"text"}, text : UNION {[1 .. n -> {"c", ".", " ", "n"}] : n \in 0 .. 5}]
MCSizes == {0, 1, 3, 4}
MCOverlaps == {0, 1, 3}

MCWorkflowNames == {"a", "new"}
MCSorted == <<<<"a", "yaml">>, <<"a", "yml">>, <<"new", "yaml">>, <<"new", "yml">>>>
FileQuestions == [asks : {"files"}, dir : Dirs]

ModuleSpec(safety, network, reads, input, writes, sometimes, nested) ==
  [safety |-> safety, network |-> network, reads |-> reads, inputKey |-> input,
   writes |-> writes, sometimes |-> sometimes, nested |-> nested]
MCSpecs == [fetch |-> ModuleSpec("safe", TRUE, {"source"}, NoKey, {"text", "name"}, {"name"}, FALSE),
            llm   |-> ModuleSpec("safe", FALSE, {"text"}, "text", {"out"}, {}, FALSE),
            send  |-> ModuleSpec("trusted_only", FALSE, {"out", "name"}, "out", {}, {}, FALSE),
            call  |-> ModuleSpec("safe", FALSE, {}, NoKey, {}, {}, TRUE),
            old   |-> NoSpec]

\* At most one of a guard, on_error and a list, one by one or in parallel.
Ways == {way \in [when : BOOLEAN, onError : BOOLEAN, foreach : {"no", "sequential", "parallel"}] :
           \/ way.foreach = "no" /\ ~(way.when /\ way.onError)
           \/ ~way.when /\ ~way.onError}
Once == [when |-> FALSE, onError |-> FALSE, foreach |-> "no"]
AsIs == {<<>>}
StepsOf(types, inputs, outputs, ways, timeouts) ==
  {[type |-> s.type, inputs |-> s.inputs, outputs |-> s.outputs, timeout |-> s.timeout,
    when |-> s.way.when, onError |-> s.way.onError, foreach |-> s.way.foreach] :
     s \in [type : types, inputs : inputs, outputs : outputs, way : ways, timeout : timeouts]}

\* Two steps whose types, timeouts and safety are of any kind; two with options
\* that rename keys; and three, of which the last one looks for what is there.
MCWorkflows ==
  LET typed == StepsOf(DOMAIN MCSpecs \cup {"unknown"}, AsIs, AsIs, {Once}, BOOLEAN)
      renaming == StepsOf({"fetch"}, AsIs, {<<>>, [text |-> "out"], [voice |-> "extra"]}, Ways, {FALSE})
                    \cup StepsOf({"llm"}, {<<>>, [text |-> "_item"], [text |-> "extra"], [text |-> "source"]},
                                 {<<>>, [out |-> "_item"]}, Ways, {FALSE})
                    \cup StepsOf({"send"}, {<<>>, [name |-> "extra"], [out |-> "_index"]}, AsIs,
                                 Ways, {FALSE})
      plain == StepsOf({"fetch", "llm", "call"}, AsIs, AsIs, Ways, {FALSE})
                 \cup StepsOf({"llm"}, AsIs, {[out |-> "_item"]}, {Once}, {FALSE})
      last  == StepsOf({"llm"}, {<<>>, [text |-> "_item"]}, AsIs, Ways, {FALSE})
                 \cup StepsOf({"send"}, AsIs, AsIs, Ways, {FALSE})
  IN  [1 .. 2 -> typed] \cup [1 .. 2 -> renaming]
        \cup {<<s, t, u>> : s, t \in plain, u \in last}
WorkflowQuestions == [asks : {"workflow"}, workflow : MCWorkflows]

\* Numbers, a string, a list and a name that may be missing.
MCAtoms == {KeyName("x"), KeyName("y"), Const(Value("num", 1)), Const(Value("str", 0)),
            List(<<KeyName("x"), Const(Value("str", 1))>>)}
MCContexts == {[x |-> Value("num", 0)], [x |-> Value("num", 2), y |-> Value("num", 1)],
               [x |-> Value("str", 1), y |-> ListAt(0, <<Value("str", 1)>>)]}

\* Among them expressions that fail on most values, and some that are not safe.
MCExpressions ==
  MCAtoms \cup {Minus(e) : e \in MCAtoms} \cup {Plus(KeyName("x")), Invert(KeyName("x"))}
    \cup {Unsafe(e) : e \in MCAtoms}
    \cup {Compare(e, cmp, f) : e, f \in MCAtoms, cmp \in {"eq", "is", "lt", "in"}}
MCOperands == MCAtoms \cup {Minus(KeyName("x")), Invert(KeyName("x")), Unsafe(Const(None))}
GuardQuestions == [asks : {"guard"}, e : MCExpressions, f : MCOperands]

VARIABLE question  \* what is asked of the definitions; NoQuestion beside a worker

Asks(kind) == question # NoQuestion /\ question.asks = kind

MCInit ==
  /\ Init
  /\ IF bound = Idle
     THEN question \in FieldQuestions \cup ModuleQuestions \cup TextQuestions
                         \cup FileQuestions \cup WorkflowQuestions \cup GuardQuestions
     ELSE question = NoQuestion

MCNext == question = NoQuestion /\ Next /\ UNCHANGED question

MCSpec == MCInit /\ [][MCNext]_<<vars, question>> /\ Fairness

-----------------------------------------------------------------------------
(* Properties: what each answer must be *)

\* Every item and every list of two items matches the values that crontab(5)
\* says, but for the departures that are named (_matches_field).
FieldsAgree ==
  Asks("field") =>
    LET i == question.at  item == question.item IN
    /\ FieldAgrees(i, item)
    /\ \A other \in MCItems(i) : FieldAgrees(i, ListOf(<<item, other>>))

\* Whatever files an external directory holds: a step type that nothing takes as
\* an alias is served by a module of that type; by an external one, unless the
\* module of the package is restricted and the first external one is not
\* (discover_modules, build_registry).  That a restricted type stays restricted,
\* as modules/discovery.py:106 says, is false of aliases and of a second module.
ModulesServeTheirTypes == Asks("modules") => TypesAreServed(question.external)

\* However a text is cut, for a summary (_split_into_chunks) or by a step
\* (transform.text_split), no part of it is left out or too long.
TextsAreKept ==
  Asks("text") =>
    LET text == question.text
        stripped == text # <<>> /\ ~IsBlank(text, 0) /\ ~IsBlank(text, Len(text) - 1)
    IN  \A size \in MCSizes, overlap \in MCOverlaps :
          /\ NoTextIsSkipped(text, size, overlap)
          /\ stripped => StepKeepsTheText(text, size, overlap)

\* Listing, run, editor and delete agree about what a name stands for, in every
\* directory of two names and two extensions (list_workflows, load_workflow).
NamesAreResolved ==
  Asks("files") =>
    /\ \A n \in WorkflowNames, strict \in BOOLEAN : ListedIsLoaded(question.dir, n, strict)
    /\ \A w \in Workflows : SavedIsRun(question.dir, w)

\* What validate_workflow accepts, the engine does not refuse half way, and its
\* warnings are about the keys that the steps will miss.
ValidationIsTrue ==
  Asks("workflow") =>
    LET wf == question.workflow IN
    /\ \A mode \in {"trusted", "untrusted"} : ValidIsNotRefused(wf, mode)
    /\ (\A i \in DOMAIN wf : HasSpec(wf[i])) => WarningsAreRight(wf)

\* Guards branch: of a step and its negation one runs, and expressions obey the
\* laws of logic, whatever the context holds (evaluate_when).
GuardsBranch ==
  Asks("guard") =>
    \A data \in MCContexts, safety \in {"safe", "trusted_only"} :
      /\ OneBranchRuns(question.e, question.f, data, safety)
      /\ LawsOfGuards(question.e, question.f, data, safety)
      /\ \A g \in MCAtoms : ChainsAreConjunctions(question.e, question.f, g, data, safety)
=============================================================================
