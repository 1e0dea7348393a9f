------------------------- MODULE WorkflowValidation -------------------------
(***************************************************************************)
(* validate_workflow of workflows/validation.py, which looks at a workflow *)
(* before it is queued or run, against what workflows/engine.py then does: *)
(* _enforce_step_safety and the refusal of timeouts, and the context that  *)
(* the steps find when they run one after the other.                       *)
(*   A step has a type, its options (when, on_error, foreach with or       *)
(* without `parallel`, timeout), and the keys that its configuration names *)
(* instead of the default ones: inputs and outputs are functions from a    *)
(* default key to the key configured (input_key, filename_key, text_key,   *)
(* output_key).  An output option that is the name of no declared key adds *)
(* a key (transcript, of whisper_transcribe).                              *)
(*   A spec says which of its declared keys the handler writes only        *)
(* sometimes (the display_name of a feed without title), and whether the   *)
(* handler runs another workflow (meta.subworkflow, meta.branch), which    *)
(* may write any key.  "source" stands for all that is not in the context: *)
(* the source, and the runtime flags.  Left out: keys in the text of a     *)
(* prompt or of a guard, which validation does not look at; the warnings   *)
(* that a guard, a foreach and an on_error always give.                    *)
(***************************************************************************)
EXTENDS Naturals, Sequences, FiniteSets

CONSTANTS
  Specs,  \* the spec of each step type that is registered; NoSpec if none
  NoSpec,
  NoKey   \* the module has no such option

Initially == {"workflow_name", "runtime"}
ForeachKeys == {"_item", "_index"}

Known(step) == step.type \in DOMAIN Specs
HasSpec(step) == Known(step) /\ Specs[step.type] # NoSpec
SpecOf(step) == Specs[step.type]

\* A default key, or what the step calls it.
KeyFor(names, k) == IF k \in DOMAIN names THEN names[k] ELSE k

\* Mutation: the keys are those of the module, whatever the step says.
EffectiveReads_Default(step) == SpecOf(step).reads

\* Of the options that name a key, validation knows input_key.
EffectiveReads(step) ==
  {IF k = SpecOf(step).inputKey THEN KeyFor(step.inputs, k) ELSE k : k \in SpecOf(step).reads}

\* The keys that validation takes for available after a step.
Promised(step) ==
  SpecOf(step).writes \cup (IF step.foreach # "no" THEN ForeachKeys ELSE {})

\* available_keys before the step i.
Available(wf, i) == Initially \cup UNION {Promised(wf[j]) : j \in {n \in 1 .. i - 1 : HasSpec(wf[n])}}

Restricted(step) == SpecOf(step).safety = "trusted_only" \/ SpecOf(step).network

\* The warnings that a key may not be available.
Missing(wf) ==
  {p \in UNION {{i} \X EffectiveReads(wf[i]) : i \in {j \in DOMAIN wf : HasSpec(wf[j])}} :
     p[2] # "source" /\ p[2] \notin Available(wf, p[1])}

\* Mutation: the network is not looked at.
Errors_SafetyOnly(wf, mode) ==
  {i \in DOMAIN wf : \/ ~Known(wf[i])
                     \/ HasSpec(wf[i]) /\ mode = "untrusted" /\ SpecOf(wf[i]).safety = "trusted_only"
                     \/ HasSpec(wf[i]) /\ wf[i].timeout /\ Restricted(wf[i])}

\* The steps with an error.
Errors(wf, mode) ==
  {i \in DOMAIN wf : \/ ~Known(wf[i])
                     \/ HasSpec(wf[i]) /\ mode = "untrusted" /\ Restricted(wf[i])
                     \/ HasSpec(wf[i]) /\ wf[i].timeout /\ Restricted(wf[i])}

Valid(wf, mode) == Errors(wf, mode) = {}

-----------------------------------------------------------------------------
\* What the engine refuses at a step: _enforce_step_safety, and a timeout that
\* it could not enforce.
Refused(step, mode) ==
  IF HasSpec(step)
  THEN (mode = "untrusted" \/ step.timeout) /\ Restricted(step)
  ELSE mode = "untrusted"

\* The keys that a handler looks for, and those that it leaves in any case.
ReadBy(step) == {KeyFor(step.inputs, k) : k \in SpecOf(step).reads \ {"source"}}
WrittenBy(step) ==
  {KeyFor(step.outputs, k) : k \in SpecOf(step).writes \ SpecOf(step).sometimes}
    \cup {step.outputs[k] : k \in DOMAIN step.outputs}

\* Nothing keeps the handler from running to its end, once, if the workflow goes
\* on: no guard, no list that may be empty, no failure that on_error handles.
RunsOnce(step) == ~step.when /\ step.foreach = "no" /\ ~step.onError

\* What a step may do to a key: nothing; or remove it, if it is an item of a list:
\* a parallel foreach does, here or in the workflow that the step runs.
MayKeep(step, k) == ~RunsOnce(step) \/ k \notin WrittenBy(step)
MayDrop(step, k) ==
  k \in ForeachKeys /\ (step.foreach = "parallel" \/ step.onError \/ SpecOf(step).nested)

\* Some run finds no k at the step i: none was written since the start, or since
\* a step that removed it.
MayMiss(wf, i, k) ==
  /\ k \notin Initially
  /\ ~(k \in ForeachKeys /\ wf[i].foreach # "no")
  /\ \E n \in 0 .. i - 1 : /\ n > 0 => MayDrop(wf[n], k)
                           /\ \A j \in n + 1 .. i - 1 : MayKeep(wf[j], k)

\* A workflow that passes validation is not stopped by the engine half way,
\* after some of its steps have had their effects, unless a step type has a
\* handler and no spec.
ValidIsNotRefused(wf, mode) ==
  Valid(wf, mode) =>
    \A i \in DOMAIN wf : Refused(wf[i], mode) => ~HasSpec(wf[i]) /\ mode = "untrusted"

\* The reasons why a step may miss a key without a warning: an option that
\* validation does not know names it, or it is called "source"; or an earlier
\* step that was to write it does not always run, or writes it only sometimes or
\* under another name.
MissedUnseen(wf, i, k) ==
  \/ k = "source"
  \/ \E d \in DOMAIN wf[i].inputs \ {SpecOf(wf[i]).inputKey} : wf[i].inputs[d] = k
  \/ \E j \in 1 .. i - 1 :
       /\ k \in Promised(wf[j])
       /\ ~RunsOnce(wf[j]) \/ k \in SpecOf(wf[j]).sometimes \cup DOMAIN wf[j].outputs

\* The reasons why a warning is wrong: the step looks for another key, has the
\* item of its own list, or an earlier step gives a result that name, which no
\* step after it may remove.
WarnedInVain(wf, i, k) ==
  \/ k \in DOMAIN wf[i].inputs \ {SpecOf(wf[i]).inputKey}
  \/ k \in ForeachKeys /\ wf[i].foreach # "no"
  \/ \E j \in 1 .. i - 1 : /\ RunsOnce(wf[j])
                           /\ \E d \in DOMAIN wf[j].outputs : wf[j].outputs[d] = k
                           /\ \A m \in j + 1 .. i - 1 : ~MayDrop(wf[m], k)

\* In a workflow that is started by itself, a step that may not find a key that
\* it looks for is warned about, and a warning is about such a key, but for the
\* named reasons.
WarningsAreRight(wf) ==
  \A i \in DOMAIN wf :
    /\ \A k \in ReadBy(wf[i]) :
         MayMiss(wf, i, k) => <<i, k>> \in Missing(wf) \/ MissedUnseen(wf, i, k)
    /\ \A k \in EffectiveReads(wf[i]) :
         <<i, k>> \in Missing(wf) =>
           (k \in ReadBy(wf[i]) /\ MayMiss(wf, i, k)) \/ WarnedInVain(wf, i, k)
=============================================================================
