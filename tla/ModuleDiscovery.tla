--------------------------- MODULE ModuleDiscovery ---------------------------
(***************************************************************************)
(* Which module serves a step type: modules/discovery.py, which merges the *)
(* modules of the package with those of the external directory, and        *)
(* workflows/registry.py, which maps step types and aliases to them.  A    *)
(* module is a record of its type, its aliases and its safety; the order   *)
(* of a sequence is the order of registration, and NoModule stands in it   *)
(* for a file that gives no module, or one that is left out.               *)
(***************************************************************************)
EXTENDS Naturals, Sequences, FiniteSets, FiniteSetsExt

CONSTANTS
  StepTypes,  \* step types and aliases
  Builtins,   \* the modules of the package, sorted by category and file name
  NoModule

\* The modules of the package have a step type each.
ASSUME BuiltinsAssumption ==
  /\ Builtins \in Seq({Builtins[i] : i \in DOMAIN Builtins})
  /\ \A i \in DOMAIN Builtins : Builtins[i] # NoModule
  /\ \A i, j \in DOMAIN Builtins : Builtins[i].type = Builtins[j].type => i = j

\* discover_external_modules passes over a file that cannot be imported, that
\* exports no MODULE or one of no category.
Given(specs) == {i \in DOMAIN specs : specs[i] # NoModule}

OfType(specs, t) == {i \in Given(specs) : specs[i].type = t}
Types(specs)     == {specs[i].type : i \in Given(specs)}

\* next(s for s in specs if s.step_type == t)
FirstOf(specs, t) == specs[Min(OfType(specs, t))]

\* builtin_by_type keeps the last one.
LastOf(specs, t) == specs[Max(OfType(specs, t))]

\* Types of the package that an external module may not take, because the
\* module of the package is for trusted workflows only and the other is not.
Blocked(external) ==
  {t \in Types(Builtins) \cap Types(external) :
     LastOf(Builtins, t).safety = "trusted_only" /\ FirstOf(external, t).safety # "trusted_only"}

\* The modules but for those of the given types.
Without(specs, types) ==
  [i \in DOMAIN specs |-> IF i \in Given(specs) /\ specs[i].type \in types THEN NoModule ELSE specs[i]]

\* Mutation: the modules of the package come last.
Discovered_BuiltinsLast(external) == Without(external, Blocked(external)) \o Builtins

\* discover_modules: an external module replaces the modules of its type.
Discovered(external) ==
  Without(Builtins, Types(external) \ Blocked(external)) \o Without(external, Blocked(external))

-----------------------------------------------------------------------------
Claims(specs, t) == {i \in Given(specs) : t = specs[i].type \/ t \in specs[i].aliases}

\* The module that a name is registered for: the last one that claims it.
Server(specs, t) == specs[Max(Claims(specs, t))]

\* build_registry registers each module for its step type and its aliases.
BuildRegistry(external) ==
  LET specs == Discovered(external) IN
  [t \in StepTypes |-> IF Claims(specs, t) = {} THEN NoModule ELSE Server(specs, t)]

-----------------------------------------------------------------------------
\* A step type that nothing else takes as an alias is served by a module of
\* that type, if there is one: the external one, unless the module of the
\* package is for trusted workflows only and the first external one is not.
\* Which of several external ones is another matter: the last one.
TypesAreServed(external) ==
  LET Of(t, specs) == {specs[i] : i \in OfType(specs, t)}
      IsAlias(t)   == \E specs \in {Builtins, external} : \E i \in Given(specs) : t \in specs[i].aliases
  IN  \A t \in StepTypes : ~IsAlias(t) =>
        LET server == BuildRegistry(external)[t]
            strict == \E m \in Of(t, Builtins) : m.safety = "trusted_only"
        IN  IF Of(t, Builtins) \cup Of(t, external) = {} THEN server = NoModule
            ELSE IF Of(t, external) = {} \/ (strict /\ FirstOf(external, t).safety # "trusted_only")
                 THEN server \in Of(t, Builtins)
                 ELSE server \in Of(t, external)
=============================================================================
