-------------------------- MODULE HotReloadProofs --------------------------
(***************************************************************************)
(* Theorems about HotReload and the schedules it composes: that a field    *)
(* means what crontab(5) says, for steps of any size and lists of any      *)
(* length; how often and when a trigger fires; and that a worker follows   *)
(* the files.                                                              *)
(*                                                                         *)
(* The invariant is in two halves. What threads do rests on the files only *)
(* in that a thread is live while it is listed or was stopped, and has a   *)
(* trigger document; what the worker has loaded rests on the threads only  *)
(* in that none of them changes its document.                              *)
(***************************************************************************)
EXTENDS HotReload, ModuleDiscovery, FiniteSetTheorems, WellFoundedInduction, TLAPS

-----------------------------------------------------------------------------
(* What a field means *)

\* What a field, or an item of a list, can be written as.
Item ==
  [kind: {"any", "text"}] \cup [kind: {"step"}, of: Nat]
    \cup [kind: {"range"}, from: Nat, to: Nat] \cup [kind: {"number", "name"}, is: Nat]
    \cup [kind: {"stepped"}, from: Nat, to: Nat, of: Nat]

Field == Item \cup [kind: {"list"}, items: Seq(Item) \ {<< >>}]

\* The values of a field that an item denotes alone.
Means(i, item, v) ==
  IF i = Weekday THEN \E n \in Named(i, item) : v = n % 7 ELSE v \in Named(i, item)

\* The bounds of each position, once for all the steps below.
LEMMA Bounds ==
  ASSUME NEW i \in Positions
  PROVE  /\ i # Weekday => Numbers(i) = Values(i)
         /\ i = Weekday => First[i] = 0 /\ Numbers(i) = 0..7 /\ Values(i) = 0..6
         /\ First[i] \in {0, 1} /\ MaxVals[i] \in Nat
         /\ Numbers(i) = First[i]..MaxVals[i]
BY DEF Positions, Weekday, First, MaxVals, Numbers, Values

\* A range of weekdays that ends in Sunday goes over the end of the week.
LEMMA RangeAgrees ==
  ASSUME NEW i \in Positions, NEW f \in [kind: {"range"}, from: Nat, to: Nat],
         {f.from, f.to} \subseteq Numbers(i), f.from <= f.to,
         ~(i = Weekday /\ f = FromTo(0, 7)),
         NEW v \in Values(i)
  PROVE  InRange(i, f, v) <=> Means(i, f, v)
<1>1. Named(i, f) = f.from..f.to
  <2>1. Named(i, f) = {n \in Numbers(i) : f.from <= n /\ n <= f.to}
    BY DEF Named
  <2>2. f.from \in First[i]..MaxVals[i] /\ f.to \in First[i]..MaxVals[i]
    BY Bounds
  <2> QED BY <2>1, <2>2, Bounds
<1>2. CASE i # Weekday
  <2>1. v \in Int
    BY <1>2, Bounds
  <2> QED BY <1>1, <1>2, <2>1 DEF InRange, ParseNum, Means
<1>3. CASE i = Weekday
  <2>1. f.from \in 0..7 /\ f.to \in 0..7 /\ v \in 0..6
    BY <1>3, Bounds
  <2>2. ~(f.from = 0 /\ f.to = 7)
    BY <1>3 DEF FromTo
  <2>3. Means(i, f, v) <=> \E n \in f.from..f.to : v = n % 7
    BY <1>1, <1>3 DEF Means
  <2>4. (\E n \in f.from..f.to : v = n % 7) <=> (v \in f.from..f.to \/ (v = 0 /\ f.to = 7))
    <3>1. \A n \in 0..7 : n % 7 = IF n = 7 THEN 0 ELSE n
      OBVIOUS
    <3> QED BY <2>1, <3>1
  <2>5. InRange(i, f, v) <=> (v \in f.from..f.to \/ (v = 0 /\ f.to = 7))
    BY <1>3, <2>1, <2>2 DEF InRange, ParseNum
  <2> QED BY <2>3, <2>4, <2>5
<1> QED BY <1>2, <1>3

\* An item that crontab(5) has a meaning for matches what it means.
LEMMA ItemAgrees ==
  ASSUME NEW i \in Positions, NEW f \in Item, WellFormed(i, f), ~Departs(i, f),
         NEW v \in Values(i)
  PROVE  ItemMatches(i, f, v) <=> Means(i, f, v)
<1>0. Items(f) = {f}
  BY DEF Items, Item
<1>1. CASE f \in [kind: {"any", "text"}]
  <2>1. f.kind = "any"
    BY <1>0, <1>1 DEF WellFormed
  <2>2. Named(i, f) = Numbers(i)
    BY <2>1 DEF Named
  <2>3. CASE i = Weekday
    <3>1. v \in Numbers(i) /\ v = v % 7
      BY <2>3, Bounds
    <3> QED BY <2>1, <2>2, <2>3, <3>1 DEF ItemMatches, Means
  <2>4. CASE i # Weekday
    BY <2>1, <2>2, <2>4, Bounds DEF ItemMatches, Means
  <2> QED BY <2>3, <2>4
<1>2. CASE f \in [kind: {"step"}, of: Nat]
  <2>1. f.of > 0 /\ (f.of = 1 \/ First[i] = 0)
    BY <1>0, <1>2, Bounds DEF WellFormed, Departs
  <2>2. Named(i, f) = {n \in Numbers(i) : (n - First[i]) % f.of = 0}
    BY <1>2, <2>1 DEF Named
  <2>3. ItemMatches(i, f, v) <=> v % f.of = 0
    BY <1>2, <2>1 DEF ItemMatches
  <2>4. \A n \in Numbers(i) : (n - First[i]) % f.of = 0 <=> n % f.of = 0
    <3>1. CASE f.of = 1
      BY <3>1, Bounds
    <3>2. CASE First[i] = 0
      BY <1>2, <3>2, Bounds
    <3> QED BY <2>1, <3>1, <3>2
  <2>5. CASE i # Weekday
    BY <2>2, <2>3, <2>4, <2>5, Bounds DEF Means
  <2>6. CASE i = Weekday
    <3>1. v \in 0..6 /\ Numbers(i) = 0..7
      BY <2>6, Bounds
    <3>2. \A n \in 0..7 : n % 7 = IF n = 7 THEN 0 ELSE n
      OBVIOUS
    <3>3. 0 % f.of = 0
      BY <1>2, <2>1
    <3>4. Means(i, f, v) <=> \E n \in 0..7 : n % f.of = 0 /\ v = n % 7
      BY <2>2, <2>4, <2>6, <3>1 DEF Means
    <3>5. (\E n \in 0..7 : n % f.of = 0 /\ v = n % 7) <=> v % f.of = 0
      BY <3>1, <3>2, <3>3
    <3> QED BY <2>3, <3>4, <3>5
  <2> QED BY <2>5, <2>6
<1>3. CASE f \in [kind: {"range"}, from: Nat, to: Nat]
  <2>1. {f.from, f.to} \subseteq Numbers(i) /\ f.from <= f.to
    BY <1>0, <1>3 DEF WellFormed
  <2>2. ~(i = Weekday /\ f = FromTo(0, 7))
    BY <1>0 DEF Departs
  <2>3. ItemMatches(i, f, v) <=> InRange(i, f, v)
    BY <1>3 DEF ItemMatches
  <2> QED BY <1>3, <2>1, <2>2, <2>3, RangeAgrees
<1>4. CASE f \in [kind: {"number"}, is: Nat]
  <2>1. f.is \in Numbers(i) /\ Named(i, f) = {f.is}
    BY <1>0, <1>4 DEF WellFormed, Named
  <2>2. ItemMatches(i, f, v) <=> ParseNum(i, f.is) \in 0..MaxVals[i] /\ ParseNum(i, f.is) = v
    BY <1>4 DEF ItemMatches
  <2>3. CASE i # Weekday
    BY <2>1, <2>2, <2>3, Bounds DEF Means, ParseNum
  <2>4. CASE i = Weekday
    <3>1. f.is \in 0..7 /\ v \in 0..6 /\ MaxVals[i] = 7
      BY <2>1, <2>4, Bounds DEF MaxVals, Weekday
    <3>2. f.is % 7 = IF f.is = 7 THEN 0 ELSE f.is
      BY <3>1
    <3>3. Means(i, f, v) <=> v = f.is % 7
      BY <2>1, <2>4 DEF Means
    <3> QED BY <2>2, <2>4, <3>1, <3>2, <3>3 DEF ParseNum
  <2> QED BY <2>3, <2>4
<1>5. f.kind \notin {"stepped", "name"}
  BY <1>0 DEF Departs
<1> QED BY <1>1, <1>2, <1>3, <1>4, <1>5 DEF Item

\* A field is made of items, and matches what they match, one by one.
LEMMA ItemsOfField ==
  ASSUME NEW f \in Field
  PROVE  Items(f) \subseteq Item
<1>1. CASE f \in Item
  BY <1>1 DEF Items, Item
<1>2. CASE f \in [kind: {"list"}, items: Seq(Item) \ {<< >>}]
  BY <1>2 DEF Items
<1> QED BY <1>1, <1>2 DEF Field

LEMMA FieldOfItems ==
  ASSUME NEW i \in Positions, NEW f \in Field, ~Departs(i, f), NEW v \in Values(i)
  PROVE  FieldMatches(i, f, v) <=> \E item \in Items(f) : ItemMatches(i, item, v)
BY DEF FieldMatches, Items, Departs

\* Every field that crontab(5) has a meaning for, and that is not one of the
\* named departures, matches exactly the values it means (_matches_field).
THEOREM FieldsMeanCrontab ==
  ASSUME NEW i \in Positions, NEW f \in Field
  PROVE  FieldAgrees(i, f)
<1> SUFFICES ASSUME WellFormed(i, f), ~Departs(i, f)
             PROVE  {v \in Values(i) : FieldMatches(i, f, v)} = Denoted(i, f)
  BY DEF FieldAgrees
<1>1. ASSUME NEW v \in Values(i)
      PROVE  FieldMatches(i, f, v) <=> \E item \in Items(f) : Means(i, item, v)
  <2>1. ASSUME NEW item \in Items(f)
        PROVE  ItemMatches(i, item, v) <=> Means(i, item, v)
    <3>1. item \in Item
      BY ItemsOfField
    <3>2. Items(item) = {item}
      BY <3>1 DEF Items, Item
    <3>3. WellFormed(i, item)
      BY <3>2 DEF WellFormed
    <3>4. ~Departs(i, item)
      BY <3>1, <3>2 DEF Departs, Item
    <3> QED BY <3>1, <3>3, <3>4, ItemAgrees
  <2> QED BY <2>1, FieldOfItems
<1>2. ASSUME NEW v
      PROVE  v \in Denoted(i, f) <=> \E item \in Items(f) : Means(i, item, v)
  BY DEF Denoted, Means
<1>3. ASSUME NEW v, NEW item \in Items(f), Means(i, item, v)
      PROVE  v \in Values(i)
  <2>1. item \in Item
    BY ItemsOfField
  <2>2. Named(i, item) \subseteq Numbers(i)
    BY <2>1, Bounds DEF Named, WellFormed, Item
  <2> QED BY <1>3, <2>2, Bounds DEF Means
<1> QED BY <1>1, <1>2, <1>3

-----------------------------------------------------------------------------
(* Which module serves a step type *)

\* The order of the numbers, as a set of pairs.
Smaller == {p \in Nat \X Nat : p[1] < p[2]}

\* Of the positions in a sequence one is the last.
LEMMA LastPosition ==
  ASSUME NEW n \in Nat, NEW S \in SUBSET (1 .. n), S # {}
  PROVE  Max(S) \in S /\ \A i \in S : Max(S) >= i
<1> DEFINE T == {n - i : i \in S}
<1>1. T \in SUBSET Nat /\ T # {}
  <2>1. \A i \in S : n - i \in Nat
    OBVIOUS
  <2> QED BY <2>1
<1>2. IsWellFoundedOn(Smaller, Nat)
  BY NatLessThanWellFounded DEF Smaller, OpToRel
<1>3. PICK m \in T : \A i \in T : ~ (<<i, m>> \in Smaller)
  BY <1>1, <1>2, WFMin
<1>4. \A i \in T : ~(i < m) /\ i \in Nat /\ m \in Nat
  BY <1>1, <1>3 DEF Smaller
<1>5. PICK x \in S : m = n - x
  BY <1>3
<1>6. \A i \in S : n - i \in T /\ i \in Nat
  OBVIOUS
<1>7. \A i \in S : x >= i
  BY <1>4, <1>5, <1>6
<1> QED BY <1>5, <1>7 DEF Max

\* What is left of a sequence has its places.
LEMMA WhatIsLeft ==
  ASSUME NEW M, NEW specs \in Seq(M), NEW types
  PROVE  /\ Without(specs, types) \in Seq(M \cup {NoModule})
         /\ Len(Without(specs, types)) = Len(specs) /\ Len(specs) \in Nat
         /\ Given(Without(specs, types)) = {i \in Given(specs) : specs[i].type \notin types}
         /\ \A i \in Given(Without(specs, types)) : Without(specs, types)[i] = specs[i]
<1> DEFINE left == Without(specs, types)
<1>1. DOMAIN specs = 1 .. Len(specs) /\ Len(specs) \in Nat /\ \A i \in 1 .. Len(specs) : specs[i] \in M
  OBVIOUS
<1>2. left \in [1 .. Len(specs) -> M \cup {NoModule}]
  BY <1>1 DEF Without
<1>3. left \in Seq(M \cup {NoModule}) /\ Len(left) = Len(specs)
  BY <1>1, <1>2
<1>4. \A i \in 1 .. Len(specs) :
        left[i] = IF i \in Given(specs) /\ specs[i].type \in types THEN NoModule ELSE specs[i]
  BY <1>1 DEF Without
<1> HIDE DEF left
<1>5. /\ Given(left) = {i \in Given(specs) : specs[i].type \notin types}
      /\ \A i \in Given(left) : left[i] = specs[i]
  BY <1>1, <1>2, <1>4 DEF Given
<1> QED BY <1>1, <1>3, <1>5 DEF left

\* The modules of the package come first, then the external ones, each but for
\* the types that the others have.
LEMMA WhatIsDiscovered ==
  ASSUME NEW M, Builtins \in Seq(M), NEW external \in Seq(M)
  PROVE  LET found == Discovered(external)
             n     == Len(Builtins)
         IN  /\ found \in Seq(M \cup {NoModule}) /\ DOMAIN found = 1 .. Len(found)
             /\ Given(found) =
                  {i \in Given(Builtins) : Builtins[i].type \notin Types(external) \ Blocked(external)}
                  \cup {n + i : i \in {j \in Given(external) : external[j].type \notin Blocked(external)}}
             /\ \A i \in Given(found) :
                  found[i] = IF i <= n THEN Builtins[i] ELSE external[i - n]
<1> DEFINE n == Len(Builtins)
           own == Without(Builtins, Types(external) \ Blocked(external))
           more == Without(external, Blocked(external))
           found == Discovered(external)
<1>c. ASSUME NEW specs \in Seq(M), NEW types
      PROVE  /\ Without(specs, types) \in Seq(M \cup {NoModule})
             /\ Len(Without(specs, types)) = Len(specs) /\ Len(specs) \in Nat
             /\ Given(Without(specs, types)) = {i \in Given(specs) : specs[i].type \notin types}
             /\ \A i \in Given(Without(specs, types)) : Without(specs, types)[i] = specs[i]
  BY WhatIsLeft
<1>1. /\ own \in Seq(M \cup {NoModule}) /\ Len(own) = n /\ n \in Nat
      /\ Given(own) = {i \in Given(Builtins) : Builtins[i].type \notin Types(external) \ Blocked(external)}
      /\ \A i \in Given(own) : own[i] = Builtins[i]
  BY <1>c
<1>2. /\ more \in Seq(M \cup {NoModule}) /\ Len(more) = Len(external) /\ Len(external) \in Nat
      /\ Given(more) = {i \in Given(external) : external[i].type \notin Blocked(external)}
      /\ \A i \in Given(more) : more[i] = external[i]
  BY <1>c
<1>b. own \in Seq(M \cup {NoModule}) /\ more \in Seq(M \cup {NoModule})
  BY <1>1, <1>2
<1>3. found = own \o more
  BY DEF Discovered
<1> HIDE DEF own, more, found
<1>a. \A i \in 1 .. Len(more) : n + i \in 1 .. (n + Len(more)) /\ ~(n + i <= n) /\ (n + i) - n = i
  BY <1>1, <1>2
<1>4. /\ found \in Seq(M \cup {NoModule}) /\ Len(found) = n + Len(more) /\ DOMAIN found = 1 .. Len(found)
      /\ \A i \in 1 .. n : found[i] = own[i]
      /\ \A i \in 1 .. Len(more) : found[n + i] = more[i]
  <2>1. found \in Seq(M \cup {NoModule}) /\ Len(found) = n + Len(more) /\ DOMAIN found = 1 .. Len(found)
    <3>1. found \in Seq(M \cup {NoModule}) /\ Len(found) = Len(own) + Len(more)
      BY <1>b, <1>3
    <3>2. DOMAIN found = 1 .. Len(found)
      BY <3>1
    <3> QED BY <1>1, <3>1, <3>2
  <2>2. \A i \in 1 .. n : found[i] = own[i]
    BY <1>1, <1>2, <1>3
  <2>3. \A i \in 1 .. Len(more) : found[n + i] = more[i]
    BY <1>1, <1>2, <1>3, <1>a
  <2> QED BY <2>1, <2>2, <2>3
<1>5. \A i \in 1 .. Len(found) : i \in Given(found) <=>
         (i <= n /\ i \in Given(own)) \/ (i > n /\ i - n \in Given(more))
  <2> SUFFICES ASSUME NEW i \in 1 .. Len(found)
               PROVE  found[i] # NoModule <=>
                        \/ i <= n /\ i \in 1 .. n /\ own[i] # NoModule
                        \/ i > n /\ i - n \in 1 .. Len(more) /\ more[i - n] # NoModule
    <3>1. DOMAIN own = 1 .. n /\ DOMAIN more = 1 .. Len(more)
      BY <1>1, <1>b
    <3> QED BY <1>4, <3>1 DEF Given
  <2>1. CASE i <= n
    BY <1>1, <1>4, <2>1
  <2>2. CASE i > n
    <3>1. i - n \in 1 .. Len(more) /\ n + (i - n) = i
      BY <1>1, <1>2, <1>4, <2>2
    <3>2. found[i] = more[i - n]
      BY <1>4, <3>1
    <3> QED BY <2>2, <3>1, <3>2
  <2> QED BY <1>1, <2>1, <2>2
<1>6. Given(own) \subseteq 1 .. n /\ Given(more) \subseteq 1 .. Len(more)
  BY <1>1, <1>2 DEF Given
<1>7. Given(found) = Given(own) \cup {n + i : i \in Given(more)}
  <2>1. \A i \in Given(found) : i \in 1 .. Len(found)
    BY <1>4 DEF Given
  <2>2. ASSUME NEW i \in Given(found) PROVE i \in Given(own) \cup {n + j : j \in Given(more)}
    <3>1. CASE i <= n
      BY <1>1, <1>5, <2>1, <3>1
    <3>2. CASE i > n
      <4>1. i - n \in Given(more) /\ i = n + (i - n)
        BY <1>1, <1>5, <2>1, <3>2
      <4> QED BY <4>1
    <3> QED BY <1>1, <2>1, <3>1, <3>2
  <2>3. ASSUME NEW i \in Given(own) PROVE i \in Given(found)
    BY <1>1, <1>2, <1>4, <1>5, <1>6
  <2>4. ASSUME NEW j \in Given(more) PROVE n + j \in Given(found)
    <3>1. n + j \in 1 .. Len(found) /\ n + j > n /\ (n + j) - n = j
      BY <1>1, <1>2, <1>4, <1>6
    <3> QED BY <1>1, <1>5, <3>1
  <2> QED BY <2>2, <2>3, <2>4
<1>8. ASSUME NEW i \in Given(found)
      PROVE  found[i] = IF i <= n THEN Builtins[i] ELSE external[i - n]
  <2>1. i \in 1 .. Len(found)
    BY <1>4 DEF Given
  <2>2. CASE i <= n
    BY <1>1, <1>4, <1>5, <2>1, <2>2
  <2>3. CASE i > n
    <3>1. i - n \in Given(more) /\ i = n + (i - n) /\ i - n \in 1 .. Len(more)
      BY <1>1, <1>5, <1>6, <2>1, <2>3
    <3>2. found[i] = more[i - n]
      BY <1>4, <3>1
    <3> QED BY <1>1, <1>2, <2>1, <2>3, <3>1, <3>2
  <2> QED BY <1>1, <2>1, <2>2, <2>3
<1> QED BY <1>1, <1>2, <1>4, <1>7, <1>8 DEF found

\* Whatever files an external directory holds: a step type that nothing takes
\* as an alias is served by a module of that type, an external one unless that
\* would lift the restriction of the package's (discover_modules, register).
THEOREM ExternalModulesServe ==
  ASSUME NEW Files, NEW external \in Seq(Files)
  PROVE  TypesAreServed(external)
<1> DEFINE n == Len(Builtins)
           M == Files \cup {Builtins[i] : i \in DOMAIN Builtins}
           found == Discovered(external)
           Of(t, specs) == {specs[i] : i \in OfType(specs, t)}
           IsAlias(t) == \E specs \in {Builtins, external} : \E i \in Given(specs) : t \in specs[i].aliases
<1> SUFFICES ASSUME NEW t \in StepTypes, ~IsAlias(t)
             PROVE  LET server == BuildRegistry(external)[t]
                        strict == \E m \in Of(t, Builtins) : m.safety = "trusted_only"
                    IN  IF Of(t, Builtins) \cup Of(t, external) = {} THEN server = NoModule
                        ELSE IF Of(t, external) = {} \/ (strict /\ FirstOf(external, t).safety # "trusted_only")
                             THEN server \in Of(t, Builtins)
                             ELSE server \in Of(t, external)
  BY DEF TypesAreServed
<1> DEFINE server == BuildRegistry(external)[t]
<1>0. Builtins \in Seq(M) /\ external \in Seq(M)
  BY BuiltinsAssumption
<1> HIDE DEF M
<1>1. /\ found \in Seq(M \cup {NoModule}) /\ DOMAIN found = 1 .. Len(found) /\ Len(found) \in Nat
      /\ Given(found) =
           {i \in Given(Builtins) : Builtins[i].type \notin Types(external) \ Blocked(external)}
           \cup {n + i : i \in {j \in Given(external) : external[j].type \notin Blocked(external)}}
      /\ \A i \in Given(found) : found[i] = IF i <= n THEN Builtins[i] ELSE external[i - n]
  <2>1. /\ found \in Seq(M \cup {NoModule}) /\ DOMAIN found = 1 .. Len(found)
        /\ Given(found) =
             {i \in Given(Builtins) : Builtins[i].type \notin Types(external) \ Blocked(external)}
             \cup {n + i : i \in {j \in Given(external) : external[j].type \notin Blocked(external)}}
        /\ \A i \in Given(found) : found[i] = IF i <= n THEN Builtins[i] ELSE external[i - n]
    BY <1>0, WhatIsDiscovered, Zenon
  <2>2. Len(found) \in Nat
    <3> HIDE DEF found
    <3> QED BY <2>1
  <2> QED BY <2>1, <2>2, Zenon
<1> USE DEF OfType
<1>2. /\ Given(Builtins) \subseteq 1 .. n /\ n \in Nat
      /\ Given(external) \subseteq 1 .. Len(external) /\ Len(external) \in Nat
  BY <1>0 DEF Given
<1>3. server = IF Claims(found, t) = {} THEN NoModule ELSE Server(found, t)
  BY DEF BuildRegistry, found
<1> HIDE DEF found, server
<1>a. ASSUME NEW i \in Given(found)
      PROVE  \/ /\ i \in Given(Builtins) /\ found[i] = Builtins[i]
                /\ Builtins[i].type \notin Types(external) \ Blocked(external)
             \/ /\ i - n \in Given(external) /\ found[i] = external[i - n]
                /\ external[i - n].type \notin Blocked(external)
  <2>1. CASE i \in Given(Builtins) /\ Builtins[i].type \notin Types(external) \ Blocked(external)
    BY <1>1, <1>2, <2>1
  <2>2. CASE \E j \in Given(external) : i = n + j /\ external[j].type \notin Blocked(external)
    <3>1. PICK j \in Given(external) : i = n + j /\ external[j].type \notin Blocked(external)
      BY <2>2
    <3>2. j \in Nat /\ j >= 1 /\ i - n = j /\ ~(i <= n)
      BY <1>2, <3>1
    <3> QED BY <1>1, <3>1, <3>2
  <2> QED BY <1>1, <2>1, <2>2
<1>b. ASSUME NEW specs \in {Builtins, external}
      PROVE  (Of(t, specs) # {} <=> OfType(specs, t) # {}) /\ (t \in Types(specs) <=> OfType(specs, t) # {})
  BY DEF Types
<1>4. ASSUME NEW i \in Given(found)
      PROVE  \/ i \in Given(Builtins) /\ found[i] = Builtins[i]
             \/ i - n \in Given(external) /\ found[i] = external[i - n]
  BY <1>a
<1>5. Claims(found, t) = OfType(found, t)
  BY <1>4 DEF Claims
<1>6. OfType(found, t) # {} => server \in Of(t, found)
  <2> SUFFICES ASSUME OfType(found, t) # {} PROVE server \in Of(t, found)
    OBVIOUS
  <2>1. OfType(found, t) \subseteq 1 .. Len(found)
    BY <1>1 DEF Given
  <2>2. Max(OfType(found, t)) \in OfType(found, t)
    BY <1>1, <2>1, LastPosition
  <2> QED BY <1>3, <1>5, <2>2 DEF Server
<1>7. CASE Of(t, external) = {}
  <2>1. t \notin Types(external) /\ t \notin Blocked(external)
    BY <1>7, <1>b DEF Blocked
  <2>2. ASSUME NEW i \in OfType(found, t) PROVE found[i] \in Of(t, Builtins) /\ OfType(Builtins, t) # {}
    <3>1. ~(i - n \in Given(external) /\ external[i - n].type = t)
      BY <1>7
    <3> QED BY <1>4, <3>1
  <2>3. Of(t, Builtins) # {} => OfType(found, t) # {}
    <3> SUFFICES ASSUME NEW i \in Given(Builtins), Builtins[i].type = t PROVE OfType(found, t) # {}
      OBVIOUS
    <3>1. i \in Given(found) /\ found[i] = Builtins[i]
      BY <1>1, <1>2, <2>1
    <3> QED BY <3>1
  <2>4. Of(t, Builtins) = {} => OfType(found, t) = {}
    BY <1>b, <2>2
  <2>5. CASE Of(t, Builtins) = {}
    <3>1. server = NoModule /\ Of(t, Builtins) \cup Of(t, external) = {}
      BY <1>3, <1>5, <1>7, <2>4, <2>5
    <3> HIDE DEF Of
    <3> QED BY <3>1 DEF server
  <2>6. CASE Of(t, Builtins) # {}
    <3>1. server \in Of(t, Builtins)
      BY <1>6, <2>2, <2>3, <2>6
    <3>2. Of(t, Builtins) \cup Of(t, external) # {}
      BY <2>6
    <3> HIDE DEF Of
    <3> QED BY <1>7, <3>1, <3>2 DEF server
  <2> QED BY <2>5, <2>6
<1>8. CASE /\ Of(t, external) # {}
           /\ \E m \in Of(t, Builtins) : m.safety = "trusted_only"
           /\ FirstOf(external, t).safety # "trusted_only"
  <2>1. PICK b \in Given(Builtins) : Builtins[b].type = t /\ Builtins[b].safety = "trusted_only"
    BY <1>8
  <2>2. OfType(Builtins, t) = {b}
    BY <1>2, <2>1, BuiltinsAssumption DEF Given
  <2>3. LastOf(Builtins, t) = Builtins[b]
    <3>1. b \in 1 .. n /\ Max({b}) \in {b}
      BY <1>2, LastPosition
    <3> QED BY <2>2, <3>1 DEF LastOf
  <2>4. t \in Types(Builtins) \cap Types(external)
    BY <1>8, <2>1 DEF Types
  <2>5. t \in Blocked(external)
    BY <1>8, <2>1, <2>3, <2>4 DEF Blocked
  <2>6. OfType(found, t) # {}
    <3>1. b \in Given(found) /\ found[b] = Builtins[b]
      BY <1>1, <1>2, <2>1, <2>5
    <3> QED BY <2>1, <3>1
  <2>7. ASSUME NEW i \in OfType(found, t) PROVE found[i] \in Of(t, Builtins)
    <3>1. i \in Given(found) /\ found[i].type = t
      OBVIOUS
    <3>2. i \in Given(Builtins) /\ found[i] = Builtins[i]
      BY <1>a, <2>5, <3>1
    <3> QED BY <3>1, <3>2
  <2>8. server \in Of(t, Builtins)
    BY <1>6, <2>6, <2>7
  <2> HIDE DEF Of
  <2> QED BY <1>8, <2>8 DEF server
<1>9. CASE /\ Of(t, external) # {}
           /\ ~ /\ \E m \in Of(t, Builtins) : m.safety = "trusted_only"
                /\ FirstOf(external, t).safety # "trusted_only"
  <2>1. PICK e \in Given(external) : external[e].type = t
    BY <1>9
  <2>2. t \in Types(external)
    BY <2>1 DEF Types
  <2>3. t \notin Blocked(external)
    <3> SUFFICES ASSUME t \in Blocked(external) PROVE FALSE
      OBVIOUS
    <3>1. /\ OfType(Builtins, t) # {} /\ OfType(Builtins, t) \subseteq 1 .. n
          /\ LastOf(Builtins, t).safety = "trusted_only" /\ FirstOf(external, t).safety # "trusted_only"
      BY <1>2 DEF Blocked, Types
    <3>2. LastOf(Builtins, t) \in Of(t, Builtins)
      <4>1. Max(OfType(Builtins, t)) \in OfType(Builtins, t)
        BY <1>2, <3>1, LastPosition
      <4> QED BY <4>1 DEF LastOf
    <3> QED BY <1>9, <3>1, <3>2
  <2>4. OfType(found, t) # {}
    <3>1. n + e \in Given(found)
      BY <1>1, <2>1, <2>3
    <3>2. found[n + e] = external[e]
      <4>1. e \in Nat /\ e >= 1 /\ ~(n + e <= n) /\ (n + e) - n = e
        BY <1>2
      <4> QED BY <1>1, <3>1, <4>1
    <3> QED BY <2>1, <3>1, <3>2
  <2>5. ASSUME NEW i \in OfType(found, t) PROVE found[i] \in Of(t, external)
    <3>1. i \in Given(found) /\ found[i].type = t
      OBVIOUS
    <3>2. i - n \in Given(external) /\ found[i] = external[i - n]
      BY <1>a, <2>2, <2>3, <3>1
    <3> QED BY <3>1, <3>2
  <2>6. server \in Of(t, external)
    BY <1>6, <2>4, <2>5
  <2> HIDE DEF Of
  <2> QED BY <1>9, <2>6 DEF server
<1> QED BY <1>7, <1>8, <1>9

-----------------------------------------------------------------------------
(* The invariant *)

\* A firing is under way.
Busy(t) == thread[t].pc \in {"mark", "update", "enqueue"}
When(t) == thread[t].doc.when
Twin(n, m) == <<n, m>> \in twins

\* What a thread is, apart from its types.
ThreadInv ==
  \A t \in Slots :
    /\ thread[t].at <= now /\ thread[t].last <= now /\ thread[t].since <= now
    /\ t \in Live => /\ When(t).kind \in Kinds
                     /\ thread[t].pc = "update" => When(t).kind = "interval"
                     /\ thread[t].last # Never => When(t).kind = "schedule"
    /\ Busy(t) => thread[t].at \in Minutes

\* Two live threads of one name are twins in the minute that it is ...
MetInv == \A t, u \in Live : t # u /\ Name(t) = Name(u) => Twin(Name(t), now)

\* ... and were when the later one of them polled.
FiringInv ==
  /\ \A t, u \in Slots : /\ Busy(t) /\ Busy(u) /\ t # u /\ Name(t) = Name(u)
                         /\ thread[t].at <= thread[u].at
                         => Twin(Name(u), thread[u].at)
  /\ \A n \in Names, k \in Kinds, m \in Minutes : fired[n][k][m] > 0 => m <= now
  /\ \A t \in Slots, m \in Minutes :
       Busy(t) /\ fired[Name(t)][When(t).kind][m] > 0 /\ thread[t].at <= m => Twin(Name(t), m)

\* The row of a schedule's minute is there before its job is.
ScheduleInv ==
  /\ \A n \in Names, m \in Minutes : fired[n]["schedule"][m] > 0 => stateDB[<<n, m>>] # Never
  /\ \A t \in Slots : thread[t].pc = "enqueue" /\ When(t).kind = "schedule" =>
       stateDB[<<Name(t), thread[t].at>>] # Never

\* The row of an interval is not older than a firing, unless threads met since.
IsRecorded(n, m) ==
  \/ stateDB[<<n, LastFired>>] >= m
  \/ \E x \in m..now : Twin(n, x)

\* The same for a firing under way, which found the interval over.
IntervalInv ==
  /\ \A n \in Names, m \in Minutes : fired[n]["interval"][m] > 0 => IsRecorded(n, m)
  /\ \A t \in Slots : thread[t].pc = "enqueue" /\ When(t).kind = "interval" =>
       IsRecorded(Name(t), thread[t].at)
  /\ \A t \in Slots, m \in Minutes :
       /\ Busy(t) /\ When(t).kind = "interval"
       /\ m < thread[t].at /\ fired[Name(t)]["interval"][m] > 0
       => thread[t].at - m >= When(t).minutes \/ \E x \in m..thread[t].at : Twin(Name(t), x)

\* What is between a minute and its job: the minute was slow, or looked up; a row
\* that is there stands for a job, a loss, or a thread about to enqueue; a thread
\* skips a minute only because of a row, or because it is marking it.
DueInv ==
  /\ \A t \in Live, m \in Minutes :
       thread[t].since < m /\ thread[t].at < m /\ m < now => m \in slow
  /\ \A n \in Names, m \in Minutes : stateDB[<<n, m>>] # Never =>
       \/ fired[n]["schedule"][m] > 0
       \/ <<n, m>> \in lost
       \/ \E u \in Slots : /\ thread[u].pc = "enqueue" /\ When(u).kind = "schedule"
                           /\ Name(u) = n /\ thread[u].at = m
  /\ \A t \in Live : thread[t].last # Never =>
       \/ stateDB[<<Name(t), thread[t].last>>] # Never
       \/ thread[t].pc = "mark" /\ thread[t].at = thread[t].last
  /\ \A t \in Live, m \in Minutes :
       /\ thread[t].since < m /\ m <= thread[t].at /\ m \notin slow
       /\ When(t).kind = "schedule" /\ CronMatches(When(t).schedule, Moment(m))
       => \/ stateDB[<<Name(t), m>>] # Never
          \/ thread[t].pc = "mark" /\ thread[t].at = m

\* The watcher has nothing to notice about p.
Same(p) == recorded[p] = IF Exists(p) THEN "same" ELSE "absent"

\* What the phases have done: the watcher watches from "wait" on, every live
\* thread is listed or stopped, a load reads each file once, and what was loaded
\* before the first times are taken is kept until then.
PhaseInv ==
  /\ phase \in {"down", "seed"} => ~watching
  /\ phase \in {"wait", "stop"} => watching
  /\ phase \in {"down", "list", "read"} => listed = {}
  /\ listed \cap stopping = {}
  /\ Live \subseteq listed \cup stopping
  /\ \A a, b \in loaded : a[1] = b[1] => a = b
  /\ phase = "read" => \A a \in loaded : a[1] \notin toLoad
  /\ \A t \in listed : thread[t].doc \in Documents
  /\ phase = "seed" => {<<t[1], thread[t].doc>> : t \in listed} = {pd \in loaded : pd[2].enabled}

\* What was read of a file, or the threads that came of it, is what is in it.
IsRead(p) ==
  body[p] # Unreadable /\ \A d \in Documents : <<p, d>> \in loaded <=> body[p] = d
Runs(p) ==
  /\ body[p] # Unreadable
  /\ \A d \in Documents :
       (\E t \in listed : t[1] = p /\ thread[t].doc = d) <=> body[p] = d /\ d.enabled

\* A load failed, and the file it failed on is still so, or was edited.
GivenUp == listed = {} /\ \E p \in TriggerFiles : ~Same(p) \/ body[p] = Unreadable

\* File by file: what the watcher has nothing to notice about is in what was
\* read so far, or in the threads that came of it.
FollowInv ==
  watching /\ ~missed =>
    /\ phase = "read" => \A p \in TriggerFiles \ toLoad : Same(p) => IsRead(p)
    /\ phase = "wait" => GivenUp \/ \A p \in TriggerFiles : Same(p) => Runs(p)

-----------------------------------------------------------------------------
(* Types *)

USE DEF Kinds, Minutes, Never, LastFired, Name, When, Busy

ThreadType ==
  [pc : {"off", "poll", "mark", "update", "enqueue", "dead"}, doc : Documents \cup {Absent},
   at : {Never} \cup Minutes, last : {Never} \cup Minutes, since : Minutes]

FileTypes ==
  /\ body = [p \in Paths |-> body[p]] /\ \A p \in Paths : body[p] \in Bodies(p) \cup {Absent, Blank}
  /\ recorded \in [Paths -> {"absent", "same", "other"}]
  /\ writing = Absent \/ (writing[1] \in Paths /\ writing[2] \in Bodies(writing[1]))
  /\ phase \in {"down", "list", "read", "seed", "wait", "stop"}
  /\ watching \in BOOLEAN
  /\ toLoad \in SUBSET TriggerFiles
  /\ loaded \in SUBSET (TriggerFiles \X Documents)
  /\ listed \in SUBSET Slots /\ stopping \in SUBSET Slots

CronTypes ==
  /\ thread \in [Slots -> ThreadType]
  /\ \A t \in Live : thread[t].doc \in Documents
  /\ stateDB \in [Keys -> {Never} \cup Minutes]
  /\ fired \in [Names -> [Kinds -> [Minutes -> Nat]]]
  /\ now \in Minutes /\ bound \in Scenarios /\ now <= bound.minutes

\* Minutes are integers, and none is Never.
LEMMA MinuteTypes ==
  /\ MaxMinute \in Nat /\ \A m \in Minutes : m \in Int /\ m >= 0 /\ m <= MaxMinute
  /\ Never \notin Minutes /\ Never \in Int
  /\ \A n \in Names : <<n, LastFired>> \in Keys /\ \A m \in Minutes : <<n, m>> \in Keys
BY DefinitionsAssumption DEF Keys

\* A free slot is chosen for a file when there is one.
LEMMA FreeSlots ==
  ASSUME NEW p, \E t \in Slots \ Live : t[1] = p
  PROVE  FreeSlot(p) \in Slots \ Live /\ FreeSlot(p)[1] = p
BY DEF FreeSlot

\* The threads that a load starts have free slots and trigger documents.
LEMMA NewThreads ==
  ASSUME StartThreads, FileTypes, CronTypes, PhaseInv
  PROVE  \E new \in SUBSET (Slots \ Live) :
           /\ listed' = new /\ stopping' = stopping \ new
           /\ {<<t[1], thread'[t].doc>> : t \in new} = {pd \in loaded : pd[2].enabled}
           /\ thread' \in [Slots -> ThreadType]
           /\ \A t \in Slots \ new : thread'[t] = thread[t]
           /\ \A t \in new : /\ thread'[t].doc \in Documents /\ thread'[t].pc \in {"off", "poll"}
                             /\ thread'[t].pc = "poll" => thread'[t].doc.when.kind # "none"
                             /\ thread'[t].at = Never /\ thread'[t].last = Never
                             /\ thread'[t].since = now
<1> DEFINE enabled == {pd \in loaded : pd[2].enabled}
           new == {FreeSlot(pd[1]) : pd \in enabled}
           DocOf(t) == (CHOOSE pd \in enabled : pd[1] = t[1])[2]
<1>1. \A pd \in enabled : FreeSlot(pd[1]) \in Slots \ Live /\ FreeSlot(pd[1])[1] = pd[1]
  BY FreeSlots, Zenon DEF StartThreads
<1>2. new \in SUBSET (Slots \ Live)
  BY <1>1
<1>3. ASSUME NEW pd \in enabled PROVE DocOf(FreeSlot(pd[1])) = pd[2]
  <2>1. \A qd \in enabled : qd[1] = pd[1] => qd = pd
    BY DEF PhaseInv
  <2> QED BY <1>1, <2>1
<1>4. \A pd \in enabled : pd = <<pd[1], pd[2]>> /\ pd[2] \in Documents
  BY DEF FileTypes
<1>5. /\ listed' = new /\ stopping' = stopping \ new
      /\ thread' = [t \in Slots |->
              IF t \in new
              THEN [Off EXCEPT !.doc = DocOf(t), !.since = now,
                               !.pc = IF DocOf(t).when.kind = "none" THEN "off" ELSE "poll"]
              ELSE thread[t]]
  BY Zenon DEF StartThreads, Hears
<1>6. ASSUME NEW t \in new
      PROVE  /\ <<t[1], DocOf(t)>> \in enabled /\ DocOf(t) \in Documents
             /\ thread'[t].doc = DocOf(t) /\ thread'[t].pc \in {"off", "poll"}
             /\ thread'[t].pc = "poll" => DocOf(t).when.kind # "none"
             /\ thread'[t].at = Never /\ thread'[t].last = Never /\ thread'[t].since = now
             /\ thread'[t] \in ThreadType
  <2>1. PICK pd \in enabled : t = FreeSlot(pd[1])
    OBVIOUS
  <2>2. t[1] = pd[1] /\ DocOf(t) = pd[2] /\ t \in Slots
    BY <1>1, <1>3, <2>1
  <2> HIDE DEF DocOf, new, enabled
  <2>3. thread'[t] = [Off EXCEPT !.doc = DocOf(t), !.since = now,
                                 !.pc = IF DocOf(t).when.kind = "none" THEN "off" ELSE "poll"]
    BY <1>5, <2>2, Zenon
  <2>4. <<t[1], DocOf(t)>> \in enabled /\ DocOf(t) \in Documents
    BY <1>4, <2>1, <2>2
  <2> QED BY <2>3, <2>4 DEF Off, ThreadType, CronTypes
<1>7. \A pd \in enabled : /\ FreeSlot(pd[1]) \in new
                          /\ pd = <<FreeSlot(pd[1])[1], DocOf(FreeSlot(pd[1]))>>
  BY <1>1, <1>3, <1>4
<1> HIDE DEF DocOf, new, enabled
<1>8. {<<t[1], thread'[t].doc>> : t \in new} = enabled
  <2>1. \A t \in new : <<t[1], thread'[t].doc>> \in enabled
    BY <1>6
  <2>2. ASSUME NEW pd \in enabled PROVE \E t \in new : pd = <<t[1], thread'[t].doc>>
    BY <1>6, <1>7
  <2> QED BY <2>1, <2>2
<1>9. thread' \in [Slots -> ThreadType]
  <2>1. ASSUME NEW t \in Slots PROVE thread'[t] \in ThreadType
    <3>1. CASE t \in new
      BY <1>6, <3>1 DEF CronTypes, ThreadType
    <3>2. CASE t \notin new
      BY <1>5, <3>2, Zenon DEF CronTypes
    <3> QED BY <3>1, <3>2
  <2> QED BY <1>5, <2>1, Zenon
<1>10. \A t \in Slots \ new : thread'[t] = thread[t]
  BY <1>5, Zenon
<1>11. \A t \in new : /\ thread'[t].doc \in Documents /\ thread'[t].pc \in {"off", "poll"}
                      /\ thread'[t].pc = "poll" => thread'[t].doc.when.kind # "none"
                      /\ thread'[t].at = Never /\ thread'[t].last = Never
                      /\ thread'[t].since = now
  BY <1>6
<1>12. {<<t[1], thread'[t].doc>> : t \in new} = {pd \in loaded : pd[2].enabled}
  BY <1>8 DEF enabled
<1> QED BY <1>2, <1>5, <1>9, <1>10, <1>11, <1>12, Zenon

-----------------------------------------------------------------------------
(* What a step does to a thread *)

Others(t) == \A u \in Slots \ {t} : thread'[u] = thread[u]
Stays(t)  == /\ thread'[t].doc = thread[t].doc /\ thread'[t].since = thread[t].since
             /\ thread'[t].at = thread[t].at /\ thread'[t].last = thread[t].last

Polls(t) ==
  /\ thread[t].pc = "poll" /\ t \notin stopping
  /\ thread'[t].pc = IF Due(t) THEN "mark" ELSE "poll"
  /\ thread'[t].doc = thread[t].doc /\ thread'[t].since = thread[t].since
  /\ thread'[t].at = now
  /\ thread'[t].last = IF Due(t) /\ When(t).kind = "schedule" THEN now ELSE thread[t].last
  /\ UNCHANGED <<stateDB, fired, lost, faults>>
Leaves(t) ==
  /\ thread[t].pc = "poll" /\ thread'[t] = Off /\ t \in stopping
  /\ UNCHANGED <<stateDB, fired, lost, faults>>
Marks(t) ==
  /\ thread[t].pc = "mark" /\ thread'[t].pc = AfterMark(t) /\ Stays(t)
  /\ stateDB' = [stateDB EXCEPT ![KeyOf(t, thread[t].at)] = IF @ = Never THEN now ELSE @]
  /\ UNCHANGED <<fired, lost, faults>>
Updates(t) ==
  /\ thread[t].pc = "update" /\ thread'[t].pc = "enqueue" /\ Stays(t)
  /\ stateDB' = [stateDB EXCEPT ![KeyOf(t, thread[t].at)] = thread[t].at]
  /\ UNCHANGED <<fired, lost, faults>>
Fires(t) ==
  /\ thread[t].pc = "enqueue" /\ thread'[t].pc = "poll" /\ Stays(t)
  /\ fired' = [fired EXCEPT ![Name(t)][When(t).kind][thread[t].at] = @ + 1]
  /\ UNCHANGED <<stateDB, lost, faults>>
Loses(t) ==
  /\ thread[t].pc = "enqueue" /\ thread'[t].pc = "poll" /\ Stays(t)
  /\ lost' = lost \cup {<<Name(t), thread[t].at>>}
  /\ UNCHANGED <<stateDB, fired>>
Dies(t) ==
  /\ thread[t].pc # "enqueue" /\ thread'[t].pc = "dead" /\ thread'[t].doc = thread[t].doc
  /\ thread'[t].at = Never /\ thread'[t].last = Never /\ thread'[t].since = 0
  /\ lost \subseteq lost' /\ UNCHANGED <<stateDB, fired>>

\* One thread moves, and nothing else does but the tables.
LEMMA Moves ==
  ASSUME CronTypes, NEW t \in Slots, ThreadProgress(t) \/ CallFails(t)
  PROVE  /\ Others(t) /\ thread' \in [Slots -> ThreadType] /\ t \in Live
         /\ UNCHANGED <<fileVars, workerVars, now, missed, twins, slow, edits>>
         /\ \/ Polls(t) \/ Leaves(t) \/ Marks(t) \/ Updates(t) \/ Fires(t) \/ Loses(t) \/ Dies(t)
<1> USE DEF ThreadStep, Goto, Others, Stays
<1>0. /\ 0 \in Minutes /\ now \in Minutes /\ thread[t] \in ThreadType /\ Never \in {Never} \cup Minutes
      /\ thread \in [Slots -> ThreadType]
  BY MinuteTypes DEF CronTypes
<1>1. t \in Live
  BY Zenon DEF ThreadProgress, Poll, LeaveLoop, Mark, Update, Enqueue, CallFails, Live
<1>2. thread[t].doc \in Documents
  BY <1>1 DEF CronTypes
<1>3. ASSUME NEW e \in ThreadType, thread' = [thread EXCEPT ![t] = e]
      PROVE  thread' \in [Slots -> ThreadType] /\ thread'[t] = e /\ Others(t)
  BY <1>0, <1>3
<1>4. CASE Poll(t)
  <2> DEFINE pc == IF Due(t) THEN "mark" ELSE "poll"
             last == IF Due(t) /\ When(t).kind = "schedule" THEN now ELSE thread[t].last
  <2>2. pc \in {"mark", "poll"} /\ last \in {Never} \cup Minutes
    BY <1>0 DEF ThreadType
  <2>3. thread' = [thread EXCEPT ![t] = [thread[t] EXCEPT !.at = now, !.pc = pc, !.last = last]]
    BY <1>0, <1>4 DEF Poll
  <2> HIDE DEF pc, last
  <2>5. PICK e : e = [thread[t] EXCEPT !.at = now, !.pc = pc, !.last = last]
    OBVIOUS
  <2>6. /\ e \in ThreadType /\ e.pc = pc /\ e.last = last /\ e.at = now
        /\ e.doc = thread[t].doc /\ e.since = thread[t].since
    BY <1>0, <2>2, <2>5 DEF ThreadType
  <2>7. thread' = [thread EXCEPT ![t] = e]
    BY <2>3, <2>5
  <2>4. /\ thread' \in [Slots -> ThreadType] /\ Others(t) /\ thread'[t].pc = pc
        /\ thread'[t].last = last /\ thread'[t].at = now
        /\ thread'[t].doc = thread[t].doc /\ thread'[t].since = thread[t].since
    BY <1>3, <2>6, <2>7
  <2> QED BY <1>1, <1>4, <2>4 DEF Poll, Polls, pc, last
<1>5. CASE LeaveLoop(t)
  <2>1. Off \in ThreadType
    BY <1>0 DEF ThreadType, Off
  <2> QED BY <1>1, <1>3, <1>5, <2>1 DEF LeaveLoop, Leaves
<1>6. ASSUME NEW pc \in {"off", "poll", "mark", "update", "enqueue", "dead"}, Goto(t, pc)
      PROVE  Others(t) /\ thread' \in [Slots -> ThreadType] /\ thread'[t].pc = pc /\ Stays(t)
  <2>1. [thread[t] EXCEPT !.pc = pc] \in ThreadType
    BY <1>0 DEF ThreadType
  <2>2. thread' = [thread EXCEPT ![t] = [thread[t] EXCEPT !.pc = pc]]
    BY <1>0, <1>6
  <2> QED BY <1>0, <1>3, <2>1, <2>2 DEF ThreadType
<1>7. CASE Mark(t)
  <2>1. AfterMark(t) \in {"update", "enqueue"}
    BY DEF AfterMark
  <2> HIDE DEF Stays, Goto, Others
  <2> QED BY <1>1, <1>6, <1>7, <2>1 DEF Mark, Marks
<1>8. CASE Update(t)
  <2> HIDE DEF Stays, Goto, Others
  <2> QED BY <1>1, <1>6, <1>8 DEF Update, Updates
<1>9. CASE Enqueue(t)
  <2> HIDE DEF Stays, Goto, Others
  <2> QED BY <1>1, <1>6, <1>9, Zenon DEF Enqueue, Fires
<1>10. CASE CallFails(t)
  <2>1. CASE thread[t].pc = "enqueue"
    <3>1. Goto(t, "poll")
      BY <1>0, <1>10, <2>1 DEF CallFails
    <3> HIDE DEF Stays, Goto, Others
    <3> QED BY <1>1, <1>6, <1>10, <2>1, <3>1 DEF CallFails, Loses
  <2>2. CASE thread[t].pc # "enqueue"
    <3>1. PICK e : e = [Off EXCEPT !.pc = "dead", !.doc = thread[t].doc]
      OBVIOUS
    <3>2. /\ e.pc = "dead" /\ e.doc = thread[t].doc /\ e.at = Never /\ e.last = Never
          /\ e.since = 0 /\ e \in ThreadType
      <4>1. thread[t].doc \in Documents \cup {Absent}
        BY <1>2
      <4>2. Off \in ThreadType
        BY <1>0 DEF ThreadType, Off
      <4> QED BY <1>0, <3>1, <4>1, <4>2 DEF ThreadType, Off
    <3>3. thread' = [thread EXCEPT ![t] = e]
      BY <1>0, <1>10, <2>2, <3>1 DEF CallFails
    <3>4. thread' \in [Slots -> ThreadType] /\ thread'[t] = e /\ Others(t)
      BY <1>3, <3>2, <3>3
    <3> QED BY <1>1, <1>10, <2>2, <3>2, <3>4 DEF CallFails, Dies
  <2> QED BY <2>1, <2>2
<1> QED BY <1>4, <1>5, <1>7, <1>8, <1>9, <1>10 DEF ThreadProgress

\* The table of jobs after one was added, and the row after it was written.
JobAdded(n, k, m) == fired' = [fired EXCEPT ![n][k][m] = @ + 1]

LEMMA JobCounted ==
  ASSUME CronTypes, NEW n \in Names, NEW k \in Kinds, NEW m \in Minutes, JobAdded(n, k, m)
  PROVE  /\ fired' \in [Names -> [Kinds -> [Minutes -> Nat]]]
         /\ fired'[n][k][m] = fired[n][k][m] + 1 /\ fired[n][k][m] \in Nat
         /\ \A a \in Names, b \in Kinds, c \in Minutes :
              (a = n /\ b = k /\ c = m) \/ fired'[a][b][c] = fired[a][b][c]
<1> USE DEF CronTypes, JobAdded
<1>1. fired[n] \in [Kinds -> [Minutes -> Nat]] /\ fired[n][k] \in [Minutes -> Nat]
  OBVIOUS
<1>2. [fired[n][k] EXCEPT ![m] = @ + 1] \in [Minutes -> Nat]
  <2>1. fired[n][k][m] + 1 \in Nat
    <3>1. fired[n][k][m] \in Nat
      BY <1>1, Zenon
    <3> QED BY <3>1
  <2> QED BY <1>1, <2>1
<1>3. [fired[n] EXCEPT ![k] = [fired[n][k] EXCEPT ![m] = @ + 1]] \in [Kinds -> [Minutes -> Nat]]
  BY <1>1, <1>2
<1>4. fired' = [fired EXCEPT ![n] = [fired[n] EXCEPT ![k] = [fired[n][k] EXCEPT ![m] = @ + 1]]]
  OBVIOUS
<1>5. fired' \in [Names -> [Kinds -> [Minutes -> Nat]]]
  BY <1>3, <1>4
<1>6. fired'[n] = [fired[n] EXCEPT ![k] = [fired[n][k] EXCEPT ![m] = @ + 1]]
      /\ \A a \in Names \ {n} : fired'[a] = fired[a]
  BY <1>4
<1>7. fired'[n][k] = [fired[n][k] EXCEPT ![m] = @ + 1]
      /\ \A b \in Kinds \ {k} : fired'[n][b] = fired[n][b]
  BY <1>1, <1>6
<1>8. fired'[n][k][m] = fired[n][k][m] + 1 /\ \A c \in Minutes \ {m} : fired'[n][k][c] = fired[n][k][c]
  BY <1>1, <1>7
<1> QED BY <1>1, <1>5, <1>6, <1>7, <1>8

\* The row of a firing after it was marked, or updated; the other rows stay.
LEMMA RowWritten ==
  ASSUME CronTypes, ThreadInv, NEW t \in Slots, Marks(t) \/ Updates(t)
  PROVE  /\ stateDB' \in [Keys -> {Never} \cup Minutes]
         /\ \A key \in Keys \ {KeyOf(t, thread[t].at)} : stateDB'[key] = stateDB[key]
         /\ KeyOf(t, thread[t].at) \in Keys /\ stateDB[KeyOf(t, thread[t].at)] \in {Never} \cup Minutes
         /\ Marks(t) => stateDB'[KeyOf(t, thread[t].at)] =
                          IF stateDB[KeyOf(t, thread[t].at)] = Never THEN now
                          ELSE stateDB[KeyOf(t, thread[t].at)]
         /\ Updates(t) => stateDB'[KeyOf(t, thread[t].at)] = thread[t].at
<1> DEFINE key == KeyOf(t, thread[t].at)
<1>1. Busy(t) /\ thread[t].at \in Minutes /\ now \in Minutes /\ Name(t) \in Names
  <2>1. t \in Live
    BY DEF Marks, Updates, Live
  <2> QED BY <2>1, DefinitionsAssumption DEF Marks, Updates, ThreadInv, CronTypes
<1>2. key \in Keys
  BY <1>1, MinuteTypes DEF KeyOf
<1>3. stateDB \in [Keys -> {Never} \cup Minutes]
  BY DEF CronTypes
<1>4. Marks(t) => stateDB' = [stateDB EXCEPT ![key] = IF @ = Never THEN now ELSE @]
  BY DEF Marks
<1>5. Updates(t) => stateDB' = [stateDB EXCEPT ![key] = thread[t].at]
  BY DEF Updates
<1> HIDE DEF key
<1>6. stateDB' \in [Keys -> {Never} \cup Minutes] /\ \A k \in Keys \ {key} : stateDB'[k] = stateDB[k]
  BY <1>1, <1>2, <1>3, <1>4, <1>5
<1>7. Marks(t) => stateDB'[key] = IF stateDB[key] = Never THEN now ELSE stateDB[key]
  BY <1>2, <1>3, <1>4
<1>8. Updates(t) => stateDB'[key] = thread[t].at
  BY <1>2, <1>3, <1>5
<1>9. stateDB[key] \in {Never} \cup Minutes
  BY <1>2, <1>3
<1> QED BY <1>2, <1>6, <1>7, <1>8, <1>9 DEF key

\* What a step is to the cron threads and their tables.
Rests == UNCHANGED <<thread, stateDB, fired, now, twins, lost, slow>>
Starts ==
  /\ StartThreads /\ twins' = twins \cup Twins(thread') \X {now}
  /\ UNCHANGED <<stateDB, fired, now, lost, slow>>
Ticks ==
  /\ now < bound.minutes /\ now' = now + 1
  /\ slow \subseteq slow' /\ (Sleepers # {} => now \in slow')
  /\ twins' = twins \cup Twins(thread) \X {now + 1}
  /\ UNCHANGED <<thread, stateDB, fired, lost>>
Crashes ==
  /\ thread' = [t \in Slots |-> Off]
  /\ lost' = lost \cup {<<Name(t), thread[t].at>> :
                          t \in {u \in Live : thread[u].pc \in {"update", "enqueue"}}}
  /\ UNCHANGED <<stateDB, fired, now, twins, slow>>
Moved(t) == ThreadProgress(t) \/ CallFails(t)

\* Every step of the system is one of these.
LEMMA CronSteps ==
  ASSUME [Next]_vars
  PROVE  /\ bound' = bound
         /\ Rests \/ Starts \/ Ticks \/ Crashes \/ \E t \in Slots : Moved(t)
<1> USE DEF cronVars, historyVars, fileVars, workerVars
<1>0. bound' = bound
  BY DEF Next, vars
<1>1. UNCHANGED vars => Rests
  BY DEF vars, Rests
<1>2. EditFiles => Rests
  BY Zenon DEF Rests, EditFiles, EditByHand, Save, Delete, Toggle, Truncate, Remove, Write, Edited
<1>3. StartThreads => Starts
  BY Zenon DEF StartThreads, Starts, Unchanged
<1>4. StartWorker \/ Seed \/ Check \/ StopThreads \/ ListFiles \/ ReadFile \/ LoadFails => Rests
  BY DEF Rests, StartWorker, Seed, Check, StopThreads, ListFiles, ReadFile, LoadFails, Unchanged
<1>5. Tick => Ticks
  BY DEF Tick, Ticks
<1>6. Crash => Crashes
  BY DEF Crash, Crashes
<1> QED BY <1>0, <1>1, <1>2, <1>3, <1>4, <1>5, <1>6 DEF Next, Reload, Moved

\* What makes two threads twins: a set with two members has more than one, and
\* there are finitely many slots.
LEMMA PairsHaveTwo ==
  ASSUME NEW a, NEW b, a # b
  PROVE  IsFiniteSet({a, b}) /\ Cardinality({a, b}) = 2
<1>1. IsFiniteSet({a}) /\ Cardinality({a}) = 1
  BY FS_Singleton
<1>2. {a} \cup {b} = {a, b} /\ b \notin {a}
  OBVIOUS
<1>3. IsFiniteSet({a} \cup {b}) /\ Cardinality({a} \cup {b}) = 1 + 1
  BY <1>1, <1>2, FS_AddElement
<1> QED BY <1>2, <1>3

LEMMA SlotsAreFinite == IsFiniteSet(Slots)
<1>0. "yaml" # "yml" /\ 1 # 2
  OBVIOUS
<1>1. IsFiniteSet({"yaml", "yml"}) /\ IsFiniteSet({1, 2})
  BY <1>0, PairsHaveTwo, Zenon
<1>2. IsFiniteSet(TriggerFiles)
  BY <1>1, DefinitionsAssumption, FS_Product DEF TriggerFiles
<1> QED BY <1>1, <1>2, FS_Product DEF Slots

\* Two live threads of one name are counted.
LEMMA TwinsMeet ==
  ASSUME NEW th, NEW t \in Slots, NEW u \in Slots, t # u,
         th[t].pc \notin {"off", "dead"}, th[u].pc \notin {"off", "dead"},
         th[t].doc.name \in Names, th[u].doc.name = th[t].doc.name
  PROVE  th[t].doc.name \in Twins(th)
<1> DEFINE same == {s \in Slots : /\ th[s].pc \notin {"off", "dead"}
                                  /\ th[s].doc.name = th[t].doc.name}
<1>1. IsFiniteSet(same) /\ {t, u} \subseteq same
  BY SlotsAreFinite, FS_Subset
<1>2. IsFiniteSet({t, u}) /\ Cardinality({t, u}) = 2
  BY PairsHaveTwo
<1>3. Cardinality({t, u}) <= Cardinality(same) /\ Cardinality(same) \in Nat
  BY <1>1, FS_Subset, FS_CardinalityType
<1>4. Cardinality(same) > 1
  BY <1>2, <1>3
<1>5. same = {s \in {s \in Slots : th[s].pc \notin {"off", "dead"}} : th[s].doc.name = th[t].doc.name}
  OBVIOUS
<1> HIDE DEF same
<1> QED BY <1>4, <1>5 DEF Twins

\* What holds of threads whatever they fire.
CronInv == CronTypes /\ ThreadInv /\ MetInv

\* A live thread has a trigger.
LEMMA NamesOfLive ==
  ASSUME CronTypes, NEW t \in Live
  PROVE  t \in Slots /\ Name(t) \in Names /\ thread[t].doc \in Documents
         /\ When(t).kind \in {"schedule", "interval", "none"}
BY DefinitionsAssumption DEF CronTypes, Live

\* Every step keeps it.
LEMMA CronStep == FileTypes /\ PhaseInv /\ CronInv /\ [Next]_vars => CronInv'
<1> SUFFICES ASSUME FileTypes, PhaseInv, CronInv, [Next]_vars PROVE CronInv'
  OBVIOUS
<1> USE DEF CronInv
<1>0. /\ now \in Minutes /\ now \in Int /\ bound' = bound /\ bound \in Scenarios
      /\ bound.minutes \in Minutes /\ MaxMinute \in Nat
      /\ thread \in [Slots -> ThreadType]
  BY CronSteps, DefinitionsAssumption DEF CronTypes
<1>1. CASE Rests
  BY <1>0, <1>1 DEF Rests, CronTypes, ThreadInv, MetInv, Live, Twin
<1>2. CASE Starts
  <2>1. PICK new \in SUBSET (Slots \ Live) :
           /\ thread' \in [Slots -> ThreadType]
           /\ \A t \in Slots \ new : thread'[t] = thread[t]
           /\ \A t \in new : /\ thread'[t].doc \in Documents /\ thread'[t].pc \in {"off", "poll"}
                             /\ thread'[t].pc = "poll" => thread'[t].doc.when.kind # "none"
                             /\ thread'[t].at = Never /\ thread'[t].last = Never
                             /\ thread'[t].since = now
    BY <1>2, NewThreads DEF Starts
  <2>2. UNCHANGED <<stateDB, fired, now>> /\ twins' = twins \cup Twins(thread') \X {now}
    BY <1>2 DEF Starts
  <2>3. \A t \in Live' : thread'[t].doc \in Documents
    BY <2>1 DEF Live, CronTypes
  <2>4. CronTypes'
    BY <1>0, <2>1, <2>2, <2>3 DEF CronTypes
  <2>5. ThreadInv'
    <3>1. ASSUME NEW t \in Slots
          PROVE  /\ thread'[t].at <= now /\ thread'[t].last <= now /\ thread'[t].since <= now
                 /\ t \in Live' => /\ thread'[t].doc.when.kind \in Kinds
                                   /\ thread'[t].pc = "update" => thread'[t].doc.when.kind = "interval"
                                   /\ thread'[t].last # Never => thread'[t].doc.when.kind = "schedule"
                 /\ thread'[t].pc \in {"mark", "update", "enqueue"} => thread'[t].at \in Minutes
      <4>1. CASE t \in new
        BY <1>0, <2>1, <2>3, <4>1, DefinitionsAssumption DEF Live
      <4>2. CASE t \notin new
        BY <2>1, <4>2 DEF ThreadInv, Live
      <4> QED BY <4>1, <4>2
    <3> QED BY <2>2, <3>1 DEF ThreadInv
  <2>6. ASSUME NEW t \in Live', NEW u \in Live', t # u, thread'[t].doc.name = thread'[u].doc.name
        PROVE  <<thread'[t].doc.name, now>> \in twins'
    <3>1. thread'[t].doc.name \in Names
      BY <2>3, DefinitionsAssumption
    <3>2. thread'[t].doc.name \in Twins(thread')
      BY <2>6, <3>1, TwinsMeet DEF Live
    <3> QED BY <2>2, <3>2
  <2> QED BY <2>2, <2>4, <2>5, <2>6 DEF MetInv, Twin
<1>3. CASE Ticks
  <2>1. /\ now' = now + 1 /\ now' \in Minutes /\ now' <= bound.minutes
        /\ UNCHANGED <<thread, stateDB, fired>> /\ twins' = twins \cup Twins(thread) \X {now + 1}
    BY <1>0, <1>3 DEF Ticks
  <2>2. CronTypes'
    BY <1>0, <2>1 DEF CronTypes, Live
  <2>3. ThreadInv'
    <3>1. \A t \in Slots : thread[t].at \in Int /\ thread[t].last \in Int /\ thread[t].since \in Int
      BY <1>0, MinuteTypes DEF ThreadType
    <3> QED BY <1>0, <2>1, <3>1 DEF ThreadInv, Live
  <2>4. ASSUME NEW t \in Live, NEW u \in Live, t # u, Name(t) = Name(u)
        PROVE  Name(t) \in Twins(thread)
    BY <2>4, NamesOfLive, TwinsMeet DEF Live
  <2> QED BY <2>1, <2>2, <2>3, <2>4 DEF MetInv, Twin, Live
<1>4. CASE Crashes
  <2>1. /\ thread' = [t \in Slots |-> Off] /\ UNCHANGED <<stateDB, fired, now>> /\ Live' = {}
        /\ Off \in ThreadType
    BY <1>0, <1>4, MinuteTypes DEF Crashes, Off, Live, ThreadType
  <2> QED BY <1>0, <2>1 DEF CronTypes, ThreadInv, MetInv, Off
<1>5. ASSUME NEW t \in Slots, Moved(t) PROVE CronInv'
  <2>1. /\ Others(t) /\ thread' \in [Slots -> ThreadType] /\ t \in Live /\ UNCHANGED <<now, twins>>
        /\ Polls(t) \/ Leaves(t) \/ Marks(t) \/ Updates(t) \/ Fires(t) \/ Loses(t) \/ Dies(t)
    BY <1>5, Moves DEF Moved
  <2>2. /\ Name(t) \in Names /\ thread[t].doc \in Documents /\ When(t).kind \in Kinds
        /\ thread[t].last # Never => When(t).kind = "schedule"
        /\ Busy(t) => thread[t].at \in Minutes
    BY <2>1, NamesOfLive DEF ThreadInv
  <2>3. stateDB' \in [Keys -> {Never} \cup Minutes]
    BY <2>1, RowWritten, Zenon DEF Polls, Leaves, Fires, Loses, Dies, CronTypes
  <2>4. fired' \in [Names -> [Kinds -> [Minutes -> Nat]]]
    <3>1. CASE Fires(t)
      <4>1. JobAdded(Name(t), When(t).kind, thread[t].at)
        BY <3>1, Zenon DEF Fires, JobAdded
      <4>2. thread[t].at \in Minutes
        BY <2>2, <3>1, Zenon DEF Fires
      <4> QED BY <2>2, <4>1, <4>2, JobCounted
    <3>2. CASE ~Fires(t)
      BY <2>1, <3>2 DEF Polls, Leaves, Marks, Updates, Loses, Dies, CronTypes
    <3> QED BY <3>1, <3>2
  <2>5. Live' \subseteq Live /\ (thread'[t].pc \in {"off", "dead"} \/ thread'[t].doc = thread[t].doc)
    <3>1. thread'[t].pc \in {"off", "dead"} \/ thread'[t].doc = thread[t].doc
      <4>1. CASE Leaves(t)
        BY <4>1 DEF Leaves, Off
      <4>2. CASE ~Leaves(t)
        BY <2>1, <4>2, Zenon DEF Polls, Marks, Updates, Fires, Loses, Dies, Stays
      <4> QED BY <4>1, <4>2
    <3>2. Live' \subseteq Live
      BY <2>1 DEF Others, Live
    <3> QED BY <3>1, <3>2
  <2>6. CronTypes'
    <3>1. \A u \in Live' : thread'[u].doc \in Documents
      BY <2>1, <2>5 DEF Others, Live, CronTypes
    <3> QED BY <1>0, <2>1, <2>3, <2>4, <3>1 DEF CronTypes
  <2>7. /\ thread'[t].at <= now /\ thread'[t].last <= now /\ thread'[t].since <= now
        /\ t \in Live' => /\ thread'[t].doc.when.kind \in Kinds
                          /\ thread'[t].pc = "update" => thread'[t].doc.when.kind = "interval"
                          /\ thread'[t].last # Never => thread'[t].doc.when.kind = "schedule"
        /\ thread'[t].pc \in {"mark", "update", "enqueue"} => thread'[t].at \in Minutes
    <3>1. CASE Polls(t)
      BY <1>0, <2>2, <3>1 DEF Polls, ThreadInv
    <3>2. CASE Leaves(t) \/ Dies(t)
      BY <1>0, <3>2 DEF Leaves, Dies, Off, Live
    <3>3. CASE Marks(t)
      BY <1>0, <2>2, <3>3 DEF Marks, Stays, AfterMark, ThreadInv
    <3>4. CASE Updates(t) \/ Fires(t) \/ Loses(t)
      BY <1>0, <2>2, <3>4, Zenon DEF Updates, Fires, Loses, Stays, ThreadInv
    <3> QED BY <2>1, <3>1, <3>2, <3>3, <3>4
  <2>8. ThreadInv'
    BY <2>1, <2>7 DEF ThreadInv, Others, Live
  <2>9. MetInv'
    BY <2>1, <2>5 DEF MetInv, Others, Live, Twin
  <2> QED BY <2>6, <2>8, <2>9
<1> QED BY <1>1, <1>2, <1>3, <1>4, <1>5, CronSteps

-----------------------------------------------------------------------------
(* How often a trigger fires *)

RowInv == FiringInv /\ ScheduleInv /\ IntervalInv /\ OncePerMinute /\ IntervalsAreKept

\* No thread gets on with a firing.
Calm ==
  /\ \A u \in Slots : Busy(u)' => Busy(u) /\ thread'[u] = thread[u]
  /\ twins \subseteq twins' /\ UNCHANGED <<stateDB, fired>>
  /\ now' \in Minutes /\ now \in Minutes /\ now <= now'

\* The two uses of FiringInv.
LEMMA BusyMeet ==
  ASSUME FiringInv, NEW t \in Slots, NEW u \in Slots, t # u, Busy(t), Busy(u),
         Name(t) = Name(u), thread[t].at <= thread[u].at
  PROVE  Twin(Name(u), thread[u].at)
BY DEF FiringInv

LEMMA FiredMeet ==
  ASSUME FiringInv, NEW t \in Slots, NEW m \in Minutes, Busy(t),
         fired[Name(t)][When(t).kind][m] > 0, thread[t].at <= m
  PROVE  Twin(Name(t), m)
BY DEF FiringInv

\* Steps of no thread are calm ...
LEMMA CalmSteps ==
  ASSUME FileTypes, PhaseInv, CronInv, CronInv', [Next]_vars,
         \A t \in Slots : ~Moved(t)
  PROVE  Calm
<1>0. now \in Minutes /\ now' \in Minutes
  BY DEF CronInv, CronTypes
<1>1. CASE Rests
  BY <1>0, <1>1 DEF Rests, Calm
<1>2. CASE Starts
  <2>1. PICK new \in SUBSET (Slots \ Live) :
           /\ \A t \in Slots \ new : thread'[t] = thread[t]
           /\ \A t \in new : thread'[t].pc \in {"off", "poll"}
    BY <1>2, NewThreads DEF Starts, CronInv
  <2> QED BY <1>0, <1>2, <2>1 DEF Calm, Starts
<1>3. CASE Ticks
  BY <1>0, <1>3 DEF Ticks, Calm
<1>4. CASE Crashes
  <2>1. \A u \in Slots : thread'[u].pc = "off"
    BY <1>4 DEF Crashes, Off
  <2> QED BY <1>0, <1>4, <2>1 DEF Crashes, Calm
<1> QED BY <1>1, <1>2, <1>3, <1>4, CronSteps

\* ... and a calm step keeps what was fired, and when.
LEMMA CalmKeeps ==
  ASSUME CronInv, RowInv, Calm
  PROVE  RowInv'
<1> USE DEF Calm, Twin
<1>0. \A m \in Minutes : m \in Int /\ now \in Int /\ now' \in Int
  BY MinuteTypes
<1>1. \A n, m : IsRecorded(n, m) => IsRecorded(n, m)'
  BY <1>0 DEF IsRecorded
<1>2. FiringInv'
  <2>1. FiringInv /\ \A u \in Slots : Busy(u)' => Busy(u) /\ thread'[u] = thread[u]
    BY DEF RowInv
  <2>2. \A t, u \in Slots : /\ Busy(t)' /\ Busy(u)' /\ t # u /\ Name(t)' = Name(u)'
                            /\ thread'[t].at <= thread'[u].at
                            => Twin(Name(u), thread[u].at)' /\ thread'[u] = thread[u]
    BY <2>1 DEF FiringInv
  <2>3. \A n \in Names, k \in Kinds, m \in Minutes : fired'[n][k][m] > 0 => m <= now'
    BY SMTT(20), <1>0, <2>1 DEF FiringInv
  <2>4. \A t \in Slots, m \in Minutes :
          Busy(t)' /\ fired'[Name(t)'][When(t).kind'][m] > 0 /\ thread'[t].at <= m => Twin(Name(t), m)'
    BY <2>1 DEF FiringInv
  <2> QED BY <2>2, <2>3, <2>4, Zenon DEF FiringInv
<1>3. ScheduleInv'
  BY DEF RowInv, ScheduleInv
<1>4. IntervalInv'
  BY <1>1 DEF RowInv, IntervalInv
<1>5. OncePerMinute' /\ IntervalsAreKept'
  BY DEF RowInv, OncePerMinute, IntervalsAreKept
<1> QED BY <1>2, <1>3, <1>4, <1>5 DEF RowInv

\* What comes with a thread that moves, and who is busy afterwards.
LEMMA BusyMoves ==
  ASSUME CronInv, NEW t \in Slots, Moved(t)
  PROVE  /\ Others(t) /\ t \in Live /\ UNCHANGED <<now, twins>>
         /\ Name(t) \in Names /\ When(t).kind \in Kinds /\ thread[t].doc \in Documents
         /\ now \in Int /\ now \in Minutes /\ now >= 0
         /\ \A u \in Slots : Busy(u) => /\ u \in Live /\ thread[u].at \in Minutes
                                        /\ thread[u].at \in Int /\ thread[u].at <= now
                                        /\ Name(u) \in Names
         /\ Busy(t)' => /\ thread'[t].doc = thread[t].doc
                        /\ \/ Polls(t) /\ Due(t) /\ thread'[t].pc = "mark" /\ thread'[t].at = now
                           \/ Busy(t) /\ (Marks(t) \/ Updates(t)) /\ thread'[t].at = thread[t].at
         /\ Polls(t) \/ Leaves(t) \/ Marks(t) \/ Updates(t) \/ Fires(t) \/ Loses(t) \/ Dies(t)
<1>1. /\ Others(t) /\ t \in Live /\ UNCHANGED <<now, twins>>
      /\ Polls(t) \/ Leaves(t) \/ Marks(t) \/ Updates(t) \/ Fires(t) \/ Loses(t) \/ Dies(t)
  BY Moves DEF Moved, CronInv
<1>2. Name(t) \in Names /\ When(t).kind \in Kinds /\ thread[t].doc \in Documents
  BY <1>1, NamesOfLive DEF CronInv, ThreadInv
<1>3. now \in Int /\ now \in Minutes /\ now >= 0
  BY MinuteTypes DEF CronInv, CronTypes
<1>4. ASSUME NEW u \in Slots, Busy(u)
      PROVE  /\ u \in Live /\ thread[u].at \in Minutes /\ thread[u].at \in Int
             /\ thread[u].at <= now /\ Name(u) \in Names
  <2>1. u \in Live
    BY <1>4 DEF Live
  <2> QED BY <1>4, <2>1, NamesOfLive, MinuteTypes DEF CronInv, ThreadInv
<1>5. ASSUME Busy(t)'
      PROVE  /\ thread'[t].doc = thread[t].doc
             /\ \/ Polls(t) /\ Due(t) /\ thread'[t].pc = "mark" /\ thread'[t].at = now
                \/ Busy(t) /\ (Marks(t) \/ Updates(t)) /\ thread'[t].at = thread[t].at
  <2>1. CASE Polls(t)
    BY <1>5, <2>1 DEF Polls
  <2>2. CASE Leaves(t)
    BY <1>5, <2>2 DEF Leaves, Off
  <2>3. CASE Marks(t) \/ Updates(t)
    BY <2>3 DEF Marks, Updates, Stays
  <2>4. CASE Fires(t) \/ Loses(t) \/ Dies(t)
    BY <1>5, <2>4, Zenon DEF Fires, Loses, Dies
  <2> QED BY <1>1, <2>1, <2>2, <2>3, <2>4
<1> QED BY <1>1, <1>2, <1>3, <1>4, <1>5

\* A trigger that finds its minute due has not fired in it, unless two threads met.
LEMMA DueIsFresh ==
  ASSUME CronInv, RowInv, NEW t \in Live, Due(t), Name(t) \in Names, When(t).kind \in Kinds,
         fired[Name(t)][When(t).kind][now] > 0
  PROVE  Twin(Name(t), now)
<1>0. now \in Minutes /\ now \in Int /\ now >= 0 /\ thread[t].doc \in Documents
  BY MinuteTypes DEF CronInv, CronTypes
<1>1. CASE When(t).kind = "schedule"
  <2>1. stateDB[<<Name(t), now>>] = Never
    BY <1>1 DEF Due, ScheduleDue, KeyOf
  <2> QED BY <1>0, <1>1, <2>1 DEF RowInv, ScheduleInv
<1>2. CASE When(t).kind = "interval"
  <2>1. IsRecorded(Name(t), now)
    BY <1>0, <1>2 DEF RowInv, IntervalInv
  <2>2. CASE stateDB[<<Name(t), LastFired>>] >= now
    <3>1. When(t).minutes \in Nat \ {0}
      BY <1>0, <1>2, DefinitionsAssumption
    <3>2. stateDB[<<Name(t), LastFired>>] \in {Never} \cup Minutes
      BY MinuteTypes DEF CronInv, CronTypes
    <3>3. \/ stateDB[<<Name(t), LastFired>>] = Never
          \/ now - stateDB[<<Name(t), LastFired>>] >= When(t).minutes
      BY <1>2 DEF Due, IntervalDue, KeyOf
    <3>4. stateDB[<<Name(t), LastFired>>] \in Int
      BY <3>2, MinuteTypes
    <3> HIDE DEF LastFired, When, Name
    <3> QED BY <1>0, <2>2, <3>1, <3>3, <3>4
  <2>3. CASE \E x \in now..now : Twin(Name(t), x)
    BY <1>0, <2>3
  <2> QED BY <2>1, <2>2, <2>3 DEF IsRecorded
<1> QED BY <1>1, <1>2

\* A new job is that of the thread that moves.
LEMMA JobsMoves ==
  ASSUME CronInv, NEW t \in Slots, Moved(t),
         NEW n \in Names, NEW k \in Kinds, NEW m \in Minutes
  PROVE  LET isNew == /\ Fires(t) /\ thread[t].pc = "enqueue" /\ Busy(t) /\ n = Name(t)
                      /\ k = When(t).kind /\ m = thread[t].at
         IN  /\ fired'[n][k][m] > 0 => fired[n][k][m] > 0 \/ isNew
             /\ fired'[n][k][m] > 1 => fired[n][k][m] > 1 \/ (isNew /\ fired[n][k][m] > 0)
<1>1. CASE Fires(t)
  <2>1. /\ Busy(t) /\ thread[t].at \in Minutes /\ Name(t) \in Names /\ When(t).kind \in Kinds
        /\ thread[t].pc = "enqueue"
    BY <1>1, BusyMoves, Zenon DEF Fires
  <2>2. fired' = [fired EXCEPT ![Name(t)][When(t).kind][thread[t].at] = @ + 1]
    BY <1>1, Zenon DEF Fires
  <2>3. PICK x \in Names, y \in Kinds, z \in Minutes :
             x = Name(t) /\ y = When(t).kind /\ z = thread[t].at
    BY <2>1
  <2>0. JobAdded(x, y, z)
    BY <2>2, <2>3, Zenon DEF JobAdded
  <2>9. CronTypes
    BY DEF CronInv
  <2>4. /\ fired'[x][y][z] = fired[x][y][z] + 1 /\ fired[x][y][z] \in Nat
        /\ \A a \in Names, b \in Kinds, c \in Minutes :
             (a = x /\ b = y /\ c = z) \/ fired'[a][b][c] = fired[a][b][c]
    BY <2>0, <2>9, JobCounted
  <2>5. CASE n = x /\ k = y /\ m = z
    <3>1. fired'[n][k][m] = fired[n][k][m] + 1 /\ fired[n][k][m] \in Nat
      BY <2>4, <2>5
    <3>2. n = Name(t) /\ k = When(t).kind /\ m = thread[t].at
      BY <2>3, <2>5
    <3>3. fired'[n][k][m] > 1 => fired[n][k][m] > 0
      BY <3>1
    <3> QED BY <1>1, <2>1, <3>2, <3>3, Zenon
  <2>6. CASE ~(n = x /\ k = y /\ m = z)
    BY <2>4, <2>6
  <2> QED BY <2>5, <2>6
<1>2. CASE ~Fires(t)
  <2>1. fired' = fired
    BY <1>2, BusyMoves DEF Polls, Leaves, Marks, Updates, Loses, Dies
  <2> QED BY <2>1
<1> QED BY <1>1, <1>2

\* Who is busy with a minute that was fired, or is busy too, is a twin: a thread
\* that has found it due would have found the row.
LEMMA FiringMoves ==
  ASSUME CronInv, RowInv, NEW t \in Slots, Moved(t)
  PROVE  FiringInv'
<1> USE DEF Twin
<1>0. FiringInv /\ MetInv
  BY DEF RowInv, CronInv
<1>1. /\ Others(t) /\ t \in Live /\ UNCHANGED <<now, twins>>
      /\ Name(t) \in Names /\ When(t).kind \in Kinds
      /\ now \in Int /\ now \in Minutes /\ now >= 0
      /\ \A u \in Slots : Busy(u) => /\ u \in Live /\ thread[u].at \in Minutes
                                     /\ thread[u].at \in Int /\ thread[u].at <= now
                                     /\ Name(u) \in Names
  BY BusyMoves
<1>2. Busy(t)' => /\ thread'[t].doc = thread[t].doc
                  /\ \/ Due(t) /\ thread'[t].at = now
                     \/ Busy(t) /\ thread'[t].at = thread[t].at
  BY BusyMoves
<1>3. ASSUME NEW u \in Slots, NEW v \in Slots, Busy(u)', Busy(v)', u # v,
             thread'[u].doc.name = thread'[v].doc.name, thread'[u].at <= thread'[v].at
      PROVE  <<thread'[v].doc.name, thread'[v].at>> \in twins
  <2>1. CASE u # t /\ v # t
    BY <1>0, <1>1, <1>3, <2>1 DEF FiringInv, Others
  <2>2. CASE u = t
    <3>1. thread'[v] = thread[v] /\ Busy(v) /\ Name(v) = Name(t)
      BY <1>1, <1>2, <1>3, <2>2 DEF Others
    <3>2. CASE Due(t) /\ thread'[t].at = now
      <4>1. thread[v].at = now /\ v \in Live
        BY <1>1, <1>3, <2>2, <3>1, <3>2
      <4> QED BY <1>0, <1>1, <1>3, <2>2, <3>1, <4>1 DEF MetInv
    <3>3. CASE Busy(t) /\ thread'[t].at = thread[t].at
      BY <1>0, <1>3, <2>2, <3>1, <3>3 DEF FiringInv
    <3> QED BY <1>2, <1>3, <2>2, <3>2, <3>3
  <2>3. CASE v = t
    <3>1. thread'[u] = thread[u] /\ Busy(u) /\ Name(u) = Name(t) /\ thread'[t].doc.name = Name(t)
      BY <1>1, <1>2, <1>3, <2>3 DEF Others
    <3>2. CASE Due(t) /\ thread'[t].at = now
      BY <1>0, <1>1, <1>3, <2>3, <3>1, <3>2 DEF MetInv
    <3>3. CASE Busy(t) /\ thread'[t].at = thread[t].at
      BY <1>0, <1>3, <2>3, <3>1, <3>3 DEF FiringInv
    <3> QED BY <1>2, <1>3, <2>3, <3>2, <3>3
  <2> QED BY <1>3, <2>1, <2>2, <2>3
<1>4. ASSUME NEW n \in Names, NEW k \in Kinds, NEW m \in Minutes, fired'[n][k][m] > 0
      PROVE  m <= now
  <2>1. fired[n][k][m] > 0 \/ (Busy(t) /\ m = thread[t].at)
    BY <1>4, JobsMoves
  <2> QED BY <1>0, <1>1, <2>1 DEF FiringInv
<1>5. ASSUME NEW u \in Slots, NEW m \in Minutes, Busy(u)',
             fired'[thread'[u].doc.name][thread'[u].doc.when.kind][m] > 0, thread'[u].at <= m
      PROVE  <<thread'[u].doc.name, m>> \in twins
  <2>1. CASE u # t
    <3>1. /\ thread'[u] = thread[u] /\ Busy(u) /\ Name(u) \in Names /\ When(u).kind \in Kinds
      BY <1>1, <1>5, <2>1 DEF Others, CronInv, ThreadInv
    <3>2. CASE fired[Name(u)][When(u).kind][m] > 0
      BY <1>0, <1>5, <3>1, <3>2 DEF FiringInv
    <3>3. CASE Busy(t) /\ Name(u) = Name(t) /\ m = thread[t].at
      BY <1>0, <1>5, <2>1, <3>1, <3>3, Zenon DEF FiringInv
    <3>4. \/ fired[Name(u)][When(u).kind][m] > 0
          \/ Busy(t) /\ Name(u) = Name(t) /\ m = thread[t].at
      BY <1>5, <3>1, JobsMoves
    <3> QED BY <3>2, <3>3, <3>4
  <2>2. CASE u = t
    <3>1. fired[Name(t)][When(t).kind][m] > 0
      <4>1. ~Fires(t) /\ thread'[t].doc = thread[t].doc
        BY <1>2, <1>5, <2>2, Zenon DEF Fires
      <4> QED BY <1>1, <1>5, <2>2, <4>1, JobsMoves
    <3>2. CASE Due(t) /\ thread'[t].at = now
      <4>1. m <= now
        BY <1>0, <1>1, <3>1 DEF FiringInv, CronInv, ThreadInv
      <4>2. now <= m
        BY <1>5, <2>2, <3>2
      <4>3. m = now
        BY <1>1, <4>1, <4>2, MinuteTypes
      <4> QED BY <1>1, <1>2, <1>5, <2>2, <3>1, <3>2, <4>3, DueIsFresh
    <3>3. CASE Busy(t) /\ thread'[t].at = thread[t].at
      BY <1>0, <1>2, <1>5, <2>2, <3>1, <3>3 DEF FiringInv
    <3> QED BY <1>2, <1>5, <2>2, <3>2, <3>3
  <2> QED BY <2>1, <2>2
<1> QED BY <1>1, <1>3, <1>4, <1>5 DEF FiringInv

\* A row is written before its job, and none is deleted.
LEMMA ScheduleMoves ==
  ASSUME CronInv, RowInv, NEW t \in Slots, Moved(t)
  PROVE  /\ ScheduleInv'
         /\ \A key \in Keys : stateDB[key] # Never => stateDB'[key] # Never
<1>0. /\ Others(t) /\ ScheduleInv /\ now \in Minutes /\ Name(t) \in Names
      /\ Polls(t) \/ Leaves(t) \/ Marks(t) \/ Updates(t) \/ Fires(t) \/ Loses(t) \/ Dies(t)
      /\ \A u \in Slots : Busy(u) => u \in Live /\ thread[u].at \in Minutes /\ Name(u) \in Names
  BY BusyMoves DEF RowInv
<1>1. ASSUME NEW key \in Keys, stateDB[key] # Never PROVE stateDB'[key] # Never
  <2>1. CASE Marks(t) \/ Updates(t)
    <3>1. thread[t].at \in Minutes
      BY <1>0, <2>1 DEF Marks, Updates
    <3>2. CASE key = KeyOf(t, thread[t].at)
      BY <1>1, <2>1, <3>1, <3>2, RowWritten, MinuteTypes DEF CronInv
    <3>3. CASE key # KeyOf(t, thread[t].at)
      BY <1>1, <2>1, <3>3, RowWritten DEF CronInv
    <3> QED BY <3>2, <3>3
  <2>2. CASE ~(Marks(t) \/ Updates(t))
    BY <1>0, <1>1, <2>2, Zenon DEF Polls, Leaves, Fires, Loses, Dies
  <2> QED BY <2>1, <2>2
<1>2. ASSUME NEW n \in Names, NEW m \in Minutes, fired'[n]["schedule"][m] > 0
      PROVE  stateDB'[<<n, m>>] # Never
  <2>1. \/ fired[n]["schedule"][m] > 0
        \/ /\ thread[t].pc = "enqueue" /\ n = Name(t) /\ m = thread[t].at
           /\ When(t).kind = "schedule"
    BY <1>2, JobsMoves
  <2>2. stateDB[<<n, m>>] # Never
    BY <1>0, <2>1 DEF ScheduleInv
  <2> QED BY <1>1, <2>2, MinuteTypes
<1>3. ASSUME NEW u \in Slots, thread'[u].pc = "enqueue", thread'[u].doc.when.kind = "schedule"
      PROVE  stateDB'[<<thread'[u].doc.name, thread'[u].at>>] # Never
  <2>1. CASE u # t
    <3>1. thread'[u] = thread[u] /\ thread[u].at \in Minutes /\ Name(u) \in Names
      BY <1>0, <1>3, <2>1 DEF Others
    <3>2. stateDB[<<Name(u), thread[u].at>>] # Never
      BY <1>0, <1>3, <3>1 DEF ScheduleInv
    <3> QED BY <1>1, <3>1, <3>2, MinuteTypes
  <2>2. CASE u = t
    <3>1. /\ Marks(t) \/ Updates(t)
          /\ thread'[t].doc = thread[t].doc /\ thread'[t].at = thread[t].at /\ Busy(t)
      BY <1>3, <2>2, BusyMoves
    <3>2. Marks(t)
      BY <1>0, <1>3, <2>2, <3>1 DEF Updates, CronInv, ThreadInv
    <3>3. KeyOf(t, thread[t].at) = <<Name(t), thread[t].at>>
      BY <1>3, <2>2, <3>1 DEF KeyOf
    <3>4. stateDB'[KeyOf(t, thread[t].at)] # Never
      BY <1>0, <3>2, RowWritten, MinuteTypes DEF CronInv
    <3> QED BY <2>2, <3>1, <3>3, <3>4
  <2> QED BY <2>1, <2>2
<1> QED BY <1>1, <1>2, <1>3 DEF ScheduleInv

\* A row that is recent enough stays so, or the thread that sets it back is a twin.
LEMMA RecordedStays ==
  ASSUME CronInv, NEW t \in Slots, Moved(t), NEW n \in Names, NEW m \in Minutes,
         IsRecorded(n, m), m <= now,
         Updates(t) /\ Name(t) = n /\ thread[t].at < m => Twin(n, m)
  PROVE  IsRecorded(n, m)'
<1> DEFINE row == <<n, LastFired>>
<1>0. /\ UNCHANGED <<now, twins>> /\ m \in Int /\ now \in Int /\ row \in Keys /\ m >= 0
      /\ Polls(t) \/ Leaves(t) \/ Marks(t) \/ Updates(t) \/ Fires(t) \/ Loses(t) \/ Dies(t)
      /\ Name(t) \in Names /\ (Busy(t) => thread[t].at \in Int)
      /\ stateDB[row] \in {Never} \cup Minutes
  BY BusyMoves, MinuteTypes DEF CronInv, CronTypes
<1>1. CASE \E x \in m..now : Twin(n, x)
  BY <1>0, <1>1 DEF IsRecorded, Twin
<1>2. CASE stateDB[row] >= m
  <2>1. stateDB[row] \in Int /\ stateDB[row] # Never
    <3> HIDE DEF row
    <3> QED BY <1>0, <1>2, MinuteTypes
  <2>2. CASE stateDB'[row] = stateDB[row]
    BY <1>2, <2>2 DEF IsRecorded
  <2>3. CASE stateDB'[row] # stateDB[row]
    <3>1. Marks(t) \/ Updates(t)
      BY <1>0, <2>3, Zenon DEF Polls, Leaves, Fires, Loses, Dies
    <3>2. row = KeyOf(t, thread[t].at)
      BY <1>0, <2>3, <3>1, RowWritten DEF CronInv
    <3>3. Updates(t) /\ stateDB'[row] = thread[t].at
      <4> HIDE DEF row
      <4> QED BY <2>1, <2>3, <3>1, <3>2, RowWritten DEF CronInv
    <3>4. n = Name(t) /\ thread[t].at \in Int
      BY <1>0, <3>2, <3>3 DEF KeyOf, Updates
    <3>5. CASE thread[t].at >= m
      BY <3>3, <3>5 DEF IsRecorded
    <3>6. CASE thread[t].at < m
      <4>1. Twin(n, m)
        BY <3>3, <3>4, <3>6
      <4>2. m \in m..now
        BY <1>0
      <4> QED BY <1>0, <4>1, <4>2 DEF IsRecorded, Twin
    <3> QED BY <1>0, <3>4, <3>5, <3>6
  <2> QED BY <2>2, <2>3
<1> QED BY <1>1, <1>2 DEF IsRecorded

\* A firing of an interval leaves a row that is as recent, and found one that
\* was old enough.
LEMMA IntervalMoves ==
  ASSUME CronInv, RowInv, NEW t \in Slots, Moved(t)
  PROVE  IntervalInv'
<1> USE DEF Twin
<1>0. FiringInv /\ IntervalInv
  BY DEF RowInv
<1>1. /\ Others(t) /\ t \in Live /\ UNCHANGED <<now, twins>>
      /\ Name(t) \in Names /\ When(t).kind \in Kinds /\ thread[t].doc \in Documents
      /\ now \in Int /\ now \in Minutes /\ now >= 0
      /\ \A u \in Slots : Busy(u) => /\ u \in Live /\ thread[u].at \in Minutes
                                     /\ thread[u].at \in Int /\ thread[u].at <= now
                                     /\ Name(u) \in Names
      /\ Polls(t) \/ Leaves(t) \/ Marks(t) \/ Updates(t) \/ Fires(t) \/ Loses(t) \/ Dies(t)
  BY BusyMoves
<1>2. /\ Busy(t)' => /\ thread'[t].doc = thread[t].doc
                     /\ \/ Polls(t) /\ Due(t) /\ thread'[t].pc = "mark" /\ thread'[t].at = now
                        \/ Busy(t) /\ (Marks(t) \/ Updates(t)) /\ thread'[t].at = thread[t].at
      /\ Updates(t) => Busy(t) /\ When(t).kind = "interval"
  BY BusyMoves DEF Updates, CronInv, ThreadInv
<1>3. ASSUME NEW n \in Names, NEW m \in Minutes, fired'[n]["interval"][m] > 0
      PROVE  IsRecorded(n, m)'
  <2>1. CASE fired[n]["interval"][m] > 0
    <3>1. IsRecorded(n, m) /\ m <= now
      BY <1>0, <2>1 DEF IntervalInv, FiringInv
    <3>2. ASSUME Updates(t), Name(t) = n, thread[t].at < m PROVE Twin(n, m)
      <4>1. Busy(t) /\ fired[Name(t)][When(t).kind][m] > 0 /\ thread[t].at <= m
        BY <1>1, <1>2, <2>1, <3>2, MinuteTypes
      <4> QED BY <1>0, <3>2, <4>1 DEF FiringInv
    <3> QED BY <3>1, <3>2, RecordedStays
  <2>2. CASE /\ Fires(t) /\ thread[t].pc = "enqueue" /\ n = Name(t) /\ m = thread[t].at
             /\ When(t).kind = "interval"
    <3>1. IsRecorded(n, m)
      BY <1>0, <2>2 DEF IntervalInv
    <3> QED BY <1>1, <2>2, <3>1 DEF IsRecorded, Fires
  <2> QED BY <1>3, <2>1, <2>2, JobsMoves
<1>4. ASSUME NEW u \in Slots, thread'[u].pc = "enqueue", thread'[u].doc.when.kind = "interval",
             NEW n, n = thread'[u].doc.name, NEW m, m = thread'[u].at
      PROVE  IsRecorded(n, m)'
  <2>1. CASE u # t
    <3>1. /\ thread'[u] = thread[u] /\ Busy(u) /\ thread[u].at \in Minutes /\ Name(u) \in Names
          /\ n = Name(u) /\ m = thread[u].at /\ m <= now
      BY <1>1, <1>4, <2>1 DEF Others
    <3>2. IsRecorded(n, m)
      BY <1>0, <1>4, <3>1 DEF IntervalInv
    <3>3. ASSUME Updates(t), Name(t) = n, thread[t].at < m PROVE Twin(n, m)
      <4>1. Busy(t) /\ Name(t) = Name(u) /\ thread[t].at <= thread[u].at
        BY <1>1, <1>2, <3>1, <3>3
      <4> QED BY <1>0, <2>1, <3>1, <4>1 DEF FiringInv
    <3> QED BY <3>1, <3>2, <3>3, RecordedStays
  <2>2. CASE u = t
    <3>1. /\ Busy(t) /\ (Marks(t) \/ Updates(t)) /\ n = Name(t) /\ m = thread[t].at
          /\ When(t).kind = "interval"
      BY <1>2, <1>4, <2>2
    <3>2. Updates(t)
      BY <1>4, <2>2, <3>1 DEF Marks, AfterMark
    <3>3. stateDB'[<<n, LastFired>>] = m
      <4>1. KeyOf(t, thread[t].at) = <<n, LastFired>>
        BY <3>1 DEF KeyOf
      <4> QED BY <3>1, <3>2, <4>1, RowWritten DEF CronInv
    <3> QED BY <1>1, <3>1, <3>3 DEF IsRecorded
  <2> QED BY <2>1, <2>2
<1>5. ASSUME NEW u \in Slots, NEW m \in Minutes, Busy(u)', thread'[u].doc.when.kind = "interval",
             m < thread'[u].at, fired'[thread'[u].doc.name]["interval"][m] > 0
      PROVE  \/ thread'[u].at - m >= thread'[u].doc.when.minutes
             \/ \E x \in m..thread'[u].at : Twin(thread'[u].doc.name, x)
  <2>1. CASE u # t
    <3>1. /\ thread'[u] = thread[u] /\ Busy(u) /\ thread[u].at \in Int /\ Name(u) \in Names
          /\ m \in Int
      BY <1>1, <1>5, <2>1, MinuteTypes DEF Others
    <3>2. CASE fired[Name(u)]["interval"][m] > 0
      BY <1>0, <1>5, <3>1, <3>2 DEF IntervalInv
    <3>3. CASE Busy(t) /\ Name(u) = Name(t) /\ m = thread[t].at
      <4>1. Twin(Name(u), thread[u].at)
        <5>1. thread[t].at <= thread[u].at
          BY <1>5, <3>1, <3>3
        <5> QED BY <1>0, <2>1, <3>1, <3>3, <5>1, BusyMeet
      <4>2. thread[u].at \in m..thread[u].at
        BY <1>5, <3>1
      <4> QED BY <3>1, <4>1, <4>2
    <3>4. \/ fired[Name(u)]["interval"][m] > 0
          \/ Busy(t) /\ Name(u) = Name(t) /\ m = thread[t].at
      BY <1>5, <3>1, JobsMoves
    <3> QED BY <3>2, <3>3, <3>4
  <2>2. CASE u = t
    <3>1. /\ thread'[t].doc = thread[t].doc /\ When(t).kind = "interval" /\ m \in Int
          /\ fired[Name(t)]["interval"][m] > 0
      <4>1. ~Fires(t) /\ thread'[t].doc = thread[t].doc
        BY <1>2, <1>5, <2>2, Zenon DEF Fires
      <4> QED BY <1>1, <1>5, <2>2, <4>1, JobsMoves, MinuteTypes
    <3>2. CASE Polls(t) /\ Due(t) /\ thread'[t].at = now
      <4>1. IsRecorded(Name(t), m)
        BY <1>0, <1>1, <3>1 DEF IntervalInv
      <4>2. CASE stateDB[<<Name(t), LastFired>>] >= m
        <5>1. When(t).minutes \in Nat \ {0}
          BY <1>1, <3>1, DefinitionsAssumption
        <5>2. stateDB[<<Name(t), LastFired>>] \in Int
          BY <1>1, MinuteTypes DEF CronInv, CronTypes
        <5>3. \/ stateDB[<<Name(t), LastFired>>] = Never
              \/ now - stateDB[<<Name(t), LastFired>>] >= When(t).minutes
          BY <3>1, <3>2 DEF Due, IntervalDue, KeyOf
        <5>4. m >= 0
          BY MinuteTypes
        <5> HIDE DEF LastFired, When, Name
        <5>5. now - m >= When(t).minutes
          BY <1>1, <3>1, <4>2, <5>1, <5>2, <5>3, <5>4
        <5> QED BY <2>2, <3>1, <3>2, <5>5 DEF When
      <4>3. CASE \E x \in m..now : Twin(Name(t), x)
        BY <2>2, <3>1, <3>2, <4>3
      <4> QED BY <4>1, <4>2, <4>3 DEF IsRecorded
    <3>3. CASE Busy(t) /\ thread'[t].at = thread[t].at
      BY <1>0, <1>5, <2>2, <3>1, <3>3 DEF IntervalInv
    <3> QED BY <1>2, <1>5, <2>2, <3>2, <3>3
  <2> QED BY <2>1, <2>2
<1>6. \A u \in Slots : thread'[u].pc = "enqueue" /\ thread'[u].doc.when.kind = "interval" =>
        IsRecorded(thread[u].doc.name, thread[u].at)'
  BY <1>4 DEF IsRecorded
<1> QED BY <1>1, <1>3, <1>5, <1>6 DEF IntervalInv

\* A job too many, or too early, is the job of a twin.
LEMMA PropertiesMove ==
  ASSUME CronInv, RowInv, NEW t \in Slots, Moved(t)
  PROVE  OncePerMinute' /\ IntervalsAreKept'
<1> USE DEF Twin
<1>0. /\ FiringInv /\ IntervalInv /\ OncePerMinute /\ IntervalsAreKept /\ UNCHANGED twins
      /\ thread[t].doc \in Documents
  BY BusyMoves DEF RowInv
<1>1. ASSUME NEW n \in Names, NEW k \in Kinds, NEW m \in Minutes, fired'[n][k][m] > 1
      PROVE  <<n, m>> \in twins
  <2>1. CASE fired[n][k][m] > 1
    BY <1>0, <2>1 DEF OncePerMinute
  <2>2. CASE /\ Busy(t) /\ n = Name(t) /\ k = When(t).kind /\ m = thread[t].at
             /\ fired[n][k][m] > 0
    <3>1. m <= m
      BY MinuteTypes
    <3> QED BY <1>0, <2>2, <3>1 DEF FiringInv
  <2> QED BY <1>1, <2>1, <2>2, JobsMoves
<1>2. ASSUME NEW d \in Documents, NEW m1 \in Minutes, NEW m2 \in Minutes, d.when.kind = "interval",
             \A e \in Documents : e.name = d.name /\ e.when.kind = "interval" => e.when = d.when,
             m1 < m2, fired'[d.name]["interval"][m1] > 0, fired'[d.name]["interval"][m2] > 0
      PROVE  m2 - m1 >= d.when.minutes \/ \E m \in m1..m2 : <<d.name, m>> \in twins
  <2>0. d.name \in Names /\ m1 \in Int /\ m2 \in Int
    BY DefinitionsAssumption, MinuteTypes
  <2>1. CASE fired[d.name]["interval"][m1] > 0 /\ fired[d.name]["interval"][m2] > 0
    BY <1>0, <1>2, <2>1 DEF IntervalsAreKept
  <2>2. CASE /\ Busy(t) /\ d.name = Name(t) /\ When(t).kind = "interval" /\ m2 = thread[t].at
             /\ fired[d.name]["interval"][m1] > 0
    <3>1. When(t) = d.when
      BY <1>0, <1>2, <2>2
    <3> QED BY <1>0, <1>2, <2>2, <3>1 DEF IntervalInv
  <2>3. CASE /\ Busy(t) /\ d.name = Name(t) /\ When(t).kind = "interval" /\ m1 = thread[t].at
             /\ fired[d.name]["interval"][m2] > 0
    <3>1. Twin(d.name, m2)
      <4>1. fired[Name(t)][When(t).kind][m2] > 0 /\ thread[t].at <= m2
        BY <1>2, <2>0, <2>3
      <4> QED BY <1>0, <2>3, <4>1, FiredMeet
    <3>2. m2 \in m1..m2
      BY <1>2, <2>0
    <3> QED BY <3>1, <3>2
  <2>4. /\ \/ fired[d.name]["interval"][m1] > 0
           \/ Busy(t) /\ d.name = Name(t) /\ When(t).kind = "interval" /\ m1 = thread[t].at
        /\ \/ fired[d.name]["interval"][m2] > 0
           \/ Busy(t) /\ d.name = Name(t) /\ When(t).kind = "interval" /\ m2 = thread[t].at
    <3>1. "interval" \in Kinds
      OBVIOUS
    <3> QED BY <1>2, <2>0, <3>1, JobsMoves
  <2>5. m1 # m2
    BY <1>2, <2>0
  <2> QED BY <2>1, <2>2, <2>3, <2>4, <2>5
<1> QED BY <1>0, <1>1, <1>2 DEF OncePerMinute, IntervalsAreKept

\* Every step keeps how often a trigger fires.
LEMMA RowStep ==
  FileTypes /\ PhaseInv /\ CronInv /\ RowInv /\ [Next]_vars => RowInv'
<1> SUFFICES ASSUME FileTypes, PhaseInv, CronInv, RowInv, [Next]_vars PROVE RowInv'
  OBVIOUS
<1>1. CronInv'
  BY CronStep
<1>2. CASE \E t \in Slots : Moved(t)
  BY <1>2, FiringMoves, ScheduleMoves, IntervalMoves, PropertiesMove DEF RowInv
<1>3. CASE \A t \in Slots : ~Moved(t)
  BY <1>1, <1>3, CalmSteps, CalmKeeps
<1> QED BY <1>2, <1>3

-----------------------------------------------------------------------------
(* That a trigger fires *)

\* A calm step loses the firings of the threads that end in it.
LEMMA DueCalm ==
  ASSUME FileTypes, PhaseInv, CronInv, CronInv', RowInv, DueInv, [Next]_vars,
         \A t \in Slots : ~Moved(t)
  PROVE  DueInv'
<1>0. /\ thread \in [Slots -> ThreadType] /\ \A m \in Minutes : m \in Int
      /\ now \in Int /\ now \in Minutes /\ \A t \in Slots : thread[t].at \in Int
  BY MinuteTypes DEF CronInv, CronTypes, ThreadType
<1>1. CASE Rests
  BY <1>1 DEF Rests, DueInv, Live
<1>2. CASE Starts
  <2>1. PICK new \in SUBSET (Slots \ Live) :
           /\ \A t \in Slots \ new : thread'[t] = thread[t]
           /\ \A t \in new : /\ thread'[t].pc \in {"off", "poll"}
                             /\ thread'[t].at = Never /\ thread'[t].last = Never
                             /\ thread'[t].since = now
    BY <1>2, NewThreads DEF Starts, CronInv
  <2>2. UNCHANGED <<stateDB, fired, now, lost, slow>>
    BY <1>2 DEF Starts
  <2>3. \A t \in Live' : t \in new \/ (t \in Live /\ thread'[t] = thread[t])
    BY <2>1 DEF Live
  <2>4. \A u \in Slots : thread[u].pc = "enqueue" => thread'[u] = thread[u]
    BY <2>1 DEF Live
  <2>5. \A t \in Live', m \in Minutes :
          thread'[t].since < m /\ thread'[t].at < m /\ m < now => m \in slow
    BY <1>0, <2>1, <2>3 DEF DueInv
  <2>6. \A t \in Live' : thread'[t].last # Never =>
          \/ stateDB[<<thread'[t].doc.name, thread'[t].last>>] # Never
          \/ thread'[t].pc = "mark" /\ thread'[t].at = thread'[t].last
    BY <2>1, <2>3 DEF DueInv
  <2>7. \A t \in Live', m \in Minutes :
          /\ thread'[t].since < m /\ m <= thread'[t].at /\ m \notin slow
          /\ thread'[t].doc.when.kind = "schedule"
          /\ CronMatches(thread'[t].doc.when.schedule, Moment(m))
          => \/ stateDB[<<thread'[t].doc.name, m>>] # Never
             \/ thread'[t].pc = "mark" /\ thread'[t].at = m
    BY <1>0, <2>1, <2>3, MinuteTypes DEF DueInv
  <2>8. \A n \in Names, m \in Minutes : stateDB[<<n, m>>] # Never =>
       \/ fired[n]["schedule"][m] > 0
       \/ <<n, m>> \in lost
       \/ \E u \in Slots : /\ thread'[u].pc = "enqueue" /\ thread'[u].doc.when.kind = "schedule"
                           /\ thread'[u].doc.name = n /\ thread'[u].at = m
    BY <2>4 DEF DueInv
  <2> QED BY <2>2, <2>5, <2>6, <2>7, <2>8 DEF DueInv
<1>3. CASE Ticks
  <2>1. /\ now' = now + 1 /\ slow \subseteq slow' /\ (Sleepers # {} => now \in slow')
        /\ UNCHANGED <<thread, stateDB, fired, lost>> /\ Live' = Live
    BY <1>3 DEF Ticks, Live
  <2>2. ASSUME NEW t \in Live, NEW m \in Minutes, thread[t].since < m, thread[t].at < m, m < now + 1
        PROVE  m \in slow'
    <3>1. CASE m = now
      BY <1>0, <2>1, <2>2, <3>1 DEF Sleepers, Live
    <3>2. CASE m < now
      BY <2>1, <2>2, <3>2 DEF DueInv
    <3> QED BY <1>0, <2>2, <3>1, <3>2
  <2> QED BY <2>1, <2>2 DEF DueInv
<1>4. CASE Crashes
  <2>1. /\ UNCHANGED <<stateDB, fired>> /\ Live' = {}
        /\ \A u \in Live : thread[u].pc = "enqueue" => <<Name(u), thread[u].at>> \in lost'
        /\ lost \subseteq lost'
    BY <1>4 DEF Crashes, Live, Off
  <2>2. \A u \in Slots : thread[u].pc = "enqueue" => u \in Live
    BY DEF Live
  <2>3. \A n \in Names, m \in Minutes : stateDB[<<n, m>>] # Never =>
           fired[n]["schedule"][m] > 0 \/ <<n, m>> \in lost'
    BY <2>1, <2>2 DEF DueInv
  <2> QED BY <2>1, <2>3 DEF DueInv
<1> QED BY <1>1, <1>2, <1>3, <1>4, CronSteps

\* A schedule's job stays, and the thread that enqueues it adds one.
LEMMA JobsStay ==
  ASSUME CronInv, NEW t \in Slots, Moved(t), NEW n \in Names, NEW m \in Minutes,
         \/ fired[n]["schedule"][m] > 0
         \/ Fires(t) /\ When(t).kind = "schedule" /\ n = Name(t) /\ m = thread[t].at
  PROVE  fired'[n]["schedule"][m] > 0
<1>0. "schedule" \in Kinds
  OBVIOUS
<1>1. CASE Fires(t)
  <2>1. /\ thread[t].at \in Minutes /\ Name(t) \in Names /\ When(t).kind \in Kinds
    BY <1>1, BusyMoves, Zenon DEF Fires
  <2>2. fired' = [fired EXCEPT ![Name(t)][When(t).kind][thread[t].at] = @ + 1]
    BY <1>1, Zenon DEF Fires
  <2>3. PICK x \in Names, y \in Kinds, z \in Minutes :
             x = Name(t) /\ y = When(t).kind /\ z = thread[t].at
    BY <2>1
  <2>0. JobAdded(x, y, z)
    BY <2>2, <2>3, Zenon DEF JobAdded
  <2>9. CronTypes
    BY DEF CronInv
  <2>4. \/ fired[n]["schedule"][m] > 0
        \/ y = "schedule" /\ n = x /\ m = z
    BY <1>1, <2>3
  <2>5. /\ fired'[x][y][z] = fired[x][y][z] + 1 /\ fired[x][y][z] \in Nat
        /\ \A a \in Names, b \in Kinds, c \in Minutes :
             (a = x /\ b = y /\ c = z) \/ fired'[a][b][c] = fired[a][b][c]
    BY <2>0, <2>9, JobCounted
  <2>6. fired'[x][y][z] > 0
    BY <2>5
  <2> QED BY <1>0, <2>4, <2>5, <2>6
<1>2. CASE ~Fires(t)
  <2>1. fired' = fired
    BY <1>2, BusyMoves DEF Polls, Leaves, Marks, Updates, Loses, Dies
  <2> QED BY <1>2, <2>1
<1> QED BY <1>1, <1>2

\* The thread that has marked a minute fires in it, or loses it.
LEMMA DueMoves ==
  ASSUME CronInv, CronInv', RowInv, DueInv, NEW t \in Slots, Moved(t)
  PROVE  DueInv'
<1>0. /\ Others(t) /\ t \in Live /\ UNCHANGED <<now, slow>> /\ lost \subseteq lost'
      /\ Name(t) \in Names /\ When(t).kind \in Kinds /\ now \in Int /\ now \in Minutes
      /\ \A m \in Minutes : m \in Int
      /\ \A u \in Slots : thread[u].at \in Int /\ thread[u].last \in {Never} \cup Minutes
      /\ \A u \in Live : Name(u) \in Names
      /\ thread \in [Slots -> ThreadType]
  <2>1. UNCHANGED slow /\ lost \subseteq lost'
    BY Moves, Zenon DEF Moved, CronInv, Polls, Leaves, Marks, Updates, Fires, Loses, Dies
  <2>2. thread \in [Slots -> ThreadType] /\ \A u \in Live : Name(u) \in Names
    BY NamesOfLive DEF CronInv, CronTypes
  <2> QED BY <2>1, <2>2, BusyMoves, MinuteTypes DEF ThreadType
<1>1. Polls(t) \/ Leaves(t) \/ Marks(t) \/ Updates(t) \/ Fires(t) \/ Loses(t) \/ Dies(t)
  BY BusyMoves
<1>2. \A key \in Keys : stateDB[key] # Never => stateDB'[key] # Never
  BY ScheduleMoves
<1>3. \A n \in Names, m \in Minutes : <<n, m>> \in Keys
  BY MinuteTypes, Zenon
<1>4. ASSUME t \in Live'
      PROVE  \/ Polls(t)
             \/ /\ Marks(t) /\ Stays(t) /\ thread[t].pc = "mark"
                /\ thread'[t].pc \in {"update", "enqueue"}
             \/ Stays(t) /\ thread[t].pc # "mark" /\ thread'[t].pc # "mark"
  <2>1. CASE Marks(t)
    BY <2>1 DEF Marks, AfterMark
  <2>2. CASE Leaves(t) \/ Dies(t)
    BY <1>4, <2>2 DEF Leaves, Dies, Off, Live
  <2>3. CASE Updates(t) \/ Fires(t) \/ Loses(t)
    BY <2>3, Zenon DEF Updates, Fires, Loses
  <2> QED BY <1>1, <2>1, <2>2, <2>3
<1>5. Marks(t) /\ When(t).kind = "schedule" => stateDB'[<<Name(t), thread[t].at>>] # Never
  <2> SUFFICES ASSUME Marks(t), When(t).kind = "schedule"
               PROVE  stateDB'[<<Name(t), thread[t].at>>] # Never
    OBVIOUS
  <2>1. KeyOf(t, thread[t].at) = <<Name(t), thread[t].at>>
    BY DEF KeyOf
  <2>2. stateDB'[KeyOf(t, thread[t].at)] # Never
    BY <1>0, RowWritten, MinuteTypes DEF CronInv
  <2> QED BY <2>1, <2>2
<1>6. \A u \in Live' : u = t \/ (u \in Live /\ thread'[u] = thread[u])
  BY <1>0 DEF Others, Live
<1>7. ASSUME NEW u \in Live', NEW m \in Minutes,
             thread'[u].since < m, thread'[u].at < m, m < now
      PROVE  m \in slow
  <2>1. u \in Live /\ thread[u].since < m /\ thread[u].at < m
    <3>1. CASE u = t
      BY <1>0, <1>4, <1>7, <3>1 DEF Polls, Stays
    <3>2. CASE u # t
      BY <1>6, <1>7, <3>2
    <3> QED BY <3>1, <3>2
  <2> QED BY <1>7, <2>1 DEF DueInv
<1>8. ASSUME NEW n \in Names, NEW m \in Minutes, stateDB'[<<n, m>>] # Never
      PROVE  \/ fired'[n]["schedule"][m] > 0
             \/ <<n, m>> \in lost'
             \/ \E u \in Slots : /\ thread'[u].pc = "enqueue" /\ thread'[u].doc.when.kind = "schedule"
                                 /\ thread'[u].doc.name = n /\ thread'[u].at = m
  <2>1. CASE stateDB[<<n, m>>] # Never
    <3>1. CASE fired[n]["schedule"][m] > 0
      <4>1. fired'[n]["schedule"][m] > 0
        BY <3>1, JobsStay
      <4> QED BY <4>1
    <3>2. CASE <<n, m>> \in lost
      BY <1>0, <3>2
    <3>3. ASSUME NEW u \in Slots, thread[u].pc = "enqueue", When(u).kind = "schedule",
                 Name(u) = n, thread[u].at = m
          PROVE  \/ fired'[n]["schedule"][m] > 0
                 \/ <<n, m>> \in lost'
                 \/ thread'[u] = thread[u]
      <4>1. CASE u # t
        BY <1>0, <4>1 DEF Others
      <4>2. CASE u = t
        <5>1. Fires(t) \/ Loses(t)
          BY <1>1, <3>3, <4>2 DEF Polls, Leaves, Marks, Updates, Dies
        <5>2. Fires(t) => fired'[n]["schedule"][m] > 0
          BY <3>3, <4>2, JobsStay
        <5> QED BY <3>3, <4>2, <5>1, <5>2 DEF Loses
      <4> QED BY <4>1, <4>2
    <3> QED BY <2>1, <3>1, <3>2, <3>3 DEF DueInv
  <2>2. CASE stateDB[<<n, m>>] = Never
    <3>1. (Marks(t) \/ Updates(t)) /\ <<n, m>> = KeyOf(t, thread[t].at)
      BY <1>1, <1>3, <1>8, <2>2, RowWritten, Zenon DEF CronInv, Polls, Leaves, Fires, Loses, Dies
    <3>2. When(t).kind # "interval" /\ n = Name(t) /\ m = thread[t].at
      BY <3>1, MinuteTypes DEF KeyOf
    <3>3. When(t).kind = "schedule"
      BY <1>0, <3>2
    <3>4. Marks(t)
      BY <1>0, <3>1, <3>3 DEF Updates, CronInv, ThreadInv
    <3>5. thread'[t].pc = "enqueue" /\ Stays(t)
      BY <3>3, <3>4 DEF Marks, AfterMark
    <3> QED BY <3>2, <3>3, <3>5 DEF Stays
  <2> QED BY <2>1, <2>2
<1>9. ASSUME NEW u \in Live', thread'[u].last # Never
      PROVE  \/ stateDB'[<<thread'[u].doc.name, thread'[u].last>>] # Never
             \/ thread'[u].pc = "mark" /\ thread'[u].at = thread'[u].last
  <2>1. CASE u # t
    <3>1. thread'[u] = thread[u] /\ u \in Live /\ <<Name(u), thread[u].last>> \in Keys
      BY <1>0, <1>3, <1>6, <1>9, <2>1 DEF Live
    <3> QED BY <1>2, <1>9, <3>1 DEF DueInv
  <2>2. CASE u = t
    <3>1. CASE Polls(t) /\ Due(t) /\ When(t).kind = "schedule"
      BY <2>2, <3>1 DEF Polls
    <3>2. CASE Polls(t) /\ ~(Due(t) /\ When(t).kind = "schedule")
      <4>1. thread[t].last = thread'[t].last /\ thread[t].pc = "poll" /\ thread'[t].doc = thread[t].doc
        BY <3>2 DEF Polls
      <4>2. <<Name(t), thread[t].last>> \in Keys
        BY <1>0, <1>3, <1>9, <2>2, <4>1
      <4> QED BY <1>0, <1>2, <1>9, <2>2, <4>1, <4>2 DEF DueInv
    <3>3. CASE Stays(t)
      <4>1. <<Name(t), thread[t].last>> \in Keys
        BY <1>0, <1>3, <1>9, <2>2, <3>3 DEF Stays
      <4>2. CASE stateDB[<<Name(t), thread[t].last>>] # Never
        BY <1>2, <2>2, <3>3, <4>1, <4>2 DEF Stays
      <4>3. CASE thread[t].pc = "mark" /\ thread[t].at = thread[t].last
        <5>1. Marks(t)
          BY <1>4, <1>9, <2>2, <4>3 DEF Polls
        <5>2. When(t).kind = "schedule"
          BY <1>0, <1>9, <2>2, <3>3 DEF CronInv, ThreadInv, Stays
        <5> QED BY <1>5, <2>2, <3>3, <4>3, <5>1, <5>2 DEF Stays
      <4> QED BY <1>0, <1>9, <2>2, <3>3, <4>2, <4>3 DEF DueInv, Stays
    <3> QED BY <1>4, <1>9, <2>2, <3>1, <3>2, <3>3
  <2> QED BY <2>1, <2>2
<1>10. ASSUME NEW u \in Live', NEW m \in Minutes,
              thread'[u].since < m, m <= thread'[u].at, m \notin slow,
              thread'[u].doc.when.kind = "schedule",
              CronMatches(thread'[u].doc.when.schedule, Moment(m))
       PROVE  \/ stateDB'[<<thread'[u].doc.name, m>>] # Never
              \/ thread'[u].pc = "mark" /\ thread'[u].at = m
  <2>1. CASE u # t
    <3>1. thread'[u] = thread[u] /\ u \in Live /\ <<Name(u), m>> \in Keys
      BY <1>0, <1>3, <1>6, <2>1
    <3> QED BY <1>2, <1>10, <3>1 DEF DueInv
  <2>2. CASE u = t /\ Polls(t)
    <3>1. /\ thread'[t].doc = thread[t].doc /\ thread'[t].since = thread[t].since
          /\ thread'[t].at = now /\ thread[t].pc = "poll" /\ <<Name(t), m>> \in Keys
          /\ (Due(t) => thread'[t].pc = "mark") /\ m <= now /\ thread[t].since < m
          /\ When(t).kind = "schedule" /\ CronMatches(When(t).schedule, Moment(m))
      BY <1>0, <1>3, <1>10, <2>2 DEF Polls
    <3>2. CASE m <= thread[t].at
      <4>1. stateDB[<<Name(t), m>>] # Never
        BY <1>0, <1>10, <3>1, <3>2 DEF DueInv
      <4> QED BY <1>2, <2>2, <3>1, <4>1
    <3>3. CASE thread[t].at < m /\ m < now
      BY <1>0, <1>10, <3>1, <3>3 DEF DueInv
    <3>4. CASE m = now
      <4>1. CASE Due(t)
        BY <2>2, <3>1, <3>4, <4>1
      <4>2. CASE ~Due(t)
        <5>1. now = thread[t].last \/ stateDB[<<Name(t), now>>] # Never
          BY <3>1, <3>4, <4>2 DEF Due, ScheduleDue, KeyOf
        <5>2. now = thread[t].last => stateDB[<<Name(t), now>>] # Never
          BY <1>0, <3>1, MinuteTypes DEF DueInv
        <5> QED BY <1>2, <2>2, <3>1, <3>4, <5>1, <5>2
      <4> QED BY <4>1, <4>2
    <3> QED BY <1>0, <3>1, <3>2, <3>3, <3>4
  <2>3. CASE u = t /\ ~Polls(t)
    <3>1. /\ thread'[t].doc = thread[t].doc /\ thread[t].since < m /\ m <= thread[t].at
          /\ thread'[t].at = thread[t].at /\ <<Name(t), m>> \in Keys
          /\ When(t).kind = "schedule" /\ CronMatches(When(t).schedule, Moment(m))
          /\ Marks(t) \/ thread[t].pc # "mark"
      BY <1>0, <1>3, <1>4, <1>10, <2>3 DEF Stays
    <3>2. CASE stateDB[<<Name(t), m>>] # Never
      BY <1>2, <2>3, <3>1, <3>2
    <3>3. CASE thread[t].pc = "mark" /\ thread[t].at = m
      BY <1>5, <2>3, <3>1, <3>3
    <3> QED BY <1>0, <1>10, <3>1, <3>2, <3>3 DEF DueInv
  <2> QED BY <2>1, <2>2, <2>3
<1> QED BY <1>0, <1>7, <1>8, <1>9, <1>10, SMTT(30) DEF DueInv

\* Every step keeps that it fires.
LEMMA DueStep ==
  FileTypes /\ PhaseInv /\ CronInv /\ RowInv /\ DueInv /\ [Next]_vars => DueInv'
<1> SUFFICES ASSUME FileTypes, PhaseInv, CronInv, RowInv, DueInv, [Next]_vars PROVE DueInv'
  OBVIOUS
<1>1. CronInv'
  BY CronStep
<1>2. CASE \E t \in Slots : Moved(t)
  BY <1>1, <1>2, DueMoves
<1>3. CASE \A t \in Slots : ~Moved(t)
  BY <1>1, <1>3, DueCalm
<1> QED BY <1>2, <1>3

\* What fires when it should.
LEMMA DueIsFired == CronInv /\ DueInv => DueMinutesFire
<1> SUFFICES ASSUME CronInv, DueInv, NEW t \in Live, NEW m \in Minutes,
                    thread[t].since < m, m <= thread[t].at, m \notin slow,
                    When(t).kind = "schedule", CronMatches(When(t).schedule, Moment(m))
             PROVE  \/ fired[Name(t)]["schedule"][m] > 0
                    \/ <<Name(t), m>> \in lost
                    \/ \E u \in Live : Name(u) = Name(t) /\ thread[u].at = m /\ thread[u].pc # "poll"
  BY DEF DueMinutesFire
<1>1. CASE thread[t].pc = "mark" /\ thread[t].at = m
  BY <1>1
<1>2. CASE stateDB[<<Name(t), m>>] # Never
  <2>1. Name(t) \in Names
    BY NamesOfLive DEF CronInv
  <2>2. \A u \in Slots : thread[u].pc = "enqueue" => u \in Live
    BY DEF Live
  <2> QED BY <1>2, <2>1, <2>2 DEF DueInv
<1> QED BY <1>1, <1>2 DEF DueInv

-----------------------------------------------------------------------------
(* That the worker follows the files *)

\* What the threads and the clock leave alone.
FilesRest ==
  /\ UNCHANGED <<fileVars, workerVars, missed>>
  /\ Live' \subseteq Live /\ \A t \in listed : thread'[t].doc = thread[t].doc

\* Every step is one of these to the files and the worker.
LEMMA FileSteps ==
  ASSUME FileTypes, PhaseInv, CronInv, [Next]_vars
  PROVE  \/ FilesRest \/ Crash \/ StartWorker \/ Reload \/ Write
         \/ \E p \in Paths : Remove(p) \/ \E b \in Bodies(p) : Truncate(p, b)
<1>1. CASE UNCHANGED vars
  BY <1>1 DEF vars, FilesRest, cronVars, historyVars, Live
<1>2. CASE Tick
  BY <1>2 DEF Tick, FilesRest, cronVars, Live
<1>3. ASSUME NEW t \in Slots, Moved(t) PROVE FilesRest
  <2>1. /\ Others(t) /\ t \in Live /\ UNCHANGED <<fileVars, workerVars, missed>>
        /\ Polls(t) \/ Leaves(t) \/ Marks(t) \/ Updates(t) \/ Fires(t) \/ Loses(t) \/ Dies(t)
    BY <1>3, Moves DEF Moved, CronInv
  <2>2. Live' \subseteq Live
    BY <2>1 DEF Others, Live
  <2>3. t \in listed => thread'[t].doc = thread[t].doc
    <3>1. CASE Leaves(t)
      BY <3>1 DEF Leaves, PhaseInv
    <3>2. CASE ~Leaves(t)
      BY <2>1, <3>2, Zenon DEF Polls, Marks, Updates, Fires, Loses, Dies, Stays
    <3> QED BY <3>1, <3>2
  <2>4. \A u \in listed : u \in Slots
    BY DEF FileTypes
  <2> QED BY <2>1, <2>2, <2>3, <2>4 DEF Others, FilesRest
<1>4. CASE EditFiles
  <2>1. \A stem \in Stems : FileOf(stem) \in TriggerFiles
    BY DEF FileOf, TriggerFiles
  <2>2. \A p \in TriggerFiles : p \in Paths /\ Documents \subseteq Bodies(p)
    BY DEF Paths, Bodies
  <2>3. ASSUME NEW stem \in Stems, Save(stem) \/ Toggle(stem)
        PROVE  \E p \in Paths : \E b \in Bodies(p) : Truncate(p, b)
    <3>1. <<stem, "yaml">> \in TriggerFiles
      BY DEF TriggerFiles
    <3>2. CASE Save(stem)
      BY <2>2, <3>1, <3>2 DEF Save
    <3>3. CASE Toggle(stem)
      BY <2>1, <2>2, <3>3 DEF Toggle
    <3> QED BY <2>3, <3>2, <3>3
  <2>4. \A stem \in Stems : Delete(stem) => \E p \in Paths : Remove(p)
    BY <2>1, <2>2 DEF Delete
  <2> QED BY <1>4, <2>3, <2>4 DEF EditFiles, EditByHand
<1> QED BY <1>1, <1>2, <1>3, <1>4 DEF Next, Moved

\* What is in a file is not that no file is there.
LEMMA BodiesAreThere ==
  \A p \in Paths : \A b \in Bodies(p) : b # Absent /\ Blank # Absent
BY DefinitionsAssumption DEF Bodies

\* Every step keeps the types ...
LEMMA FileTypesStep ==
  FileTypes /\ PhaseInv /\ CronInv /\ [Next]_vars => FileTypes'
<1> SUFFICES ASSUME FileTypes, PhaseInv, CronInv, [Next]_vars PROVE FileTypes'
  OBVIOUS
<1> USE DEF FileTypes, workerVars, fileVars
<1>1. CASE FilesRest
  BY <1>1 DEF FilesRest
<1>2. Times \in [Paths -> {"absent", "same", "other"}]
  BY DEF Times
<1>3. CASE Crash
  BY <1>3 DEF Crash
<1>4. CASE StartWorker
  BY <1>4 DEF StartWorker, Worker, Unchanged
<1>5. CASE Reload
  <2>1. CASE Seed
    BY <1>2, <2>1 DEF Seed, Worker
  <2>2. CASE Check
    BY <1>2, <2>2 DEF Check, Worker
  <2>3. CASE LoadFails
    BY <2>3 DEF LoadFails, Unchanged
  <2>4. CASE StopThreads
    BY <2>4 DEF StopThreads, Worker, Unchanged
  <2>5. CASE ListFiles
    BY <2>5 DEF ListFiles, Worker, Unchanged
  <2>6. CASE ReadFile
    <3>1. OnDisk \subseteq TriggerFiles \X Documents
      BY DEF OnDisk
    <3> QED BY <2>6, <3>1 DEF ReadFile, Unchanged, Parsed
  <2>7. CASE StartThreads
    <3>1. listed' \in SUBSET Slots /\ stopping' \in SUBSET Slots
      BY <2>7, NewThreads DEF CronInv
    <3> QED BY <2>7, <3>1, Zenon DEF StartThreads, Unchanged
  <2> QED BY <1>5, <2>1, <2>2, <2>3, <2>4, <2>5, <2>6, <2>7 DEF Reload
<1>6. ASSUME NEW p \in Paths
      PROVE  Touched(p) \in [Paths -> {"absent", "same", "other"}]
  BY DEF Touched
<1>7. CASE Write
  <2>1. writing[1] \in Paths /\ writing[2] \in Bodies(writing[1])
    BY <1>7 DEF Write
  <2>2. recorded' \in [Paths -> {"absent", "same", "other"}] /\ writing' = Absent
    BY <1>6, <1>7, <2>1 DEF Write
  <2>3. UNCHANGED body \/ body' = [body EXCEPT ![writing[1]] = writing[2]]
    BY <1>7 DEF Write
  <2>4. body' = [p \in Paths |-> body'[p]] /\ \A p \in Paths : body'[p] \in Bodies(p) \cup {Absent, Blank}
    <3>1. CASE UNCHANGED body
      BY <3>1
    <3>2. CASE body' = [body EXCEPT ![writing[1]] = writing[2]]
      <4>1. PICK q \in Paths : \E b \in Bodies(q) : body' = [body EXCEPT ![q] = b]
        BY <2>1, <3>2
      <4> QED BY <4>1
    <3> QED BY <2>3, <3>1, <3>2
  <2> QED BY <1>7, <2>2, <2>4 DEF Write
<1>8. ASSUME NEW p \in Paths, Remove(p) PROVE FileTypes'
  <2>1. body' = [q \in Paths |-> body'[q]] /\ \A q \in Paths : body'[q] \in Bodies(q) \cup {Absent, Blank}
    BY <1>8 DEF Remove
  <2> QED BY <1>6, <1>8, <2>1 DEF Remove, Edited
<1>9. ASSUME NEW p \in Paths, NEW b \in Bodies(p), Truncate(p, b) PROVE FileTypes'
  <2>1. body' = [q \in Paths |-> body'[q]] /\ \A q \in Paths : body'[q] \in Bodies(q) \cup {Absent, Blank}
    BY <1>9 DEF Truncate
  <2>2. writing' = <<p, b>>
    BY <1>9 DEF Truncate
  <2>3. writing'[1] \in Paths /\ writing'[2] \in Bodies(writing'[1])
    BY <2>2
  <2> QED BY <1>6, <1>9, <2>1, <2>3 DEF Truncate, Edited
<1> QED BY <1>1, <1>3, <1>4, <1>5, <1>7, <1>8, <1>9, FileSteps

\* ... and what the phases have done.
LEMMA PhaseStep ==
  FileTypes /\ PhaseInv /\ CronInv /\ [Next]_vars => PhaseInv'
<1> SUFFICES ASSUME FileTypes, PhaseInv, CronInv, [Next]_vars PROVE PhaseInv'
  OBVIOUS
<1> USE DEF PhaseInv, workerVars, fileVars
<1>1. CASE FilesRest
  <2>1. {<<t[1], thread'[t].doc>> : t \in listed} = {<<t[1], thread[t].doc>> : t \in listed}
    BY <1>1 DEF FilesRest
  <2> QED BY <1>1, <2>1 DEF FilesRest
<1>2. CASE Crash
  <2>1. Live' = {}
    BY <1>2 DEF Crash, Live, Off
  <2> QED BY <1>2, <2>1 DEF Crash
<1>3. CASE StartWorker
  BY <1>3 DEF StartWorker, Worker, Unchanged, cronVars, Live
<1>4. CASE Reload
  <2>1. CASE Seed
    BY <2>1 DEF Seed, Worker, cronVars, Live
  <2>2. CASE Check
    BY <2>2 DEF Check, Worker, cronVars, Live
  <2>3. CASE LoadFails
    BY <2>3 DEF LoadFails, cronVars, Live
  <2>4. CASE StopThreads
    BY <2>4 DEF StopThreads, Worker, cronVars, Live
  <2>5. CASE ListFiles
    BY <2>5 DEF ListFiles, Worker, cronVars, Live
  <2>6. CASE ReadFile
    <3>1. PICK p \in toLoad : toLoad' = toLoad \ {p} /\ loaded' = loaded \cup Parsed(p)
      BY <2>6 DEF ReadFile
    <3>2. \A a \in Parsed(p) : a = <<p, body[p]>> /\ a[1] = p
      BY DEF Parsed
    <3>3. \A a \in loaded : a[1] # p
      BY <2>6 DEF ReadFile
    <3>4. \A a, b \in loaded' : a[1] = b[1] => a = b
      BY <3>1, <3>2, <3>3
    <3>5. \A a \in loaded' : a[1] \notin toLoad'
      BY <2>6, <3>1, <3>2, <3>3 DEF ReadFile
    <3> QED BY <2>6, <3>4, <3>5 DEF ReadFile, cronVars, Live
  <2>7. CASE StartThreads
    <3>1. PICK new \in SUBSET (Slots \ Live) :
           /\ listed' = new /\ stopping' = stopping \ new
           /\ {<<t[1], thread'[t].doc>> : t \in new} = {pd \in loaded : pd[2].enabled}
           /\ \A t \in Slots \ new : thread'[t] = thread[t]
           /\ \A t \in new : thread'[t].doc \in Documents
      BY <2>7, NewThreads DEF CronInv
    <3>2. Live' \subseteq Live \cup new
      BY <3>1 DEF Live
    <3>3. UNCHANGED <<watching, toLoad>> /\ phase = "read" /\ toLoad = {}
          /\ phase' = (IF watching THEN "wait" ELSE "seed")
          /\ loaded' \in {loaded, {}} /\ (phase' = "seed" => loaded' = loaded)
      BY <2>7, Zenon DEF StartThreads
    <3> QED BY <3>1, <3>2, <3>3
  <2> QED BY <1>4, <2>1, <2>2, <2>3, <2>4, <2>5, <2>6, <2>7 DEF Reload
<1>5. CASE Write \/ \E p \in Paths : Remove(p) \/ \E b \in Bodies(p) : Truncate(p, b)
  <2>1. UNCHANGED <<workerVars, cronVars>>
    BY <1>5 DEF Write, Remove, Truncate, Edited
  <2> QED BY <2>1 DEF cronVars, Live
<1> QED BY <1>1, <1>2, <1>3, <1>4, <1>5, FileSteps

\* An edit of p leaves the other files alone, and the watcher will see p, or
\* p is a trigger file and missed; so is one that made a load fail.
LEMMA EditsAreSeen ==
  ASSUME FileTypes, NEW p \in Paths,
         Remove(p) \/ (Write /\ p = writing[1]) \/ \E b \in Bodies(p) : Truncate(p, b)
  PROVE  /\ \A q \in Paths \ {p} : body'[q] = body[q] /\ recorded'[q] = recorded[q]
         /\ UNCHANGED <<workerVars, cronVars>> /\ (missed => missed')
         /\ \/ body'[p] = body[p] /\ recorded'[p] = recorded[p]
            \/ ~Same(p)'
            \/ p \in TriggerFiles => missed'
            \/ ~Taken(p) /\ ~Idling /\ body'[p] = Absent
<1> USE DEF FileTypes
<1>1. CASE Remove(p)
  <2>1. /\ body' = [body EXCEPT ![p] = Absent] /\ recorded' = Touched(p)
        /\ missed' = (missed \/ (recorded[p] = "absent" /\ (Taken(p) \/ Idling)))
        /\ UNCHANGED <<workerVars, cronVars>>
    BY <1>1 DEF Remove, Edited
  <2>2. body'[p] = Absent /\ recorded'[p] = IF recorded[p] = "absent" THEN "absent" ELSE "other"
    BY <2>1 DEF Touched
  <2>3. \A q \in Paths \ {p} : body'[q] = body[q] /\ recorded'[q] = recorded[q]
    BY <2>1 DEF Touched
  <2>4. CASE recorded[p] = "absent"
    BY <1>1, <2>1, <2>2, <2>3, <2>4
  <2>5. CASE recorded[p] # "absent"
    BY <2>1, <2>2, <2>3, <2>5 DEF Same, Exists
  <2> QED BY <2>4, <2>5
<1>2. CASE Write /\ p = writing[1]
  <2>0. writing[2] \in Bodies(p) /\ UNCHANGED <<workerVars, cronVars>>
    BY <1>2 DEF Write
  <2>1. CASE UNCHANGED <<body, recorded, missed>>
    BY <2>0, <2>1
  <2>2. CASE body' = [body EXCEPT ![p] = writing[2]] /\ recorded' = Touched(p) /\ UNCHANGED missed
    <3>1. body'[p] # Absent /\ recorded'[p] \in {"absent", "other"}
      BY <2>0, <2>2, BodiesAreThere DEF Touched
    <3>2. \A q \in Paths \ {p} : body'[q] = body[q] /\ recorded'[q] = recorded[q]
      BY <2>2 DEF Touched
    <3> QED BY <2>0, <2>2, <3>1, <3>2 DEF Same, Exists
  <2>3. CASE /\ body' = [body EXCEPT ![p] = writing[2]] /\ UNCHANGED recorded
             /\ missed' = (missed \/ p \in TriggerFiles)
    BY <2>0, <2>3
  <2> QED BY <1>2, <2>1, <2>2, <2>3 DEF Write
<1>3. ASSUME NEW b \in Bodies(p), Truncate(p, b)
      PROVE  /\ \A q \in Paths \ {p} : body'[q] = body[q] /\ recorded'[q] = recorded[q]
             /\ UNCHANGED <<workerVars, cronVars, missed>> /\ ~Same(p)'
  <2>1. body' = [body EXCEPT ![p] = Blank] /\ recorded' = Touched(p)
        /\ UNCHANGED <<workerVars, cronVars, missed>>
    BY <1>3 DEF Truncate, Edited
  <2>2. body'[p] # Absent /\ recorded'[p] \in {"absent", "other"}
    BY <1>3, <2>1, BodiesAreThere DEF Touched
  <2>3. \A q \in Paths \ {p} : body'[q] = body[q] /\ recorded'[q] = recorded[q]
    BY <2>1 DEF Touched
  <2> QED BY <2>1, <2>2, <2>3 DEF Same, Exists
<1> QED BY <1>1, <1>2, <1>3

\* Which file an edit is of.
LEMMA EditedFile ==
  ASSUME FileTypes, Write \/ \E p \in Paths : Remove(p) \/ \E b \in Bodies(p) : Truncate(p, b)
  PROVE  \E p \in Paths : \/ Remove(p) \/ (Write /\ p = writing[1])
                          \/ \E b \in Bodies(p) : Truncate(p, b)
<1>1. Write => writing[1] \in Paths
  BY DEF Write, FileTypes
<1> QED BY <1>1

\* What is on disk, file by file.
LEMMA DiskIsFiles ==
  /\ \A p \in TriggerFiles, d \in Documents : <<p, d>> \in OnDisk <=> body[p] = d
  /\ OnDisk \subseteq TriggerFiles \X Documents
  /\ TriggerFiles \subseteq Paths /\ Absent # Unreadable
  /\ \A d \in Documents : d # Absent /\ d # Unreadable
BY DefinitionsAssumption DEF OnDisk, Paths

\* Loading keeps up with what it has read, edits are seen or missed, and a
\* reload replaces the threads by those of the documents that were read, or by
\* none when there is a file that it cannot read.
LEMMA FollowStep ==
  FileTypes /\ PhaseInv /\ CronInv /\ FollowInv /\ [Next]_vars => FollowInv'
<1> SUFFICES ASSUME FileTypes, PhaseInv, CronInv, FollowInv, [Next]_vars, watching', ~missed'
             PROVE  FollowInv'
  BY DEF FollowInv
<1> USE DEF workerVars, fileVars
<1>a. ASSUME NEW p \in TriggerFiles, body'[p] = body[p], recorded'[p] = recorded[p]
      PROVE  Same(p)' = Same(p)
  BY <1>a DEF Same, Exists
<1>1. CASE FilesRest
  <2>1. /\ UNCHANGED <<body, recorded, phase, watching, toLoad, loaded, listed, missed>>
        /\ \A t \in listed : thread'[t].doc = thread[t].doc
    BY <1>1 DEF FilesRest
  <2>2. \A p \in TriggerFiles : /\ Same(p)' = Same(p) /\ IsRead(p)' = IsRead(p)
                                /\ Runs(p)' = Runs(p)
    BY <1>a, <2>1 DEF IsRead, Runs
  <2>3. GivenUp' = GivenUp
    BY <2>1, <2>2 DEF GivenUp
  <2> QED BY <2>1, <2>2, <2>3, Zenon DEF FollowInv
<1>2. CASE Crash
  BY <1>2 DEF Crash
<1>3. CASE StartWorker
  BY <1>3 DEF StartWorker, Worker, FollowInv
<1>4. CASE Reload
  <2>1. CASE Seed
    <3>1. phase' = "wait" /\ UNCHANGED <<listed, thread, body>> /\ phase = "seed"
      BY <2>1 DEF Seed, Worker, cronVars
    <3>2. OnDisk = loaded /\ \A p \in TriggerFiles : body[p] # Unreadable
      BY <2>1 DEF Seed, Spoilt
    <3>3. {<<t[1], thread[t].doc>> : t \in listed} = {pd \in OnDisk : pd[2].enabled}
      BY <3>1, <3>2 DEF PhaseInv
    <3>4. ASSUME NEW p \in TriggerFiles, NEW d \in Documents
          PROVE  (\E t \in listed : t[1] = p /\ thread[t].doc = d)
                   <=> <<p, d>> \in {<<t[1], thread[t].doc>> : t \in listed}
      OBVIOUS
    <3>5. ASSUME NEW p \in TriggerFiles, NEW d \in Documents
          PROVE  (\E t \in listed : t[1] = p /\ thread[t].doc = d) <=> body[p] = d /\ d.enabled
      <4>1. <<p, d>> \in {<<t[1], thread[t].doc>> : t \in listed} <=> body[p] = d /\ d.enabled
        BY <3>3, DiskIsFiles
      <4> QED BY <3>4, <4>1, Zenon
    <3>6. \A p \in TriggerFiles : Runs(p)'
      BY <3>1, <3>2, <3>5 DEF Runs
    <3> QED BY <3>1, <3>6 DEF FollowInv
  <2>2. CASE Check
    BY <2>2 DEF Check, Worker, FollowInv
  <2>3. CASE LoadFails
    <3>1. PICK p \in TriggerFiles : body[p] = Unreadable
      BY <2>3 DEF LoadFails, FileTypes
    <3>2. phase' = "wait" /\ listed' = {} /\ UNCHANGED body
      BY <2>3 DEF LoadFails, PhaseInv, Unchanged
    <3> QED BY <3>1, <3>2 DEF FollowInv, GivenUp
  <2>4. CASE StopThreads
    BY <2>4 DEF StopThreads, Worker, FollowInv
  <2>5. CASE ListFiles
    <3>1. /\ phase' = "read" /\ loaded' = {} /\ UNCHANGED body
          /\ toLoad' = {p \in TriggerFiles : body[p] # Absent}
      BY <2>5 DEF ListFiles, Worker, Exists, Unchanged
    <3>2. \A p \in TriggerFiles \ toLoad' : IsRead(p)'
      BY <3>1, DiskIsFiles DEF IsRead
    <3> QED BY <3>1, <3>2 DEF FollowInv
  <2>6. CASE ReadFile
    <3>1. PICK q \in toLoad : /\ toLoad' = toLoad \ {q} /\ loaded' = loaded \cup Parsed(q)
                              /\ body[q] # Unreadable
      BY <2>6 DEF ReadFile
    <3>2. /\ UNCHANGED <<phase, watching, missed, body, recorded>> /\ phase = "read"
          /\ \A a \in loaded : a[1] # q
      BY <2>6 DEF ReadFile, historyVars, Unchanged, PhaseInv
    <3>3. \A p \in TriggerFiles, d \in Documents : <<p, d>> \in Parsed(q) <=> p = q /\ body[p] = d
      BY DiskIsFiles DEF Parsed
    <3>4. ASSUME NEW p \in TriggerFiles \ toLoad', Same(p)' PROVE IsRead(p)'
      <4>1. CASE p = q
        BY <3>1, <3>2, <3>3, <4>1 DEF IsRead
      <4>2. CASE p # q
        <5>1. p \in TriggerFiles \ toLoad /\ Same(p)
          BY <1>a, <3>1, <3>2, <3>4, <4>2
        <5>2. IsRead(p)
          BY <3>2, <5>1 DEF FollowInv
        <5> QED BY <3>1, <3>2, <3>3, <4>2, <5>2 DEF IsRead
      <4> QED BY <4>1, <4>2
    <3> QED BY <3>2, <3>4 DEF FollowInv
  <2>7. CASE StartThreads
    <3>1. PICK new \in SUBSET (Slots \ Live) :
           /\ listed' = new
           /\ {<<t[1], thread'[t].doc>> : t \in new} = {pd \in loaded : pd[2].enabled}
      BY <2>7, NewThreads DEF CronInv
    <3>2. /\ phase = "read" /\ toLoad = {} /\ UNCHANGED <<watching, missed, body, recorded>>
          /\ phase' = "wait"
      BY <2>7, Zenon DEF StartThreads, Unchanged
    <3>3. ASSUME NEW p \in TriggerFiles, NEW d \in Documents
          PROVE  (\E t \in new : t[1] = p /\ thread'[t].doc = d)
                   <=> <<p, d>> \in {<<t[1], thread'[t].doc>> : t \in new}
      OBVIOUS
    <3>4. ASSUME NEW p \in TriggerFiles, Same(p)' PROVE Runs(p)'
      <4>1. Same(p) /\ p \notin toLoad
        BY <1>a, <3>2, <3>4
      <4>2. IsRead(p)
        BY <3>2, <4>1 DEF FollowInv
      <4>3. ASSUME NEW d \in Documents
            PROVE  (\E t \in new : t[1] = p /\ thread'[t].doc = d) <=> body[p] = d /\ d.enabled
        <5>1. <<p, d>> \in {pd \in loaded : pd[2].enabled} <=> body[p] = d /\ d.enabled
          BY <4>2 DEF IsRead
        <5> QED BY <3>1, <3>3, <5>1, Zenon
      <4> QED BY <3>1, <3>2, <4>2, <4>3 DEF IsRead, Runs
    <3> QED BY <3>2, <3>4 DEF FollowInv
  <2> QED BY <1>4, <2>1, <2>2, <2>3, <2>4, <2>5, <2>6, <2>7 DEF Reload
<1>5. CASE Write \/ \E q \in Paths : Remove(q) \/ \E b \in Bodies(q) : Truncate(q, b)
  <2>1. PICK q \in Paths : Remove(q) \/ (Write /\ q = writing[1])
                           \/ \E b \in Bodies(q) : Truncate(q, b)
    BY <1>5, EditedFile
  <2>2. /\ \A r \in Paths \ {q} : body'[r] = body[r] /\ recorded'[r] = recorded[r]
        /\ UNCHANGED <<workerVars, cronVars>> /\ (missed => missed')
        /\ \/ body'[q] = body[q] /\ recorded'[q] = recorded[q]
           \/ ~Same(q)'
           \/ q \in TriggerFiles => missed'
           \/ ~Taken(q) /\ ~Idling /\ body'[q] = Absent
    BY <2>1, EditsAreSeen
  <2>3. UNCHANGED <<watching, phase, toLoad, loaded, listed, thread>>
    BY <2>2 DEF cronVars
  \* One file after the other.
  <2>4. ASSUME NEW p \in TriggerFiles
        PROVE  \/ body'[p] = body[p] /\ Same(p)' = Same(p)
               \/ ~Same(p)'
               \/ ~Taken(p) /\ ~Idling /\ body'[p] = Absent
    <3>1. p \in Paths
      BY DiskIsFiles
    <3>2. CASE p # q
      BY <1>a, <2>2, <3>1, <3>2
    <3>3. CASE p = q
      BY <1>a, <2>2, <3>3
    <3> QED BY <3>2, <3>3
  <2>5. CASE phase = "read"
    <3>1. ASSUME NEW p \in TriggerFiles \ toLoad, Same(p)' PROVE IsRead(p)'
      <4>1. CASE body'[p] = body[p] /\ Same(p)
        <5>1. IsRead(p)
          BY <2>2, <2>3, <2>5, <3>1, <4>1 DEF FollowInv
        <5> QED BY <2>3, <4>1, <5>1 DEF IsRead
      <4>2. CASE ~Taken(p) /\ body'[p] = Absent
        BY <2>3, <4>2, DiskIsFiles DEF Taken, IsRead
      <4> QED BY <2>4, <3>1, <4>1, <4>2
    <3> QED BY <2>3, <2>5, <3>1 DEF FollowInv
  <2>6. CASE phase = "wait" /\ GivenUp
    <3>1. PICK p \in TriggerFiles : ~Same(p) \/ body[p] = Unreadable
      BY <2>6 DEF GivenUp
    <3>2. listed = {} /\ Idling
      BY <2>6 DEF GivenUp, Idling
    <3>3. ~Same(p)' \/ body'[p] = Unreadable
      BY <2>4, <3>1, <3>2
    <3>4. GivenUp'
      BY <2>3, <3>2, <3>3 DEF GivenUp
    <3> QED BY <2>3, <2>6, <3>4 DEF FollowInv
  <2>7. CASE phase = "wait" /\ ~GivenUp
    <3>1. ASSUME NEW p \in TriggerFiles, Same(p)' PROVE Runs(p)'
      <4>1. CASE body'[p] = body[p] /\ Same(p)
        <5>1. Runs(p)
          BY <2>2, <2>3, <2>7, <3>1, <4>1 DEF FollowInv
        <5> QED BY <2>3, <4>1, <5>1 DEF Runs
      <4>2. CASE ~Taken(p) /\ body'[p] = Absent
        BY <2>3, <4>2, DiskIsFiles DEF Taken, Runs
      <4> QED BY <2>4, <3>1, <4>1, <4>2
    <3> QED BY <2>3, <2>7, <3>1 DEF FollowInv
  <2> QED BY <2>3, <2>5, <2>6, <2>7 DEF FollowInv
<1> QED BY <1>1, <1>2, <1>3, <1>4, <1>5, FileSteps

-----------------------------------------------------------------------------
(* The theorems *)

\* The two halves together.
Inv ==
  /\ FileTypes /\ PhaseInv /\ FollowInv
  /\ CronInv /\ RowInv /\ DueInv

\* It holds at first, is kept, and so always holds.
LEMMA InvInit == Init => Inv
<1> SUFFICES ASSUME Init PROVE Inv
  OBVIOUS
<1> USE DEF Init
<1>0. /\ 0 \in Minutes /\ MaxMinute \in Nat /\ bound \in Scenarios /\ bound.minutes \in Minutes
      /\ Never \in {Never} \cup Minutes
  BY DefinitionsAssumption, MinuteTypes
<1>1. Live = {} /\ \A t \in Slots : thread[t] = Off
  BY DEF Live, Off
<1>2. FileTypes
  <2>1. body = [p \in Paths |-> body[p]] /\ \A p \in Paths : body[p] \in Bodies(p) \cup {Absent, Blank}
    BY <1>0, DefinitionsAssumption
  <2> QED BY <2>1 DEF FileTypes
<1>3. PhaseInv /\ FollowInv
  BY <1>1 DEF PhaseInv, FollowInv
<1>4. CronInv
  <2>1. Off \in ThreadType /\ thread \in [Slots -> ThreadType]
    BY <1>0 DEF Off, ThreadType
  <2>2. fired \in [Names -> [Kinds -> [Minutes -> Nat]]]
    OBVIOUS
  <2>3. CronTypes
    BY <1>0, <1>1, <2>1, <2>2 DEF CronTypes
  <2>4. ThreadInv
    BY <1>1 DEF ThreadInv, Off
  <2> QED BY <1>1, <2>3, <2>4 DEF CronInv, MetInv
<1>5. \A n \in Names, k \in Kinds, m \in Minutes : fired[n][k][m] = 0
  OBVIOUS
<1>6. \A t \in Slots : ~Busy(t) /\ thread[t].pc = "off"
  BY <1>1 DEF Off
<1>7. \A d \in Documents : d.name \in Names
  BY DefinitionsAssumption
<1>8. RowInv
  <2>1. FiringInv /\ ScheduleInv /\ IntervalInv
    <3>1. \A n \in Names, k \in Kinds, m \in Minutes : ~(fired[n][k][m] > 0)
      BY <1>5
    <3> HIDE DEF Init, Busy, When, Kinds, Minutes, Never
    <3>2. "schedule" \in Kinds /\ "interval" \in Kinds
      BY DEF Kinds
    <3> QED BY <1>6, <3>1, <3>2, Zenon DEF FiringInv, ScheduleInv, IntervalInv
  <2>2. OncePerMinute /\ IntervalsAreKept
    BY <1>5, <1>7 DEF OncePerMinute, IntervalsAreKept
  <2> QED BY <2>1, <2>2 DEF RowInv
<1>9. DueInv
  <2>1. \A n \in Names, m \in Minutes : stateDB[<<n, m>>] = Never
    BY MinuteTypes, Zenon
  <2> QED BY <1>1, <2>1 DEF DueInv
<1> QED BY <1>2, <1>3, <1>4, <1>8, <1>9 DEF Inv

LEMMA InvNext == Inv /\ [Next]_vars => Inv'
BY FileTypesStep, PhaseStep, FollowStep, CronStep, RowStep, DueStep DEF Inv

LEMMA Invariant == Spec => []Inv
<1>1. Init => Inv
  BY InvInit
<1>2. Inv /\ [Next]_vars => Inv'
  BY InvNext
<1> QED BY <1>1, <1>2, PTL DEF Spec

\* Every variable has its type: what is loaded comes from a file, and the times that are kept are minutes (reload.py, cron.py).
THEOREM TypesAreKept == Spec => []TypeOK
<1>1. Inv => TypeOK
  BY DEF Inv, CronInv, FileTypes, CronTypes, ThreadType, TypeOK
<1> QED BY <1>1, Invariant, PTL

\* A trigger fires at most once for one minute by its schedule, and at most once
\* by its interval, over reloads, crashes and changes of its file, unless two of
\* its threads lived in that minute (CronTrigger.run).
THEOREM FiringsAreSingle == Spec => []OncePerMinute
<1>1. Inv => OncePerMinute
  BY DEF Inv, RowInv
<1> QED BY <1>1, Invariant, PTL

\* A minute that a schedule matches is fired when a thread was awake in it, the
\* database answered and the worker lived on; two firings of an interval are
\* that far apart, over restarts (CronTrigger.run, _mark_seen).
THEOREM FiringsAreInTime == Spec => []FiringsAreDue
<1>1. Inv => FiringsAreDue
  BY DueIsFired DEF Inv, RowInv, FiringsAreDue
<1> QED BY <1>1, Invariant, PTL

\* A worker whose watcher has nothing to notice runs the triggers that are on
\* disk, or none if it cannot read one of them, but for what changed behind the
\* watcher's back (FileWatcher, _reload, load_triggers).
THEOREM FilesAreFollowed == Spec => []WorkerIsCurrent
<1>1. ASSUME FileTypes, PhaseInv, FollowInv, Quiet, ~missed
      PROVE  InStep
  <2>1. \A p \in Paths : Same(p)
    BY <1>1 DEF Quiet, Changed, Same
  <2>2. \A t \in Slots \ listed : t \in Live => t \in stopping
    BY <1>1 DEF PhaseInv
  <2>3. CASE GivenUp
    <3>1. listed = {} /\ Spoilt
      BY <2>1, <2>3, DiskIsFiles DEF GivenUp, Spoilt
    <3> QED BY <2>2, <3>1 DEF InStep
  <2>4. CASE ~GivenUp
    <3>1. \A p \in TriggerFiles : Runs(p)
      BY <1>1, <2>1, <2>4, DiskIsFiles DEF Quiet, FollowInv
    <3>2. ~Spoilt
      BY <3>1 DEF Runs, Spoilt
    <3>3. \A p \in TriggerFiles, d \in Documents :
            (\E t \in listed : t[1] = p /\ thread[t].doc = d) <=> <<p, d>> \in OnDisk /\ d.enabled
      BY <3>1, DiskIsFiles, Zenon DEF Runs
    <3>4. \A t \in listed : t[1] \in TriggerFiles /\ thread[t].doc \in Documents
      BY <1>1 DEF FileTypes, PhaseInv, Slots
    <3>5. \A pd \in OnDisk : /\ pd[1] \in TriggerFiles /\ pd[2] \in Documents
                             /\ pd = <<pd[1], pd[2]>>
      BY DiskIsFiles
    <3>6. ASSUME NEW t \in listed PROVE <<t[1], thread[t].doc>> \in {pd \in OnDisk : pd[2].enabled}
      BY <3>3, <3>4
    <3>7. ASSUME NEW pd \in OnDisk, pd[2].enabled
          PROVE  \E t \in listed : pd = <<t[1], thread[t].doc>>
      BY <3>3, <3>5, <3>7
    <3>8. {<<t[1], thread[t].doc>> : t \in listed} = {pd \in OnDisk : pd[2].enabled /\ ~Spoilt}
      BY <3>2, <3>6, <3>7
    <3> QED BY <2>2, <3>8 DEF InStep
  <2> QED BY <2>3, <2>4
<1>2. Inv => WorkerIsCurrent
  BY <1>1 DEF Inv, WorkerIsCurrent
<1> QED BY <1>2, Invariant, PTL
=============================================================================
