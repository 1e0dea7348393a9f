---------------------------- MODULE CronSchedule ----------------------------
(***************************************************************************)
(* _cron_matches of triggers/cron.py: what the five fields of a schedule   *)
(* mean to the code, and what crontab(5) says that they mean. A field is   *)
(* the shape of its text:                                                  *)
(*   [kind |-> "any"]                              "*"                     *)
(*   [kind |-> "step", of |-> 15]                  a star, "/15"           *)
(*   [kind |-> "range", from |-> 1, to |-> 5]      "1-5"                   *)
(*   [kind |-> "stepped", from |-> 1, to |-> 5, of |-> 2]   "1-5/2"        *)
(*   [kind |-> "number", is |-> 7]                 "7"                     *)
(*   [kind |-> "name", is |-> 1]                   "MON" or "JAN"          *)
(*   [kind |-> "list", items |-> <<f, ...>>]       "7,1-5"                 *)
(*   [kind |-> "text"]                             what int() refuses      *)
(***************************************************************************)
EXTENDS Integers, Sequences

\* Positions of the fields, their values and the largest value of each.
Positions == 1..5
Weekday   == 5
First     == <<0, 0, 1, 1, 0>>
MaxVals   == <<59, 23, 31, 12, 7>>
Values(i) == IF i = Weekday THEN 0..6 ELSE First[i]..MaxVals[i]

Any            == [kind |-> "any"]
Step(n)        == [kind |-> "step", of |-> n]
Number(n)      == [kind |-> "number", is |-> n]
FromTo(m, n)   == [kind |-> "range", from |-> m, to |-> n]
Stepped(m, n, k) == [kind |-> "stepped", from |-> m, to |-> n, of |-> k]
NameOf(n)      == [kind |-> "name", is |-> n]
ListOf(items)  == [kind |-> "list", items |-> items]
Text           == [kind |-> "text"]

-----------------------------------------------------------------------------
(* The code *)

\* _parse_num: Sunday is 0 or 7.
ParseNum(i, n) == IF i = Weekday /\ n = 7 THEN 0 ELSE n

\* Mutation: a range whose end is smaller than its start is empty.
InRange_NoWrap(i, f, v) == ParseNum(i, f.from) <= v /\ v <= ParseNum(i, f.to)

\* A range of weekdays may go over the end of the week, others may not.
InRange(i, f, v) ==
  LET from == ParseNum(i, f.from)
      to   == ParseNum(i, f.to)
  IN  \/ from <= v /\ v <= to
      \/ i = Weekday /\ from > to /\ (v >= from \/ v <= to)

\* _matches_field, for a field that is not a list.  Of "1-5/2" the end is not a
\* number to int(), and neither is a name: such fields match nothing.
ItemMatches(i, f, v) ==
  \/ f.kind = "any"
  \/ f.kind = "step" /\ f.of > 0 /\ v % f.of = 0
  \/ f.kind = "range" /\ InRange(i, f, v)
  \/ f.kind = "number" /\ ParseNum(i, f.is) \in 0..MaxVals[i] /\ ParseNum(i, f.is) = v

\* _matches_field. A text that begins as a step is taken for one: "2,30" is
\* then not a number, and the field matches nothing.
FieldMatches(i, f, v) ==
  IF f.kind = "list"
  THEN f.items[1].kind # "step" /\ \E k \in DOMAIN f.items : ItemMatches(i, f.items[k], v)
  ELSE ItemMatches(i, f, v)

\* _cron_matches: all five fields must match.
CronMatches(schedule, moment) ==
  Len(schedule) = 5 /\ \A i \in Positions : FieldMatches(i, schedule[i], moment[i])

-----------------------------------------------------------------------------
(* crontab(5) *)

\* The numbers a field may be written with: 7 stands for Sunday too.
Numbers(i) == First[i]..MaxVals[i]

\* The numbers that an item names, before 7 becomes 0.
Named(i, f) ==
  {n \in Numbers(i) : \/ f.kind = "any"
                      \/ f.kind = "step" /\ f.of > 0 /\ (n - First[i]) % f.of = 0
                      \/ f.kind = "range" /\ f.from <= n /\ n <= f.to
                      \/ f.kind = "stepped" /\ f.of > 0 /\ f.from <= n /\ n <= f.to
                           /\ (n - f.from) % f.of = 0
                      \/ f.kind \in {"number", "name"} /\ f.is = n}

Items(f) == IF f.kind = "list" THEN {f.items[k] : k \in DOMAIN f.items} ELSE {f}

\* The values at which crontab(5) runs a command with this field.
Denoted(i, f) ==
  LET named == UNION {Named(i, item) : item \in Items(f)}
  IN  IF i = Weekday THEN {n % 7 : n \in named} ELSE named

\* The names of months and weekdays: Sunday has one.
HasName(i, n) == i \in {4, Weekday} /\ n \in Values(i)

\* Fields that crontab(5) has a meaning for: numbers in their range, a range
\* that does not run backwards, a name that is the whole field.
WellFormed(i, f) ==
  \A item \in Items(f) :
    /\ item.kind # "text"
    /\ item.kind \in {"step", "stepped"} => item.of > 0
    /\ item.kind = "number" => item.is \in Numbers(i)
    /\ item.kind = "name" => f.kind # "list" /\ HasName(i, item.is)
    /\ item.kind \in {"range", "stepped"} =>
         {item.from, item.to} \subseteq Numbers(i) /\ item.from <= item.to

\* What the code does not read as crontab(5): steps of a range and names match
\* nothing; steps count from 0, so days and months come out one off ("every
\* second day" is the even ones); a list that begins with a step matches
\* nothing; and the week "0-7" is a Sunday.
Departs(i, f) ==
  \/ \E item \in Items(f) : item.kind \in {"stepped", "name"}
  \/ \E item \in Items(f) : item.kind = "step" /\ item.of > 1 /\ First[i] = 1
  \/ f.kind = "list" /\ f.items[1].kind = "step"
  \/ i = Weekday /\ FromTo(0, 7) \in Items(f)

\* A field that crontab(5) has a meaning for matches the values it means, at
\* every position: Sunday is 0 and 7, a range may end in Sunday, lists are
\* unions, ranges inclusive (_matches_field). The departures are named above.
FieldAgrees(i, f) ==
  WellFormed(i, f) /\ ~Departs(i, f) =>
    {v \in Values(i) : FieldMatches(i, f, v)} = Denoted(i, f)
=============================================================================
