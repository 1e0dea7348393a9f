----------------------------- MODULE RateLimiter -----------------------------
(***************************************************************************)
(* The sliding window of serve/rate_limit.py, as operators on its state: a *)
(* list of admission times for each address (no entry is the empty list)   *)
(* and the time of the last compaction.                                    *)
(***************************************************************************)
EXTENDS Naturals, Sequences, FiniteSets

CONSTANTS Ips,                 \* addresses of clients
          MaxPerMinute,        \* webhook_rate_limit
          MaxTracked,          \* max_tracked_ips
          Window,              \* _WINDOW_SECONDS, in ticks of the clock
          CompactionInterval   \* _COMPACTION_INTERVAL_SECONDS, in ticks

\* __init__ raises the two limits to 1.
ASSUME RateAssumption ==
    /\ MaxPerMinute \in Nat \ {0} /\ MaxTracked \in Nat \ {0}
    /\ Window \in Nat \ {0} /\ CompactionInterval \in Nat

Limiters == [stamps: [Ips -> Seq(Nat)], compacted: Nat]
NoAdmissions == [stamps |-> [ip \in Ips |-> <<>>], compacted |-> 0]

\* Mutation: the oldest second of the window is already forgotten.
Kept_Short(stamps, now) == {i \in DOMAIN stamps : stamps[i] + Window > now + 1}
\* Mutation: the window is one tick too long.
Kept_Long(stamps, now) == {i \in DOMAIN stamps : stamps[i] + Window >= now}
\* The places of the times that are still in the window, and those times in order.
Kept(stamps, now) == {i \in DOMAIN stamps : stamps[i] + Window > now}
Recent(stamps, now) ==
    LET kept == Kept(stamps, now)
        Nth(k) == CHOOSE i \in kept : Cardinality({j \in kept : j < i}) = k - 1
    IN  [k \in 1..Cardinality(kept) |-> stamps[Nth(k)]]

Compacted(lim, now) ==
    IF now >= lim.compacted + CompactionInterval
    THEN [stamps |-> [ip \in Ips |-> Recent(lim.stamps[ip], now)], compacted |-> now]
    ELSE lim

Tracked(stamps) == {ip \in Ips : stamps[ip] # <<>>}
LastOf(s) == s[Len(s)]

\* The addresses one of which is dropped: those with the oldest last time.  The
\* sort is stable and the newcomer the last entry, so a tie spares it.
Oldest(stamps, newcomer) ==
    LET least == {ip \in Tracked(stamps) :
                    \A other \in Tracked(stamps) : LastOf(stamps[ip]) <= LastOf(stamps[other])}
    IN  IF least = {newcomer} THEN least ELSE least \ {newcomer}

Full(recent) == Len(recent) >= MaxPerMinute

\* What allow may leave: the answer, the state and the addresses evicted.
Allow(lim, ip, now) ==
    LET start  == Compacted(lim, now)
        recent == Recent(start.stamps[ip], now)
        added  == [start.stamps EXCEPT ![ip] = Append(recent, now)]
        Result(ok, out, stamps) ==
            [ok |-> ok, evicted |-> out,
             lim |-> [stamps    |-> [i \in Ips |-> IF i \in out THEN <<>> ELSE stamps[i]],
                      compacted |-> start.compacted]]
    IN  IF Full(recent) THEN {Result(FALSE, {}, [start.stamps EXCEPT ![ip] = recent])}
        ELSE IF Cardinality(Tracked(added)) <= MaxTracked THEN {Result(TRUE, {}, added)}
        ELSE {Result(TRUE, {out}, added) : out \in Oldest(added, ip)}
=============================================================================
