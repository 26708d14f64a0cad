------------------------ MODULE MCRelaySubscriptions ------------------------
(* RelaySubscriptions for TLC.  Each quota lets a few kinds of steps race;    *)
(* all events are on channel a.                                               *)
EXTENDS RelaySubscriptions, TLC

CONSTANTS a, b, here, elsewhere

OnA == [e \in Events |-> a]

Quota(closes, drops, evictions, joins, faults, events, scopes) ==
    [closes |-> closes, drops |-> drops, evictions |-> evictions, joins |-> joins,
     faults |-> faults, events |-> events, scopes |-> scopes]

Races ==
    { \* replacement and eviction against a delivery
      Quota(0, 0, 1, 0, 0, {here}, {{a}, {b}, {Global}}),
      Quota(0, 0, 1, 0, 0, {}, {{a, b}}),
      \* CLOSE and the end of a connection against a delivery
      Quota(1, 1, 0, 0, 0, {here}, {{a}}),
      \* the topics through a failure of Redis, and the echo of an event
      Quota(1, 0, 0, 2, 1, {}, {{a}}),
      Quota(0, 0, 0, 2, 1, {here}, {{a}}),
      Quota(0, 1, 0, 1, 0, {elsewhere}, {{a}}) }

\* A subscription of channel a is replaced while an eviction from a visits its
\* connection, and a later one asks for a again.
EvictionRace == {Quota(0, 0, 1, 0, 0, {}, {{a}, {b}})}

CloseRace == {Quota(1, 0, 0, 0, 0, {here}, {{a}})}

\* Safety only: connections and requests are interchangeable.
Symmetry == Permutations(Conns) \cup Permutations(Reqs)
=============================================================================
