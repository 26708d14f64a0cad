-------------------------- MODULE MCMessageContent --------------------------
(* Small content vaults for TLC. *)
EXTENDS MessageContent

CONSTANTS o1, o2, k1, k2, e1, e2

\* Two commands whose content is due together, or that meet the limit of keys.
Commands == {
    [stages |-> {<<o1, 1>>, <<o2, 2>>}, keys |-> {k1, k2},
     erasers |-> {e1}, maxKeys |-> 2, maxPoints |-> 0],
    [stages |-> {<<o1, 1>>, <<o2, 1>>}, keys |-> {k1, k2},
     erasers |-> {e1}, maxKeys |-> 1, maxPoints |-> 0]}

\* Two commands for one version slot, restored to an earlier moment; and one
\* that is restored to any of two moments, and back to the line it abandoned.
Recoveries == {
    [stages |-> {<<o1, 1>>, <<o2, 1>>}, keys |-> {k1, k2},
     erasers |-> {e1}, maxKeys |-> 2, maxPoints |-> 1],
    [stages |-> {<<o1, 1>>}, keys |-> {k1, k2},
     erasers |-> {e1}, maxKeys |-> 1, maxPoints |-> 2]}

\* Two erasures of one content, restored around the decision of one of them.
Rivals == {
    [stages |-> {<<o1, 1>>}, keys |-> {k1, k2},
     erasers |-> {e1, e2}, maxKeys |-> 1, maxPoints |-> 1]}

Vaults == Commands \cup Recoveries \cup Rivals
=============================================================================
