-------------------------- MODULE ConversationLog --------------------------
(***************************************************************************)
(* What a Conversation promises to the readers of its journal: each        *)
(* command is applied at most once, in one order that never changes, and   *)
(* projections receive that order without a gap.                           *)
(***************************************************************************)
EXTENDS Naturals, Sequences

CONSTANT Commands

VARIABLES
    log,        \* the commands applied, in order
    delivered   \* how many of them the projections have been sent

vars == <<log, delivered>>

Applied == {log[i] : i \in 1..Len(log)}

Init == log \in Seq(Commands) /\ delivered = Len(log)

Apply(c) ==
    /\ c \notin Applied
    /\ log' = Append(log, c)
    /\ UNCHANGED delivered

Deliver(n) ==
    /\ delivered' = n
    /\ UNCHANGED log

Next ==
    \/ \E c \in Commands : Apply(c)
    \/ \E n \in (delivered + 1)..Len(log) : Deliver(n)

Spec == Init /\ [][Next]_vars
============================================================================
