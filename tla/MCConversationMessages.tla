---------------------- MODULE MCConversationMessages ----------------------
(* ConversationMessages for TLC: every command but a post is for the one    *)
(* Message of the instance.                                                 *)
EXTENDS ConversationMessages, TLC

OnlyPost == CHOOSE p \in Posts : TRUE

MCTarget == [c \in Edits \cup Retractions \cup Restores \cup Toggles |-> OnlyPost]

Load(history, commands, faults, limit) ==
    [history |-> history, commands |-> commands, faults |-> faults, limit |-> limit]

\* A first post with its retries; an edit of a posted Message; retractions,
\* a restore and the erasure; a reaction against an aggregate command.
OneKindAtATime ==
    {Load(<<>>, Posts, {"crash", "unavailable", "elapse"}, 1),
     Load(<<OnlyPost>>, Edits, {"crash", "elapse"}, 1),
     Load(<<OnlyPost>>, Retractions \cup Restores, {"crash"}, 1),
     Load(<<OnlyPost>>, Toggles \cup Members, {"crash", "unavailable", "revoke"}, 1)}

\* A post, its reaction and its retraction up to the erasure; a post whose
\* preparation may expire; and a restore that may come too late.
WholeLife ==
    {Load(<<>>, Posts \cup Retractions \cup Toggles, {"crash", "unavailable", "revoke"}, 2),
     Load(<<>>, Posts \cup Retractions, {"crash", "unavailable", "elapse"}, 2),
     Load(<<OnlyPost>>, Retractions \cup Restores, {"crash", "unavailable"}, 2)}

\* Two handlers of one post, whose actor loses its access.
RevokedPost == {Load(<<>>, Commands, {"revoke", "elapse"}, 2)}

Symmetry == Permutations(Clients) \cup Permutations(Retractions)
===========================================================================
