--------------------------- MODULE ContentPromise ---------------------------
(***************************************************************************)
(* What the content vault of a Message promises its readers, whatever it   *)
(* does with preparations, fences, alarms, R2 objects and proofs: content  *)
(* that is published stays readable until the generation is erased or an   *)
(* operator restores the object, a restore to an earlier moment brings     *)
(* back exactly the content of that moment, and from the registry's        *)
(* decision on nothing is readable again, restore or not.  A restore to a  *)
(* line of states that an earlier restore abandoned withdraws the promise  *)
(* for the content the two lines disagree on.                              *)
(***************************************************************************)
CONSTANT Contents

VARIABLES
    readable,  \* the content readers are promised
    saved,     \* what it was at the moments a restore can return to
    erased,
    loose      \* content of which nothing is promised any more

vars == <<readable, saved, erased, loose>>

Init == readable = {} /\ saved = {} /\ erased = FALSE /\ loose = {}

Publish(c) ==
    /\ ~erased
    /\ c \notin loose
    /\ readable' = readable \cup {c}
    /\ UNCHANGED <<saved, erased, loose>>

\* The platform keeps a point in time, and drops those that are too old.
Save == ~erased /\ saved' = saved \cup {readable} /\ UNCHANGED <<readable, erased, loose>>

Forget == saved' \subseteq saved /\ UNCHANGED <<readable, erased, loose>>

Rollback ==
    /\ ~erased
    /\ readable' \in saved
    /\ saved' \subseteq saved
    /\ UNCHANGED <<erased, loose>>

\* A restore to an abandoned line.
Switch ==
    /\ loose \subseteq loose'
    /\ readable' = readable \ loose'
    /\ saved' \subseteq {readable'}
    /\ UNCHANGED erased

Erase ==
    /\ ~erased
    /\ erased' = TRUE
    /\ readable' = {}
    /\ saved' = {}
    /\ UNCHANGED loose

Next == Save \/ Forget \/ Rollback \/ Switch \/ Erase \/ \E c \in Contents : Publish(c)

Spec == Init /\ [][Next]_vars
=============================================================================
