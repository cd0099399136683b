----------------------------- MODULE DeathNotice -----------------------------
(***************************************************************************)
(* What linkToDeath promises: a recipient that is linked is told of the    *)
(* death of the remote object, once, unless it is unlinked before; one     *)
(* that comes too late is refused; nobody hears of a death that has not    *)
(* happened.  BinderDeath implements it.                                   *)
(***************************************************************************)
CONSTANT Links       \* the calls of linkToDeath

VARIABLES dead,      \* the process of the remote object has died
          fate       \* what became of each call of linkToDeath

Fates == {"new", "linked", "refused", "unlinked", "told"}

Init == dead = FALSE /\ fate = [l \in Links |-> "new"]

Becomes(l, from, to) == fate[l] = from /\ fate' = [fate EXCEPT ![l] = to]

Die       == ~dead /\ dead' = TRUE /\ UNCHANGED fate
Link(l)   == Becomes(l, "new", "linked") /\ UNCHANGED dead
Refuse(l) == dead /\ Becomes(l, "new", "refused") /\ UNCHANGED dead
Unlink(l) == Becomes(l, "linked", "unlinked") /\ UNCHANGED dead
Tell(l)   == dead /\ Becomes(l, "linked", "told") /\ UNCHANGED dead

Next == Die \/ \E l \in Links : Link(l) \/ Refuse(l) \/ Unlink(l) \/ Tell(l)

Spec == /\ Init /\ [][Next]_<<dead, fate>>
        /\ \A l \in Links : WF_<<dead, fate>>(Tell(l))
=============================================================================
