------------------------------ MODULE Presence ------------------------------
(***************************************************************************)
(* What discovery promises, said without messages: somebody offers a       *)
(* resource at a location, or does not, and somebody else believes in an   *)
(* offer, or does not.  The believer is always late and may be out of      *)
(* date, but believes in nothing that never was; and it catches up if the  *)
(* offer stays as it is.                                                   *)
(***************************************************************************)
CONSTANTS
    Places,     \* where the resource may be offered
    NONE        \* no offer, which is no place

VARIABLES
    offered,    \* where the resource is on offer, NONE if it is not
    offers,     \* history: where it ever was
    believed,   \* the offer believed in, NONE if none is
    listening   \* whether the believer listens, which is its own business

presenceVars == <<offered, offers, believed>>

Init ==
    /\ offered = NONE
    /\ offers = {}
    /\ believed = NONE

\* The offer starts, ends or moves.
Change ==
    /\ offered' \in Places \cup {NONE}
    /\ offers' = offers \cup ({offered'} \ {NONE})
    /\ UNCHANGED believed

\* The believer hears of an offer, or that there is none.
Notice ==
    /\ believed' \in offers \cup {NONE}
    /\ UNCHANGED <<offered, offers>>

Next == Change \/ Notice

Spec == Init /\ [][Next]_presenceVars

-----------------------------------------------------------------------------

\* An offer that has ended for good is forgotten for good.
Forgotten == <>[](offered = NONE) => <>[](believed = NONE)

\* An offer that stays is believed in again and again by who keeps listening.
Learnt ==
    \A p \in Places : <>[](offered = p /\ listening) => []<>(believed = p)

=============================================================================
