------------------------------ MODULE TurnOrder ------------------------------
(***************************************************************************)
(* What the turns of a fight promise its players: the initiative dice give *)
(* one order, and from then on turns go round it.  A creature out of the   *)
(* fight is passed over and does not come back; nobody else is passed over *)
(* and nobody has two turns in a row while another stands.                 *)
(***************************************************************************)
EXTENDS Naturals, Sequences

CONSTANT Creatures

VARIABLES order,  \* <<>> until the dice are in
          index,  \* whose turn it is, 0 before the first
          out     \* creatures dead or fled

vars == <<order, index, out>>

Init == order = <<>> /\ index = 0 /\ out = {}

SetOrder ==
    /\ order = <<>>
    /\ order' \in Seq(Creatures)
    /\ {order'[i] : i \in DOMAIN order'} = Creatures
    /\ UNCHANGED <<index, out>>

Leave ==
    /\ out \subseteq out' /\ out' \subseteq Creatures
    /\ UNCHANGED <<order, index>>

\* From i on, k places are passed over.
place(i, k) == ((i + k) % Len(order)) + 1

Advance ==
    /\ \E k \in 0 .. Len(order) - 1 :
           /\ index' = place(index, k) /\ order[index'] \notin out
           /\ \A j \in 0 .. k - 1 : order[place(index, j)] \in out
    /\ UNCHANGED <<order, out>>

Next == SetOrder \/ Leave \/ Advance

Spec == Init /\ [][Next]_vars
=============================================================================
