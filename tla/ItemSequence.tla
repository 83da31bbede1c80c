--------------------------- MODULE ItemSequence ---------------------------
(***************************************************************************)
(* What a vector promises: a sequence that grows at its end, whose items   *)
(* can be replaced, and that can be emptied.                               *)
(***************************************************************************)
EXTENDS Sequences, Naturals

CONSTANT Items

VARIABLE items

Init == items = <<>>

AtEnd == \E v \in Items : items' = Append(items, v)

Replaced == \E i \in DOMAIN items, v \in Items : items' = [items EXCEPT ![i] = v]

Emptied == items' = <<>>

Next == AtEnd \/ Replaced \/ Emptied

Spec == Init /\ [][Next]_items
=============================================================================
