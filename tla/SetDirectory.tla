---------------------------- MODULE SetDirectory ----------------------------
(***************************************************************************)
(* What the server promises about bucket set names, without the vector    *)
(* that implements it.  Every name is either unresolved or belongs to one  *)
(* created set, for as long as the process lives.  Creating a set claims   *)
(* every still unresolved name the new set's name is a prefix of; nothing  *)
(* ever moves a name from one set to another.  A process that ends loses   *)
(* the whole directory, because nothing of it is persistent.               *)
(***************************************************************************)
CONSTANTS Names,       \* the bucket set names clients use
          PrefixOf,    \* <<m, n>> \in PrefixOf: m is a prefix of n
          None         \* a name that no set has claimed

VARIABLE owner         \* owner[n]: the name of the set that n resolves to

Unresolved == [n \in Names |-> None]

Create(m) ==
    /\ owner[m] = None
    /\ owner' = [n \in Names |->
                    IF owner[n] = None /\ <<m, n>> \in PrefixOf THEN m ELSE owner[n]]

Lose == owner' = Unresolved

Init == owner = Unresolved

Next == Lose \/ \E m \in Names : Create(m)

Spec == Init /\ [][Next]_owner
=============================================================================
