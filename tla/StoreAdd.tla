------------------------------ MODULE StoreAdd ------------------------------
(***************************************************************************)
(* sds_store_add (sds_store.c) beside the vector_push_back of read_cb, on  *)
(* the one vector they share: the first stores lists of sets in it, the    *)
(* second sets.                                                            *)
(***************************************************************************)
EXTENDS Vector, FiniteSets

CONSTANTS Sets, Lists

ASSUME StoreAddAssumption == Items = Sets \cup Lists /\ Sets \cap Lists = {}

VARIABLES members,    \* the sets in each list
          spoiled     \* sets that list_add has written over

storeAddVars == <<vectorVars, members, spoiled>>

StoreAddInit ==
    /\ VectorInit
    /\ members = [l \in Lists |-> <<>>]
    /\ spoiled = {}

\* The loop moves to ever larger buckets while they exist, and the key decides
\* to which: any bucket may be the last.  Without a bucket it never runs, and
\* its -1 becomes 1.
hash_jump_consistent(num_buckets) ==
    IF num_buckets > 0 THEN 0 .. num_buckets - 1 ELSE {1}

\* Lists that list_create can return: those that no slot has and none had.
Fresh == {l \in Lists : members[l] = <<>> /\ \A i \in Slots : tables[i] # l}

\* sds_store_init.
StoreInits ==
    /\ vec = "none" /\ vector_init /\ vec' = "embedded"
    /\ UNCHANGED <<members, spoiled>>

\* read_cb stores a new set.
SetPushed ==
    /\ \E s \in Sets : vector_push_back(s)
    /\ UNCHANGED <<members, spoiled>>

\* vector_at finds nothing: a list is made and inserted.
AddedToNewList ==
    \E s \in Sets, index \in hash_jump_consistent(size), l \in Fresh :
        /\ vector_at(index) = Null
        /\ vector_insert(index, l)
        /\ members' = [members EXCEPT ![l] = <<s>>]
        /\ UNCHANGED spoiled

\* list_create or the growth of the vector fails: list_add is given no list, or
\* one that the vector does not have, and the answer is 0 all the same.
AddedNowhere ==
    /\ Refused
    /\ \E index \in hash_jump_consistent(size) : vector_at(index) = Null
    /\ UNCHANGED <<members, spoiled>>

\* vector_at finds something, and it is taken for a list.
AddedToFound ==
    \E s \in Sets, index \in hash_jump_consistent(size) :
        LET found == vector_at(index)
        IN  /\ found # Null
            /\ Usable
            /\ IF found \in Lists
               THEN members' = [members EXCEPT ![found] = Append(@, s)] /\ UNCHANGED spoiled
               ELSE spoiled' = spoiled \cup {found} /\ UNCHANGED members
            /\ UNCHANGED vectorVars

StoreDeinits ==
    /\ vector_destroy
    /\ UNCHANGED <<members, spoiled>>

StoreAddNext ==
    \/ StoreInits \/ SetPushed \/ AddedToNewList \/ AddedNowhere \/ AddedToFound
    \/ StoreDeinits

StoreAddSpec == StoreAddInit /\ [][StoreAddNext]_storeAddVars

-----------------------------------------------------------------------------
(* Properties.                                                             *)

\* A scan of read_cb never meets a list, in whatever order sets are pushed and
\* added; and what sds_store_add was given shows in no scan, and is in a list
\* of its own that the next one replaces.  After the first push there are no more
\* lists: each add spoils a set that the scans meet.
ScansMeetSets ==
    /\ \A i \in 0 .. size - 1 : vector_at(i) \in Sets
    /\ \A l \in Lists : Len(members[l]) <= 1
    /\ spoiled \subseteq {vector_at(i) : i \in 0 .. size - 1} \/ vec = "fault"
    /\ Cardinality({l \in Lists : \E i \in Slots : tables[i] = l}) <= 1
=============================================================================
