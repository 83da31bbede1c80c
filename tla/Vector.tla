------------------------------- MODULE Vector -------------------------------
(***************************************************************************)
(* vector.c: a table with a capacity that doubles.  The lock of a vector   *)
(* is taken by its writers only; the programs use each vector from one     *)
(* thread, so a call is a step.                                            *)
(***************************************************************************)
EXTENDS Naturals, Sequences

CONSTANTS Items,      \* what is stored
          Null,       \* the null pointer
          Caps,       \* capacities that callers ask for
          MaxSlot     \* bound on the table, with the memory after it

ASSUME VectorAssumption ==
    /\ Null \notin Items
    /\ Caps \subseteq Nat
    /\ MaxSlot \in Nat

VARIABLES vec,       \* "none", "heap", "embedded" in another struct, "gone" or "fault"
          size, cap,
          tables,    \* the table and what comes after it
          overrun    \* a place after the table was written

vectorVars == <<vec, size, cap, tables, overrun>>

Slots == 0 .. MaxSlot
Usable == vec \in {"heap", "embedded"}

VectorInit ==
    /\ vec = "none"
    /\ size = 0 /\ cap = 0
    /\ tables = [i \in Slots |-> Null]
    /\ overrun = FALSE

\* vector_create, or vector_init of a vector in another struct.
vector_init ==
    /\ vec \in {"none", "gone"}
    /\ vec' \in {"heap", "embedded"}
    /\ cap' \in Caps
    /\ size' = 0
    /\ tables' = [i \in Slots |-> Null]
    /\ UNCHANGED overrun

Full == size = cap

\* A plausible bug: the copy starts at the second item.
Copied_FromOne == [i \in Slots |-> IF i > 0 /\ i < size THEN tables[i] ELSE Null]

Copied == [i \in Slots |-> IF i < size THEN tables[i] ELSE Null]

\* vector_expand, when it finds memory: twice a capacity of 0 is 0.
NewCap == IF Full THEN 2 * cap ELSE cap
NewTables == IF Full THEN Copied ELSE tables

\* No memory, or nothing to store: -1.
Refused == Usable /\ UNCHANGED vectorVars

\* tables[index] = v, wherever that is.
Put(index, v) ==
    /\ Usable
    /\ index <= MaxSlot
    /\ cap' = NewCap
    /\ tables' = [NewTables EXCEPT ![index] = v]
    /\ overrun' = (overrun \/ index >= NewCap)
    /\ UNCHANGED vec

\* A plausible bug: an insert after the end moves the end.
vector_insert_Grows(index, v) ==
    /\ Put(index, v)
    /\ size' = IF index < size THEN size ELSE index + 1

\* The size stays, and the index is not compared with anything.
vector_insert(index, v) ==
    /\ Put(index, v)
    /\ UNCHANGED size

vector_push_back(v) ==
    /\ Put(size, v)
    /\ size' = size + 1

vector_at(index) == IF index < size THEN tables[index] ELSE Null

\* The struct is left with a capacity of 0.
Emptied ==
    /\ size' = 0 /\ cap' = 0
    /\ tables' = [i \in Slots |-> Null]
    /\ UNCHANGED overrun

vector_deinit ==
    /\ Usable
    /\ Emptied
    /\ UNCHANGED vec

\* Frees the vector too: sds_store_deinit has one freed that is not of the heap.
vector_destroy ==
    /\ Usable
    /\ Emptied
    /\ vec' = IF vec = "heap" THEN "gone" ELSE "fault"

VectorNext ==
    \/ vector_init
    \/ Refused
    \/ \E v \in Items : vector_push_back(v) \/ \E i \in Slots : vector_insert(i, v)
    \/ vector_deinit
    \/ vector_destroy

VectorSpec == VectorInit /\ [][VectorNext]_vectorVars

-----------------------------------------------------------------------------
(* Properties.                                                             *)

\* What vector_at shows.
Shown == [i \in 1 .. size |-> vector_at(i - 1)]

Promise == INSTANCE ItemSequence WITH items <- Shown

\* Through growth, failed growth and inserts a vector shows the sequence of what
\* was pushed, with replacements where an insert hit it, as long as nothing was
\* written outside its table.
ShowsTheSequence ==
    Promise!Init /\ [][Promise!Next \/ overrun']_Shown
=============================================================================
