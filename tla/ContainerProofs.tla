-------------------------- MODULE ContainerProofs --------------------------
(***************************************************************************)
(* Proofs about the vector, the vector of the store, and the list, for     *)
(* every set of items and nodes, every capacity and every length.          *)
(***************************************************************************)
EXTENDS StoreAdd, List, FiniteSetTheorems, SequenceTheorems, TLAPS

-----------------------------------------------------------------------------
(* The vector shows a sequence of items.                                   *)

VectorTypeOK ==
    /\ vec \in {"none", "heap", "embedded", "gone", "fault"}
    /\ size \in 0 .. MaxSlot + 1
    /\ cap \in Nat
    /\ tables \in [Slots -> Items \cup {Null}]
    /\ overrun \in BOOLEAN

\* What is in the table after an expansion: every item that vector_at shows.
LEMMA ExpandKeeps ==
    ASSUME VectorTypeOK
    PROVE  /\ NewTables \in [Slots -> Items \cup {Null}]
           /\ NewCap \in Nat
           /\ \A i \in Slots : i < size => NewTables[i] = tables[i]
<1>1. NewCap \in Nat
  BY DEF VectorTypeOK, NewCap
<1>2. /\ Copied \in [Slots -> Items \cup {Null}]
      /\ \A i \in Slots : i < size => Copied[i] = tables[i]
  BY DEF VectorTypeOK, Copied
<1>3. /\ tables \in [Slots -> Items \cup {Null}]
      /\ NewTables = IF Full THEN Copied ELSE tables
  BY DEF VectorTypeOK, NewTables
<1> QED
  BY <1>1, <1>2, <1>3

LEMMA PutType ==
    ASSUME VectorTypeOK, NEW index \in Slots, NEW v \in Items, Put(index, v)
    PROVE  /\ vec' = vec /\ cap' \in Nat /\ overrun' \in BOOLEAN
           /\ tables' \in [Slots -> Items \cup {Null}]
           /\ tables'[index] = v
           /\ \A i \in Slots : i # index => tables'[i] = NewTables[i]
<1>1. tables' = [NewTables EXCEPT ![index] = v] /\ cap' = NewCap /\ vec' = vec
  BY DEF Put
<1>2. overrun' \in BOOLEAN
  BY DEF Put, VectorTypeOK
<1> QED
  BY <1>1, <1>2, ExpandKeeps

LEMMA VectorInitType == VectorInit => VectorTypeOK
<1>1. 0 \in 0 .. MaxSlot + 1
  BY VectorAssumption
<1>2. [i \in Slots |-> Null] \in [Slots -> Items \cup {Null}]
  OBVIOUS
<1> SUFFICES ASSUME VectorInit PROVE VectorTypeOK
  OBVIOUS
<1>3. vec = "none" /\ size = 0 /\ cap = 0 /\ overrun = FALSE /\ tables = [i \in Slots |-> Null]
  BY DEF VectorInit
<1> QED
  BY <1>1, <1>2, <1>3 DEF VectorTypeOK

LEMMA VectorTypeStep ==
    ASSUME VectorTypeOK, [VectorNext]_vectorVars
    PROVE  VectorTypeOK'
<1>1. CASE UNCHANGED vectorVars \/ Refused
  BY <1>1 DEF Refused, vectorVars, VectorTypeOK
<1>2. CASE vector_init
  BY <1>2, VectorAssumption DEF vector_init, VectorTypeOK
<1>3. ASSUME NEW v \in Items, vector_push_back(v)
      PROVE  VectorTypeOK'
  <2>1. size \in Slots /\ Put(size, v) /\ size' = size + 1
    BY <1>3, VectorAssumption DEF vector_push_back, Put, VectorTypeOK, Slots
  <2>2. size' \in 0 .. MaxSlot + 1
    BY <2>1, VectorAssumption DEF Slots
  <2> QED
    BY <2>1, <2>2, PutType DEF VectorTypeOK
<1>4. ASSUME NEW v \in Items, NEW i \in Slots, vector_insert(i, v)
      PROVE  VectorTypeOK'
  BY <1>4, PutType DEF vector_insert, VectorTypeOK
<1>5. CASE vector_deinit \/ vector_destroy
  BY <1>5, VectorAssumption DEF vector_deinit, vector_destroy, Emptied, VectorTypeOK
<1> QED
  BY <1>1, <1>2, <1>3, <1>4, <1>5 DEF VectorNext

\* Each call does to what is shown what the sequence allows.
LEMMA ShownIsSequence ==
    /\ DOMAIN Shown = 1 .. size
    /\ \A i \in 1 .. size : Shown[i] = vector_at(i - 1)
BY DEF Shown

LEMMA EmptyShown == size = 0 => Shown = << >>
BY DEF Shown

LEMMA PushedStep ==
    ASSUME VectorTypeOK, NEW v \in Items, vector_push_back(v)
    PROVE  Promise!AtEnd
<1>1. size \in Slots /\ size \in Nat /\ Put(size, v) /\ size' = size + 1
  BY VectorAssumption DEF vector_push_back, Put, VectorTypeOK, Slots
<1>2. \A i \in 1 .. size : tables'[i - 1] = tables[i - 1]
  BY <1>1, PutType, ExpandKeeps, VectorAssumption DEF Slots
<1>3. tables'[size] = v
  BY <1>1, PutType
<1>4. Shown' = [i \in 1 .. size + 1 |-> tables'[i - 1]]
  BY <1>1 DEF Shown, vector_at
<1>5. Shown = [i \in 1 .. size |-> tables[i - 1]]
  BY <1>1 DEF Shown, vector_at
<1>6. Shown \in Seq(Items \cup {Null}) /\ Len(Shown) = size
  <2>1. \A i \in 1 .. size : tables[i - 1] \in Items \cup {Null}
    BY <1>1, VectorAssumption DEF VectorTypeOK, Slots
  <2>2. Shown \in [1 .. size -> Items \cup {Null}]
    BY <1>5, <2>1
  <2> QED
    BY <1>1, <2>2, IsASeq, LenProperties
<1>7. Shown' = Append(Shown, v)
  BY <1>1, <1>2, <1>3, <1>4, <1>5, <1>6, AppendProperties
<1> QED
  BY <1>7 DEF Promise!AtEnd

LEMMA InsertedStep ==
    ASSUME VectorTypeOK, NEW index \in Slots, NEW v \in Items, vector_insert(index, v)
    PROVE  Promise!Replaced \/ Shown' = Shown
<1>1. Put(index, v) /\ size' = size /\ size \in Nat /\ index \in Nat
  BY VectorAssumption DEF vector_insert, VectorTypeOK, Slots
<1>2. \A i \in 1 .. size : i - 1 # index /\ i - 1 \in Slots => tables'[i - 1] = tables[i - 1]
  BY <1>1, PutType, ExpandKeeps
<1>3. \A i \in 1 .. size : i - 1 \in Slots
  BY <1>1, VectorAssumption DEF Slots, VectorTypeOK
<1>4. Shown' = [i \in 1 .. size |-> tables'[i - 1]]
  BY <1>1 DEF Shown, vector_at
<1>5. Shown = [i \in 1 .. size |-> tables[i - 1]]
  BY <1>1 DEF Shown, vector_at
<1>6. CASE index < size
  <2>1. index + 1 \in DOMAIN Shown
    BY <1>1, <1>5, <1>6
  <2>2. Shown' = [Shown EXCEPT ![index + 1] = v]
    <3>1. \A i \in 1 .. size :
              tables'[i - 1] = IF i = index + 1 THEN v ELSE tables[i - 1]
      BY <1>1, <1>2, <1>3, PutType
    <3>2. Shown' = [i \in 1 .. size |-> IF i = index + 1 THEN v ELSE tables[i - 1]]
      BY <1>4, <3>1
    <3>3. [Shown EXCEPT ![index + 1] = v] =
              [i \in 1 .. size |-> IF i = index + 1 THEN v ELSE Shown[i]]
      BY <1>5
    <3>4. \A i \in 1 .. size : Shown[i] = tables[i - 1]
      BY <1>5
    <3> QED
      BY <3>2, <3>3, <3>4
  <2> QED
    BY <2>1, <2>2 DEF Promise!Replaced
<1>7. CASE ~ (index < size)
  BY <1>1, <1>2, <1>3, <1>4, <1>5, <1>7
<1> QED
  BY <1>6, <1>7

\* A vector shows the sequence of what was pushed, with what inserts replaced,
\* through every growth and every refusal: it implements ItemSequence as long as
\* nothing is written outside its table.
THEOREM VectorImplements == VectorSpec => ShowsTheSequence
<1>1. VectorInit => Promise!Init
  BY EmptyShown DEF VectorInit, Promise!Init
<1>2. VectorTypeOK /\ [VectorNext]_vectorVars => [Promise!Next \/ overrun']_Shown
  <2> SUFFICES ASSUME VectorTypeOK, [VectorNext]_vectorVars
               PROVE  Promise!Next \/ Shown' = Shown
    OBVIOUS
  <2>1. CASE UNCHANGED vectorVars \/ Refused
    BY <2>1 DEF Refused, vectorVars, Shown, vector_at
  <2>2. CASE vector_init \/ vector_deinit \/ vector_destroy
    <3>1. size' = 0
      BY <2>2 DEF vector_init, vector_deinit, vector_destroy, Emptied
    <3>2. Shown' = << >>
      BY <3>1 DEF Shown
    <3> QED
      BY <3>2 DEF Promise!Next, Promise!Emptied
  <2>3. ASSUME NEW v \in Items, vector_push_back(v)
        PROVE  Promise!Next
    BY <2>3, PushedStep DEF Promise!Next
  <2>4. ASSUME NEW v \in Items, NEW i \in Slots, vector_insert(i, v)
        PROVE  Promise!Next \/ Shown' = Shown
    BY <2>4, InsertedStep DEF Promise!Next
  <2> QED
    BY <2>1, <2>2, <2>3, <2>4 DEF VectorNext
<1>3. VectorTypeOK /\ [VectorNext]_vectorVars => VectorTypeOK'
  BY VectorTypeStep
<1> QED
  BY <1>1, <1>2, <1>3, VectorInitType, PTL DEF VectorSpec, ShowsTheSequence

-----------------------------------------------------------------------------
(* The vector of the store.                                                *)

\* What read_cb scans are sets.  A list can be in the second place only, and
\* is there only before a set is: the first set makes it invisible, the second
\* replaces it.
StoreAddInv ==
    /\ VectorTypeOK
    /\ vec \in {"none", "embedded", "fault"}
    /\ vec = "none" => size = 0 /\ spoiled = {}
    /\ \A i \in Slots : i < size => tables[i] \in Sets
    /\ \A i \in Slots : tables[i] \in Lists => i = 1
    /\ members \in [Lists -> Seq(Sets)]
    /\ \A l \in Lists : Len(members[l]) <= 1
    /\ vec # "fault" => \A s \in spoiled : \E i \in 0 .. size - 1 : s = tables[i]

LEMMA StoreAddInvImplies == StoreAddInv => ScansMeetSets
<1> SUFFICES ASSUME StoreAddInv PROVE ScansMeetSets
  OBVIOUS
<1>1. size \in Nat /\ \A i \in 0 .. size - 1 : i \in Slots /\ i < size
  BY VectorAssumption DEF StoreAddInv, VectorTypeOK, Slots
<1>2. \A i \in 0 .. size - 1 : vector_at(i) = tables[i] /\ vector_at(i) \in Sets
  BY <1>1 DEF StoreAddInv, vector_at
<1>3. spoiled \subseteq {vector_at(i) : i \in 0 .. size - 1} \/ vec = "fault"
  BY <1>2 DEF StoreAddInv
<1>4. {l \in Lists : \E i \in Slots : tables[i] = l} \subseteq {tables[1]}
  BY DEF StoreAddInv
<1>5. Cardinality({l \in Lists : \E i \in Slots : tables[i] = l}) <= 1
  <2>1. IsFiniteSet({tables[1]}) /\ Cardinality({tables[1]}) = 1
    BY FS_Singleton
  <2> DEFINE T == {l \in Lists : \E i \in Slots : tables[i] = l}
  <2>2. Cardinality(T) <= Cardinality({tables[1]})
    BY <1>4, <2>1, FS_Subset
  <2> QED
    BY <2>1, <2>2
<1> QED
  BY <1>2, <1>3, <1>5 DEF StoreAddInv, ScansMeetSets

\* sds_store_add asks for a list at a place that vector_at has a set at, or
\* in the second place of an empty vector, where it has nothing.
LEMMA AskedPlace ==
    ASSUME StoreAddInv, NEW index \in hash_jump_consistent(size)
    PROVE  \/ /\ size > 0 /\ index \in 0 .. size - 1 /\ index \in Slots
              /\ vector_at(index) = tables[index] /\ vector_at(index) \in Sets
              /\ vector_at(index) # Null
           \/ size = 0 /\ index = 1 /\ vector_at(index) = Null
<1>1. size \in Nat /\ \A i \in 0 .. size - 1 : i \in Slots /\ i < size
  BY VectorAssumption DEF StoreAddInv, VectorTypeOK, Slots
<1>2. Null \notin Sets
  BY VectorAssumption, StoreAddAssumption
<1>3. CASE size > 0
  BY <1>1, <1>2, <1>3 DEF hash_jump_consistent, vector_at, StoreAddInv
<1>4. CASE size = 0
  BY <1>4 DEF hash_jump_consistent, vector_at
<1> QED
  BY <1>1, <1>3, <1>4

LEMMA NoListsAreSets ==
    /\ Null \notin Sets /\ Null \notin Lists
    /\ \A x : x \in Sets => x \notin Lists /\ x \in Items
    /\ \A x : x \in Lists => x \in Items
BY VectorAssumption, StoreAddAssumption

\* What an expansion leaves in the table was there before.
LEMMA ExpandAdds ==
    ASSUME VectorTypeOK, NEW i \in Slots
    PROVE  NewTables[i] \in {tables[i], Null}
BY DEF NewTables, Copied, VectorTypeOK

LEMMA StoreAddStep ==
    ASSUME StoreAddInv, [StoreAddNext]_storeAddVars
    PROVE  StoreAddInv'
<1>1. VectorTypeOK
  BY DEF StoreAddInv
<1>2. CASE UNCHANGED storeAddVars \/ AddedNowhere
  BY <1>2 DEF storeAddVars, AddedNowhere, Refused, vectorVars, StoreAddInv, VectorTypeOK
<1>3. CASE StoreInits
  <2>1. VectorTypeOK'
    BY <1>1, <1>3, VectorTypeStep DEF StoreInits, VectorNext
  <2>2. /\ size' = 0 /\ vec' = "embedded" /\ spoiled' = {} /\ members' = members
        /\ tables' = [i \in Slots |-> Null]
    BY <1>3 DEF StoreInits, vector_init, StoreAddInv
  <2> QED
    BY <2>1, <2>2, NoListsAreSets, VectorAssumption DEF StoreAddInv, Slots
<1>4. ASSUME NEW s \in Sets, vector_push_back(s), UNCHANGED <<members, spoiled>>
      PROVE  StoreAddInv'
  <2>1. s \in Items /\ s \notin Lists
    BY NoListsAreSets
  <2>2. VectorTypeOK'
    BY <1>1, <1>4, <2>1, VectorTypeStep DEF VectorNext
  <2>3. size \in Slots /\ size \in Nat /\ Put(size, s) /\ size' = size + 1 /\ Usable
    BY <1>1, <1>4, VectorAssumption DEF vector_push_back, Put, VectorTypeOK, Slots
  <2>4. /\ vec' = vec /\ tables'[size] = s
        /\ \A i \in Slots : i # size => tables'[i] = NewTables[i]
    BY <1>1, <2>1, <2>3, PutType
  <2>5. \A i \in Slots : i < size => tables'[i] = tables[i]
    BY <1>1, <2>4, ExpandKeeps, VectorAssumption DEF Slots
  <2>6. \A i \in Slots : i < size' => tables'[i] \in Sets
    BY <2>3, <2>4, <2>5, VectorAssumption DEF StoreAddInv, Slots
  <2>7. \A i \in Slots : tables'[i] \in Lists => i = 1
    BY <1>1, <2>1, <2>4, ExpandAdds, NoListsAreSets DEF StoreAddInv
  <2>8. \A x \in spoiled : \E i \in 0 .. size' - 1 : x = tables'[i]
    <3> SUFFICES ASSUME NEW x \in spoiled
                 PROVE  \E i \in 0 .. size' - 1 : x = tables'[i]
      OBVIOUS
    <3>1. PICK i \in 0 .. size - 1 : x = tables[i]
      BY <2>3 DEF StoreAddInv, Usable
    <3>2. i \in 0 .. size' - 1 /\ i \in Slots /\ i < size
      BY <2>3, VectorAssumption DEF Slots
    <3> QED
      BY <2>5, <3>1, <3>2
  <2> QED
    BY <1>4, <2>2, <2>3, <2>4, <2>6, <2>7, <2>8 DEF StoreAddInv, Usable
<1>5. ASSUME NEW s \in Sets, NEW index \in hash_jump_consistent(size), NEW l \in Fresh,
             vector_at(index) = Null, vector_insert(index, l),
             members' = [members EXCEPT ![l] = <<s>>], UNCHANGED spoiled
      PROVE  StoreAddInv'
  <2>1. size = 0 /\ index = 1
    BY <1>5, AskedPlace
  <2>2. l \in Lists /\ l \in Items
    BY NoListsAreSets DEF Fresh
  <2>3. Put(index, l) /\ size' = size /\ index \in Slots
    BY <1>5, <2>1, VectorAssumption DEF vector_insert, Put, Slots
  <2>4. /\ vec' = vec /\ \A i \in Slots : i # 1 => tables'[i] = NewTables[i]
    BY <1>1, <2>1, <2>2, <2>3, PutType
  <2>5. VectorTypeOK'
    BY <1>1, <1>5, <2>2, <2>3, VectorTypeStep DEF VectorNext
  <2>6. \A i \in Slots : tables'[i] \in Lists => i = 1
    BY <1>1, <2>4, ExpandAdds, NoListsAreSets DEF StoreAddInv
  <2>7. members' \in [Lists -> Seq(Sets)] /\ \A k \in Lists : Len(members'[k]) <= 1
    BY <1>5, <2>2 DEF StoreAddInv
  <2>8. \A i \in Slots : ~ (i < 0)
    BY VectorAssumption DEF Slots
  <2>9. vec # "fault" => spoiled = {}
    BY <2>1 DEF StoreAddInv
  <2> QED
    BY <1>5, <2>1, <2>3, <2>4, <2>5, <2>6, <2>7, <2>8, <2>9 DEF StoreAddInv
<1>6. CASE AddedToFound
  <2>1. PICK index \in hash_jump_consistent(size) :
            /\ vector_at(index) # Null
            /\ UNCHANGED vectorVars
            /\ IF vector_at(index) \in Lists
               THEN \E s \in Sets : members' = [members EXCEPT ![vector_at(index)] = Append(@, s)]
                                    /\ UNCHANGED spoiled
               ELSE spoiled' = spoiled \cup {vector_at(index)} /\ UNCHANGED members
    BY <1>6 DEF AddedToFound
  <2>2. /\ index \in 0 .. size - 1 /\ vector_at(index) = tables[index]
        /\ vector_at(index) \in Sets
    BY <2>1, AskedPlace
  <2>3. /\ spoiled' = spoiled \cup {tables[index]} /\ UNCHANGED members
        /\ UNCHANGED <<vec, size, cap, tables, overrun>>
    BY <2>1, <2>2, NoListsAreSets DEF vectorVars
  <2>4. vec # "none"
    BY <1>6 DEF AddedToFound, Usable
  <2> QED
    BY <2>2, <2>3, <2>4 DEF StoreAddInv, VectorTypeOK
<1>7. CASE StoreDeinits
  <2>1. VectorTypeOK'
    BY <1>1, <1>7, VectorTypeStep DEF StoreDeinits, VectorNext
  <2>2. /\ size' = 0 /\ vec' = "fault" /\ members' = members
        /\ tables' = [i \in Slots |-> Null]
    BY <1>7 DEF StoreDeinits, vector_destroy, Emptied, Usable, StoreAddInv
  <2> QED
    BY <2>1, <2>2, NoListsAreSets, VectorAssumption DEF StoreAddInv, Slots
<1> QED
  BY <1>2, <1>3, <1>4, <1>5, <1>6, <1>7 DEF StoreAddNext, SetPushed, AddedToNewList

LEMMA StoreAddInvInit == StoreAddInit => StoreAddInv
<1> SUFFICES ASSUME StoreAddInit PROVE StoreAddInv
  OBVIOUS
<1>1. VectorTypeOK
  BY VectorInitType DEF StoreAddInit
<1>2. /\ members = [l \in Lists |-> << >>] /\ spoiled = {} /\ vec = "none" /\ size = 0
      /\ tables = [i \in Slots |-> Null]
  BY DEF StoreAddInit, VectorInit
<1> QED
  BY <1>1, <1>2, NoListsAreSets, VectorAssumption DEF StoreAddInv, Slots

\* However sds_store_add and the pushes of read_cb alternate, a scan of read_cb
\* meets sets only, there is at most one list, of one set, and what is added
\* later spoils sets that the scans meet.
THEOREM StoreAddCorrect == StoreAddSpec => []ScansMeetSets
<1>1. StoreAddInit => StoreAddInv
  BY StoreAddInvInit
<1>2. StoreAddInv /\ [StoreAddNext]_storeAddVars => StoreAddInv'
  BY StoreAddStep
<1> QED
  BY <1>1, <1>2, StoreAddInvImplies, PTL DEF StoreAddSpec

-----------------------------------------------------------------------------
(* The list.                                                               *)

Mem == {"new", "live", "freed"}

ListTypeOK ==
    /\ head \in Nodes \cup {NoNode} /\ tail \in Nodes \cup {NoNode}
    /\ count \in Nat
    /\ next \in Links /\ prev \in Links
    /\ memory \in [Nodes -> Mem]
    /\ destroy_cb \in BOOLEAN
    /\ list \in {"live", "destroying", "freed", "fault"}
    /\ order \in Seq(Nodes) /\ first \in Seq(Nodes)

Distinct == \A i, j \in 1 .. Len(order) : order[i] = order[j] => i = j

After(i) == IF i = Len(order) THEN NoNode ELSE order[i + 1]
Before(i) == IF i = 1 THEN NoNode ELSE order[i - 1]

\* Both kinds of links are those of the order, place by place; a node that was
\* never added has none.
Live ==
    /\ Distinct
    /\ count = Len(order) \/ (order = << >> /\ count = 1)
    /\ head = IF order = << >> THEN NoNode ELSE order[1]
    /\ tail = IF order = << >> THEN NoNode ELSE order[Len(order)]
    /\ \A i \in 1 .. Len(order) :
          /\ next[order[i]] = After(i)
          /\ prev[order[i]] = Before(i)
          /\ memory[order[i]] = "live"
    /\ \A m \in Nodes : memory[m] = "new" => next[m] = NoNode /\ prev[m] = NoNode
    /\ first = << >>

\* After count turns of list_destroy as many nodes are freed at either end, and
\* the walk is at the next of both.
Destroying ==
    /\ Distinct /\ first = order /\ order # << >>
    /\ 2 * count <= Len(order)
    /\ walk = <<order[count + 1], order[Len(order) - count]>>
    /\ \A i \in 1 .. Len(order) :
          /\ memory[order[i]] =
                IF count < i /\ i <= Len(order) - count THEN "live" ELSE "freed"
          /\ count < i /\ i <= Len(order) - count =>
                next[order[i]] = After(i) /\ prev[order[i]] = Before(i)

ListInv ==
    /\ ListTypeOK
    /\ list = "live" => Live
    /\ list = "destroying" => Destroying
    /\ list \in {"freed", "fault"} => DestroyNeedsAMiddle

\* The order without its place i.
Without(i) == SubSeq(order, 1, i - 1) \o SubSeq(order, i + 1, Len(order))

LEMMA WithoutProperties ==
    ASSUME ListTypeOK, NEW i \in 1 .. Len(order)
    PROVE  /\ Without(i) \in Seq(Nodes)
           /\ Len(Without(i)) = Len(order) - 1
           /\ \A j \in 1 .. Len(order) - 1 :
                 Without(i)[j] = IF j < i THEN order[j] ELSE order[j + 1]
<1> DEFINE n == Len(order)
           a == SubSeq(order, 1, i - 1)
           b == SubSeq(order, i + 1, n)
<1>1. n \in Nat /\ i \in Nat /\ i >= 1 /\ i <= n /\ \A j \in 1 .. n : order[j] \in Nodes
  BY LenProperties, ElementOfSeq DEF ListTypeOK
<1>2. /\ a \in Seq(Nodes) /\ Len(a) = i - 1
      /\ \A j \in 1 .. i - 1 : a[j] = order[j]
  BY <1>1, SubSeqProperties
<1>3. /\ b \in Seq(Nodes) /\ Len(b) = n - i
      /\ \A j \in 1 .. n - i : b[j] = order[j + i]
  <2>1. \A j \in i + 1 .. n : order[j] \in Nodes
    BY <1>1
  <2>2. /\ b \in Seq(Nodes)
        /\ Len(b) = IF i + 1 <= n THEN n - (i + 1) + 1 ELSE 0
        /\ \A j \in 1 .. n - (i + 1) + 1 : b[j] = order[(i + 1) + j - 1]
    BY <1>1, <2>1, SubSeqProperties
  <2>3. n - (i + 1) + 1 = n - i /\ \A j \in 1 .. n - i : (i + 1) + j - 1 = j + i
    BY <1>1
  <2> HIDE DEF b
  <2>4. Len(b) = n - i
    BY <1>1, <2>2
  <2>5. ASSUME NEW j \in 1 .. n - i PROVE b[j] = order[j + i]
    <3>1. j \in 1 .. n - (i + 1) + 1 /\ (i + 1) + j - 1 = j + i
      BY <2>3
    <3>2. b[j] = order[(i + 1) + j - 1]
      BY <2>2, <3>1
    <3> QED
      BY <3>1, <3>2
  <2> QED
    BY <2>2, <2>4, <2>5
<1> HIDE DEF a, b, n
<1>4. /\ a \o b \in Seq(Nodes) /\ Len(a \o b) = (i - 1) + (n - i)
      /\ \A j \in 1 .. (i - 1) + (n - i) :
            (a \o b)[j] = IF j <= i - 1 THEN a[j] ELSE b[j - (i - 1)]
  BY <1>2, <1>3, ConcatProperties
<1>5. Without(i) = a \o b
  BY DEF Without, a, b, n
<1>6. ASSUME NEW j \in 1 .. n - 1
      PROVE  (a \o b)[j] = IF j < i THEN order[j] ELSE order[j + 1]
  <2>1. j \in 1 .. (i - 1) + (n - i)
    BY <1>1
  <2>2. CASE j < i
    <3>1. j <= i - 1 /\ j \in 1 .. i - 1
      BY <1>1, <2>2
    <3> QED
      BY <1>2, <1>4, <2>1, <2>2, <3>1
  <2>3. CASE ~ (j < i)
    <3>1. ~ (j <= i - 1) /\ j - (i - 1) \in 1 .. n - i /\ (j - (i - 1)) + i = j + 1
      BY <1>1, <2>3
    <3> QED
      BY <1>3, <1>4, <2>1, <2>3, <3>1
  <2> QED
    BY <2>2, <2>3
<1>7. (i - 1) + (n - i) = n - 1
  BY <1>1
<1> QED
  BY <1>4, <1>5, <1>6, <1>7 DEF n

LEMMA OrderProperties ==
    ASSUME ListTypeOK
    PROVE  /\ Len(order) \in Nat
           /\ order = << >> <=> Len(order) = 0
           /\ DOMAIN order = 1 .. Len(order)
           /\ \A i \in 1 .. Len(order) : order[i] \in Nodes /\ order[i] # NoNode
<1>1. /\ Len(order) \in Nat /\ DOMAIN order = 1 .. Len(order)
      /\ \A i \in 1 .. Len(order) : order[i] \in Nodes
  BY LenProperties, ElementOfSeq DEF ListTypeOK
<1>2. order = << >> <=> Len(order) = 0
  BY EmptySeq DEF ListTypeOK
<1> QED
  BY <1>1, <1>2, ListAssumption

\* list_add: the new node has no links, the last one links to it.
LEMMA AddStep ==
    ASSUME ListInv, list_add
    PROVE  ListInv'
<1> DEFINE n == Len(order)
<1>1. Live /\ ListTypeOK /\ list = "live"
  BY DEF list_add, ListInv
<1>2. PICK x \in Nodes :
          /\ memory[x] = "new"
          /\ memory' = [memory EXCEPT ![x] = "live"]
          /\ count = 0 \/ tail # NoNode
          /\ order' = Append(order, x)
          /\ tail' = x
          /\ IF count = 0
             THEN head' = x /\ UNCHANGED <<next, prev>>
             ELSE /\ next' = [next EXCEPT ![tail] = x]
                  /\ prev' = [prev EXCEPT ![x] = tail]
                  /\ UNCHANGED head
  BY DEF list_add
<1>3. count' = count + 1 /\ UNCHANGED <<destroy_cb, list, first>>
  BY DEF list_add
<1>4. /\ order' \in Seq(Nodes) /\ Len(order') = n + 1
      /\ \A i \in 1 .. n : order'[i] = order[i]
      /\ order'[n + 1] = x
  BY <1>1, <1>2, AppendProperties DEF ListTypeOK
<1>5. /\ n \in Nat /\ (order = << >> <=> n = 0)
      /\ \A i \in 1 .. n : order[i] \in Nodes /\ order[i] # NoNode
  BY <1>1, OrderProperties
<1>6. count = n
  BY <1>1, <1>2, <1>5 DEF Live
<1>7. \A i \in 1 .. n : order[i] # x
  BY <1>1, <1>2 DEF Live
<1>8. /\ memory' \in [Nodes -> Mem] /\ memory'[x] = "live"
      /\ \A m \in Nodes : m # x => memory'[m] = memory[m]
  BY <1>1, <1>2 DEF ListTypeOK, Mem
<1>9. /\ next' \in Links /\ prev' \in Links
      /\ \A m \in Nodes : next'[m] = IF n > 0 /\ m = order[n] THEN x ELSE next[m]
      /\ \A m \in Nodes : prev'[m] = IF n > 0 /\ m = x THEN order[n] ELSE prev[m]
  <2>1. CASE n = 0
    BY <1>1, <1>2, <1>6, <2>1 DEF ListTypeOK
  <2>2. CASE n > 0
    <3>1. tail = order[n] /\ order[n] \in Nodes /\ count # 0
      BY <1>1, <1>5, <1>6, <2>2 DEF Live
    <3>2. next' = [next EXCEPT ![order[n]] = x] /\ prev' = [prev EXCEPT ![x] = order[n]]
      BY <1>2, <3>1
    <3> QED
      BY <1>1, <2>2, <3>1, <3>2 DEF ListTypeOK, Links
  <2> QED
    BY <1>5, <2>1, <2>2
<1> HIDE DEF n
<1>10. ListTypeOK'
  BY <1>1, <1>2, <1>3, <1>4, <1>8, <1>9 DEF ListTypeOK
<1>11. Distinct'
  BY <1>1, <1>4, <1>5, <1>7 DEF Live, Distinct, n
<1>12. order' # << >> /\ n + 1 >= 1
  BY <1>4, <1>5, EmptySeq
<1>13. /\ head' = order'[1] /\ tail' = order'[Len(order')] /\ count' = Len(order')
  <2>1. CASE n = 0
    BY <1>2, <1>3, <1>4, <1>6, <2>1
  <2>2. CASE n > 0
    BY <1>1, <1>2, <1>3, <1>4, <1>5, <1>6, <2>2 DEF Live
  <2> QED
    BY <1>5, <2>1, <2>2
<1>14. ASSUME NEW i \in 1 .. n + 1
       PROVE  /\ next'[order'[i]] = IF i = n + 1 THEN NoNode ELSE order'[i + 1]
              /\ prev'[order'[i]] = IF i = 1 THEN NoNode ELSE order'[i - 1]
              /\ memory'[order'[i]] = "live"
  <2>1. next[x] = NoNode /\ prev[x] = NoNode
    BY <1>1, <1>2 DEF Live
  <2>2. CASE i = n + 1
    <3>1. n > 0 => order[n] # x /\ n \in 1 .. n /\ i - 1 = n /\ order'[n] = order[n]
      BY <1>4, <1>5, <1>7, <2>2
    <3> QED
      BY <1>4, <1>5, <1>8, <1>9, <2>1, <2>2, <3>1
  <2>3. CASE i # n + 1
    <3>1. /\ i \in 1 .. n /\ order'[i] = order[i] /\ order[i] # x /\ n > 0
          /\ order[i] \in Nodes /\ n \in 1 .. n
      BY <1>4, <1>5, <1>7, <2>3
    <3>2. /\ next[order[i]] = IF i = n THEN NoNode ELSE order[i + 1]
          /\ prev[order[i]] = IF i = 1 THEN NoNode ELSE order[i - 1]
          /\ memory[order[i]] = "live"
      BY <1>1, <3>1 DEF Live, After, Before, n
    <3>3. order[i] = order[n] <=> i = n
      BY <1>1, <3>1 DEF Live, Distinct, n
    <3>4. i # 1 => order'[i - 1] = order[i - 1]
      BY <1>4, <1>5, <3>1
    <3>5. i # n => order'[i + 1] = order[i + 1]
      BY <1>4, <1>5, <3>1
    <3> QED
      BY <1>4, <1>8, <1>9, <2>3, <3>1, <3>2, <3>3, <3>4, <3>5
  <2> QED
    BY <2>2, <2>3
<1>15. \A m \in Nodes : memory'[m] = "new" => next'[m] = NoNode /\ prev'[m] = NoNode
  <2> SUFFICES ASSUME NEW m \in Nodes, memory'[m] = "new"
               PROVE  next'[m] = NoNode /\ prev'[m] = NoNode
    OBVIOUS
  <2>1. m # x /\ memory[m] = "new"
    BY <1>8
  <2>2. n > 0 => m # order[n]
    BY <1>1, <1>5, <2>1 DEF Live, n
  <2> QED
    BY <1>1, <1>9, <2>1, <2>2 DEF Live
<1>16. Live'
  BY <1>1, <1>3, <1>4, <1>11, <1>12, <1>13, <1>14, <1>15 DEF Live, After, Before
<1> QED
  BY <1>1, <1>3, <1>10, <1>16 DEF ListInv

\* list_del: the neighbours of the node link to each other.
LEMMA DelStep ==
    ASSUME ListInv, list_del
    PROVE  ListInv'
<1> DEFINE n == Len(order)
<1>1. Live /\ ListTypeOK /\ list = "live" /\ count > 0
  BY DEF list_del, ListInv
<1>2. PICK i \in DOMAIN order :
          LET x == order[i]
          IN  /\ next' = IF prev[x] # NoNode
                         THEN [next EXCEPT ![prev[x]] = next[x], ![x] = NoNode]
                         ELSE [next EXCEPT ![x] = NoNode]
              /\ head' = IF prev[x] # NoNode THEN head ELSE next[x]
              /\ prev' = BackLinks(x)
              /\ tail' = IF next[x] # NoNode THEN tail ELSE prev[x]
              /\ memory' = [memory EXCEPT ![x] = "freed"]
              /\ order' = Without(i)
  BY DEF list_del, Without
<1>3. count' = count - 1 /\ UNCHANGED <<destroy_cb, list, first>>
  BY DEF list_del
<1>4. /\ n \in Nat /\ (order = << >> <=> n = 0) /\ i \in 1 .. n
      /\ \A j \in 1 .. n : order[j] \in Nodes /\ order[j] # NoNode
  BY <1>1, OrderProperties
<1> DEFINE x == order[i]
           before == IF i = 1 THEN NoNode ELSE order[i - 1]
           after == IF i = n THEN NoNode ELSE order[i + 1]
<1>5. x \in Nodes /\ x # NoNode /\ prev[x] = before /\ next[x] = after
  BY <1>1, <1>4 DEF Live, Before, After
<1>6. count = n /\ n > 0
  BY <1>1, <1>4 DEF Live
<1>7. /\ i # 1 => before # NoNode /\ before \in Nodes
      /\ i # n => after # NoNode /\ after \in Nodes
  BY <1>4
<1>8. \A j, k \in 1 .. n : order[j] = order[k] => j = k
  BY <1>1 DEF Live, Distinct
<1>9. /\ order' \in Seq(Nodes) /\ Len(order') = n - 1
      /\ \A j \in 1 .. n - 1 : order'[j] = IF j < i THEN order[j] ELSE order[j + 1]
  BY <1>1, <1>2, <1>4, WithoutProperties
<1>10. memory' \in [Nodes -> Mem] /\ \A m \in Nodes : m # x => memory'[m] = memory[m]
  BY <1>1, <1>2 DEF ListTypeOK, Mem
<1>11. memory'[x] = "freed"
  BY <1>1, <1>2, <1>5 DEF ListTypeOK
<1> HIDE DEF before, after
<1>12. /\ next' \in Links
       /\ \A m \in Nodes : next'[m] = IF m = x THEN NoNode
                                      ELSE IF i # 1 /\ m = before THEN after ELSE next[m]
  <2>1. next \in Links /\ after \in Nodes \cup {NoNode}
    BY <1>1, <1>5 DEF ListTypeOK, Links
  <2>2. CASE i # 1
    <3>1. next' = [next EXCEPT ![before] = after, ![x] = NoNode]
      BY <1>2, <1>5, <1>7, <2>2
    <3> QED
      BY <1>5, <1>7, <2>1, <2>2, <3>1 DEF Links
  <2>3. CASE i = 1
    <3>1. next' = [next EXCEPT ![x] = NoNode]
      BY <1>2, <1>5, <2>3 DEF before
    <3> QED
      BY <1>5, <2>1, <2>3, <3>1 DEF Links
  <2> QED
    BY <2>2, <2>3
<1>13. /\ prev' \in Links
       /\ \A m \in Nodes : prev'[m] = IF m = x THEN NoNode
                                      ELSE IF i # n /\ m = after THEN before ELSE prev[m]
  <2>1. prev \in Links /\ before \in Nodes \cup {NoNode}
    BY <1>1, <1>5 DEF ListTypeOK, Links
  <2>2. CASE i # n
    <3>1. prev' = [prev EXCEPT ![after] = before, ![x] = NoNode]
      BY <1>2, <1>5, <1>7, <2>2 DEF BackLinks
    <3> QED
      BY <1>5, <1>7, <2>1, <2>2, <3>1 DEF Links
  <2>3. CASE i = n
    <3>1. prev' = [prev EXCEPT ![x] = NoNode]
      BY <1>2, <1>5, <2>3 DEF BackLinks, after
    <3> QED
      BY <1>5, <2>1, <2>3, <3>1 DEF Links
  <2> QED
    BY <2>2, <2>3
<1>14. /\ head' = IF i = 1 THEN after ELSE head
       /\ tail' = IF i = n THEN before ELSE tail
  BY <1>2, <1>5, <1>7 DEF before, after
<1> HIDE DEF n, x
<1>15. ListTypeOK'
  <2>1. count' \in Nat
    BY <1>3, <1>4, <1>6
  <2>2. after \in Nodes \cup {NoNode} /\ before \in Nodes \cup {NoNode}
    BY <1>4, <1>7 DEF before, after, n
  <2>3. head' \in Nodes \cup {NoNode} /\ tail' \in Nodes \cup {NoNode}
    BY <1>1, <1>14, <2>2 DEF ListTypeOK
  <2> QED
    BY <1>1, <1>3, <1>9, <1>10, <1>12, <1>13, <2>1, <2>3 DEF ListTypeOK
<1>16. \A j \in 1 .. n - 1 :
           /\ j < i => j \in 1 .. n /\ order'[j] = order[j]
           /\ j >= i => j + 1 \in 1 .. n /\ order'[j] = order[j + 1]
  BY <1>4, <1>9
<1>17. Distinct'
  <2> SUFFICES ASSUME NEW j \in 1 .. n - 1, NEW k \in 1 .. n - 1, order'[j] = order'[k]
               PROVE  j = k
    BY <1>9 DEF Distinct
  <2> QED
    BY <1>4, <1>8, <1>16
<1>18. order' = << >> <=> n - 1 = 0
  BY <1>9, EmptySeq
<1>19. /\ head' = IF order' = << >> THEN NoNode ELSE order'[1]
       /\ tail' = IF order' = << >> THEN NoNode ELSE order'[n - 1]
  <2>1. head = order[1] /\ tail = order[n]
    BY <1>1, <1>4, <1>6 DEF Live, n
  <2>2. CASE n = 1
    BY <1>4, <1>14, <1>18, <2>2 DEF before, after
  <2>3. CASE n > 1
    <3>1. 1 \in 1 .. n - 1 /\ n - 1 \in 1 .. n - 1
      BY <1>4, <2>3
    <3>2. order'[1] = IF 1 < i THEN order[1] ELSE order[2]
      BY <1>9, <3>1
    <3>3. order'[n - 1] = IF n - 1 < i THEN order[n - 1] ELSE order[n]
      BY <1>4, <1>9, <3>1
    <3>4. head' = order'[1]
      BY <1>4, <1>14, <2>1, <2>3, <3>2 DEF after
    <3>5. tail' = order'[n - 1]
      BY <1>4, <1>14, <2>1, <2>3, <3>3 DEF before
    <3> QED
      BY <1>18, <2>3, <3>4, <3>5
  <2> QED
    BY <1>4, <1>6, <2>2, <2>3
<1>20. ASSUME NEW j \in 1 .. n - 1
       PROVE  /\ next'[order'[j]] = IF j = n - 1 THEN NoNode ELSE order'[j + 1]
              /\ prev'[order'[j]] = IF j = 1 THEN NoNode ELSE order'[j - 1]
              /\ memory'[order'[j]] = "live"
  <2>1. \A k \in 1 .. n : /\ next[order[k]] = IF k = n THEN NoNode ELSE order[k + 1]
                          /\ prev[order[k]] = IF k = 1 THEN NoNode ELSE order[k - 1]
                          /\ memory[order[k]] = "live"
                          /\ order[k] = x <=> k = i
                          /\ i # 1 => (order[k] = before <=> k = i - 1)
                          /\ i # n => (order[k] = after <=> k = i + 1)
    <3> SUFFICES ASSUME NEW k \in 1 .. n
                 PROVE  /\ next[order[k]] = IF k = n THEN NoNode ELSE order[k + 1]
                        /\ prev[order[k]] = IF k = 1 THEN NoNode ELSE order[k - 1]
                        /\ memory[order[k]] = "live"
                        /\ order[k] = x <=> k = i
                        /\ i # 1 => (order[k] = before <=> k = i - 1)
                        /\ i # n => (order[k] = after <=> k = i + 1)
      OBVIOUS
    <3>1. /\ next[order[k]] = IF k = n THEN NoNode ELSE order[k + 1]
          /\ prev[order[k]] = IF k = 1 THEN NoNode ELSE order[k - 1]
          /\ memory[order[k]] = "live"
      BY <1>1 DEF Live, After, Before, n
    <3>2. order[k] = x <=> k = i
      BY <1>4, <1>8 DEF x
    <3>3. i # 1 => (order[k] = before <=> k = i - 1)
      BY <1>4, <1>8 DEF before
    <3>4. i # n => (order[k] = after <=> k = i + 1)
      BY <1>4, <1>8 DEF after
    <3> QED
      BY <3>1, <3>2, <3>3, <3>4
  <2>2. CASE j < i
    <3>1. j \in 1 .. n /\ order'[j] = order[j] /\ order[j] # x /\ order[j] \in Nodes
      BY <1>4, <1>16, <2>1, <2>2
    <3>2. memory'[order'[j]] = "live"
      BY <1>10, <2>1, <3>1
    <3>3. prev'[order'[j]] = IF j = 1 THEN NoNode ELSE order'[j - 1]
      <4>1. ~ (i # n /\ order[j] = after)
        BY <1>4, <2>1, <2>2, <3>1
      <4>2. prev'[order[j]] = IF j = 1 THEN NoNode ELSE order[j - 1]
        BY <1>13, <2>1, <3>1, <4>1
      <4>3. j # 1 => order'[j - 1] = order[j - 1]
        BY <1>4, <1>16, <2>2, <3>1
      <4> QED
        BY <3>1, <4>2, <4>3
    <3>4. next'[order'[j]] = IF j = n - 1 THEN NoNode ELSE order'[j + 1]
      <4>1. CASE j = i - 1
        <5>1. i # 1 /\ order[j] = before
          BY <1>4, <2>1, <3>1, <4>1
        <5>2. next'[order'[j]] = after
          BY <1>12, <3>1, <5>1
        <5>3. j # n - 1 => order'[j + 1] = order[i + 1] /\ i # n
          BY <1>4, <1>16, <3>1, <4>1
        <5>4. j = n - 1 => i = n
          BY <1>4, <4>1
        <5> QED
          BY <5>2, <5>3, <5>4 DEF after
      <4>2. CASE j # i - 1
        <5>1. ~ (i # 1 /\ order[j] = before)
          BY <2>1, <3>1, <4>2
        <5>2. next'[order'[j]] = IF j = n THEN NoNode ELSE order[j + 1]
          BY <1>12, <2>1, <3>1, <5>1
        <5>3. j # n /\ j # n - 1 /\ order'[j + 1] = order[j + 1]
          BY <1>4, <1>16, <2>2, <3>1, <4>2
        <5> QED
          BY <5>2, <5>3
      <4> QED
        BY <4>1, <4>2
    <3> QED
      BY <3>2, <3>3, <3>4
  <2>3. CASE j >= i
    <3>1. /\ j + 1 \in 1 .. n /\ order'[j] = order[j + 1] /\ order[j + 1] # x
          /\ order[j + 1] \in Nodes
      BY <1>4, <1>16, <2>1, <2>3
    <3>2. memory'[order'[j]] = "live"
      BY <1>10, <2>1, <3>1
    <3>3. next'[order'[j]] = IF j = n - 1 THEN NoNode ELSE order'[j + 1]
      <4>1. ~ (i # 1 /\ order[j + 1] = before)
        BY <1>4, <2>1, <2>3, <3>1
      <4>2. next'[order[j + 1]] = IF j + 1 = n THEN NoNode ELSE order[(j + 1) + 1]
        BY <1>12, <2>1, <3>1, <4>1
      <4>3. j # n - 1 => j + 1 \in 1 .. n - 1 /\ order'[j + 1] = order[(j + 1) + 1]
        BY <1>4, <1>16, <2>3, <3>1
      <4>4. j + 1 = n <=> j = n - 1
        BY <1>4
      <4> QED
        BY <3>1, <4>2, <4>3, <4>4
    <3>4. prev'[order'[j]] = IF j = 1 THEN NoNode ELSE order'[j - 1]
      <4>1. CASE j = i
        <5>1. i # n /\ order[j + 1] = after
          BY <1>4, <2>1, <3>1, <4>1
        <5>2. prev'[order'[j]] = before
          BY <1>13, <3>1, <5>1
        <5>3. j # 1 => order'[j - 1] = order[i - 1]
          BY <1>4, <1>16, <3>1, <4>1
        <5> QED
          BY <4>1, <5>2, <5>3 DEF before
      <4>2. CASE j # i
        <5>1. ~ (i # n /\ order[j + 1] = after)
          BY <1>4, <2>1, <3>1, <4>2
        <5>2. prev'[order'[j]] = IF j + 1 = 1 THEN NoNode ELSE order[(j + 1) - 1]
          BY <1>13, <2>1, <3>1, <5>1
        <5>3. j # 1 /\ j + 1 # 1 /\ order'[j - 1] = order[(j + 1) - 1]
          BY <1>4, <1>16, <2>3, <3>1, <4>2
        <5> QED
          BY <5>2, <5>3
      <4> QED
        BY <4>1, <4>2
    <3> QED
      BY <3>2, <3>3, <3>4
  <2> QED
    BY <1>4, <2>2, <2>3
<1>21. \A m \in Nodes : memory'[m] = "new" => next'[m] = NoNode /\ prev'[m] = NoNode
  <2> SUFFICES ASSUME NEW m \in Nodes, memory'[m] = "new"
               PROVE  next'[m] = NoNode /\ prev'[m] = NoNode
    OBVIOUS
  <2>1. m # x /\ memory[m] = "new"
    BY <1>10, <1>11
  <2>2. (i # 1 => m # before) /\ (i # n => m # after)
    BY <1>1, <1>4, <2>1 DEF Live, before, after, n
  <2> QED
    BY <1>1, <1>12, <1>13, <2>1, <2>2 DEF Live
<1>22. Live'
  BY <1>1, <1>3, <1>6, <1>9, <1>17, <1>19, <1>20, <1>21 DEF Live, After, Before
<1> QED
  BY <1>1, <1>3, <1>15, <1>22 DEF ListInv

\* A node that is not there gives an empty list a size, or ends the process.
LEMMA AddNullStep ==
    ASSUME ListInv, AddNull \/ AddFaults
    PROVE  ListInv'
<1>1. CASE AddNull
  <2>1. /\ list = "live" /\ list' = "live" /\ count = 0 /\ count' = 1
        /\ head' = NoNode /\ tail' = NoNode
        /\ UNCHANGED <<next, prev, memory, destroy_cb, order, first>>
    BY <1>1 DEF AddNull
  <2>2. order = << >>
    BY <2>1, OrderProperties DEF ListInv, Live
  <2> QED
    BY <2>1, <2>2 DEF ListInv, ListTypeOK, Live, Distinct, After, Before
<1>2. CASE AddFaults
  <2>1. /\ list = "live" /\ list' = "fault"
        /\ UNCHANGED <<head, tail, count, next, prev, memory, destroy_cb, order, first>>
    BY <1>2 DEF AddFaults, Fault
  <2> QED
    BY <2>1 DEF ListInv, ListTypeOK, Live, DestroyNeedsAMiddle
<1> QED
  BY <1>1, <1>2

\* list_destroy starts at both ends.
LEMMA DestroysStep ==
    ASSUME ListInv, Destroys
    PROVE  ListInv'
<1>1. /\ list = "live" /\ count' = 0 /\ walk' = <<head, tail>>
      /\ list' = IF head = NoNode THEN "freed" ELSE "destroying"
      /\ first' = order
      /\ UNCHANGED <<head, tail, next, prev, memory, destroy_cb, order>>
  BY DEF Destroys
<1>2. ListTypeOK /\ Live
  BY <1>1 DEF ListInv
<1>3. ListTypeOK'
  BY <1>1, <1>2 DEF ListTypeOK
<1>4. /\ Len(order) \in Nat /\ (order = << >> <=> Len(order) = 0)
      /\ \A i \in 1 .. Len(order) : order[i] # NoNode
  BY <1>2, OrderProperties
<1>5. CASE order = << >>
  <2>1. list' = "freed" /\ first' = << >>
    BY <1>1, <1>2, <1>5 DEF Live
  <2> QED
    BY <1>3, <2>1 DEF ListInv, DestroyNeedsAMiddle
<1>6. CASE order # << >>
  <2>1. head = order[1] /\ tail = order[Len(order)] /\ head # NoNode
    BY <1>2, <1>4, <1>6 DEF Live
  <2>2. list' = "destroying" /\ walk' = <<order[1], order[Len(order)]>>
    BY <1>1, <2>1
  <2>3. \A i \in 1 .. Len(order) : 0 < i /\ i <= Len(order) - 0
    BY <1>4
  <2>4. 0 + 1 = 1 /\ Len(order) - 0 = Len(order) /\ 2 * 0 <= Len(order)
    BY <1>4
  <2>5. Destroying'
    BY <1>1, <1>2, <1>6, <2>2, <2>3, <2>4
       DEF Live, Destroying, Distinct, After, Before
  <2> QED
    BY <1>3, <2>2, <2>5 DEF ListInv
<1> QED
  BY <1>5, <1>6

\* Where the walk is, and when its two ends are nodes of their own.
LEMMA WalkProperties ==
    ASSUME ListTypeOK, Destroying
    PROVE  /\ Len(order) \in Nat \ {0} /\ count \in Nat
           /\ count + 1 \in 1 .. Len(order) /\ Len(order) - count \in 1 .. Len(order)
           /\ walk[1] = order[count + 1] /\ walk[2] = order[Len(order) - count]
           /\ AtMeeting <=> Len(order) = 2 * count + 1
           /\ Dereferenceable(walk[1]) <=> 2 * count < Len(order)
           /\ Dereferenceable(walk[2]) <=> 2 * count < Len(order)
<1> DEFINE n == Len(order)
<1>1. /\ n \in Nat \ {0} /\ count \in Nat /\ 2 * count <= n
      /\ \A i \in 1 .. n : order[i] \in Nodes /\ order[i] # NoNode
  BY OrderProperties DEF ListTypeOK, Destroying
<1>2. walk[1] = order[count + 1] /\ walk[2] = order[n - count]
  BY DEF Destroying
<1>3. count + 1 \in 1 .. n /\ n - count \in 1 .. n
  BY <1>1
<1>4. AtMeeting <=> count + 1 = n - count
  BY <1>2, <1>3 DEF AtMeeting, Destroying, Distinct
<1>5. \A i \in 1 .. n : memory[order[i]] = "live" <=> count < i /\ i <= n - count
  BY DEF Destroying
<1>6. count < count + 1 /\ (count + 1 <= n - count <=> 2 * count < n)
  BY <1>1
<1>7. n - count <= n - count /\ (count < n - count <=> 2 * count < n)
  BY <1>1
<1>8. Dereferenceable(walk[1]) <=> 2 * count < n
  BY <1>1, <1>2, <1>3, <1>5, <1>6 DEF Dereferenceable
<1>9. Dereferenceable(walk[2]) <=> 2 * count < n
  BY <1>1, <1>2, <1>3, <1>5, <1>7 DEF Dereferenceable
<1> QED
  BY <1>1, <1>2, <1>3, <1>4, <1>8, <1>9

\* A turn of the loop takes a node from either end.
LEMMA PairStep ==
    ASSUME ListInv, DestroysPair
    PROVE  ListInv'
<1> DEFINE n == Len(order)
           a == order[count + 1]
           b == order[n - count]
<1>1. list = "destroying" /\ ListTypeOK /\ Destroying
  BY DEF DestroysPair, ListInv
<1>2. /\ n \in Nat \ {0} /\ count \in Nat
      /\ count + 1 \in 1 .. n /\ n - count \in 1 .. n
      /\ walk[1] = a /\ walk[2] = b
      /\ n # 2 * count + 1 /\ 2 * count < n
  BY <1>1, WalkProperties DEF DestroysPair
<1>3. /\ walk' = <<next[a], prev[b]>>
      /\ memory' = [memory EXCEPT ![a] = "freed", ![b] = "freed"]
      /\ next' = [next EXCEPT ![a] = NoNode, ![b] = NoNode]
      /\ prev' = [prev EXCEPT ![a] = NoNode, ![b] = NoNode]
      /\ count' = count + 1
      /\ UNCHANGED <<head, tail, destroy_cb, list, order, first>>
  BY <1>2 DEF DestroysPair
<1>4. \A i \in 1 .. n : order[i] \in Nodes
  BY <1>1, OrderProperties
<1>5. a \in Nodes /\ b \in Nodes
  BY <1>2, <1>4
<1> HIDE DEF a, b, n
<1>6. /\ memory' \in [Nodes -> Mem] /\ next' \in Links /\ prev' \in Links
      /\ \A m \in Nodes : memory'[m] = IF m \in {a, b} THEN "freed" ELSE memory[m]
      /\ \A m \in Nodes \ {a, b} : next'[m] = next[m] /\ prev'[m] = prev[m]
  <2>1. /\ memory' \in [Nodes -> Mem]
        /\ \A m \in Nodes : memory'[m] = IF m \in {a, b} THEN "freed" ELSE memory[m]
    BY <1>1, <1>3, <1>5 DEF ListTypeOK, Mem
  <2>2. /\ next' \in Links
        /\ \A m \in Nodes \ {a, b} : next'[m] = next[m]
    BY <1>1, <1>3, <1>5 DEF ListTypeOK, Links
  <2>3. /\ prev' \in Links
        /\ \A m \in Nodes \ {a, b} : prev'[m] = prev[m]
    BY <1>1, <1>3, <1>5 DEF ListTypeOK, Links
  <2> QED
    BY <2>1, <2>2, <2>3
<1>7. ListTypeOK'
  BY <1>1, <1>3, <1>6 DEF ListTypeOK
<1>8. \A i \in 1 .. n : order[i] \in {a, b} <=> i = count + 1 \/ i = n - count
  BY <1>1, <1>2 DEF Destroying, Distinct, a, b, n
<1>9. 2 * (count + 1) <= n
  BY <1>2
<1>10. walk' = <<order[(count + 1) + 1], order[n - (count + 1)]>>
  <2>1. count < count + 1 /\ count + 1 <= n - count /\ count + 1 # n
    BY <1>2, <1>9
  <2>2. next[a] = order[(count + 1) + 1]
    BY <1>1, <1>2, <2>1 DEF Destroying, After, a, n
  <2>3. count < n - count /\ n - count <= n - count /\ n - count # 1
    BY <1>2, <1>9
  <2>4. prev[b] = order[(n - count) - 1]
    BY <1>1, <1>2, <2>3 DEF Destroying, Before, b, n
  <2>5. (n - count) - 1 = n - (count + 1)
    BY <1>2
  <2> QED
    BY <1>3, <2>2, <2>4, <2>5
<1>11. ASSUME NEW i \in 1 .. n
       PROVE  /\ memory'[order[i]] = IF count + 1 < i /\ i <= n - (count + 1)
                                     THEN "live" ELSE "freed"
              /\ count + 1 < i /\ i <= n - (count + 1) =>
                    next'[order[i]] = After(i) /\ prev'[order[i]] = Before(i)
  <2>1. /\ memory[order[i]] = IF count < i /\ i <= n - count THEN "live" ELSE "freed"
        /\ count < i /\ i <= n - count =>
              next[order[i]] = After(i) /\ prev[order[i]] = Before(i)
    BY <1>1 DEF Destroying, n
  <2>2. count + 1 < i /\ i <= n - (count + 1) <=>
            count < i /\ i <= n - count /\ i # count + 1 /\ i # n - count
    BY <1>2
  <2> QED
    BY <1>4, <1>6, <1>8, <2>1, <2>2
<1>12. UNCHANGED <<order, first>> /\ After(1)' = After(1)
  BY <1>3 DEF After
<1>13. Destroying'
  <2>1. n = Len(order) /\ n = Len(order')
    BY <1>3 DEF n
  <2>2. \A i \in 1 .. n : (After(i))' = After(i) /\ (Before(i))' = Before(i)
    BY <1>3 DEF After, Before
  <2>3. Distinct' /\ first' = order' /\ order' # << >>
    BY <1>1, <1>3 DEF Destroying, Distinct
  <2> QED
    BY <1>3, <1>9, <1>10, <1>11, <2>1, <2>2, <2>3 DEF Destroying
<1> QED
  BY <1>1, <1>3, <1>7, <1>13 DEF ListInv

\* The walk has met, or it has not met in an even number of nodes.
LEMMA MiddleStep ==
    ASSUME ListInv, DestroysMiddle \/ DestroyFaults
    PROVE  ListInv'
<1> DEFINE n == Len(order)
<1>1. list = "destroying" /\ ListTypeOK /\ Destroying /\ first = order /\ first' = first
  BY DEF DestroysMiddle, DestroyFaults, Fault, ListInv, Destroying
<1>2. n \in Nat \ {0} /\ count \in Nat /\ 2 * count <= n
  BY <1>1, WalkProperties DEF Destroying
<1>3. CASE DestroysMiddle
  <2>1. /\ n = 2 * count + 1 /\ walk[1] = order[count + 1]
        /\ count + 1 \in 1 .. n
    BY <1>1, <1>3, WalkProperties DEF DestroysMiddle
  <2>2. /\ memory' = IF count > 0 THEN [memory EXCEPT ![order[count + 1]] = "freed"]
                     ELSE memory
        /\ list' = "freed"
        /\ UNCHANGED <<head, tail, count, next, prev, destroy_cb, order>>
    BY <1>3, <2>1 DEF DestroysMiddle
  <2>3. \A i \in 1 .. n : order[i] \in Nodes
    BY <1>1, OrderProperties
  <2>4. /\ memory' \in [Nodes -> Mem]
        /\ \A m \in Nodes : memory'[m] = IF count > 0 /\ m = order[count + 1]
                                         THEN "freed" ELSE memory[m]
    BY <1>1, <2>1, <2>2, <2>3 DEF ListTypeOK, Mem
  <2>5. ListTypeOK'
    BY <1>1, <2>2, <2>4 DEF ListTypeOK
  <2>6. ASSUME NEW i \in 1 .. n
        PROVE  memory'[order[i]] = IF n = 1 THEN "live" ELSE "freed"
    <3>1. memory[order[i]] = IF count < i /\ i <= n - count THEN "live" ELSE "freed"
      BY <1>1 DEF Destroying
    <3>2. count < i /\ i <= n - count <=> i = count + 1
      BY <1>2, <2>1
    <3>3. n = 1 <=> count = 0
      BY <1>2, <2>1
    <3>4. order[i] = order[count + 1] <=> i = count + 1
      BY <1>1, <2>1 DEF Destroying, Distinct
    <3> QED
      BY <1>2, <2>3, <2>4, <3>1, <3>2, <3>3, <3>4
  <2>7. n % 2 = 1
    BY <1>2, <2>1
  <2>8. DOMAIN order = 1 .. n
    BY <1>1, OrderProperties
  <2>9. DestroyNeedsAMiddle'
    BY <1>1, <2>2, <2>6, <2>7, <2>8 DEF DestroyNeedsAMiddle
  <2> QED
    BY <2>2, <2>5, <2>9 DEF ListInv
<1>4. CASE DestroyFaults
  <2>1. /\ list' = "fault"
        /\ UNCHANGED <<head, tail, count, next, prev, memory, destroy_cb, order>>
    BY <1>4 DEF DestroyFaults, Fault
  <2>2. ListTypeOK'
    BY <1>1, <2>1 DEF ListTypeOK
  <2>3. ASSUME destroy_cb
        PROVE  n % 2 = 0
    <3>1. n # 2 * count + 1 /\ ~ (2 * count < n)
      BY <1>1, <1>4, <2>3, WalkProperties DEF DestroyFaults, AtMeeting
    <3>2. n = 2 * count
      BY <1>2, <3>1
    <3> QED
      BY <1>2, <3>2
  <2>4. DestroyNeedsAMiddle'
    BY <1>1, <2>1, <2>3 DEF DestroyNeedsAMiddle
  <2> QED
    BY <2>1, <2>2, <2>4 DEF ListInv
<1> QED
  BY <1>3, <1>4

LEMMA ListInvInit == ListInit => ListInv
<1> SUFFICES ASSUME ListInit PROVE ListInv
  OBVIOUS
<1>1. order = << >> /\ Len(order) = 0 /\ order \in Seq(Nodes)
  BY DEF ListInit
<1>2. ListTypeOK
  BY <1>1 DEF ListInit, ListTypeOK, Links, Mem
<1>3. Live
  BY <1>1 DEF ListInit, Live, Distinct
<1> QED
  BY <1>2, <1>3 DEF ListInit, ListInv

\* The links of a list are its order, and a list_destroy under way has freed as
\* much from the one end as from the other.
THEOREM ListCorrect == ListSpec => []ListInv
<1>1. ListInv /\ [ListNext]_listVars => ListInv'
  <2> SUFFICES ASSUME ListInv, [ListNext]_listVars PROVE ListInv'
    OBVIOUS
  <2>1. CASE UNCHANGED listVars
    BY <2>1 DEF listVars, ListInv, ListTypeOK, Live, Destroying, Distinct, After, Before,
                DestroyNeedsAMiddle
  <2> QED
    BY <2>1, AddStep, AddNullStep, DelStep, DestroysStep, PairStep, MiddleStep
       DEF ListNext
<1> QED
  BY <1>1, ListInvInit, PTL DEF ListSpec

LEMMA LiveWalks == ListTypeOK /\ Live => WalksAgree
<1> SUFFICES ASSUME ListTypeOK, Live PROVE WalksAgree
  OBVIOUS
<1> DEFINE n == Len(order)
           back == Backwards(order)
<1>1. /\ n \in Nat /\ (order = << >> <=> n = 0) /\ DOMAIN order = 1 .. n
      /\ \A i \in 1 .. n : order[i] \in Nodes
  BY OrderProperties
<1>2. \A i \in 1 .. n : /\ next[order[i]] = IF i = n THEN NoNode ELSE order[i + 1]
                        /\ prev[order[i]] = IF i = 1 THEN NoNode ELSE order[i - 1]
                        /\ memory[order[i]] = "live"
  BY DEF Live, After, Before
<1>3. back = [i \in 1 .. n |-> order[n + 1 - i]]
  BY <1>1 DEF Backwards
<1>4. \A i \in 1 .. n : n + 1 - i \in 1 .. n
  BY <1>1
<1>5. back \in Seq(Nodes) /\ Len(back) = n /\ (back = << >> <=> n = 0)
  <2>1. back \in [1 .. n -> Nodes]
    BY <1>1, <1>3, <1>4
  <2>2. back \in Seq(Nodes)
    BY <1>1, <2>1, IsASeq
  <2>3. Len(back) = n
    BY <1>1, <2>1, <2>2, LenProperties
  <2> QED
    BY <2>2, <2>3, EmptySeq
<1>6. \A i \in 1 .. n : back[i] = order[n + 1 - i]
  BY <1>3
<1> HIDE DEF back, n
<1>7. n # 0 => 1 \in 1 .. n /\ n \in 1 .. n /\ n + 1 - 1 = n /\ n + 1 - n = 1
  BY <1>1
<1>8. Linked(head, tail, order, next)
  <2>1. \A i \in 1 .. n - 1 : i \in 1 .. n /\ i # n
    BY <1>1
  <2> QED
    BY <1>1, <1>2, <1>7, <2>1 DEF Live, Linked, n
<1>9. Linked(tail, head, back, prev)
  <2>1. n # 0 => back[1] = order[n] /\ back[n] = order[1] /\ prev[back[n]] = NoNode
    BY <1>2, <1>6, <1>7
  <2>2. ASSUME NEW i \in 1 .. n - 1
        PROVE  prev[back[i]] = back[i + 1]
    <3>1. /\ i \in 1 .. n /\ i + 1 \in 1 .. n
          /\ n + 1 - i \in 1 .. n /\ n + 1 - i # 1
          /\ (n + 1 - i) - 1 = n + 1 - (i + 1)
      BY <1>1
    <3> QED
      BY <1>2, <1>6, <3>1
  <2> QED
    BY <1>1, <1>5, <2>1, <2>2 DEF Live, Linked, n
<1> QED
  BY <1>1, <1>2, <1>8, <1>9 DEF WalksAgree, back

\* Whatever was added and deleted, the links in either direction give the nodes
\* of the list in their order and no other, and none that was freed.
THEOREM WalksCorrect == ListSpec => []WalksAgree
<1>1. ListInv => WalksAgree
  BY LiveWalks DEF ListInv, WalksAgree
<1> QED
  BY <1>1, ListCorrect, PTL

\* list_destroy frees each node once when their number is odd and not one; an
\* even number, or the callback that nobody has set, is all that stops it.
THEOREM DestroyCorrect == ListSpec => []DestroyNeedsAMiddle
<1>1. ListInv => DestroyNeedsAMiddle
  BY DEF ListInv, Live, ListTypeOK, DestroyNeedsAMiddle
<1> QED
  BY <1>1, ListCorrect, PTL
=============================================================================
