---------------------------- MODULE SliceProofs ----------------------------
(***************************************************************************)
(* Proofs about the slices, for every number of slices, blocks and texts   *)
(* of any length.                                                          *)
(***************************************************************************)
EXTENDS Slice, TLAPS

Held == [state : {"raw", "absent", "set"}, sz : Nat, buf : Texts \cup {NoText},
         ptr : Blocks \cup {NoBlock, Wild}]

SliceTypeOK ==
    /\ held \in [Slices -> Held]
    /\ block \in [Blocks -> Texts \cup {NoText}]
    /\ asked \in [Slices -> Texts \cup {NoText}]

\* The entry e of a slice has the text t, when the blocks are bl.
Keeps(e, t, bl) ==
    /\ e.sz = 0 => t = NoText \/ t.len = 0
    /\ 0 < e.sz /\ Short(e.sz) => t \in Texts /\ e.buf = t
    /\ ~ Short(e.sz) => /\ t \in Texts
                        /\ e.ptr = NoBlock \/ (e.ptr \in Blocks /\ bl[e.ptr] = t)

Owns(s, b) == s \notin misused /\ Frees(s) /\ held[s].ptr = b

\* A slice that nobody misused has its text or nothing, and what has none yet
\* frees nothing; a block has one owner at most, and a live one has one or was
\* lost; what is not there was not misused.
SliceInv ==
    /\ SliceTypeOK
    /\ \A s \in Slices \ misused :
          IF held[s].state = "set" THEN Keeps(held[s], asked[s], block)
                                   ELSE held[s].sz = 0
    /\ \A b \in Blocks : \A s, d \in Slices : Owns(s, b) /\ Owns(d, b) => s = d
    /\ \A b \in Blocks : block[b] # NoText => b \in over \/ \E s \in Slices : Owns(s, b)
    /\ \A s \in Slices : held[s].state = "absent" => s \notin misused
    /\ "kept" \notin corrupt

LEMMA LongKeeps ==
    ASSUME NEW e, NEW t, NEW bl, Keeps(e, t, bl), ~ Short(e.sz)
    PROVE  /\ t \in Texts
           /\ e.ptr = NoBlock \/ (e.ptr \in Blocks /\ bl[e.ptr] = t)
BY DEF Keeps

LEMMA FreesIsLong ==
    ASSUME SliceTypeOK, NEW s \in Slices
    PROVE  Frees(s) <=> ~ Short(held[s].sz)
<1>1. held[s].sz \in Nat
  BY DEF SliceTypeOK, Held
<1> QED
  BY <1>1 DEF Frees, Short, SLICE_INTERNAL_SZ

LEMMA OwnedIsLive ==
    ASSUME SliceInv, NEW s \in Slices, NEW b \in Blocks, Owns(s, b)
    PROVE  block[b] \in Texts /\ block[b] # NoText /\ held[s].state = "set"
<1>1. SliceTypeOK /\ ~ Short(held[s].sz) /\ held[s].sz # 0
  BY FreesIsLong DEF SliceInv, Owns, Short, SLICE_INTERNAL_SZ
<1>2. held[s].state = "set" /\ Keeps(held[s], asked[s], block)
  BY <1>1 DEF SliceInv, Owns
<1>3. held[s].ptr = b /\ b # NoBlock
  BY SliceAssumption DEF Owns
<1>4. asked[s] \in Texts /\ block[b] = asked[s]
  <2>1. ~ Short(held[s].sz) =>
            /\ asked[s] \in Texts
            /\ held[s].ptr = NoBlock \/ (held[s].ptr \in Blocks /\ block[held[s].ptr] = asked[s])
    BY <1>2, LongKeeps
  <2> QED
    BY <1>1, <1>3, <2>1
<1> QED
  BY <1>2, <1>4, SliceAssumption

\* slice_init gives s its text, in a block that was free or in none.
LEMMA StoredProperties ==
    ASSUME SliceTypeOK, NEW s \in Slices, NEW v \in Texts \cup {NoText},
           NEW bl \in [Blocks -> Texts \cup {NoText}], Stored(s, v, bl)
    PROVE  /\ held' \in [Slices -> Held] /\ block' \in [Blocks -> Texts \cup {NoText}]
           /\ held'[s].state = "set" /\ Keeps(held'[s], v, block')
           /\ \A d \in Slices \ {s} : held'[d] = held[d]
           /\ \A b \in Blocks : \/ block'[b] = bl[b] /\ (~ Short(held'[s].sz) => held'[s].ptr # b)
                                \/ /\ bl[b] = NoText /\ block'[b] # NoText
                                   /\ ~ Short(held'[s].sz) /\ held'[s].ptr = b
<1> USE DEF Short, SLICE_INTERNAL_SZ
<1>1. ASSUME NEW e \in Held, held' = [held EXCEPT ![s] = e]
      PROVE  /\ held' \in [Slices -> Held] /\ held'[s] = e
             /\ \A d \in Slices \ {s} : held'[d] = held[d]
  BY <1>1 DEF SliceTypeOK
<1>2. CASE v = NoText
  <2>1. held' = [held EXCEPT ![s] = OnHeap(0, NoBlock)] /\ block' = bl
    BY <1>2 DEF Stored
  <2>2. OnHeap(0, NoBlock) \in Held /\ OnHeap(0, NoBlock).sz = 0
        /\ OnHeap(0, NoBlock).state = "set"
    BY DEF OnHeap, Held
  <2>3. /\ held' \in [Slices -> Held] /\ held'[s] = OnHeap(0, NoBlock)
        /\ \A d \in Slices \ {s} : held'[d] = held[d]
    BY <1>1, <2>1, <2>2
  <2> QED
    BY <1>2, <2>1, <2>2, <2>3 DEF Keeps
<1>3. v # NoText => v \in Texts /\ v.len \in Nat
  BY SliceAssumption DEF Texts
<1>4. CASE v # NoText /\ Short(v.len)
  <2>1. held' = [held EXCEPT ![s] = Inline(v)] /\ block' = bl
    BY <1>4 DEF Stored
  <2>2. /\ Inline(v) \in Held /\ Inline(v).sz = v.len /\ Inline(v).buf = v
        /\ Inline(v).state = "set"
    BY <1>3, <1>4 DEF Inline, Held
  <2>3. /\ held' \in [Slices -> Held] /\ held'[s] = Inline(v)
        /\ \A d \in Slices \ {s} : held'[d] = held[d]
    BY <1>1, <2>1, <2>2
  <2> QED
    BY <1>3, <1>4, <2>1, <2>2, <2>3 DEF Keeps
<1>5. CASE v # NoText /\ ~ Short(v.len)
  <2>1. \/ \E b \in Blocks : /\ bl[b] = NoText
                             /\ held' = [held EXCEPT ![s] = OnHeap(v.len, b)]
                             /\ block' = [bl EXCEPT ![b] = v]
        \/ held' = [held EXCEPT ![s] = OnHeap(v.len, NoBlock)] /\ block' = bl
    BY <1>5 DEF Stored
  <2>2. \A p \in Blocks \cup {NoBlock} :
            /\ OnHeap(v.len, p) \in Held /\ OnHeap(v.len, p).sz = v.len
            /\ OnHeap(v.len, p).ptr = p /\ OnHeap(v.len, p).state = "set"
    BY <1>3, <1>5 DEF OnHeap, Held
  <2>3. CASE held' = [held EXCEPT ![s] = OnHeap(v.len, NoBlock)] /\ block' = bl
    <3>1. /\ held' \in [Slices -> Held] /\ held'[s] = OnHeap(v.len, NoBlock)
          /\ \A d \in Slices \ {s} : held'[d] = held[d]
      BY <1>1, <2>2, <2>3
    <3> QED
      BY <1>3, <1>5, <2>2, <2>3, <3>1, SliceAssumption DEF Keeps
  <2>4. ASSUME NEW b \in Blocks, bl[b] = NoText,
               held' = [held EXCEPT ![s] = OnHeap(v.len, b)], block' = [bl EXCEPT ![b] = v]
        PROVE  /\ held' \in [Slices -> Held] /\ block' \in [Blocks -> Texts \cup {NoText}]
               /\ held'[s].state = "set" /\ Keeps(held'[s], v, block')
               /\ \A d \in Slices \ {s} : held'[d] = held[d]
               /\ \A c \in Blocks : \/ block'[c] = bl[c] /\ (~ Short(held'[s].sz) => held'[s].ptr # c)
                                    \/ /\ bl[c] = NoText /\ block'[c] # NoText
                                       /\ ~ Short(held'[s].sz) /\ held'[s].ptr = c
    <3>1. /\ held' \in [Slices -> Held] /\ held'[s] = OnHeap(v.len, b)
          /\ \A d \in Slices \ {s} : held'[d] = held[d]
      BY <1>1, <2>2, <2>4
    <3>2. /\ block' \in [Blocks -> Texts \cup {NoText}] /\ block'[b] = v
          /\ \A c \in Blocks \ {b} : block'[c] = bl[c]
      BY <2>4
    <3> QED
      BY <1>3, <1>5, <2>2, <2>4, <3>1, <3>2 DEF Keeps
  <2> QED
    BY <2>1, <2>3, <2>4
<1> QED
  BY <1>2, <1>4, <1>5

\* Whatever sets a slice keeps the invariant, when the block that it had is
\* either freed before or counted as lost.
LEMMA StoreStep ==
    ASSUME SliceInv, NEW s \in Slices, NEW v \in Texts \cup {NoText},
           NEW bl \in [Blocks -> Texts \cup {NoText}],
           \A b \in Blocks : bl[b] = block[b] \/ (bl[b] = NoText /\ Owns(s, b)),
           \A b \in Blocks : Owns(s, b) /\ bl[b] # NoText => b \in over',
           over \subseteq over',
           Stored(s, v, bl),
           asked' = [asked EXCEPT ![s] = v], misused' = misused \ {s},
           "kept" \notin corrupt'
    PROVE  SliceInv'
<1>1. SliceTypeOK
  BY DEF SliceInv
<1>2. /\ held' \in [Slices -> Held] /\ block' \in [Blocks -> Texts \cup {NoText}]
      /\ held'[s].state = "set" /\ Keeps(held'[s], v, block')
      /\ \A d \in Slices \ {s} : held'[d] = held[d]
      /\ \A b \in Blocks : \/ block'[b] = bl[b] /\ (~ Short(held'[s].sz) => held'[s].ptr # b)
                           \/ /\ bl[b] = NoText /\ block'[b] # NoText
                              /\ ~ Short(held'[s].sz) /\ held'[s].ptr = b
  BY <1>1, StoredProperties
<1>3. /\ asked' \in [Slices -> Texts \cup {NoText}] /\ asked'[s] = v
      /\ \A d \in Slices \ {s} : asked'[d] = asked[d]
  BY <1>1 DEF SliceTypeOK
<1>4. SliceTypeOK'
  BY <1>2, <1>3 DEF SliceTypeOK
<1>5. \A d \in Slices : Frees(d)' <=> ~ Short(held'[d].sz)
  BY <1>2 DEF Frees, Short, SLICE_INTERNAL_SZ, Held
<1>6. \A d \in Slices \ {s} : \A b \in Blocks : Owns(d, b)' <=> Owns(d, b)
  BY <1>2 DEF Owns, Frees
<1>7. \A b \in Blocks : Owns(s, b)' <=> bl[b] = NoText /\ block'[b] # NoText
  BY <1>2, <1>5 DEF Owns
<1>8. \A d \in Slices \ {s} : \A b \in Blocks :
          Owns(d, b) => bl[b] = block[b] /\ block[b] # NoText /\ block'[b] = block[b]
  BY <1>2, OwnedIsLive DEF SliceInv
<1>9. ASSUME NEW d \in Slices, d \notin misused'
      PROVE  IF held'[d].state = "set" THEN Keeps(held'[d], asked'[d], block')
                                       ELSE held'[d].sz = 0
  <2>1. CASE d = s
    BY <1>2, <1>3, <2>1
  <2>2. CASE d # s
    <3>1. held'[d] = held[d] /\ asked'[d] = asked[d] /\ d \notin misused
      BY <1>2, <1>3, <1>9, <2>2
    <3>2. held[d].state = "set" => Keeps(held[d], asked[d], block')
      <4> SUFFICES ASSUME held[d].state = "set" PROVE Keeps(held[d], asked[d], block')
        OBVIOUS
      <4>1. Keeps(held[d], asked[d], block)
        BY <3>1 DEF SliceInv
      <4>2. ~ Short(held[d].sz) /\ held[d].ptr \in Blocks => Owns(d, held[d].ptr)
        BY <1>1, <3>1, FreesIsLong DEF Owns
      <4>3. ~ Short(held[d].sz) /\ held[d].ptr \in Blocks =>
                block'[held[d].ptr] = block[held[d].ptr]
        BY <1>8, <2>2, <4>2
      <4> QED
        BY <4>1, <4>3 DEF Keeps
    <3> QED
      BY <3>1, <3>2 DEF SliceInv
  <2> QED
    BY <2>1, <2>2
<1>10. \A b \in Blocks : \A d, e \in Slices : Owns(d, b)' /\ Owns(e, b)' => d = e
  BY <1>6, <1>7, <1>8 DEF SliceInv
<1>11. ASSUME NEW b \in Blocks, block'[b] # NoText
       PROVE  b \in over' \/ \E d \in Slices : Owns(d, b)'
  <2>1. CASE bl[b] = NoText
    BY <1>7, <1>11, <2>1
  <2>2. CASE bl[b] # NoText
    <3>1. block[b] # NoText
      BY <2>2
    <3>2. b \in over \/ \E d \in Slices : Owns(d, b)
      BY <3>1 DEF SliceInv
    <3> QED
      BY <1>6, <2>2, <3>2
  <2> QED
    BY <2>1, <2>2
<1>12. \A d \in Slices : held'[d].state = "absent" => d \notin misused'
  BY <1>2 DEF SliceInv
<1> QED
  BY <1>4, <1>9, <1>10, <1>11, <1>12 DEF SliceInv

\* What slice_deinit frees was the block of s alone.
LEMMA ReleasedProperties ==
    ASSUME SliceInv, NEW s \in Slices, s \notin misused
    PROVE  /\ Released(s) \in [Blocks -> Texts \cup {NoText}]
           /\ \A b \in Blocks : \/ Released(s)[b] = block[b] /\ ~ Owns(s, b)
                                \/ Released(s)[b] = NoText /\ Owns(s, b)
           /\ Harm(s) = {}
<1>1. block \in [Blocks -> Texts \cup {NoText}]
  BY DEF SliceInv, SliceTypeOK
<1>2. Harm(s) = {}
  <2> SUFFICES ASSUME FreesWild(s) PROVE FALSE
    BY DEF Harm
  <2>1. Frees(s) /\ held[s].ptr # NoBlock /\ held[s].ptr \notin Blocks \ FreeBlocks
    BY DEF FreesWild
  <2>2. ~ Short(held[s].sz) /\ held[s].sz # 0
    BY <2>1, FreesIsLong DEF SliceInv, Short, SLICE_INTERNAL_SZ
  <2>3. Keeps(held[s], asked[s], block)
    BY <2>2 DEF SliceInv
  <2>4. held[s].ptr \in Blocks
    BY <2>1, <2>2, <2>3 DEF Keeps
  <2> QED
    BY <2>1, <2>4, OwnedIsLive DEF Owns, FreeBlocks
<1> QED
  BY <1>1, <1>2 DEF Released, Owns

\* slice_deinit and slice_destroy: s has nothing, or the short text it had.
LEMMA DeinitStep ==
    ASSUME SliceInv, NEW s \in Slices, NEW e \in Held,
           s \notin misused,
           block' = Released(s),
           held' = [held EXCEPT ![s] = e],
           corrupt' = corrupt \cup Harm(s),
           NEW v \in Texts \cup {NoText}, asked' = [asked EXCEPT ![s] = v],
           UNCHANGED <<over, misused>>,
           Short(e.sz),
           IF e.state = "set" THEN Keeps(e, v, block) ELSE e.sz = 0
    PROVE  SliceInv'
<1>1. /\ held' \in [Slices -> Held] /\ held'[s] = e
      /\ \A d \in Slices \ {s} : held'[d] = held[d]
      /\ asked' \in [Slices -> Texts \cup {NoText}] /\ asked'[s] = v
      /\ \A d \in Slices \ {s} : asked'[d] = asked[d]
  BY DEF SliceInv, SliceTypeOK
<1>2. /\ block' \in [Blocks -> Texts \cup {NoText}]
      /\ \A b \in Blocks : \/ block'[b] = block[b] /\ ~ Owns(s, b)
                           \/ block'[b] = NoText /\ Owns(s, b)
      /\ corrupt' = corrupt
  BY ReleasedProperties
<1>3. SliceTypeOK /\ SliceTypeOK'
  BY <1>1, <1>2 DEF SliceInv, SliceTypeOK
<1>4. \A d \in Slices \ {s} : \A b \in Blocks : Owns(d, b)' <=> Owns(d, b)
  BY <1>1 DEF Owns, Frees
<1>5. \A b \in Blocks : ~ Owns(s, b)'
  BY <1>1 DEF Owns, Frees, Short, SLICE_INTERNAL_SZ, Held
<1>6. ASSUME NEW d \in Slices, d \notin misused'
      PROVE  IF held'[d].state = "set" THEN Keeps(held'[d], asked'[d], block')
                                       ELSE held'[d].sz = 0
  <2>1. CASE d = s
    BY <1>1, <2>1 DEF Keeps
  <2>2. CASE d # s
    <3>1. held'[d] = held[d] /\ asked'[d] = asked[d] /\ d \notin misused
      BY <1>1, <1>6, <2>2
    <3>2. held[d].state = "set" => Keeps(held[d], asked[d], block')
      <4> SUFFICES ASSUME held[d].state = "set" PROVE Keeps(held[d], asked[d], block')
        OBVIOUS
      <4>1. Keeps(held[d], asked[d], block)
        BY <3>1 DEF SliceInv
      <4>2. ~ Short(held[d].sz) /\ held[d].ptr \in Blocks => Owns(d, held[d].ptr)
        BY <1>3, <3>1, FreesIsLong DEF Owns
      <4>3. ~ Short(held[d].sz) /\ held[d].ptr \in Blocks =>
                block'[held[d].ptr] = block[held[d].ptr]
        BY <1>2, <2>2, <4>2 DEF SliceInv
      <4> QED
        BY <4>1, <4>3 DEF Keeps
    <3> QED
      BY <3>1, <3>2 DEF SliceInv
  <2> QED
    BY <2>1, <2>2
<1>7. \A b \in Blocks : \A d, x \in Slices : Owns(d, b)' /\ Owns(x, b)' => d = x
  BY <1>4, <1>5 DEF SliceInv
<1>8. \A b \in Blocks : block'[b] # NoText => b \in over' \/ \E d \in Slices : Owns(d, b)'
  BY <1>2, <1>4 DEF SliceInv
<1>9. \A d \in Slices : held'[d].state = "absent" => d \notin misused'
  BY <1>1 DEF SliceInv
<1> QED
  BY <1>2, <1>3, <1>6, <1>7, <1>8, <1>9 DEF SliceInv

\* What is written over s is counted as lost, when it had a block.
LEMMA ForgottenProperties ==
    ASSUME NEW s \in Slices, NEW b \in Blocks, Owns(s, b)
    PROVE  b \in Forgotten(s)
BY DEF Owns, Forgotten

\* slice_strncpy: the slice is misused from now on, and its block is lost, and
\* so is the one that was allocated for the text.
LEMMA StrncpyStep ==
    ASSUME SliceInv, slice_strncpy
    PROVE  SliceInv'
<1>1. PICK s \in Slices, v \in Texts, n \in Lengths \ {0} :
          LET sz == IF n > v.len THEN v.len ELSE n
              cut == [name |-> v.name, len |-> sz]
          IN  /\ held[s].state # "absent"
              /\ misused' = misused \cup {s}
              /\ held' = [held EXCEPT ![s] =
                            IF sz < SLICE_INTERNAL_SZ THEN Inline(cut) ELSE OnHeap(sz, Wild)]
              /\ corrupt' = IF (IF Short(v.len) THEN n ELSE sz) > SLICE_INTERNAL_SZ
                            THEN corrupt \cup {"strncpy"} ELSE corrupt
              /\ asked' = [asked EXCEPT ![s] = cut]
              /\ \/ /\ UNCHANGED block
                    /\ over' = over \cup Forgotten(s)
                 \/ \E b \in FreeBlocks :
                       /\ ~ Short(v.len)
                       /\ block' = [block EXCEPT ![b] = cut]
                       /\ over' = over \cup Forgotten(s) \cup {b}
  BY DEF slice_strncpy
<1> DEFINE sz == IF n > v.len THEN v.len ELSE n
           cut == [name |-> v.name, len |-> sz]
           e == IF sz < SLICE_INTERNAL_SZ THEN Inline(cut) ELSE OnHeap(sz, Wild)
<1>2. cut \in Texts /\ e \in Held /\ e.state = "set"
  BY SliceAssumption DEF Texts, Inline, OnHeap, Held
<1>3. /\ misused' = misused \cup {s} /\ held' = [held EXCEPT ![s] = e]
      /\ asked' = [asked EXCEPT ![s] = cut]
      /\ "kept" \notin corrupt' /\ Forgotten(s) \subseteq over' /\ over \subseteq over'
      /\ \/ UNCHANGED block
         \/ \E b \in FreeBlocks : block' = [block EXCEPT ![b] = cut] /\ b \in over'
  BY <1>1 DEF SliceInv
<1> HIDE DEF sz, cut, e
<1>4. /\ held' \in [Slices -> Held] /\ held'[s] = e
      /\ \A d \in Slices \ {s} : held'[d] = held[d]
      /\ asked' \in [Slices -> Texts \cup {NoText}]
      /\ \A d \in Slices \ {s} : asked'[d] = asked[d]
  BY <1>2, <1>3 DEF SliceInv, SliceTypeOK
<1>5. /\ block' \in [Blocks -> Texts \cup {NoText}]
      /\ \A b \in Blocks : block'[b] = block[b] \/ (block[b] = NoText /\ b \in over')
  BY <1>2, <1>3 DEF SliceInv, SliceTypeOK, FreeBlocks
<1>6. SliceTypeOK /\ SliceTypeOK'
  BY <1>4, <1>5 DEF SliceInv, SliceTypeOK
<1>7. \A d \in Slices \ {s} : \A b \in Blocks : Owns(d, b)' <=> Owns(d, b)
  BY <1>3, <1>4 DEF Owns, Frees
<1>8. \A b \in Blocks : ~ Owns(s, b)' /\ (Owns(s, b) => b \in over')
  BY <1>3, ForgottenProperties DEF Owns
<1>9. ASSUME NEW d \in Slices, d \notin misused'
      PROVE  IF held'[d].state = "set" THEN Keeps(held'[d], asked'[d], block')
                                       ELSE held'[d].sz = 0
  <2>1. d # s /\ held'[d] = held[d] /\ asked'[d] = asked[d] /\ d \notin misused
    BY <1>3, <1>4, <1>9
  <2>2. held[d].state = "set" => Keeps(held[d], asked[d], block')
    <3> SUFFICES ASSUME held[d].state = "set" PROVE Keeps(held[d], asked[d], block')
      OBVIOUS
    <3>1. Keeps(held[d], asked[d], block)
      BY <2>1 DEF SliceInv
    <3>2. ~ Short(held[d].sz) /\ held[d].ptr \in Blocks => Owns(d, held[d].ptr)
      BY <1>6, <2>1, FreesIsLong DEF Owns
    <3>3. ~ Short(held[d].sz) /\ held[d].ptr \in Blocks =>
              block'[held[d].ptr] = block[held[d].ptr]
      BY <1>5, <3>2, OwnedIsLive
    <3> QED
      BY <3>1, <3>3 DEF Keeps
  <2> QED
    BY <2>1, <2>2 DEF SliceInv
<1>10. \A b \in Blocks : \A d, x \in Slices : Owns(d, b)' /\ Owns(x, b)' => d = x
  BY <1>7, <1>8 DEF SliceInv
<1>11. ASSUME NEW b \in Blocks, block'[b] # NoText
       PROVE  b \in over' \/ \E d \in Slices : Owns(d, b)'
  <2>1. CASE block[b] = NoText
    BY <1>5, <1>11, <2>1
  <2>2. CASE block[b] # NoText
    <3>1. b \in over \/ \E d \in Slices : Owns(d, b)
      BY <2>2 DEF SliceInv
    <3> QED
      BY <1>3, <1>7, <1>8, <3>1
  <2> QED
    BY <2>1, <2>2
<1>12. \A d \in Slices : held'[d].state = "absent" => d \notin misused'
  BY <1>2, <1>3, <1>4 DEF SliceInv
<1> QED
  BY <1>3, <1>6, <1>9, <1>10, <1>11, <1>12 DEF SliceInv

LEMMA SliceStep ==
    ASSUME SliceInv, [SliceNext]_sliceVars
    PROVE  SliceInv'
<1>1. CASE UNCHANGED sliceVars
  BY <1>1 DEF sliceVars, SliceInv, SliceTypeOK, Owns, Frees
<1>2. SliceTypeOK /\ block \in [Blocks -> Texts \cup {NoText}] /\ "kept" \notin corrupt
  BY DEF SliceInv, SliceTypeOK
<1>3. CASE slice_init
  <2>1. PICK s \in Slices, v \in Texts \cup {NoText} :
            /\ Stored(s, v, block)
            /\ asked' = [asked EXCEPT ![s] = v]
            /\ over' = over \cup Forgotten(s)
            /\ misused' = misused \ {s} /\ corrupt' = corrupt
    BY <1>3 DEF slice_init
  <2> QED
    BY <1>2, <2>1, StoreStep, ForgottenProperties
<1>4. CASE slice_create
  <2>1. PICK s \in HeapSlices, v \in Texts :
            /\ held[s].state = "absent"
            /\ Stored(s, v, block)
            /\ asked' = [asked EXCEPT ![s] = v]
            /\ over' = over /\ misused' = misused /\ corrupt' = corrupt
    BY <1>4 DEF slice_create
  <2>2. s \in Slices /\ s \notin misused
    BY <2>1 DEF Slices, SliceInv
  <2>3. \A b \in Blocks : ~ Owns(s, b)
    BY <2>1, <2>2, OwnedIsLive
  <2>4. misused' = misused \ {s}
    BY <2>1, <2>2
  <2> QED
    BY <1>2, <2>1, <2>2, <2>3, <2>4, StoreStep
<1>5. CASE slice_copy
  <2>1. PICK s \in Slices, d \in Slices :
            /\ held[s].state = "set" /\ s \notin misused
            /\ Stored(d, ValueFor(d, s), block)
            /\ asked' = [asked EXCEPT ![d] = ValueFor(d, s)]
            /\ over' = over \cup Forgotten(d)
            /\ misused' = misused \ {d} /\ corrupt' = corrupt
    BY <1>5 DEF slice_copy
  <2>2. ValueFor(d, s) \in Texts \cup {NoText}
    <3>1. slice_value(s) \in Texts \cup {NoText}
      BY <1>2 DEF slice_value, SliceTypeOK, Held
    <3>2. CASE s = d /\ held[s].sz \in 1 .. SLICE_INTERNAL_SZ - 1
      <4>1. Short(held[s].sz) /\ 0 < held[s].sz
        BY <3>2 DEF Short, SLICE_INTERNAL_SZ
      <4>2. slice_value(s) \in Texts
        BY <2>1, <3>2, <4>1 DEF SliceInv, Keeps, slice_value, Short, SLICE_INTERNAL_SZ
      <4>3. [slice_value(s) EXCEPT !.len = 0] \in Texts
        BY <4>2, SliceAssumption DEF Texts
      <4> QED
        BY <3>2, <4>3 DEF ValueFor
    <3> QED
      BY <3>1, <3>2 DEF ValueFor
  <2> QED
    BY <1>2, <2>1, <2>2, StoreStep, ForgottenProperties
<1>6. CASE slice_repace_value
  <2>1. PICK s \in Slices, v \in Texts \cup {NoText} :
            /\ s \notin misused
            /\ Stored(s, v, Released(s))
            /\ asked' = [asked EXCEPT ![s] = v]
            /\ corrupt' = corrupt \cup Harm(s)
            /\ over' = over /\ misused' = misused
    BY <1>6 DEF slice_repace_value
  <2>2. /\ Released(s) \in [Blocks -> Texts \cup {NoText}]
        /\ \A b \in Blocks : \/ Released(s)[b] = block[b] /\ ~ Owns(s, b)
                             \/ Released(s)[b] = NoText /\ Owns(s, b)
        /\ Harm(s) = {}
    BY <2>1, ReleasedProperties
  <2>3. misused' = misused \ {s} /\ "kept" \notin corrupt'
    BY <1>2, <2>1, <2>2
  <2> QED
    BY <2>1, <2>2, <2>3, StoreStep
<1>7. CASE slice_deinit
  <2>1. PICK s \in Slices :
            /\ held[s].state = "set" /\ s \notin misused
            /\ block' = Released(s)
            /\ held' = [held EXCEPT ![s] = Deinited(s)]
            /\ corrupt' = corrupt \cup Harm(s)
            /\ asked' = IF Frees(s) THEN [asked EXCEPT ![s] = NoText] ELSE asked
            /\ UNCHANGED <<over, misused>>
    BY <1>7 DEF slice_deinit
  <2>2. /\ held[s] \in Held /\ asked[s] \in Texts \cup {NoText}
        /\ asked = [asked EXCEPT ![s] = asked[s]]
        /\ Keeps(held[s], asked[s], block)
    BY <1>2, <2>1 DEF SliceTypeOK, SliceInv
  <2>3. CASE Frees(s)
    <3> DEFINE e == [held[s] EXCEPT !.sz = 0]
    <3>1. Deinited(s) = e /\ asked' = [asked EXCEPT ![s] = NoText]
      BY <2>1, <2>3 DEF Deinited
    <3>2. e \in Held /\ e.sz = 0 /\ e.state = "set"
      BY <2>1, <2>2 DEF Held
    <3>3. Short(e.sz) /\ Keeps(e, NoText, block)
      BY <3>2 DEF Keeps, Short, SLICE_INTERNAL_SZ
    <3> HIDE DEF e
    <3>4. held' = [held EXCEPT ![s] = e]
      BY <2>1, <3>1
    <3> QED
      BY <2>1, <3>1, <3>2, <3>3, <3>4, DeinitStep
  <2>4. CASE ~ Frees(s)
    <3>1. Deinited(s) = held[s] /\ asked' = [asked EXCEPT ![s] = asked[s]]
      BY <2>1, <2>2, <2>4 DEF Deinited
    <3>2. Short(held[s].sz)
      BY <1>2, <2>4, FreesIsLong
    <3>3. held' = [held EXCEPT ![s] = held[s]]
      BY <2>1, <3>1
    <3> QED
      BY <2>1, <2>2, <3>1, <3>2, <3>3, DeinitStep
  <2> QED
    BY <2>3, <2>4
<1>8. CASE DeinitGarbage
  <2>1. PICK s \in StackSlices :
            /\ held[s].state = "raw"
            /\ misused' = misused \cup {s}
            /\ corrupt' \in {corrupt, corrupt \cup {"garbage"}}
            /\ UNCHANGED <<held, block, asked, over>>
    BY <1>8 DEF DeinitGarbage
  <2>2. \A d \in Slices : \A b \in Blocks : Owns(d, b)' => Owns(d, b)
    BY <2>1 DEF Owns, Frees
  <2>3. \A d \in Slices : \A b \in Blocks : Owns(d, b) => Owns(d, b)'
    <3> SUFFICES ASSUME NEW d \in Slices, NEW b \in Blocks, Owns(d, b)
                 PROVE  Owns(d, b)'
      OBVIOUS
    <3>1. d # s
      BY <2>1, OwnedIsLive
    <3> QED
      BY <2>1, <3>1 DEF Owns, Frees
  <2> QED
    BY <2>1, <2>2, <2>3 DEF SliceInv, SliceTypeOK
<1>9. CASE slice_destroy
  <2>1. PICK s \in HeapSlices :
            /\ held[s].state = "set" /\ s \notin misused
            /\ block' = Released(s)
            /\ held' = [held EXCEPT ![s] = Absent]
            /\ corrupt' = corrupt \cup Harm(s)
            /\ asked' = [asked EXCEPT ![s] = NoText]
            /\ UNCHANGED <<over, misused>>
    BY <1>9 DEF slice_destroy
  <2>2. s \in Slices
    BY DEF Slices
  <2>3. Absent \in Held /\ Absent.sz = 0 /\ Absent.state # "set"
    BY DEF Absent, Held
  <2>4. Short(Absent.sz)
    BY <2>3 DEF Short, SLICE_INTERNAL_SZ
  <2> QED
    BY <2>1, <2>2, <2>3, <2>4, DeinitStep
<1>10. CASE slice_strncpy
  BY <1>10, StrncpyStep
<1> QED
  BY <1>1, <1>3, <1>4, <1>5, <1>6, <1>7, <1>8, <1>9, <1>10 DEF SliceNext

\* What the inductive invariant says holds in every state.
THEOREM SliceCorrect == SliceSpec => []SliceInv
<1>1. SliceInit => SliceInv
  <2> SUFFICES ASSUME SliceInit PROVE SliceInv
    OBVIOUS
  <2>1. Garbage \in Held /\ Garbage.sz = 0 /\ Garbage.state = "raw"
    BY DEF Garbage, Held
  <2>2. Absent \in Held /\ Absent.sz = 0 /\ Absent.state = "absent"
    BY DEF Absent, Held
  <2>3. /\ held \in [Slices -> Held]
        /\ \A s \in Slices : held[s].sz = 0 /\ held[s].state # "set"
    BY <2>1, <2>2 DEF SliceInit
  <2>4. \A s \in Slices : \A b \in Blocks : ~ Owns(s, b)
    BY <2>3 DEF Owns, Frees, SLICE_INTERNAL_SZ
  <2> QED
    BY <2>3, <2>4 DEF SliceInit, SliceInv, SliceTypeOK
<1>2. SliceInv /\ [SliceNext]_sliceVars => SliceInv'
  BY SliceStep
<1> QED
  BY <1>1, <1>2, PTL DEF SliceSpec

\* A slice has the text it was last set to, on the side of the union that its
\* size names, or nothing when the text is empty or there was no memory.
THEOREM HoldsCorrect == SliceSpec => []SliceHolds
<1>1. SliceInv => SliceHolds
  <2> SUFFICES ASSUME SliceInv, NEW s \in Slices \ misused, held[s].state = "set"
               PROVE  \/ slice_value(s) = asked[s]
                      \/ /\ asked[s] # NoText /\ slice_value(s) = NoText
                         /\ asked[s].len = 0 \/ held[s].ptr = NoBlock
    BY DEF SliceHolds
  <2>1. Keeps(held[s], asked[s], block) /\ held[s].sz \in Nat
    BY DEF SliceInv, SliceTypeOK, Held
  <2>2. CASE held[s].sz = 0
    BY <2>1, <2>2 DEF Keeps, slice_value
  <2>3. CASE held[s].sz # 0 /\ Short(held[s].sz)
    BY <2>1, <2>3 DEF Keeps, slice_value, Short
  <2>4. CASE ~ Short(held[s].sz)
    <3>1. held[s].sz # 0 /\ ~ (held[s].sz < SLICE_INTERNAL_SZ)
      BY <2>4 DEF Short, SLICE_INTERNAL_SZ
    <3>2. /\ asked[s] \in Texts
          /\ held[s].ptr = NoBlock \/ (held[s].ptr \in Blocks /\ block[held[s].ptr] = asked[s])
      BY <2>1, <2>4, LongKeeps
    <3> QED
      BY <3>1, <3>2, SliceAssumption DEF slice_value
  <2> QED
    BY <2>2, <2>3, <2>4
<1> QED
  BY <1>1, SliceCorrect, PTL

\* No block is freed twice or shared, none is lost but by initialising over it,
\* and no slice that was initialised frees a pointer that is not its block's.
THEOREM BlocksCorrect == SliceSpec => []BlocksAccounted
<1>1. SliceInv => BlocksAccounted
  BY DEF SliceInv, BlocksAccounted, FreeBlocks, Owns
<1> QED
  BY <1>1, SliceCorrect, PTL
=============================================================================
