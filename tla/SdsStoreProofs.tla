--------------------------- MODULE SdsStoreProofs ---------------------------
(***************************************************************************)
(* Theorems about SdsStore for every number of connections, names, buckets *)
(* and objects, every rounding of the range and every set of results of    *)
(* recv that read_cb may take for an error.                                *)
(***************************************************************************)
EXTENDS SdsStore, BucketRoutingProofs, SequenceTheorems

-----------------------------------------------------------------------------
(* Lookup of a set by name.                                                *)

\* A set that matches is found, and the one found is the first that matches.
LEMMA FindSetProperties ==
    ASSUME sets \in Seq(Bucketset), NEW n
    PROVE  /\ FindSet(n) \in 0 .. Len(sets)
           /\ Known(n) => /\ FindSet(n) \in DOMAIN sets
                          /\ NameMatches(sets[FindSet(n)], n)
           /\ \A j \in DOMAIN sets :
                 NameMatches(sets[j], n) => Known(n) /\ FindSet(n) <= j
<1>1. DOMAIN sets = 1 .. Len(sets) /\ Len(sets) \in Nat
  BY LenProperties
<1>2. Matches(n) \in SUBSET Nat /\ Matches(n) \subseteq DOMAIN sets
  BY <1>1 DEF Matches
<1>3. CASE Matches(n) = {}
  BY <1>1, <1>3 DEF FindSet, Known, Matches
<1>4. CASE Matches(n) # {}
  <2>1. FindSet(n) \in Matches(n) /\ \A j \in Matches(n) : FindSet(n) <= j
    BY <1>2, <1>4, MinOfNats DEF FindSet
  <2> QED
    BY <1>1, <1>2, <2>1 DEF Known, Matches
<1> QED
  BY <1>3, <1>4

-----------------------------------------------------------------------------
(* Type correctness.                                                       *)

\* The range after rounding, and what the search returns for an object.
LEMMA TargetType ==
    ASSUME NEW o \in Objects, Target(o) # NoBucket
    PROVE  /\ RangeCount \in Nat \ {0}
           /\ Target(o) \in Buckets
           /\ \A b \in Buckets :
                 MinRank(RangeCount, b) <= o.hash /\ o.hash <= MaxRank(RangeCount, b)
                     <=> b = Target(o)
<1>1. RangeCount \in Nat \ {0}
  BY StoreAssumption, RoundingBounds DEF RangeCount, BUCKET_MIN_HASH
<1>2. BucketSize \in Nat /\ o.hash \in Nat
  BY StoreAssumption
<1> QED
  BY <1>1, <1>2, SearchSound DEF Target, Buckets

LEMMA ReplyType ==
    ASSUME TypeOK, up, buffers < MaxBuffers,
           NEW c \in Conns, NEW type \in ReqTypes,
           NEW name \in Names \cup {None, Unset},
           NEW ret \in {Success, Failure, Unset},
           Reply(c, type, name, ret)
    PROVE  /\ ack' \in [Conns -> Ack]
           /\ buffers' \in 0 .. MaxBuffers
           /\ conn' \in [Conns -> {"new", "watched", "closed"}]
BY StoreAssumption DEF TypeOK, Reply, Ack

LEMMA ProcessLostType ==
    ASSUME TypeOK, ProcessLost
    PROVE  /\ up' \in BOOLEAN
           /\ conn' \in [Conns -> {"new", "watched", "closed"}]
           /\ buffers' \in 0 .. MaxBuffers
           /\ sets' \in Seq(Bucketset)
           /\ ~up' => sets' = <<>> /\ buffers' = 0 /\ \A c \in Conns : conn'[c] # "watched"
<1>1. conn' \in [Conns -> {"new", "watched", "closed"}] /\ \A c \in Conns : conn'[c] # "watched"
  BY DEF TypeOK, ProcessLost
<1>2. up' \in BOOLEAN
  BY DEF ProcessLost
<1>4. buffers' \in 0 .. MaxBuffers
  BY StoreAssumption DEF ProcessLost
<1>3. sets' \in Seq(Bucketset)
  BY DEF ProcessLost
<1> QED
  BY <1>1, <1>2, <1>3, <1>4 DEF ProcessLost

\* What a put does to the registry: bucket b of set i becomes bt.
BucketBecomes(i, b, bt) == sets' = [sets EXCEPT ![i].buckets[b] = bt]

\* Replacing one bucket of one set changes nothing else in the registry.
LEMMA BucketUpdate ==
    ASSUME sets \in Seq(Bucketset), NEW i \in DOMAIN sets,
           NEW b \in Buckets, NEW bt \in Bucket,
           BucketBecomes(i, b, bt)
    PROVE  /\ sets' \in Seq(Bucketset)
           /\ DOMAIN sets' = DOMAIN sets
           /\ \A j \in DOMAIN sets :
                 /\ sets'[j].name = sets[j].name
                 /\ \A d \in Buckets :
                       sets'[j].buckets[d] = IF j = i /\ d = b THEN bt
                                             ELSE sets[j].buckets[d]
<1> DEFINE set == [sets[i] EXCEPT !.buckets[b] = bt]
           new == [sets EXCEPT ![i].buckets[b] = bt]
<1>1. DOMAIN sets = 1 .. Len(sets) /\ sets[i] \in Bucketset
  BY LenProperties, ElementOfSeq
<1>2. sets[i].buckets \in [Buckets -> Bucket] /\ sets[i].name \in Names
  BY <1>1 DEF Bucketset
<1>3. set \in Bucketset
  BY <1>1, <1>2 DEF Bucketset
<1>4. /\ set.name = sets[i].name
      /\ \A d \in Buckets : set.buckets[d] = IF d = b THEN bt ELSE sets[i].buckets[d]
  BY <1>1, <1>2 DEF Bucketset
<1>5. new = [sets EXCEPT ![i] = set]
  OBVIOUS
<1> HIDE DEF set
<1>6. /\ [sets EXCEPT ![i] = set] \in Seq(Bucketset)
      /\ DOMAIN [sets EXCEPT ![i] = set] = DOMAIN sets
      /\ \A j \in DOMAIN sets :
            [sets EXCEPT ![i] = set][j] = IF j = i THEN set ELSE sets[j]
  BY <1>1, <1>3, ExceptSeq
<1> HIDE DEF new
<1>7. /\ new \in Seq(Bucketset)
      /\ DOMAIN new = DOMAIN sets
      /\ \A j \in DOMAIN sets : new[j] = IF j = i THEN set ELSE sets[j]
  BY <1>5, <1>6
<1>8. ASSUME NEW j \in DOMAIN sets
      PROVE  /\ new[j].name = sets[j].name
             /\ \A d \in Buckets : new[j].buckets[d] =
                    IF j = i /\ d = b THEN bt ELSE sets[j].buckets[d]
  <2>1. CASE j = i
    BY <1>4, <1>7, <2>1
  <2>2. CASE j # i
    BY <1>7, <2>2
  <2> QED
    BY <2>1, <2>2
<1> QED
  BY <1>7, <1>8 DEF new, BucketBecomes

\* Arithmetic of offsets: a number that fits is itself, and adding to an
\* offset is adding to the number it came from.
LEMMA Wrapping ==
    ASSUME NEW w \in Nat \ {0}
    PROVE  /\ \A x \in Nat : x % w \in 0 .. w - 1
           /\ \A x \in Nat : x % w <= x /\ (x < w => x % w = x)
           /\ \A x, y \in Nat : ((x % w) + y) % w = (x + y) % w
<1>1. ASSUME NEW x \in Nat
      PROVE  /\ x % w \in 0 .. w - 1 /\ x \div w \in Nat
             /\ x = w * (x \div w) + (x % w)
  OBVIOUS
<1>2. ASSUME NEW k \in Int, NEW l \in Int, NEW a \in 0 .. w - 1, NEW b \in 0 .. w - 1,
             w * k + a = w * l + b
      PROVE  a = b
  <2>1. w * (k - l) = b - a /\ k - l \in Int
    BY <1>2
  <2>2. b - a < w /\ b - a > -w
    OBVIOUS
  <2> DEFINE m == k - l
  <2>3. m \in Int /\ w * m < w /\ w * m > -w
    BY <2>1, <2>2
  <2> HIDE DEF m
  <2>4. m < 1 /\ m > -1
    <3>1. m >= 1 => w * m >= w
      BY <2>3
    <3>2. m <= -1 => w * m <= -w
      BY <2>3
    <3> QED
      BY <2>3, <3>1, <3>2
  <2>5. m = 0
    BY <2>3, <2>4
  <2> QED
    BY <2>1, <2>5 DEF m
<1>3. ASSUME NEW x \in Nat, x < w
      PROVE  x % w = x
  <2>1. w * (x \div w) + (x % w) = w * 0 + x /\ x \in 0 .. w - 1 /\ 0 \in Int
    BY <1>1, <1>3
  <2> QED
    BY <1>1, <1>2, <2>1
<1>4. ASSUME NEW x \in Nat, NEW y \in Nat
      PROVE  ((x % w) + y) % w = (x + y) % w
  <2> DEFINE q == x \div w
             r == x % w
             k == (r + y) \div w
             a == (r + y) % w
             l == (x + y) \div w
             b == (x + y) % w
  <2>1. q \in Nat /\ r \in Nat /\ x = w * q + r
    BY <1>1
  <2> HIDE DEF q, r
  <2>2. /\ r + y \in Nat /\ x + y \in Nat
    BY <2>1
  <2>3. /\ k \in Nat /\ a \in 0 .. w - 1 /\ r + y = w * k + a
        /\ l \in Nat /\ b \in 0 .. w - 1 /\ x + y = w * l + b
    BY <1>1, <2>2
  <2> HIDE DEF k, a, l, b
  <2>4. w * q + (w * k + a) = w * l + b
    BY <2>1, <2>3
  <2>5. w * q + (w * k + a) = w * (q + k) + a /\ q + k \in Int
    BY <2>1, <2>3
  <2>6. w * (q + k) + a = w * l + b
    BY <2>4, <2>5
  <2>7. a = b
    <3> DEFINE m == q + k
    <3>1. m \in Int /\ l \in Int /\ w * m + a = w * l + b
      BY <2>3, <2>5, <2>6
    <3> HIDE DEF m
    <3> QED
      BY <1>2, <2>3, <3>1
  <2> QED
    BY <2>7 DEF a, b, r
<1>5. ASSUME NEW x \in Nat
      PROVE  x % w <= x
  <2>1. CASE x < w
    BY <1>3, <2>1
  <2>2. CASE x >= w
    <3>1. x % w \in 0 .. w - 1
      BY <1>1
    <3> QED
      BY <2>2, <3>1
  <2> QED
    BY <2>1, <2>2
<1> QED
  BY <1>1, <1>3, <1>4, <1>5

\* An object that is accepted has its whole size: no size wraps by itself.
LEMMA AcceptedSize ==
    ASSUME NEW o \in Objects, SignedLen(o) > 0
    PROVE  SizeOf(o) \in Offsets /\ SizeOf(o) > 0
<1> DEFINE half == OffsetValues \div 2
           size == OBJECT_HEADER + o.dataLen + o.nameLen
<1>1. o.nameLen \in Nat /\ o.dataLen \in 0 .. OffsetValues - 1
  BY StoreAssumption DEF Offsets
<1>2. half \in Nat /\ OffsetValues = 2 * half /\ OffsetValues \in Nat \ {0}
  BY StoreAssumption
<1>3. 72 + o.nameLen <= half
  BY StoreAssumption DEF OBJECT_HEADER
<1> HIDE DEF half
<1>4. o.dataLen < half
  <2>1. CASE o.dataLen < half
    BY <2>1
  <2>2. CASE ~(o.dataLen < half)
    <3>1. SignedLen(o) = o.dataLen - OffsetValues
      BY <2>2 DEF SignedLen, half
    <3> QED
      BY <1>1, <1>2, <3>1
  <2> QED
    BY <2>1, <2>2
<1>5. size \in Nat /\ size > 0 /\ size < OffsetValues
  BY <1>1, <1>2, <1>3, <1>4 DEF OBJECT_HEADER
<1>6. SizeOf(o) = size
  <2>1. \A x \in Nat : x < OffsetValues => x % OffsetValues = x
    BY <1>2, Wrapping
  <2> QED
    BY <1>5, <2>1 DEF SizeOf
<1> HIDE DEF size
<1> QED
  BY <1>2, <1>5, <1>6 DEF Offsets

\* The effect of a put that is refused and of one that is accepted.
LEMMA AcceptType ==
    ASSUME NEW bt \in Bucket, NEW c \in Conns, NEW o \in Objects, SignedLen(o) > 0
    PROVE  /\ SizeOf(o) \in Offsets
           /\ Accept(bt, c, o) \in Bucket
           /\ Accept(bt, c, o).open = bt.open
           /\ Accept(bt, c, o).current_offset =
                 (bt.current_offset + SizeOf(o)) % OffsetValues
<1>1. SizeOf(o) \in Offsets /\ OffsetValues \in Nat \ {0}
  BY AcceptedSize, StoreAssumption
<1>2. <<c>> \in Seq(Conns)
  OBVIOUS
<1> DEFINE slot == <<c>>
           off == (bt.current_offset + SizeOf(o)) % OffsetValues
<1>3. off \in Offsets /\ slot \in Seq(Conns)
  <2>1. bt.current_offset + SizeOf(o) \in Nat
    BY <1>1 DEF Bucket, Offsets
  <2>2. \A x \in Nat : x % OffsetValues \in 0 .. OffsetValues - 1
    BY <1>1, Wrapping
  <2> QED
    BY <1>2, <2>1, <2>2 DEF Offsets
<1>4. Accept(bt, c, o) = [bt EXCEPT !.slot = slot, !.current_offset = off]
  BY DEF Accept
<1> HIDE DEF slot, off
<1>5. /\ [bt EXCEPT !.slot = slot, !.current_offset = off] \in Bucket
      /\ [bt EXCEPT !.slot = slot, !.current_offset = off].open = bt.open
      /\ [bt EXCEPT !.slot = slot, !.current_offset = off].current_offset = off
  BY <1>3 DEF Bucket
<1> QED
  BY <1>1, <1>4, <1>5 DEF off

LEMMA RefuseType ==
    ASSUME NEW bt \in Bucket
    PROVE  /\ Refuse(bt) \in Bucket
           /\ Refuse(bt).open = bt.open
           /\ Refuse(bt).current_offset = bt.current_offset
<1>1. << >> \in Seq(Conns)
  OBVIOUS
<1> QED
  BY <1>1 DEF Refuse, Bucket

LEMMA CreateType ==
    ASSUME NEW n \in Names
    PROVE  bucketset_create(n) \in Bucketset
<1>1. \A i \in Buckets : bucket_create(n, i) \in Bucket
  <2>1. 0 \in Offsets
    BY StoreAssumption DEF Offsets
  <2> QED
    BY <2>1 DEF bucket_create, Bucket
<1> QED
  BY <1>1 DEF bucketset_create, Bucketset

LEMMA PutObjectSetType ==
    ASSUME TypeOK, NEW n \in Names, NEW o \in Objects, Known(n), Target(o) # NoBucket
    PROVE  /\ FindSet(n) \in DOMAIN sets
           /\ sets[FindSet(n)].name \in Names
           /\ Target(o) \in Buckets
           /\ sets[FindSet(n)].buckets[Target(o)] \in Bucket
<1>1. FindSet(n) \in DOMAIN sets /\ Target(o) \in Buckets
  BY FindSetProperties, TargetType DEF TypeOK
<1>2. sets[FindSet(n)] \in Bucketset
  BY <1>1, LenProperties, ElementOfSeq DEF TypeOK
<1> QED
  BY <1>1, <1>2 DEF Bucketset

-----------------------------------------------------------------------------
(* One step keeps the types.                                               *)

LEMMA StoredStepType ==
    ASSUME TypeOK, NEW c \in Conns, NEW n \in Names, NEW o \in Objects,
           PutObjectStored(c, n, o)
    PROVE  TypeOK'
<1> DEFINE bt == sets[FindSet(n)].buckets[Target(o)]
<1>1. Known(n) /\ Target(o) # NoBucket /\ SignedLen(o) > 0
  BY DEF PutObjectStored
<1>2. /\ FindSet(n) \in DOMAIN sets
      /\ sets[FindSet(n)].name \in Names
      /\ Target(o) \in Buckets
      /\ bt \in Bucket
  BY <1>1, PutObjectSetType
<1>3. Accept(bt, c, o) \in Bucket /\ SizeOf(o) \in Offsets
  BY <1>1, <1>2, AcceptType
<1>4. sets' \in Seq(Bucketset)
  <2>1. BucketBecomes(FindSet(n), Target(o), Accept(bt, c, o))
    BY DEF PutObjectStored, BucketBecomes
  <2> QED
    BY <1>2, <1>3, <2>1, BucketUpdate DEF TypeOK
<1>5. /\ ack' \in [Conns -> Ack]
      /\ buffers' \in 0 .. MaxBuffers
      /\ conn' \in [Conns -> {"new", "watched", "closed"}]
  <2>1. "PUT_OBJECT" \in ReqTypes /\ up /\ buffers < MaxBuffers
    BY DEF PutObjectStored, Dispatched, ReqTypes
  <2> QED
    BY <2>1, ReplyType DEF PutObjectStored
<1>6. stored' \subseteq Entry
  <2>1. o.hash \in Nat /\ epoch \in Nat
    BY StoreAssumption DEF TypeOK
  <2>2. bt.open \in BOOLEAN /\ bt.current_offset \in Offsets
    BY <1>2 DEF Bucket
  <2> QED
    BY <1>2, <1>3, <2>1, <2>2 DEF TypeOK, PutObjectStored, Entry
<1>7. up' \in BOOLEAN /\ up' /\ UNCHANGED <<epoch, disk>>
  BY DEF TypeOK, PutObjectStored, Dispatched
<1> QED
  BY <1>4, <1>5, <1>6, <1>7 DEF TypeOK

LEMMA RefusedStepType ==
    ASSUME TypeOK, NEW c \in Conns, NEW n \in Names, NEW o \in Objects,
           PutObjectRefused(c, n, o)
    PROVE  TypeOK'
<1> DEFINE bt == sets[FindSet(n)].buckets[Target(o)]
<1>1. Known(n) /\ Target(o) # NoBucket
  BY DEF PutObjectRefused
<1>2. FindSet(n) \in DOMAIN sets /\ Target(o) \in Buckets /\ bt \in Bucket
  BY <1>1, PutObjectSetType
<1>3. Refuse(bt) \in Bucket
  BY <1>2, RefuseType
<1>4. sets' \in Seq(Bucketset)
  <2>1. BucketBecomes(FindSet(n), Target(o), Refuse(bt))
    BY DEF PutObjectRefused, BucketBecomes
  <2> QED
    BY <1>2, <1>3, <2>1, BucketUpdate DEF TypeOK
<1>5. /\ ack' \in [Conns -> Ack]
      /\ buffers' \in 0 .. MaxBuffers
      /\ conn' \in [Conns -> {"new", "watched", "closed"}]
  <2>1. "PUT_OBJECT" \in ReqTypes /\ up /\ buffers < MaxBuffers
    BY DEF PutObjectRefused, Dispatched, ReqTypes
  <2> QED
    BY <2>1, ReplyType DEF PutObjectRefused
<1>6. up' \in BOOLEAN /\ up' /\ UNCHANGED <<epoch, disk, stored>>
  BY DEF TypeOK, PutObjectRefused, Dispatched
<1> QED
  BY <1>4, <1>5, <1>6 DEF TypeOK

LEMMA CreatedStepType ==
    ASSUME TypeOK, NEW c \in Conns, NEW n \in Names, PutBucketsetCreated(c, n)
    PROVE  TypeOK'
<1>1. sets' \in Seq(Bucketset)
  BY CreateType, AppendProperties DEF TypeOK, PutBucketsetCreated
<1>2. disk' \subseteq Files
  BY DEF TypeOK, PutBucketsetCreated, Files
<1>3. /\ ack' \in [Conns -> Ack]
      /\ buffers' \in 0 .. MaxBuffers
      /\ conn' \in [Conns -> {"new", "watched", "closed"}]
  <2>1. "PUT_BUCKETSET" \in ReqTypes /\ up /\ buffers < MaxBuffers
    BY DEF PutBucketsetCreated, Dispatched, ReqTypes
  <2> QED
    BY <2>1, ReplyType DEF PutBucketsetCreated
<1>4. up' \in BOOLEAN /\ up' /\ UNCHANGED <<epoch, stored>>
  BY DEF TypeOK, PutBucketsetCreated, Dispatched
<1> QED
  BY <1>1, <1>2, <1>3, <1>4 DEF TypeOK

\* The requests that are answered without touching a set.
LEMMA AnsweredStepType ==
    ASSUME TypeOK, NEW c \in Conns,
           \/ OtherRequest(c)
           \/ \E n \in Names : \/ PutObjectUnknownSet(c, n)
                               \/ PutBucketsetExists(c, n)
                               \/ PutBucketsetNotKept(c, n)
    PROVE  TypeOK'
<1>1. /\ ack' \in [Conns -> Ack]
      /\ buffers' \in 0 .. MaxBuffers
      /\ conn' \in [Conns -> {"new", "watched", "closed"}]
  <2>1. up /\ buffers < MaxBuffers /\ ReqTypes = {"PUT_OBJECT", "PUT_BUCKETSET", "OTHER"}
    BY DEF PutObjectUnknownSet, PutBucketsetExists, PutBucketsetNotKept,
           OtherRequest, Dispatched, ReqTypes
  <2> QED
    BY <2>1, ReplyType DEF PutObjectUnknownSet, PutBucketsetExists,
                           PutBucketsetNotKept, OtherRequest
<1>2. up' \in BOOLEAN /\ up' /\ UNCHANGED <<epoch, sets, stored>>
  BY DEF TypeOK, PutObjectUnknownSet, PutBucketsetExists, PutBucketsetNotKept,
         OtherRequest, Dispatched
<1>3. disk' \subseteq Files
  BY DEF TypeOK, PutObjectUnknownSet, PutBucketsetExists, PutBucketsetNotKept,
         OtherRequest, Files
<1> QED
  BY <1>1, <1>2, <1>3 DEF TypeOK

\* Every way the process ends.
Lost ==
    \/ Crash
    \/ \E c \in Conns : BufferAllocFails(c)
    \/ \E c \in Conns, n \in Names : PutBucketsetAborts(c, n)
    \/ \E c \in Conns, n \in Names, o \in Objects :
          PutObjectUnrouted(c, n, o) \/ PutObjectSwitchFails(c, n, o)

LEMMA LostStep ==
    ASSUME TypeOK, Lost
    PROVE  /\ ProcessLost
           /\ UNCHANGED <<epoch, ack, stored>>
           /\ disk \subseteq disk' /\ disk' \subseteq Files
<1>1. ASSUME NEW c \in Conns, NEW n \in Names, PutBucketsetAborts(c, n)
      PROVE  /\ ProcessLost
             /\ UNCHANGED <<epoch, ack, stored>>
             /\ disk \subseteq disk' /\ disk' \subseteq Files
  <2>1. PICK i \in Missing(n) :
          \E made \in { { <<n, j>> : j \in 0 .. i - 1 }, { <<n, j>> : j \in 0 .. i } } :
              disk' = disk \cup made
    BY <1>1 DEF PutBucketsetAborts
  <2>2. i \in Buckets /\ 0 .. i - 1 \subseteq Buckets /\ 0 .. i \subseteq Buckets
    BY StoreAssumption DEF Missing, Buckets
  <2>3. disk \subseteq disk' /\ disk' \subseteq Files
    BY <2>1, <2>2 DEF Files, TypeOK
  <2> QED
    BY <1>1, <2>3 DEF PutBucketsetAborts
<1>2. CASE Crash \/ \E c \in Conns : BufferAllocFails(c)
  BY <1>2 DEF Crash, BufferAllocFails, TypeOK
<1>3. ASSUME NEW c \in Conns, NEW n \in Names, NEW o \in Objects,
             PutObjectUnrouted(c, n, o) \/ PutObjectSwitchFails(c, n, o)
      PROVE  /\ ProcessLost
             /\ UNCHANGED <<epoch, ack, stored>>
             /\ disk \subseteq disk' /\ disk' \subseteq Files
  BY <1>3 DEF PutObjectUnrouted, PutObjectSwitchFails, TypeOK
<1> QED
  BY <1>1, <1>2, <1>3 DEF Lost

\* The actions that leave the storage alone.
Quiet(c) ==
    \/ Accepted(c) \/ ReadRejected(c) \/ ReadError(c) \/ OtherRequest(c)
    \/ \E n \in Names : PutObjectUnknownSet(c, n) \/ PutBucketsetExists(c, n)

\* Every action of Next, with the ways the process ends taken together.
LEMMA NextCases ==
    ASSUME Next
    PROVE  \/ Lost
           \/ Restart
           \/ \E c \in Conns : Quiet(c)
           \/ \E c \in Conns, n \in Names : PutBucketsetNotKept(c, n)
           \/ \E c \in Conns, n \in Names : PutBucketsetCreated(c, n)
           \/ \E c \in Conns, n \in Names, o \in Objects : PutObjectRefused(c, n, o)
           \/ \E c \in Conns, n \in Names, o \in Objects : PutObjectStored(c, n, o)
<1>1. CASE Crash \/ Restart
  BY <1>1 DEF Lost
<1>2. ASSUME NEW c \in Conns,
             \/ Accepted(c)
             \/ ReadRejected(c)
             \/ ReadError(c)
             \/ BufferAllocFails(c)
             \/ OtherRequest(c)
      PROVE  Lost \/ Quiet(c)
  BY <1>2 DEF Lost, Quiet
<1>3. ASSUME NEW c \in Conns, NEW n \in Names,
             PutObjectUnknownSet(c, n) \/ PutBucketset(c, n)
      PROVE  Lost \/ Quiet(c) \/ PutBucketsetNotKept(c, n) \/ PutBucketsetCreated(c, n)
  BY <1>3 DEF Lost, Quiet, PutBucketset
<1>4. ASSUME NEW c \in Conns, NEW n \in Names, NEW o \in Objects, PutObject(c, n, o)
      PROVE  Lost \/ PutObjectRefused(c, n, o) \/ PutObjectStored(c, n, o)
  BY <1>4 DEF Lost, PutObject
<1> QED
  BY <1>1, <1>2, <1>3, <1>4 DEF Next

\* A quiet step, seen from the storage.
LEMMA QuietStep ==
    ASSUME NEW c \in Conns, Quiet(c)
    PROVE  up /\ UNCHANGED <<up, epoch, sets, disk, stored>>
BY DEF Quiet, Accepted, ReadRejected, ReadError, OtherRequest,
       PutObjectUnknownSet, PutBucketsetExists, Dispatched

-----------------------------------------------------------------------------
(* Every variable keeps its type in every behaviour of the server.         *)

THEOREM TypeCorrect == Spec => []TypeOK
<1>1. Init => TypeOK
  <2> SUFFICES ASSUME Init PROVE TypeOK
    OBVIOUS
  <2>1. NoAck \in Ack
    BY DEF NoAck, Ack
  <2>2. sets \in Seq(Bucketset) /\ up \in BOOLEAN /\ up
    BY DEF Init
  <2>3. epoch \in 1 .. MaxEpoch /\ buffers \in 0 .. MaxBuffers
    BY StoreAssumption DEF Init
  <2> QED
    BY <2>1, <2>2, <2>3 DEF Init, TypeOK
<1>2. TypeOK /\ [Next]_vars => TypeOK'
  <2> SUFFICES ASSUME TypeOK, [Next]_vars PROVE TypeOK'
    OBVIOUS
  <2>1. CASE Lost
    BY <2>1, LostStep, ProcessLostType DEF TypeOK
  <2>2. CASE Restart
    <3>1. epoch' \in 1 .. MaxEpoch
      BY <2>2, StoreAssumption DEF Restart, TypeOK
    <3>2. up' \in BOOLEAN /\ up' /\ UNCHANGED <<conn, ack, buffers, sets, disk, stored>>
      BY <2>2 DEF Restart
    <3> QED
      BY <3>1, <3>2 DEF TypeOK
  <2>3. ASSUME NEW c \in Conns, Quiet(c)
        PROVE  TypeOK'
    <3>1. CASE Accepted(c) \/ ReadRejected(c) \/ ReadError(c)
      <4>1. /\ conn' \in [Conns -> {"new", "watched", "closed"}]
            /\ up' \in BOOLEAN /\ up'
            /\ UNCHANGED <<epoch, ack, sets, disk, stored>>
        BY <3>1 DEF Accepted, ReadRejected, ReadError, TypeOK
      <4>2. buffers' \in 0 .. MaxBuffers
        BY <3>1, StoreAssumption DEF Accepted, ReadRejected, ReadError, TypeOK
      <4> QED
        BY <4>1, <4>2 DEF TypeOK
    <3>2. CASE OtherRequest(c)
               \/ \E n \in Names : PutObjectUnknownSet(c, n) \/ PutBucketsetExists(c, n)
      BY <3>2, AnsweredStepType
    <3> QED
      BY <2>3, <3>1, <3>2 DEF Quiet
  <2>4. ASSUME NEW c \in Conns, NEW n \in Names, PutBucketsetNotKept(c, n)
        PROVE  TypeOK'
    BY <2>4, AnsweredStepType
  <2>5. ASSUME NEW c \in Conns, NEW n \in Names, PutBucketsetCreated(c, n)
        PROVE  TypeOK'
    BY <2>5, CreatedStepType
  <2>6. ASSUME NEW c \in Conns, NEW n \in Names, NEW o \in Objects,
               PutObjectRefused(c, n, o)
        PROVE  TypeOK'
    BY <2>6, RefusedStepType
  <2>7. ASSUME NEW c \in Conns, NEW n \in Names, NEW o \in Objects,
               PutObjectStored(c, n, o)
        PROVE  TypeOK'
    BY <2>7, StoredStepType
  <2>8. CASE UNCHANGED vars
    BY <2>8 DEF vars, TypeOK
  <2> QED
    BY <2>1, <2>2, <2>3, <2>4, <2>5, <2>6, <2>7, <2>8, NextCases
<1> QED
  BY <1>1, <1>2, PTL DEF Spec

-----------------------------------------------------------------------------
(* How the lookup changes when the registry does.                          *)

\* Changing buckets, not names, changes no lookup.
LEMMA LookupSameNames ==
    ASSUME DOMAIN sets' = DOMAIN sets,
           \A j \in DOMAIN sets : sets'[j].name = sets[j].name
    PROVE  \A n : FindSet(n)' = FindSet(n) /\ Known(n)' = Known(n)
<1>1. ASSUME NEW n
      PROVE  Matches(n)' = Matches(n)
  BY DEF Matches, NameMatches
<1> QED
  BY <1>1 DEF FindSet, Known

\* A set added at the end takes the names that resolved to nothing and that
\* it is a prefix of, and no other name.
LEMMA LookupAfterAppend ==
    ASSUME sets \in Seq(Bucketset), NEW s \in Bucketset, sets' = Append(sets, s), NEW n
    PROVE  /\ Known(n) => FindSet(n)' = FindSet(n)
           /\ ~ Known(n) /\ NameMatches(s, n) => FindSet(n)' = Len(sets) + 1
           /\ ~ Known(n) /\ ~ NameMatches(s, n) => FindSet(n)' = 0
<1> DEFINE M == Matches(n)
           L == Len(sets) + 1
<1>1. /\ DOMAIN sets = 1 .. Len(sets) /\ Len(sets) \in Nat
      /\ DOMAIN sets' = 1 .. L
      /\ \A j \in 1 .. Len(sets) : sets'[j] = sets[j]
      /\ sets'[L] = s
  BY LenProperties, AppendProperties
<1>2. M \in SUBSET Nat /\ 0 \notin M /\ \A j \in M : j < L
  BY <1>1 DEF Matches
<1>3. Matches(n)' = M \cup (IF NameMatches(s, n) THEN {L} ELSE {})
  <2>1. \A j \in 1 .. Len(sets) : NameMatches(sets'[j], n) <=> NameMatches(sets[j], n)
    BY <1>1
  <2>2. 1 .. L = 1 .. Len(sets) \cup {L} /\ L \notin 1 .. Len(sets)
    BY <1>1
  <2> QED
    BY <1>1, <2>1, <2>2 DEF Matches, NameMatches
<1>4. CASE M = {}
  <2>1. Min({L}) = L
    <3>1. {L} \in SUBSET Nat /\ {L} # {}
      BY <1>1
    <3> QED
      BY <3>1, MinOfNats
  <2> QED
    BY <1>3, <1>4, <2>1 DEF FindSet, Known
<1>5. CASE M # {}
  <2> DEFINE M2 == Matches(n)'
  <2>1. M2 \in SUBSET Nat /\ M2 # {} /\ M \subseteq M2 /\ \A j \in M2 : j \in M \/ j = L
    BY <1>1, <1>2, <1>3, <1>5
  <2> HIDE DEF M2, M, L
  <2>2. Min(M) \in M /\ \A j \in M : Min(M) <= j
    BY <1>2, <1>5, MinOfNats
  <2>3. Min(M2) \in M2 /\ \A j \in M2 : Min(M2) <= j
    BY <2>1, MinOfNats
  <2>4. Min(M2) = Min(M)
    <3>1. Min(M) \in Nat /\ Min(M2) \in Nat /\ Min(M2) <= Min(M)
      BY <1>2, <2>1, <2>2, <2>3
    <3>2. Min(M2) # L
      BY <1>2, <2>2, <3>1
    <3>3. Min(M2) \in M /\ Min(M) <= Min(M2)
      BY <2>1, <2>2, <2>3, <3>2
    <3> QED
      BY <3>1, <3>3
  <2>5. FindSet(n)' = FindSet(n)
    BY <1>5, <2>1, <2>4 DEF FindSet, M, M2
  <2>6. Known(n)
    <3>1. Min(M) # 0
      BY <1>2, <2>2
    <3> QED
      BY <1>5, <3>1 DEF Known, FindSet, M
  <2> QED
    BY <2>5, <2>6
<1> QED
  BY <1>4, <1>5

-----------------------------------------------------------------------------
(* The storage invariant.                                                  *)

\* Steps that change neither the sets nor the history.
LEMMA StorageFrame ==
    ASSUME StorageInv, TypeOK, UNCHANGED <<up, epoch, sets, stored>>, disk \subseteq disk'
    PROVE  StorageInv'
<1>1. \A n : FindSet(n)' = FindSet(n) /\ Known(n)' = Known(n)
  BY LookupSameNames
<1>2. LookupExact' /\ Retrievable'
  BY <1>1 DEF StorageInv, LookupExact, Retrievable
<1>3. StoredKnown'
  BY DEF StorageInv, StoredKnown
<1>4. OpenFilesAreFresh' /\ OpenFilesExist'
  BY DEF StorageInv, OpenFilesAreFresh, OpenFilesExist
<1> QED
  BY <1>2, <1>3, <1>4 DEF StorageInv

\* The end of a process takes the sets with it and leaves the files.
LEMMA StorageLost ==
    ASSUME StorageInv, TypeOK, Lost
    PROVE  StorageInv'
<1>1. sets' = << >> /\ ~ up' /\ UNCHANGED <<epoch, stored>> /\ disk \subseteq disk'
  BY LostStep DEF ProcessLost
<1>2. DOMAIN sets' = {}
  BY <1>1
<1>3. LookupExact' /\ OpenFilesAreFresh' /\ OpenFilesExist'
  BY <1>2 DEF LookupExact, OpenFilesAreFresh, OpenFilesExist
<1>4. Retrievable'
  BY <1>1 DEF Retrievable
<1>5. StoredKnown'
  BY <1>1 DEF StorageInv, StoredKnown
<1> QED
  BY <1>3, <1>4, <1>5 DEF StorageInv

LEMMA StorageRestart ==
    ASSUME StorageInv, TypeOK, Restart
    PROVE  StorageInv'
<1>1. /\ sets = << >> /\ sets' = << >> /\ epoch' = epoch + 1 /\ epoch \in Nat
      /\ UNCHANGED <<disk, stored>>
  BY StoreAssumption DEF Restart, TypeOK
<1>2. DOMAIN sets' = {}
  BY <1>1
<1>3. LookupExact' /\ OpenFilesAreFresh' /\ OpenFilesExist'
  BY <1>2 DEF LookupExact, OpenFilesAreFresh, OpenFilesExist
<1>4. \A e \in stored : e.epoch \in Nat /\ e.epoch <= epoch
  BY DEF TypeOK, Entry, StorageInv, StoredKnown
<1>5. Retrievable'
  BY <1>1, <1>4 DEF Retrievable
<1>6. StoredKnown'
  <2>1. \A e \in stored : e.epoch <= epoch'
    BY <1>1, <1>4
  <2> QED
    BY <1>1, <2>1 DEF StorageInv, StoredKnown
<1> QED
  BY <1>3, <1>5, <1>6 DEF StorageInv

\* A refused object replaces the list in the cache, and nothing else.
LEMMA StorageRefused ==
    ASSUME StorageInv, TypeOK, NEW c \in Conns, NEW n \in Names, NEW o \in Objects,
           PutObjectRefused(c, n, o)
    PROVE  StorageInv'
<1> DEFINE s == FindSet(n)
           b == Target(o)
           bt == sets[s].buckets[b]
           nb == Refuse(bt)
<1>1. Known(n) /\ Target(o) # NoBucket /\ UNCHANGED <<up, epoch, disk, stored>>
  BY DEF PutObjectRefused
<1>0. BucketBecomes(s, b, nb)
  BY DEF PutObjectRefused, BucketBecomes
<1>2. s \in DOMAIN sets /\ b \in Buckets /\ bt \in Bucket
  BY <1>1, PutObjectSetType
<1>3. nb \in Bucket /\ nb.open = bt.open /\ nb.current_offset = bt.current_offset
  BY <1>2, RefuseType
<1> HIDE DEF s, b, bt, nb
<1>4. /\ DOMAIN sets' = DOMAIN sets
      /\ \A j \in DOMAIN sets :
            /\ sets'[j].name = sets[j].name
            /\ \A d \in Buckets : sets'[j].buckets[d] =
                  IF j = s /\ d = b THEN nb ELSE sets[j].buckets[d]
  BY <1>0, <1>2, <1>3, BucketUpdate DEF TypeOK
<1>5. \A m : FindSet(m)' = FindSet(m) /\ Known(m)' = Known(m)
  BY <1>4, LookupSameNames
<1>6. LookupExact'
  BY <1>4, <1>5 DEF StorageInv, LookupExact
<1>7. Retrievable'
  <2> SUFFICES ASSUME NEW e \in stored, up, e.epoch = epoch
               PROVE  Known(e.req) /\ sets'[FindSet(e.req)].name = e.set
    BY <1>1, <1>5 DEF Retrievable
  <2>1. Known(e.req) /\ sets[FindSet(e.req)].name = e.set
    BY DEF StorageInv, Retrievable
  <2>2. FindSet(e.req) \in DOMAIN sets
    BY <2>1, FindSetProperties DEF TypeOK
  <2> QED
    BY <1>4, <2>1, <2>2
<1>8. StoredKnown'
  BY <1>1 DEF StorageInv, StoredKnown
<1>9. OpenFilesAreFresh'
  <2> SUFFICES ASSUME NEW i \in DOMAIN sets, NEW e \in stored, e.set = sets[i].name,
                      e.open, sets'[i].buckets[e.bucket].open
               PROVE  e.epoch = epoch
    BY <1>1, <1>4 DEF OpenFilesAreFresh
  <2>1. e.bucket \in Buckets
    BY DEF TypeOK, Entry
  <2>2. sets'[i].buckets[e.bucket].open = sets[i].buckets[e.bucket].open
    BY <1>3, <1>4, <2>1 DEF bt
  <2> QED
    BY <2>2 DEF StorageInv, OpenFilesAreFresh
<1>10. OpenFilesExist'
  BY <1>1, <1>3, <1>4 DEF StorageInv, OpenFilesExist, bt
<1> QED
  BY <1>6, <1>7, <1>8, <1>9, <1>10 DEF StorageInv

\* An accepted object is one of this life, in the file of its bucket.
LEMMA StorageStored ==
    ASSUME StorageInv, TypeOK, NEW c \in Conns, NEW n \in Names, NEW o \in Objects,
           PutObjectStored(c, n, o)
    PROVE  StorageInv'
<1> DEFINE s == FindSet(n)
           b == Target(o)
           bt == sets[s].buckets[b]
           nb == Accept(bt, c, o)
           size == SizeOf(o)
           x == [conn |-> c, req |-> n, set |-> sets[s].name, hash |-> o.hash,
                 bucket |-> b, epoch |-> epoch, open |-> bt.open,
                 off |-> bt.current_offset, size |-> size]
<1>1. Known(n) /\ Target(o) # NoBucket /\ SignedLen(o) > 0 /\ UNCHANGED <<up, epoch, disk>>
  BY DEF PutObjectStored
<1>2. BucketBecomes(s, b, nb) /\ stored' = stored \cup {x}
  BY DEF PutObjectStored, BucketBecomes
<1>3. s \in DOMAIN sets /\ sets[s].name \in Names /\ b \in Buckets /\ bt \in Bucket
  BY <1>1, PutObjectSetType
<1>4. nb \in Bucket /\ nb.open = bt.open
  BY <1>1, <1>3, AcceptType
<1>6. /\ x.req = n /\ x.set = sets[s].name /\ x.bucket = b /\ x.epoch = epoch
      /\ x.open = bt.open
  OBVIOUS
<1> HIDE DEF s, b, bt, nb, size, x
<1>7. /\ DOMAIN sets' = DOMAIN sets
      /\ \A j \in DOMAIN sets :
            /\ sets'[j].name = sets[j].name
            /\ \A d \in Buckets : sets'[j].buckets[d] =
                  IF j = s /\ d = b THEN nb ELSE sets[j].buckets[d]
  BY <1>2, <1>3, <1>4, BucketUpdate DEF TypeOK
<1>8. \A m : FindSet(m)' = FindSet(m) /\ Known(m)' = Known(m)
  BY <1>7, LookupSameNames
<1>9. \A e \in stored : e.bucket \in Buckets
  BY DEF TypeOK, Entry
<1>10. \A e \in stored : e.set = sets[s].name /\ e.bucket = b /\ e.open /\ bt.open
          => e.epoch = epoch
  BY <1>3 DEF StorageInv, OpenFilesAreFresh, bt
<1>11. LookupExact'
  BY <1>7, <1>8 DEF StorageInv, LookupExact
<1>12. Retrievable'
  <2> SUFFICES ASSUME NEW e \in stored \cup {x}, up, e.epoch = epoch
               PROVE  Known(e.req) /\ sets'[FindSet(e.req)].name = e.set
    BY <1>1, <1>2, <1>8 DEF Retrievable
  <2>1. Known(e.req) /\ sets[FindSet(e.req)].name = e.set
    BY <1>1, <1>6 DEF StorageInv, Retrievable, s
  <2>2. FindSet(e.req) \in DOMAIN sets
    BY <2>1, FindSetProperties DEF TypeOK
  <2> QED
    BY <1>7, <2>1, <2>2
<1>13. StoredKnown'
  <2>1. bt.open => <<sets[s].name, b>> \in disk
    BY <1>3 DEF StorageInv, OpenFilesExist, bt
  <2>2. epoch <= epoch
    BY StoreAssumption DEF TypeOK
  <2> QED
    BY <1>1, <1>2, <1>6, <2>1, <2>2 DEF StorageInv, StoredKnown
<1>14. OpenFilesExist'
  BY <1>1, <1>3, <1>4, <1>7 DEF StorageInv, OpenFilesExist, bt
<1>15. OpenFilesAreFresh'
  <2> SUFFICES ASSUME NEW i \in DOMAIN sets, NEW e \in stored, e.set = sets[i].name,
                      e.open, sets'[i].buckets[e.bucket].open
               PROVE  e.epoch = epoch
    BY <1>1, <1>2, <1>6, <1>7 DEF OpenFilesAreFresh
  <2>1. CASE i = s /\ e.bucket = b
    BY <1>3, <1>4, <1>7, <1>10, <2>1
  <2>2. CASE ~ (i = s /\ e.bucket = b)
    <3>1. sets'[i].buckets[e.bucket] = sets[i].buckets[e.bucket]
      BY <1>7, <1>9, <2>2
    <3> QED
      BY <3>1 DEF StorageInv, OpenFilesAreFresh
  <2> QED
    BY <2>1, <2>2
<1> QED
  BY <1>11, <1>12, <1>13, <1>14, <1>15 DEF StorageInv

\* A new set has a name no live set resolves, so nothing was stored in it by
\* this process; its open buckets are those whose file was not there.
LEMMA StorageCreated ==
    ASSUME StorageInv, TypeOK, NEW c \in Conns, NEW n \in Names,
           PutBucketsetCreated(c, n)
    PROVE  StorageInv'
<1> DEFINE s == bucketset_create(n)
           L == Len(sets) + 1
<1>1. /\ ~ Known(n)
      /\ sets' = Append(sets, s)
      /\ disk' = disk \cup { <<n, i>> : i \in Buckets }
      /\ UNCHANGED <<up, epoch, stored>>
  BY DEF PutBucketsetCreated
<1>2. s \in Bucketset /\ s.name = n
  BY CreateType DEF bucketset_create
<1>3. \A b \in Buckets : s.buckets[b].open <=> <<n, b>> \notin disk
  BY DEF bucketset_create, bucket_create
<1> HIDE DEF s
<1>4. /\ DOMAIN sets = 1 .. Len(sets) /\ Len(sets) \in Nat
      /\ DOMAIN sets' = 1 .. L
      /\ \A j \in DOMAIN sets : sets'[j] = sets[j] /\ j \in DOMAIN sets'
      /\ sets'[L] = s
      /\ \A j \in DOMAIN sets' : j \in DOMAIN sets \/ j = L
  BY <1>1, <1>2, LenProperties, AppendProperties DEF TypeOK
<1> HIDE DEF L
<1>5. \A m : /\ Known(m) => FindSet(m)' = FindSet(m)
             /\ ~ Known(m) /\ NameMatches(s, m) => FindSet(m)' = L
  BY <1>1, <1>2, LookupAfterAppend DEF TypeOK, L
<1>6. \A j \in DOMAIN sets : Known(sets[j].name) /\ sets[j].name # n
  <2>1. ASSUME NEW j \in DOMAIN sets
        PROVE  Known(sets[j].name)
    <3>1. FindSet(sets[j].name) = j /\ j # 0
      BY <1>4 DEF StorageInv, LookupExact
    <3> QED
      BY <3>1 DEF Known
  <2> QED
    BY <1>1, <2>1
<1>7. LookupExact'
  <2>1. FindSet(n)' = L
    BY <1>1, <1>2, <1>5, StoreAssumption DEF NameMatches
  <2>2. ASSUME NEW j \in DOMAIN sets
        PROVE  FindSet(sets[j].name)' = j
    <3>1. \A m : m = sets[j].name => FindSet(m)' = j
      BY <1>5, <1>6 DEF StorageInv, LookupExact
    <3>2. sets'[j] = sets[j]
      BY <1>4
    <3> QED
      BY <3>1, <3>2
  <2> QED
    BY <1>2, <1>4, <2>1, <2>2 DEF LookupExact
<1>8. \A e \in stored : up /\ e.epoch = epoch => e.set # n
  <2> SUFFICES ASSUME NEW e \in stored, up, e.epoch = epoch
               PROVE  e.set # n
    OBVIOUS
  <2>1. Known(e.req) /\ sets[FindSet(e.req)].name = e.set
    BY DEF StorageInv, Retrievable
  <2>2. FindSet(e.req) \in DOMAIN sets
    BY <2>1, FindSetProperties DEF TypeOK
  <2> QED
    BY <1>6, <2>1, <2>2
<1>9. Retrievable'
  <2> SUFFICES ASSUME NEW e \in stored, up, e.epoch = epoch
               PROVE  Known(e.req)' /\ sets'[FindSet(e.req)'].name = e.set
    BY <1>1 DEF Retrievable
  <2>1. Known(e.req) /\ sets[FindSet(e.req)].name = e.set
    BY DEF StorageInv, Retrievable
  <2>2. FindSet(e.req) \in DOMAIN sets /\ FindSet(e.req)' = FindSet(e.req)
    BY <1>5, <2>1, FindSetProperties DEF TypeOK
  <2> QED
    BY <1>4, <2>1, <2>2 DEF Known
<1>10. StoredKnown'
  BY <1>1 DEF StorageInv, StoredKnown
<1>11. OpenFilesExist'
  <2>1. ASSUME NEW j \in DOMAIN sets, NEW b \in Buckets, sets'[j].buckets[b].open
        PROVE  <<sets'[j].name, b>> \in disk'
    BY <1>1, <1>4, <2>1 DEF StorageInv, OpenFilesExist
  <2>2. ASSUME NEW b \in Buckets
        PROVE  <<s.name, b>> \in disk'
    BY <1>1, <1>2
  <2> QED
    BY <1>4, <2>1, <2>2 DEF OpenFilesExist
<1>12. OpenFilesAreFresh'
  <2> SUFFICES ASSUME NEW i \in DOMAIN sets', NEW e \in stored, e.set = sets'[i].name
               PROVE  e.open /\ sets'[i].buckets[e.bucket].open => e.epoch = epoch
    BY <1>1 DEF OpenFilesAreFresh
  <2>1. CASE i \in DOMAIN sets
    BY <1>4, <2>1 DEF StorageInv, OpenFilesAreFresh
  <2>2. CASE i = L
    <3>1. e.set = n /\ e.bucket \in Buckets
      BY <1>2, <1>4, <2>2 DEF TypeOK, Entry
    <3>4. e.open => <<n, e.bucket>> \in disk
      BY <3>1 DEF StorageInv, StoredKnown
    <3>5. ~ (e.open /\ s.buckets[e.bucket].open)
      BY <1>3, <3>1, <3>4
    <3> QED
      BY <1>4, <2>2, <3>5
  <2> QED
    BY <1>4, <2>1, <2>2
<1> QED
  BY <1>7, <1>9, <1>10, <1>11, <1>12 DEF StorageInv

\* The storage invariant holds in every behaviour.
THEOREM StorageCorrect == Spec => []StorageInv
<1>1. Init => StorageInv
  <2> SUFFICES ASSUME Init PROVE StorageInv
    OBVIOUS
  <2>1. DOMAIN sets = {} /\ stored = {}
    BY DEF Init
  <2> QED
    BY <2>1 DEF StorageInv, LookupExact, Retrievable, StoredKnown,
                OpenFilesExist, OpenFilesAreFresh
<1>2. TypeOK /\ StorageInv /\ [Next]_vars => StorageInv'
  <2> SUFFICES ASSUME TypeOK, StorageInv, [Next]_vars PROVE StorageInv'
    OBVIOUS
  <2>1. CASE Lost
    BY <2>1, StorageLost
  <2>2. CASE Restart
    BY <2>2, StorageRestart
  <2>3. ASSUME NEW c \in Conns, Quiet(c)
        PROVE  StorageInv'
    BY <2>3, QuietStep, StorageFrame
  <2>4. ASSUME NEW c \in Conns, NEW n \in Names, PutBucketsetNotKept(c, n)
        PROVE  StorageInv'
    <3>1. UNCHANGED <<up, epoch, sets, stored>> /\ disk \subseteq disk'
      BY <2>4 DEF PutBucketsetNotKept
    <3> QED
      BY <3>1, StorageFrame
  <2>5. ASSUME NEW c \in Conns, NEW n \in Names, PutBucketsetCreated(c, n)
        PROVE  StorageInv'
    BY <2>5, StorageCreated
  <2>6. ASSUME NEW c \in Conns, NEW n \in Names, NEW o \in Objects,
               PutObjectRefused(c, n, o)
        PROVE  StorageInv'
    BY <2>6, StorageRefused
  <2>7. ASSUME NEW c \in Conns, NEW n \in Names, NEW o \in Objects,
               PutObjectStored(c, n, o)
        PROVE  StorageInv'
    BY <2>7, StorageStored
  <2>8. CASE UNCHANGED vars
    BY <2>8, StorageFrame DEF vars
  <2> QED
    BY <2>1, <2>2, <2>3, <2>4, <2>5, <2>6, <2>7, <2>8, NextCases
<1> QED
  BY <1>1, <1>2, TypeCorrect, PTL DEF Spec

\* A set is found under its own name.
COROLLARY LookupExactCorrect == Spec => []LookupExact
<1>1. StorageInv => LookupExact
  BY DEF StorageInv
<1> QED
  BY <1>1, StorageCorrect, PTL

\* An object stays where requests for it look.
COROLLARY RetrievableCorrect == Spec => []Retrievable
<1>1. StorageInv => Retrievable
  BY DEF StorageInv
<1> QED
  BY <1>1, StorageCorrect, PTL

\* A data file that is open has objects of one life only.
COROLLARY OpenFilesCorrect == Spec => []OpenFilesAreFresh
<1>1. StorageInv => OpenFilesAreFresh
  BY DEF StorageInv
<1> QED
  BY <1>1, StorageCorrect, PTL

-----------------------------------------------------------------------------
(* Placement, acknowledgements, and the two degenerate configurations.     *)

\* Only an accepted put adds to the history, and it adds one entry.
LEMMA HistoryStep ==
    ASSUME TypeOK, [Next]_vars
    PROVE  \/ stored' = stored
           \/ \E c \in Conns, n \in Names, o \in Objects : PutObjectStored(c, n, o)
<1>1. CASE Lost
  BY <1>1, LostStep
<1>2. ASSUME NEW c \in Conns, Quiet(c)
      PROVE  stored' = stored
  BY <1>2, QuietStep
<1>3. CASE \/ Restart
           \/ \E c \in Conns, n \in Names : PutBucketsetNotKept(c, n)
           \/ \E c \in Conns, n \in Names : PutBucketsetCreated(c, n)
           \/ \E c \in Conns, n \in Names, o \in Objects : PutObjectRefused(c, n, o)
           \/ UNCHANGED vars
  BY <1>3 DEF Restart, PutBucketsetNotKept, PutBucketsetCreated, PutObjectRefused, vars
<1> QED
  BY <1>1, <1>2, <1>3, NextCases

\* An accepted object is in the only bucket whose interval has its hash.
THEOREM PlacementCorrect == Spec => []PlacedInOneBucket
<1>1. Init => PlacedInOneBucket
  BY DEF Init, PlacedInOneBucket
<1>2. TypeOK /\ PlacedInOneBucket /\ [Next]_vars => PlacedInOneBucket'
  <2> SUFFICES ASSUME TypeOK, PlacedInOneBucket, [Next]_vars PROVE PlacedInOneBucket'
    OBVIOUS
  <2>1. CASE stored' = stored
    BY <2>1 DEF PlacedInOneBucket
  <2>2. ASSUME NEW c \in Conns, NEW n \in Names, NEW o \in Objects,
               PutObjectStored(c, n, o)
        PROVE  PlacedInOneBucket'
    <3>1. \A b \in Buckets :
             MinRank(RangeCount, b) <= o.hash /\ o.hash <= MaxRank(RangeCount, b)
                 <=> b = Target(o)
      BY <2>2, TargetType DEF PutObjectStored
    <3>2. \A e \in stored' : e \in stored \/ (e.hash = o.hash /\ e.bucket = Target(o))
      BY <2>2 DEF PutObjectStored
    <3> QED
      BY <3>1, <3>2 DEF PlacedInOneBucket
  <2> QED
    BY <2>1, <2>2, HistoryStep
<1> QED
  BY <1>1, <1>2, TypeCorrect, PTL DEF Spec

\* While a received byte is an error, the server stores nothing at all.
THEOREM InertCorrect == Spec => []InertWhenByteRejected
<1>1. Init => InertWhenByteRejected
  BY DEF Init, InertWhenByteRejected
<1>2. TypeOK /\ InertWhenByteRejected /\ [Next]_vars => InertWhenByteRejected'
  <2> SUFFICES ASSUME TypeOK, 1 \in RecvRejected, sets = << >>, disk = {}, stored = {},
                      [Next]_vars
               PROVE  sets' = << >> /\ disk' = {} /\ stored' = {}
    BY DEF InertWhenByteRejected
  <2>1. ~ Reaches("PUT_BUCKETSET")
    BY DEF Reaches
  <2>2. \A n \in Names : ~ Known(n)
    <3>1. DOMAIN sets = {}
      OBVIOUS
    <3> QED
      BY <3>1 DEF Known, FindSet, Matches
  <2>3. ASSUME NEW c \in Conns, NEW n \in Names
        PROVE  /\ ~ PutBucketsetCreated(c, n)
               /\ ~ PutBucketsetNotKept(c, n)
               /\ ~ PutBucketsetAborts(c, n)
    BY <2>1 DEF PutBucketsetCreated, PutBucketsetNotKept, PutBucketsetAborts, Dispatched
  <2>4. ASSUME NEW c \in Conns, NEW n \in Names, NEW o \in Objects
        PROVE  /\ ~ PutObjectRefused(c, n, o)
               /\ ~ PutObjectStored(c, n, o)
    BY <2>2 DEF PutObjectRefused, PutObjectStored
  <2>5. CASE Lost
    <3>1. sets' = << >> /\ stored' = stored
      BY <2>5, LostStep DEF ProcessLost
    <3>2. disk' = disk
      BY <2>3, <2>5 DEF Lost, Crash, BufferAllocFails, PutObjectUnrouted,
                        PutObjectSwitchFails
    <3> QED
      BY <3>1, <3>2
  <2>6. ASSUME NEW c \in Conns, Quiet(c)
        PROVE  UNCHANGED <<sets, disk, stored>>
    BY <2>6, QuietStep
  <2>7. CASE Restart \/ UNCHANGED vars
    BY <2>7 DEF Restart, vars
  <2> QED
    BY <2>3, <2>4, <2>5, <2>6, <2>7, NextCases
<1> QED
  BY <1>1, <1>2, TypeCorrect, PTL DEF Spec

\* A connection that has its answer is closed, ...
AnsweredClosed == \A c \in Conns : ack[c] # NoAck => conn[c] = "closed"

\* ... and no step answers a connection that is not watched.
LEMMA AckStep ==
    ASSUME TypeOK, AnsweredClosed, [Next]_vars
    PROVE  /\ AnsweredClosed'
           /\ \A c \in Conns : ack[c] # NoAck => ack'[c] = ack[c]
<1> DEFINE G == /\ AnsweredClosed'
                /\ \A c \in Conns : ack[c] # NoAck => ack'[c] = ack[c]
<1>0. conn \in [Conns -> {"new", "watched", "closed"}] /\ ack \in [Conns -> Ack]
  BY DEF TypeOK
<1>1. ASSUME NEW c \in Conns, NEW type, NEW name, NEW ret,
             conn[c] = "watched", Reply(c, type, name, ret)
      PROVE  G
  BY <1>0, <1>1 DEF Reply, AnsweredClosed
<1>2. CASE Lost
  BY <1>0, <1>2, LostStep DEF ProcessLost, AnsweredClosed
<1>3. CASE Restart \/ UNCHANGED vars
  BY <1>3 DEF Restart, vars, AnsweredClosed
<1>4. ASSUME NEW c \in Conns, Accepted(c) \/ ReadRejected(c) \/ ReadError(c)
      PROVE  G
  BY <1>0, <1>4 DEF Accepted, ReadRejected, ReadError, AnsweredClosed
<1>5. ASSUME NEW c \in Conns, OtherRequest(c)
      PROVE  G
  BY <1>1, <1>5 DEF OtherRequest, Dispatched
<1>6. ASSUME NEW c \in Conns, NEW n \in Names,
             \/ PutObjectUnknownSet(c, n)
             \/ PutBucketsetExists(c, n)
             \/ PutBucketsetNotKept(c, n)
             \/ PutBucketsetCreated(c, n)
      PROVE  G
  BY <1>1, <1>6 DEF PutObjectUnknownSet, PutBucketsetExists, PutBucketsetNotKept,
                    PutBucketsetCreated, Dispatched
<1>7. ASSUME NEW c \in Conns, NEW n \in Names, NEW o \in Objects,
             PutObjectRefused(c, n, o) \/ PutObjectStored(c, n, o)
      PROVE  G
  BY <1>1, <1>7 DEF PutObjectRefused, PutObjectStored, Dispatched
<1> HIDE DEF G
<1>8. ASSUME NEW c \in Conns, Quiet(c)
      PROVE  G
  BY <1>4, <1>5, <1>6, <1>8 DEF Quiet
<1>9. G
  BY <1>2, <1>3, <1>6, <1>7, <1>8, NextCases DEF G
<1> QED
  BY <1>9 DEF G

\* Each connection gets at most one acknowledgement, and keeps it.
THEOREM OneAckCorrect == Spec => OneAckPerConnection
<1>1. Init => AnsweredClosed
  BY DEF Init, AnsweredClosed
<1>2. TypeOK /\ AnsweredClosed /\ [Next]_vars => AnsweredClosed'
  BY AckStep
<1>3. TypeOK /\ AnsweredClosed /\ [Next]_vars
        => [\A c \in Conns : ack[c] # NoAck => ack'[c] = ack[c]]_vars
  BY AckStep
<1> QED
  BY <1>1, <1>2, <1>3, TypeCorrect, PTL DEF Spec, OneAckPerConnection

\* A step that tells a client its set was created has looked the name up, or
\* has added the set at the end of the vector, or found no room for it there.
LEMMA CreatedStep ==
    ASSUME TypeOK, [Next]_vars, NEW d \in Conns, ack'[d] # ack[d],
           ack'[d].type = "PUT_BUCKETSET"
    PROVE  RegistryFull \/ \E n \in Names : ack'[d].name = n /\ FindSet(n)' # 0
<1>0. ack \in [Conns -> Ack]
  BY DEF TypeOK
<1>1. ASSUME NEW c \in Conns, NEW type, NEW name, NEW ret, Reply(c, type, name, ret)
      PROVE  c = d /\ type = "PUT_BUCKETSET" /\ ack'[d].name = name
  BY <1>0, <1>1 DEF Reply
<1>2. ~ (Lost \/ Restart \/ UNCHANGED vars)
  BY LostStep DEF Restart, vars
<1>3. ASSUME NEW c \in Conns, Accepted(c) \/ ReadRejected(c) \/ ReadError(c)
      PROVE  FALSE
  BY <1>3 DEF Accepted, ReadRejected, ReadError
<1>4. ASSUME NEW c \in Conns, NEW n \in Names, NEW o \in Objects,
             PutObjectRefused(c, n, o) \/ PutObjectStored(c, n, o)
      PROVE  FALSE
  BY <1>1, <1>4 DEF PutObjectRefused, PutObjectStored
<1>5. ASSUME NEW c \in Conns, NEW n \in Names, PutBucketsetExists(c, n)
      PROVE  ack'[d].name = n /\ FindSet(n)' # 0
  <2>1. FindSet(n) # 0 /\ sets' = sets
    BY <1>5 DEF PutBucketsetExists, Known
  <2>2. FindSet(n)' = FindSet(n)
    BY <2>1 DEF FindSet, Matches, NameMatches
  <2> QED
    BY <1>1, <1>5, <2>1, <2>2 DEF PutBucketsetExists
<1>6. ASSUME NEW c \in Conns, NEW n \in Names, PutBucketsetCreated(c, n)
      PROVE  ack'[d].name = n /\ FindSet(n)' # 0
  <2> DEFINE new == bucketset_create(n)
  <2>1. /\ sets \in Seq(Bucketset) /\ sets' = Append(sets, new) /\ ~ Known(n)
        /\ new \in Bucketset /\ new.name = n
    BY <1>6, CreateType DEF PutBucketsetCreated, TypeOK, bucketset_create
  <2> HIDE DEF new
  <2>2. NameMatches(new, n)
    BY <2>1, StoreAssumption DEF NameMatches
  <2>3. FindSet(n)' = Len(sets) + 1 /\ Len(sets) \in Nat
    BY <2>1, <2>2, LookupAfterAppend, LenProperties
  <2>4. FindSet(n)' # 0
    BY <2>3
  <2> QED
    BY <1>1, <1>6, <2>4 DEF PutBucketsetCreated
<1>7. ASSUME NEW c \in Conns, NEW n \in Names, PutBucketsetNotKept(c, n)
      PROVE  RegistryFull
  BY <1>7 DEF PutBucketsetNotKept
<1> DEFINE found == \E n \in Names : ack'[d].name = n /\ FindSet(n)' # 0
<1>8. ASSUME NEW c \in Conns, NEW n \in Names,
             PutBucketsetExists(c, n) \/ PutBucketsetCreated(c, n)
      PROVE  found
  BY <1>5, <1>6, <1>8
<1> HIDE DEF found
<1>9. ASSUME NEW c \in Conns, Quiet(c)
      PROVE  found
  <2>1. CASE OtherRequest(c)
    BY <1>1, <2>1 DEF OtherRequest
  <2>2. ASSUME NEW n \in Names, PutObjectUnknownSet(c, n)
        PROVE  FALSE
    BY <1>1, <2>2 DEF PutObjectUnknownSet
  <2> QED
    BY <1>3, <1>8, <1>9, <2>1, <2>2 DEF Quiet
<1>10. RegistryFull \/ found
  BY <1>2, <1>4, <1>7, <1>8, <1>9, NextCases
<1> QED
  BY <1>10 DEF found

\* A client that is told of its set can use the name.
THEOREM CreatedCorrect == Spec => CreatedIsKnown
<1> DEFINE told == \A c \in Conns :
                /\ ack'[c] # ack[c]
                /\ ack'[c].type = "PUT_BUCKETSET"
                /\ ack'[c].ret = Success
                => Known(ack[c].name)' \/ RegistryFull
<1>1. TypeOK /\ [Next]_vars => told
  <2> SUFFICES ASSUME TypeOK, [Next]_vars, NEW c \in Conns, ack'[c] # ack[c],
                      ack'[c].type = "PUT_BUCKETSET", ~ RegistryFull
               PROVE  Known(ack[c].name)'
    OBVIOUS
  <2>1. PICK n \in Names : ack'[c].name = n /\ FindSet(n)' # 0
    BY CreatedStep
  <2> QED
    BY <2>1 DEF Known, FindSet, Matches, NameMatches
<1>2. TypeOK /\ [Next]_vars => [told]_vars
  BY <1>1
<1> QED
  BY <1>2, TypeCorrect, PTL DEF Spec, CreatedIsKnown

-----------------------------------------------------------------------------
(* What one life of the process can do.                                    *)

Answered == {c \in Conns : ack[c] # NoAck}

\* A set that got one element at most has at most one more.
LEMMA OneMore ==
    ASSUME NEW S, IsFiniteSet(S), NEW x, NEW T, T \subseteq S \cup {x}
    PROVE  /\ IsFiniteSet(T)
           /\ Cardinality(S) \in Nat /\ Cardinality(T) \in Nat
           /\ Cardinality(T) <= Cardinality(S) + 1
<1>1. IsFiniteSet(S \cup {x})
  BY FS_AddElement
<1>2. Cardinality(S \cup {x}) \in {Cardinality(S), Cardinality(S) + 1}
  BY FS_AddElement
<1>3. T \in SUBSET (S \cup {x})
  OBVIOUS
<1>4. IsFiniteSet(T) /\ Cardinality(T) <= Cardinality(S \cup {x})
  BY <1>1, <1>3, FS_Subset
<1>5. Cardinality(S) \in Nat /\ Cardinality(T) \in Nat
  BY <1>4, FS_CardinalityType
<1> QED
  BY <1>2, <1>4, <1>5

\* The answers that all the lives before this one could give.
Spent(n) == MaxBuffers * n

\* Each answer has left a buffer allocated in the life that gave it.
AnswersBound ==
    /\ IsFiniteSet(Answered)
    /\ Cardinality(Answered) <= Spent(epoch)
    /\ up => Cardinality(Answered) <= Spent(epoch - 1) + buffers

\* A step that answers takes a buffer; no other step answers or gives one back,
\* but the end of the process.
LEMMA AnswerStep ==
    ASSUME TypeOK, [Next]_vars
    PROVE  \/ Lost
           \/ Restart
           \/ /\ UNCHANGED <<up, epoch, ack>>
              /\ buffers' \in {buffers, buffers + 1}
           \/ /\ up /\ UNCHANGED <<up, epoch>>
              /\ buffers' = buffers + 1
              /\ \E c \in Conns : \A d \in Conns \ {c} : ack'[d] = ack[d]
<1> DEFINE Answers == /\ up /\ UNCHANGED <<up, epoch>>
                      /\ buffers' = buffers + 1
                      /\ \E c \in Conns : \A d \in Conns \ {c} : ack'[d] = ack[d]
<1>1. ASSUME NEW c \in Conns, NEW type, NEW name, NEW ret, up, UNCHANGED <<up, epoch>>,
             Reply(c, type, name, ret)
      PROVE  Answers
  BY <1>1 DEF TypeOK, Reply
<1>2. ASSUME NEW c \in Conns, OtherRequest(c)
      PROVE  Answers
  BY <1>1, <1>2 DEF OtherRequest, Dispatched
<1>3. ASSUME NEW c \in Conns, NEW n \in Names,
             \/ PutObjectUnknownSet(c, n)
             \/ PutBucketsetExists(c, n)
             \/ PutBucketsetNotKept(c, n)
             \/ PutBucketsetCreated(c, n)
      PROVE  Answers
  BY <1>1, <1>3 DEF PutObjectUnknownSet, PutBucketsetExists, PutBucketsetNotKept,
                    PutBucketsetCreated, Dispatched
<1>4. ASSUME NEW c \in Conns, NEW n \in Names, NEW o \in Objects,
             PutObjectRefused(c, n, o) \/ PutObjectStored(c, n, o)
      PROVE  Answers
  BY <1>1, <1>4 DEF PutObjectRefused, PutObjectStored, Dispatched
<1> HIDE DEF Answers
<1>5. ASSUME NEW c \in Conns, Accepted(c) \/ ReadRejected(c) \/ ReadError(c)
      PROVE  UNCHANGED <<up, epoch, ack>> /\ buffers' \in {buffers, buffers + 1}
  BY <1>5 DEF Accepted, ReadRejected, ReadError
<1>6. ASSUME NEW c \in Conns, Quiet(c)
      PROVE  \/ Answers
             \/ UNCHANGED <<up, epoch, ack>> /\ buffers' \in {buffers, buffers + 1}
  BY <1>2, <1>3, <1>5, <1>6 DEF Quiet
<1>7. CASE UNCHANGED vars
  BY <1>7 DEF vars
<1> QED
  BY <1>3, <1>4, <1>6, <1>7, NextCases DEF Answers

\* One life more adds MaxBuffers to the bound.
LEMMA SpentStep ==
    ASSUME NEW n \in Nat
    PROVE  /\ Spent(n) \in Nat
           /\ Spent(n + 1) = Spent(n) + MaxBuffers
<1>1. MaxBuffers \in Nat
  BY StoreAssumption
<1> QED
  BY <1>1 DEF Spent

\* A process answers at most MaxBuffers connections in each of its lives.
THEOREM AnswersCorrect == Spec => []AnswersPerLife
<1>1. Init => AnswersBound
  <2> SUFFICES ASSUME Init PROVE AnswersBound
    OBVIOUS
  <2>1. Answered = {}
    BY DEF Init, Answered
  <2>2. Spent(0) \in Nat /\ Spent(1) \in Nat /\ epoch - 1 = 0 /\ epoch = 1 /\ buffers = 0
    BY SpentStep DEF Init
  <2> QED
    BY <2>1, <2>2, FS_EmptySet DEF AnswersBound
<1>2. TypeOK /\ TypeOK' /\ AnswersBound /\ [Next]_vars => AnswersBound'
  <2> SUFFICES ASSUME TypeOK, TypeOK', AnswersBound, [Next]_vars PROVE AnswersBound'
    OBVIOUS
  <2>1. /\ epoch \in Nat /\ epoch - 1 \in Nat /\ buffers \in Nat /\ MaxBuffers \in Nat
        /\ buffers <= MaxBuffers /\ Cardinality(Answered) \in Nat
    BY StoreAssumption, FS_CardinalityType DEF TypeOK, AnswersBound
  <2>2. /\ Spent(epoch) \in Nat /\ Spent(epoch - 1) \in Nat
        /\ Spent(epoch) = Spent(epoch - 1) + MaxBuffers
        /\ Spent(epoch + 1) = Spent(epoch) + MaxBuffers
    <3>1. epoch - 1 + 1 = epoch
      BY <2>1
    <3> QED
      BY <2>1, <3>1, SpentStep
  <2>3. CASE Lost
    <3>1. ~ up' /\ UNCHANGED <<epoch, ack>>
      BY <2>3, LostStep DEF ProcessLost
    <3>2. Answered' = Answered
      BY <3>1 DEF Answered
    <3> QED
      BY <3>1, <3>2 DEF AnswersBound, Spent
  <2>4. CASE Restart
    <3>1. epoch' = epoch + 1 /\ UNCHANGED <<ack, buffers>>
      BY <2>4 DEF Restart
    <3>2. Answered' = Answered
      BY <3>1 DEF Answered
    <3>3. Spent(epoch') = Spent(epoch) + MaxBuffers /\ Spent(epoch' - 1) = Spent(epoch)
      <4>1. epoch' - 1 = epoch
        BY <2>1, <3>1
      <4> QED
        BY <2>2, <3>1, <4>1
    <3>4. /\ Cardinality(Answered) <= Spent(epoch) + MaxBuffers
          /\ Cardinality(Answered) <= Spent(epoch) + buffers
      BY <2>1, <2>2 DEF AnswersBound
    <3> QED
      BY <3>1, <3>2, <3>3, <3>4 DEF AnswersBound, Spent
  <2>5. CASE UNCHANGED <<up, epoch, ack>> /\ buffers' \in {buffers, buffers + 1}
    <3>1. Answered' = Answered
      BY <2>5 DEF Answered
    <3>2. up => Cardinality(Answered) <= Spent(epoch - 1) + buffers'
      BY <2>1, <2>2, <2>5 DEF AnswersBound
    <3> QED
      BY <2>5, <3>1, <3>2 DEF AnswersBound, Spent
  <2>6. ASSUME up, UNCHANGED <<up, epoch>>, buffers' = buffers + 1, buffers' <= MaxBuffers,
               NEW c \in Conns, \A d \in Conns \ {c} : ack'[d] = ack[d]
        PROVE  AnswersBound'
    <3>1. Answered' \subseteq Answered \cup {c}
      BY <2>6 DEF Answered
    <3>3. /\ IsFiniteSet(Answered')
          /\ Cardinality(Answered') \in Nat
          /\ Cardinality(Answered') <= Cardinality(Answered) + 1
      BY <3>1, OneMore DEF AnswersBound
    <3>4. /\ Cardinality(Answered') <= Spent(epoch - 1) + buffers'
          /\ Cardinality(Answered') <= Spent(epoch)
      BY <2>1, <2>2, <2>6, <3>3 DEF AnswersBound
    <3> QED
      BY <2>6, <3>3, <3>4 DEF AnswersBound, Spent
  <2>7. buffers' <= MaxBuffers
    BY StoreAssumption DEF TypeOK
  <2> QED
    BY <2>3, <2>4, <2>5, <2>6, <2>7, AnswerStep
<1>3. AnswersBound => AnswersPerLife
  BY DEF AnswersBound, AnswersPerLife, Answered, Spent
<1> QED
  BY <1>1, <1>2, <1>3, TypeCorrect, PTL DEF Spec

\* A process that is up has made at most as many files as there were earlier
\* starts, when each file it makes ends it.
FilesBound ==
    DataLength = 0 =>
        /\ IsFiniteSet(disk)
        /\ Cardinality(disk) <= epoch
        /\ up => Cardinality(disk) <= epoch - 1

\* Without room for its content, a file is made by the step that ends the
\* process, and one such step makes one file: the first that is missing.
LEMMA FileStep ==
    ASSUME TypeOK, [Next]_vars, DataLength = 0
    PROVE  \/ disk' = disk /\ (up' => up) /\ epoch' = epoch
           \/ disk' = disk /\ epoch' = epoch + 1
           \/ /\ up /\ ~up' /\ epoch' = epoch
              /\ \E f : disk' \subseteq disk \cup {f}
<1>1. ~CanAllocate
  BY DEF CanAllocate
<1>2. ASSUME NEW c \in Conns, NEW n \in Names,
             PutBucketsetCreated(c, n) \/ PutBucketsetNotKept(c, n)
      PROVE  disk' = disk /\ UNCHANGED <<up, epoch>>
  BY <1>1, <1>2 DEF PutBucketsetCreated, PutBucketsetNotKept, Missing
<1>3. ASSUME NEW c \in Conns, NEW n \in Names, PutBucketsetAborts(c, n)
      PROVE  up /\ ~up' /\ epoch' = epoch /\ \E f : disk' \subseteq disk \cup {f}
  <2>1. PICK i \in Missing(n) :
          /\ i = Min(Missing(n))
          /\ \E made \in { { <<n, j>> : j \in 0 .. i - 1 }, { <<n, j>> : j \in 0 .. i } } :
                 disk' = disk \cup made
    BY <1>1, <1>3, SMTT(40) DEF PutBucketsetAborts
  <2>2. Missing(n) \in SUBSET Nat /\ Missing(n) # {} /\ i \in 0 .. BucketSize - 1
    <3>1. BucketSize \in Nat
      BY StoreAssumption
    <3>2. Missing(n) \subseteq 0 .. BucketSize - 1
      BY DEF Missing, Buckets
    <3> QED
      BY <2>1, <3>1, <3>2
  <2>3. \A j \in 0 .. i - 1 : <<n, j>> \in disk
    <3> SUFFICES ASSUME NEW j \in 0 .. i - 1, <<n, j>> \notin disk PROVE FALSE
      OBVIOUS
    <3>1. j \in Missing(n)
      BY <2>2, StoreAssumption DEF Missing, Buckets
    <3>2. i <= j
      BY <2>1, <2>2, <3>1, MinOfNats
    <3> QED
      BY <2>2, <3>2
  <2>4. \A j \in 0 .. i : j \in 0 .. i - 1 \/ j = i
    BY <2>2
  <2>5. disk' \subseteq disk \cup {<<n, i>>}
    BY <2>1, <2>3, <2>4
  <2>6. up /\ ~up' /\ epoch' = epoch
    BY <1>3 DEF PutBucketsetAborts, Dispatched, ProcessLost
  <2> QED
    BY <2>5, <2>6
<1>4. CASE Lost
  <2>1. disk' = disk \/ \E c \in Conns, n \in Names : PutBucketsetAborts(c, n)
    BY <1>4 DEF Lost, Crash, BufferAllocFails, PutObjectUnrouted, PutObjectSwitchFails
  <2>2. ~up' /\ epoch' = epoch
    BY <1>4, LostStep DEF ProcessLost
  <2> QED
    BY <1>3, <2>1, <2>2
<1>5. ASSUME NEW c \in Conns, Quiet(c)
      PROVE  disk' = disk /\ UNCHANGED <<up, epoch>>
  BY <1>5, QuietStep
<1>6. ASSUME NEW c \in Conns, NEW n \in Names, NEW o \in Objects,
             PutObjectRefused(c, n, o) \/ PutObjectStored(c, n, o)
      PROVE  disk' = disk /\ UNCHANGED <<up, epoch>>
  BY <1>6 DEF PutObjectRefused, PutObjectStored
<1>7. CASE Restart
  BY <1>7 DEF Restart
<1>8. CASE UNCHANGED vars
  BY <1>8 DEF vars
<1> QED
  BY <1>2, <1>4, <1>5, <1>6, <1>7, <1>8, NextCases

\* With files of no length, the files are bounded by the starts.
THEOREM FilesInvariant == Spec => []FilesBound
<1>1. Init => FilesBound
  <2> SUFFICES ASSUME Init PROVE FilesBound
    OBVIOUS
  <2>1. disk = {} /\ epoch = 1
    BY DEF Init
  <2> QED
    BY <2>1, FS_EmptySet DEF FilesBound
<1>2. TypeOK /\ FilesBound /\ [Next]_vars => FilesBound'
  <2> SUFFICES ASSUME TypeOK, FilesBound, [Next]_vars, DataLength = 0
               PROVE  /\ IsFiniteSet(disk')
                      /\ Cardinality(disk') <= epoch'
                      /\ up' => Cardinality(disk') <= epoch' - 1
    BY DEF FilesBound
  <2>1. /\ epoch \in Nat /\ IsFiniteSet(disk) /\ Cardinality(disk) \in Nat
        /\ Cardinality(disk) <= epoch
        /\ up => Cardinality(disk) <= epoch - 1
    BY FS_CardinalityType, StoreAssumption DEF TypeOK, FilesBound
  <2>2. CASE disk' = disk /\ (up' => up) /\ epoch' = epoch
    BY <2>1, <2>2
  <2>3. CASE disk' = disk /\ epoch' = epoch + 1
    <3>1. Cardinality(disk) <= epoch + 1 /\ Cardinality(disk) <= epoch + 1 - 1
      BY <2>1
    <3> QED
      BY <2>1, <2>3, <3>1
  <2>4. ASSUME up, ~up', epoch' = epoch, NEW f, disk' \subseteq disk \cup {f}
        PROVE  /\ IsFiniteSet(disk')
               /\ Cardinality(disk') <= epoch
    <3>1. /\ IsFiniteSet(disk')
          /\ Cardinality(disk') \in Nat
          /\ Cardinality(disk') <= Cardinality(disk) + 1
      BY <2>1, <2>4, OneMore
    <3> QED
      BY <2>1, <2>4, <3>1
  <2> QED
    BY <2>2, <2>3, <2>4, FileStep
<1> QED
  BY <1>1, <1>2, TypeCorrect, PTL DEF Spec

\* With files of no length, each life of the process makes at most one file.
COROLLARY OneFileCorrect == Spec => []OneFilePerLife
<1>1. FilesBound => OneFilePerLife
  BY DEF FilesBound, OneFilePerLife
<1> QED
  BY <1>1, FilesInvariant, PTL

\* A set has all its files, and with files of no length it was created when
\* they were all there, so that it opened none.
ClosedSets ==
    DataLength = 0 =>
        \A i \in DOMAIN sets : \A b \in Buckets :
            /\ <<sets[i].name, b>> \in disk
            /\ ~sets[i].buckets[b].open

LEMMA ClosedFrame ==
    ASSUME ClosedSets, disk \subseteq disk',
           \/ sets' = << >>
           \/ sets' = sets
    PROVE  ClosedSets'
<1>1. CASE sets' = << >>
  <2>1. DOMAIN sets' = {}
    BY <1>1
  <2> QED
    BY <2>1 DEF ClosedSets
<1>2. CASE sets' = sets
  BY <1>2 DEF ClosedSets
<1> QED
  BY <1>1, <1>2

\* A put opens no file, whether it is accepted or refused.
LEMMA ClosedPut ==
    ASSUME ClosedSets, TypeOK, NEW c \in Conns, NEW n \in Names, NEW o \in Objects,
           PutObjectRefused(c, n, o) \/ PutObjectStored(c, n, o)
    PROVE  ClosedSets'
<1> DEFINE s == FindSet(n)
           b == Target(o)
           bt == sets[s].buckets[b]
<1>1. Known(n) /\ Target(o) # NoBucket /\ disk' = disk
  BY DEF PutObjectRefused, PutObjectStored
<1>2. s \in DOMAIN sets /\ b \in Buckets /\ bt \in Bucket
  BY <1>1, PutObjectSetType
<1>3. \E nb \in Bucket : BucketBecomes(s, b, nb) /\ nb.open = bt.open
  <2>1. CASE PutObjectRefused(c, n, o)
    <3>1. BucketBecomes(s, b, Refuse(bt))
      BY <2>1 DEF PutObjectRefused, BucketBecomes
    <3> QED
      BY <1>2, <3>1, RefuseType
  <2>2. CASE PutObjectStored(c, n, o)
    <3>1. BucketBecomes(s, b, Accept(bt, c, o)) /\ SignedLen(o) > 0
      BY <2>2 DEF PutObjectStored, BucketBecomes
    <3> QED
      BY <1>2, <3>1, AcceptType
  <2> QED
    BY <2>1, <2>2
<1>4. PICK nb \in Bucket : BucketBecomes(s, b, nb) /\ nb.open = bt.open
  BY <1>3
<1> HIDE DEF s, b, bt
<1>5. /\ DOMAIN sets' = DOMAIN sets
      /\ \A j \in DOMAIN sets :
            /\ sets'[j].name = sets[j].name
            /\ \A d \in Buckets : sets'[j].buckets[d] =
                  IF j = s /\ d = b THEN nb ELSE sets[j].buckets[d]
  BY <1>2, <1>4, BucketUpdate DEF TypeOK
<1>6. \A j \in DOMAIN sets : \A d \in Buckets :
          sets'[j].buckets[d].open = sets[j].buckets[d].open
  BY <1>4, <1>5 DEF bt
<1> QED
  BY <1>1, <1>5, <1>6 DEF ClosedSets

LEMMA ClosedCreated ==
    ASSUME ClosedSets, TypeOK, NEW c \in Conns, NEW n \in Names,
           PutBucketsetCreated(c, n)
    PROVE  ClosedSets'
<1> SUFFICES ASSUME DataLength = 0 PROVE ClosedSets'
  BY DEF ClosedSets
<1> DEFINE new == bucketset_create(n)
           L == Len(sets) + 1
<1>1. sets' = Append(sets, new) /\ disk \subseteq disk' /\ Missing(n) = {}
  BY DEF PutBucketsetCreated, CanAllocate
<1>2. new \in Bucketset /\ new.name = n
  BY CreateType DEF bucketset_create
<1>3. \A b \in Buckets : <<n, b>> \in disk /\ ~ new.buckets[b].open
  BY <1>1 DEF Missing, bucketset_create, bucket_create
<1> HIDE DEF new
<1>4. /\ DOMAIN sets = 1 .. Len(sets) /\ Len(sets) \in Nat
      /\ DOMAIN sets' = 1 .. L
      /\ \A j \in DOMAIN sets : sets'[j] = sets[j]
      /\ sets'[L] = new
      /\ \A j \in DOMAIN sets' : j \in DOMAIN sets \/ j = L
  BY <1>1, <1>2, LenProperties, AppendProperties DEF TypeOK
<1> HIDE DEF L
<1>5. ASSUME NEW j \in DOMAIN sets', NEW b \in Buckets
      PROVE  <<sets'[j].name, b>> \in disk' /\ ~ sets'[j].buckets[b].open
  <2>1. CASE j \in DOMAIN sets
    BY <1>1, <1>4, <2>1 DEF ClosedSets
  <2>2. CASE j = L
    BY <1>1, <1>2, <1>3, <1>4, <2>2
  <2> QED
    BY <1>4, <2>1, <2>2
<1> QED
  BY <1>5 DEF ClosedSets

THEOREM ClosedInvariant == Spec => []ClosedSets
<1>1. Init => ClosedSets
  <2> SUFFICES ASSUME Init PROVE ClosedSets
    OBVIOUS
  <2>1. DOMAIN sets = {}
    BY DEF Init
  <2> QED
    BY <2>1 DEF ClosedSets
<1>2. TypeOK /\ ClosedSets /\ [Next]_vars => ClosedSets'
  <2> SUFFICES ASSUME TypeOK, ClosedSets, [Next]_vars PROVE ClosedSets'
    OBVIOUS
  <2>1. CASE Lost
    BY <2>1, LostStep, ClosedFrame DEF ProcessLost
  <2>2. CASE Restart \/ UNCHANGED vars
    BY <2>2, ClosedFrame DEF Restart, vars
  <2>3. ASSUME NEW c \in Conns, Quiet(c)
        PROVE  ClosedSets'
    BY <2>3, QuietStep, ClosedFrame
  <2>4. ASSUME NEW c \in Conns, NEW n \in Names, PutBucketsetNotKept(c, n)
        PROVE  ClosedSets'
    <3>1. sets' = sets /\ disk \subseteq disk'
      BY <2>4 DEF PutBucketsetNotKept
    <3> QED
      BY <3>1, ClosedFrame
  <2>5. ASSUME NEW c \in Conns, NEW n \in Names, NEW o \in Objects,
               PutObjectRefused(c, n, o) \/ PutObjectStored(c, n, o)
        PROVE  ClosedSets'
    BY <2>5, ClosedPut
  <2> QED
    BY <2>1, <2>2, <2>3, <2>4, <2>5, ClosedCreated, NextCases
<1> QED
  BY <1>1, <1>2, TypeCorrect, PTL DEF Spec

\* A set takes as many starts as it has files.
LEMMA ClosedCount ==
    ASSUME TypeOK, FilesBound, ClosedSets
    PROVE  SetTakesStarts
<1> SUFFICES ASSUME DataLength = 0, NEW i \in DOMAIN sets
             PROVE  epoch > BucketSize /\ \A b \in Buckets : ~sets[i].buckets[b].open
  BY DEF SetTakesStarts
<1> DEFINE files == {sets[i].name} \X Buckets
<1>1. files \subseteq disk /\ IsFiniteSet(disk)
  BY DEF ClosedSets, FilesBound
<1>2. IsFiniteSet(Buckets) /\ Cardinality(Buckets) = BucketSize /\ BucketSize \in Nat
  <2>1. BucketSize \in Nat
    BY StoreAssumption
  <2>2. /\ IsFiniteSet(0 .. BucketSize - 1)
        /\ Cardinality(0 .. BucketSize - 1) =
              IF 0 > BucketSize - 1 THEN 0 ELSE (BucketSize - 1) - 0 + 1
    BY <2>1, FS_Interval
  <2> QED
    BY <2>1, <2>2 DEF Buckets
<1>3. IsFiniteSet({sets[i].name}) /\ Cardinality({sets[i].name}) = 1
  BY FS_Singleton
<1>4. Cardinality(files) = Cardinality({sets[i].name}) * Cardinality(Buckets)
  BY <1>2, <1>3, FS_Product
<1>5. Cardinality(files) = BucketSize
  BY <1>2, <1>3, <1>4
<1>6. Cardinality(files) <= Cardinality(disk) /\ Cardinality(disk) \in Nat
  <2> HIDE DEF files
  <2> QED
    BY <1>1, FS_Subset, FS_CardinalityType
<1>7. up
  <2>1. sets # << >>
    <3>1. sets = << >> => DOMAIN sets = {}
      OBVIOUS
    <3> QED
      BY <3>1
  <2> QED
    BY <2>1 DEF TypeOK
<1>8. epoch \in Nat /\ Cardinality(disk) <= epoch - 1
  BY <1>7, StoreAssumption DEF TypeOK, FilesBound
<1> HIDE DEF files
<1>9. epoch > BucketSize
  BY <1>2, <1>5, <1>6, <1>8
<1> QED
  BY <1>9 DEF ClosedSets

THEOREM SetTakesStartsCorrect == Spec => []SetTakesStarts
BY ClosedCount, TypeCorrect, FilesInvariant, ClosedInvariant, PTL

-----------------------------------------------------------------------------
(* The offset of a bucket is the room that its objects take, and what that *)
(* makes of objects in one data file.                                      *)

EntrySize(e) == e.size
Sizes == INSTANCE SetSums WITH weight <- EntrySize

\* What the entries of a history H say of one bucket in one life, and their room.
AcceptsIn(H, s, b, life) == { e \in H : e.set = s /\ e.bucket = b /\ e.epoch = life }

RoomIn(H, s, b, life) == Sizes!Sum(AcceptsIn(H, s, b, life))

LEMMA RoomInStored ==
    ASSUME NEW s, NEW b, NEW life
    PROVE  RoomIn(stored, s, b, life) = Room(s, b, life)
BY DEF RoomIn, AcceptsIn, Accepts, Room, Sizes!Sum, EntrySize, MapThenSumSet,
       MapThenFoldSet, Sizes!MapThenSumSet, Sizes!MapThenFoldSet

\* An object ends within the room accepted so far, and beside every other of
\* its data file, until that room is more than an offset counts.
Fits(H, e) ==
    \/ e.off + e.size <= RoomIn(H, e.set, e.bucket, e.epoch)
    \/ RoomIn(H, e.set, e.bucket, e.epoch) > OffsetValues

Apart(H, e, f) ==
    e # f /\ e.open /\ f.open /\ e.set = f.set /\ e.bucket = f.bucket
        => Disjoint(e, f) \/ RoomIn(H, e.set, e.bucket, e.epoch) > OffsetValues

\* A connection is answered once, so the history is finite and no entry is
\* accepted twice.
SpaceInv ==
    /\ IsFiniteSet(stored)
    /\ \A e \in stored : e.size > 0 /\ conn[e.conn] = "closed" /\ Fits(stored, e)
    /\ \A i \in DOMAIN sets : \A b \in Buckets :
          sets[i].buckets[b].current_offset =
              RoomIn(stored, sets[i].name, b, epoch) % OffsetValues
    /\ \A e, f \in stored : Apart(stored, e, f)

LEMMA SizesAreSpace == SpaceInv => SpaceAccounted /\ NoOverlapInFile
BY RoomInStored DEF SpaceInv, SpaceAccounted, NoOverlapInFile, Apart

\* A history as far as its room goes.
Sized(H) ==
    IsFiniteSet(H) /\ \A e \in H : e.off \in Nat /\ e.size \in Nat

LEMMA SizedStored ==
    ASSUME SpaceInv, TypeOK
    PROVE  Sized(stored)
BY StoreAssumption DEF Sized, SpaceInv, TypeOK, Entry, Offsets

\* The room of nothing, and of one object more.
LEMMA RoomOfNone ==
    ASSUME NEW H, NEW s, NEW b, NEW life, AcceptsIn(H, s, b, life) = {}
    PROVE  RoomIn(H, s, b, life) = 0
BY Sizes!SumOfNone DEF RoomIn

LEMMA RoomType ==
    ASSUME NEW H, Sized(H), NEW s, NEW b, NEW life
    PROVE  RoomIn(H, s, b, life) \in Nat
<1> DEFINE S == AcceptsIn(H, s, b, life)
<1>1. S \in SUBSET H
  BY DEF AcceptsIn
<1>2. IsFiniteSet(S) /\ \A e \in S : e.size \in Nat
  BY <1>1, FS_Subset DEF Sized
<1> HIDE DEF S
<1>3. Sizes!IsFiniteSet(S) /\ \A e \in S : EntrySize(e) \in Nat
  BY <1>2 DEF IsFiniteSet, Sizes!IsFiniteSet, EntrySize
<1>4. Sizes!Sum(S) \in Nat
  BY <1>3, Sizes!SumOfNaturals
<1> QED
  BY <1>4 DEF RoomIn, S

LEMMA RoomGrows ==
    ASSUME NEW H, Sized(H), NEW x, x \notin H, x.size \in Nat,
           NEW G, G = H \cup {x}, NEW s, NEW b, NEW life
    PROVE  /\ x.set = s /\ x.bucket = b /\ x.epoch = life
                  => RoomIn(G, s, b, life) = RoomIn(H, s, b, life) + x.size
           /\ ~(x.set = s /\ x.bucket = b /\ x.epoch = life)
                  => RoomIn(G, s, b, life) = RoomIn(H, s, b, life)
<1> DEFINE S == AcceptsIn(H, s, b, life)
<1>1. S \in SUBSET H /\ x \notin S
  BY DEF AcceptsIn
<1>2. IsFiniteSet(S) /\ \A e \in S : e.size \in Nat
  BY <1>1, FS_Subset DEF Sized
<1>3. AcceptsIn(G, s, b, life) =
          IF x.set = s /\ x.bucket = b /\ x.epoch = life THEN S \cup {x} ELSE S
  BY DEF AcceptsIn
<1> HIDE DEF S
<1>4. Sizes!Sum(S \cup {x}) = Sizes!Sum(S) + x.size
  <2>1. /\ Sizes!IsFiniteSet(S) /\ EntrySize(x) \in Int
        /\ \A y \in S : EntrySize(y) \in Int
    BY <1>2 DEF IsFiniteSet, Sizes!IsFiniteSet, EntrySize
  <2>2. Sizes!Sum(S \cup {x}) = Sizes!Sum(S) + EntrySize(x)
    BY <1>1, <2>1, Sizes!SumAdds
  <2> QED
    BY <2>2 DEF EntrySize
<1>5. RoomIn(H, s, b, life) = Sizes!Sum(S)
  BY DEF RoomIn, S
<1> QED
  BY <1>3, <1>4, <1>5 DEF RoomIn

\* An object that starts where the room of its bucket ends, modulo 2^64, fits
\* in the room with it, beside every earlier one of its data file.
LEMMA EntryAdded ==
    ASSUME NEW H, Sized(H),
           \A e \in H : Fits(H, e),
           \A e, f \in H : Apart(H, e, f),
           NEW x, x \notin H, x.size \in Nat, x.size > 0,
           x.off = RoomIn(H, x.set, x.bucket, x.epoch) % OffsetValues,
           \A e \in H : e.set = x.set /\ e.bucket = x.bucket /\ e.open /\ x.open
                           => e.epoch = x.epoch
    PROVE  /\ \A e \in H \cup {x} : Fits(H \cup {x}, e)
           /\ \A e, f \in H \cup {x} : Apart(H \cup {x}, e, f)
<1> DEFINE G == H \cup {x}
           t == RoomIn(H, x.set, x.bucket, x.epoch)
<1>1. OffsetValues \in Nat \ {0} /\ t \in Nat
  BY RoomType, StoreAssumption
<1>2. \A s, b, life : /\ RoomIn(H, s, b, life) \in Nat /\ RoomIn(G, s, b, life) \in Nat
                      /\ RoomIn(H, s, b, life) <= RoomIn(G, s, b, life)
  <2> SUFFICES ASSUME NEW s, NEW b, NEW life
               PROVE  /\ RoomIn(H, s, b, life) \in Nat /\ RoomIn(G, s, b, life) \in Nat
                      /\ RoomIn(H, s, b, life) <= RoomIn(G, s, b, life)
    OBVIOUS
  <2>1. RoomIn(H, s, b, life) \in Nat
    BY RoomType
  <2>2. \/ RoomIn(G, s, b, life) = RoomIn(H, s, b, life) + x.size
        \/ RoomIn(G, s, b, life) = RoomIn(H, s, b, life)
    BY RoomGrows
  <2> HIDE DEF G
  <2> QED
    BY <2>1, <2>2
<1>3. RoomIn(G, x.set, x.bucket, x.epoch) = t + x.size
  BY RoomGrows
<1>4. x.off \in Nat /\ x.off <= t /\ (t < OffsetValues => x.off = t)
  <2>1. x.off = t % OffsetValues
    OBVIOUS
  <2> HIDE DEF t
  <2>2. /\ t % OffsetValues \in 0 .. OffsetValues - 1 /\ t % OffsetValues <= t
        /\ t < OffsetValues => t % OffsetValues = t
    BY <1>1, Wrapping
  <2> QED
    BY <2>1, <2>2
<1>5. \A e \in H : e.off \in Nat /\ e.size \in Nat
  BY DEF Sized
<1> HIDE DEF G, t
<1>6. Fits(G, x)
  <2>1. x.off + x.size <= t + x.size
    BY <1>1, <1>4
  <2> QED
    BY <1>3, <2>1 DEF Fits
<1>7. ASSUME NEW e \in H
      PROVE  Fits(G, e)
  <2> DEFINE old == RoomIn(H, e.set, e.bucket, e.epoch)
             new == RoomIn(G, e.set, e.bucket, e.epoch)
  <2>1. old \in Nat /\ new \in Nat /\ old <= new
    BY <1>2
  <2>2. e.off + e.size <= old \/ old > OffsetValues
    BY DEF Fits
  <2> HIDE DEF old, new
  <2>3. e.off + e.size <= new \/ new > OffsetValues
    BY <1>1, <1>5, <2>1, <2>2
  <2> QED
    BY <2>3 DEF Fits, new
<1>8. ASSUME NEW e \in H, NEW f \in H
      PROVE  Apart(G, e, f)
  <2> DEFINE old == RoomIn(H, e.set, e.bucket, e.epoch)
             new == RoomIn(G, e.set, e.bucket, e.epoch)
  <2>1. old \in Nat /\ new \in Nat /\ old <= new
    BY <1>2
  <2> HIDE DEF old, new
  <2>2. old > OffsetValues => new > OffsetValues
    BY <1>1, <2>1
  <2> QED
    BY <2>2 DEF Apart, old, new
<1>9. ASSUME NEW e \in H
      PROVE  Apart(G, e, x) /\ Apart(G, x, e)
  <2> DEFINE together == e.open /\ x.open /\ e.set = x.set /\ e.bucket = x.bucket
  <2>a. together => e.epoch = x.epoch
    OBVIOUS
  <2>b. together => RoomIn(G, e.set, e.bucket, e.epoch) = t + x.size
    BY <1>3, <2>a
  <2> SUFFICES ASSUME together
               PROVE  (Disjoint(e, x) /\ Disjoint(x, e)) \/ t + x.size > OffsetValues
    BY <1>3, <2>b DEF Apart
  <2>1. e.epoch = x.epoch
    BY <2>a
  <2>2. e.off + e.size <= t \/ t > OffsetValues
    BY <2>1 DEF Fits, t
  <2>3. CASE t + x.size <= OffsetValues
    <3>1. t < OffsetValues /\ x.off = t
      BY <1>1, <1>4, <2>3
    <3>2. e.off + e.size <= x.off
      BY <1>1, <2>2, <3>1
    <3> QED
      BY <3>2 DEF Disjoint
  <2>4. CASE ~(t + x.size <= OffsetValues)
    BY <1>1, <2>4
  <2> QED
    BY <2>3, <2>4
<1>10. Apart(G, x, x)
  BY DEF Apart
<1> QED
  BY <1>6, <1>7, <1>8, <1>9, <1>10 DEF G

\* A connection that is closed stays closed.
LEMMA ClosedStays ==
    ASSUME TypeOK, [Next]_vars, NEW d \in Conns, conn[d] = "closed"
    PROVE  conn'[d] = "closed"
<1>0. conn \in [Conns -> {"new", "watched", "closed"}]
  BY DEF TypeOK
<1>1. ASSUME NEW c \in Conns, NEW type, NEW name, NEW ret, Reply(c, type, name, ret)
      PROVE  conn'[d] = "closed"
  BY <1>0, <1>1 DEF Reply
<1>2. CASE Lost
  BY <1>0, <1>2, LostStep DEF ProcessLost
<1>3. CASE Restart \/ UNCHANGED vars
  BY <1>3 DEF Restart, vars
<1>4. ASSUME NEW c \in Conns, Quiet(c)
      PROVE  conn'[d] = "closed"
  <2>1. CASE Accepted(c) \/ ReadRejected(c) \/ ReadError(c)
    BY <1>0, <2>1 DEF Accepted, ReadRejected, ReadError
  <2>2. CASE OtherRequest(c)
    BY <1>1, <2>2 DEF OtherRequest
  <2>3. ASSUME NEW n \in Names, PutObjectUnknownSet(c, n) \/ PutBucketsetExists(c, n)
        PROVE  conn'[d] = "closed"
    BY <1>1, <2>3 DEF PutObjectUnknownSet, PutBucketsetExists
  <2> QED
    BY <1>4, <2>1, <2>2, <2>3 DEF Quiet
<1>5. ASSUME NEW c \in Conns, NEW n \in Names,
             PutBucketsetNotKept(c, n) \/ PutBucketsetCreated(c, n)
      PROVE  conn'[d] = "closed"
  BY <1>1, <1>5 DEF PutBucketsetNotKept, PutBucketsetCreated
<1>6. ASSUME NEW c \in Conns, NEW n \in Names, NEW o \in Objects,
             PutObjectRefused(c, n, o) \/ PutObjectStored(c, n, o)
      PROVE  conn'[d] = "closed"
  BY <1>1, <1>6 DEF PutObjectRefused, PutObjectStored
<1> QED
  BY <1>2, <1>3, <1>4, <1>5, <1>6, NextCases

\* Steps that add nothing to the history keep what is said of it.
LEMMA SpaceHistory ==
    ASSUME SpaceInv, TypeOK, [Next]_vars, stored' = stored
    PROVE  /\ IsFiniteSet(stored')
           /\ \A e \in stored' : e.size > 0 /\ conn'[e.conn] = "closed" /\ Fits(stored', e)
           /\ \A e, f \in stored' : Apart(stored', e, f)
<1>1. ASSUME NEW e \in stored
      PROVE  conn'[e.conn] = "closed"
  <2>1. e.conn \in Conns
    BY DEF TypeOK, Entry
  <2> QED
    BY <2>1, ClosedStays DEF SpaceInv
<1> QED
  BY <1>1 DEF SpaceInv

\* A put that is refused moves no offset.
LEMMA SpaceRefused ==
    ASSUME SpaceInv, TypeOK, NEW c \in Conns, NEW n \in Names, NEW o \in Objects,
           PutObjectRefused(c, n, o), [Next]_vars
    PROVE  SpaceInv'
<1> DEFINE s == FindSet(n)
           b == Target(o)
           bt == sets[s].buckets[b]
           nb == Refuse(bt)
<1>1. Known(n) /\ Target(o) # NoBucket /\ UNCHANGED <<epoch, stored>>
  BY DEF PutObjectRefused
<1>2. BucketBecomes(s, b, nb)
  BY DEF PutObjectRefused, BucketBecomes
<1>3. s \in DOMAIN sets /\ b \in Buckets /\ bt \in Bucket
  BY <1>1, PutObjectSetType
<1>4. nb \in Bucket /\ nb.current_offset = bt.current_offset
  BY <1>3, RefuseType
<1> HIDE DEF s, b, bt, nb
<1>5. /\ DOMAIN sets' = DOMAIN sets
      /\ \A j \in DOMAIN sets :
            /\ sets'[j].name = sets[j].name
            /\ \A d \in Buckets : sets'[j].buckets[d] =
                  IF j = s /\ d = b THEN nb ELSE sets[j].buckets[d]
  BY <1>2, <1>3, <1>4, BucketUpdate DEF TypeOK
<1>6. \A j \in DOMAIN sets : \A d \in Buckets :
          sets'[j].buckets[d].current_offset = sets[j].buckets[d].current_offset
  BY <1>4, <1>5 DEF bt
<1> QED
  BY <1>1, <1>5, <1>6, SpaceHistory DEF SpaceInv

\* An accepted object adds its size to the offset and to the room.
LEMMA SpaceStored ==
    ASSUME SpaceInv, StorageInv, TypeOK, NEW c \in Conns, NEW n \in Names,
           NEW o \in Objects, PutObjectStored(c, n, o)
    PROVE  SpaceInv'
<1> DEFINE s == FindSet(n)
           b == Target(o)
           bt == sets[s].buckets[b]
           nb == Accept(bt, c, o)
           size == SizeOf(o)
           x == [conn |-> c, req |-> n, set |-> sets[s].name, hash |-> o.hash,
                 bucket |-> b, epoch |-> epoch, open |-> bt.open,
                 off |-> bt.current_offset, size |-> size]
<1>1. /\ Known(n) /\ Target(o) # NoBucket /\ SignedLen(o) > 0 /\ epoch' = epoch
      /\ conn[c] = "watched" /\ conn' = [conn EXCEPT ![c] = "closed"]
  BY DEF PutObjectStored, Dispatched, Reply
<1>2. BucketBecomes(s, b, nb) /\ stored' = stored \cup {x}
  BY DEF PutObjectStored, BucketBecomes
<1>3. s \in DOMAIN sets /\ b \in Buckets /\ bt \in Bucket
  BY <1>1, PutObjectSetType
<1>4. /\ size \in Nat /\ size > 0 /\ nb \in Bucket
      /\ nb.current_offset = (bt.current_offset + size) % OffsetValues
  BY <1>1, <1>3, AcceptType, AcceptedSize, StoreAssumption DEF Offsets
<1>7. /\ x.set = sets[s].name /\ x.bucket = b /\ x.epoch = epoch /\ x.conn = c
      /\ x.open = bt.open /\ x.off = bt.current_offset /\ x.size = size
  OBVIOUS
<1> HIDE DEF s, b, bt, nb, size, x
<1>8. /\ DOMAIN sets' = DOMAIN sets
      /\ \A j \in DOMAIN sets :
            /\ sets'[j].name = sets[j].name
            /\ \A d \in Buckets : sets'[j].buckets[d] =
                  IF j = s /\ d = b THEN nb ELSE sets[j].buckets[d]
  BY <1>2, <1>3, <1>4, BucketUpdate DEF TypeOK
<1>9. \A e \in stored : e.conn \in Conns /\ e.size > 0 /\ conn[e.conn] = "closed"
  BY DEF TypeOK, Entry, SpaceInv
<1>10. x \notin stored /\ Sized(stored)
  BY <1>1, <1>7, <1>9, SizedStored
<1>11. IsFiniteSet(stored') /\ \A e \in stored' : e.size > 0 /\ conn'[e.conn] = "closed"
  <2>1. conn'[c] = "closed" /\ \A d \in Conns : conn[d] = "closed" => conn'[d] = "closed"
    BY <1>1 DEF TypeOK
  <2>2. IsFiniteSet(stored')
    BY <1>2, FS_AddElement DEF SpaceInv
  <2> QED
    BY <1>2, <1>4, <1>7, <1>9, <2>1, <2>2
<1>12. /\ \A e \in stored' : Fits(stored', e)
       /\ \A e, f \in stored' : Apart(stored', e, f)
  <2>1. x.off = RoomIn(stored, x.set, x.bucket, x.epoch) % OffsetValues
    BY <1>3, <1>7 DEF SpaceInv, bt
  <2>2. \A e \in stored : e.set = x.set /\ e.bucket = x.bucket /\ e.open /\ x.open
                             => e.epoch = x.epoch
    BY <1>3, <1>7 DEF StorageInv, OpenFilesAreFresh, bt
  <2>3. x.size \in Nat /\ x.size > 0
    BY <1>4, <1>7
  <2>4. /\ \A e \in stored : Fits(stored, e)
        /\ \A e, f \in stored : Apart(stored, e, f)
    BY DEF SpaceInv
  <2> QED
    BY <1>2, <1>10, <2>1, <2>2, <2>3, <2>4, EntryAdded
<1>13. ASSUME NEW i \in DOMAIN sets, NEW d \in Buckets
       PROVE  sets'[i].buckets[d].current_offset =
                RoomIn(stored', sets[i].name, d, epoch) % OffsetValues
  <2> DEFINE room == RoomIn(stored, sets[i].name, d, epoch)
  <2>1. /\ room \in Nat /\ OffsetValues \in Nat \ {0}
        /\ sets[i].buckets[d].current_offset = room % OffsetValues
    BY <1>10, RoomType, StoreAssumption DEF SpaceInv
  <2>2. /\ x.set = sets[i].name /\ b = d
                => RoomIn(stored', sets[i].name, d, epoch) = room + size
        /\ ~(x.set = sets[i].name /\ b = d)
                => RoomIn(stored', sets[i].name, d, epoch) = room
    <3>1. x.size \in Nat
      BY <1>4, <1>7
    <3> DEFINE G == stored'
    <3>2. G = stored \cup {x}
      BY <1>2
    <3> HIDE DEF G
    <3>3. /\ x.set = sets[i].name /\ x.bucket = d /\ x.epoch = epoch
                 => RoomIn(G, sets[i].name, d, epoch) = room + x.size
          /\ ~(x.set = sets[i].name /\ x.bucket = d /\ x.epoch = epoch)
                 => RoomIn(G, sets[i].name, d, epoch) = room
      BY <1>10, <3>1, <3>2, RoomGrows
    <3> QED
      BY <1>7, <3>3 DEF G
  <2> HIDE DEF room
  <2>3. x.set = sets[i].name <=> i = s
    <3>1. FindSet(sets[i].name) = i /\ FindSet(sets[s].name) = s
      BY <1>3 DEF StorageInv, LookupExact
    <3> QED
      BY <1>7, <3>1
  <2>4. CASE i = s /\ d = b
    <3>1. sets'[i].buckets[d].current_offset = ((room % OffsetValues) + size) % OffsetValues
      BY <1>4, <1>8, <2>1, <2>4 DEF bt
    <3>2. ((room % OffsetValues) + size) % OffsetValues = (room + size) % OffsetValues
      BY <1>4, <2>1, Wrapping
    <3> QED
      BY <2>2, <2>3, <2>4, <3>1, <3>2
  <2>5. CASE ~(i = s /\ d = b)
    BY <1>8, <2>1, <2>2, <2>3, <2>5
  <2> QED
    BY <2>4, <2>5
<1>14. \A i \in DOMAIN sets' : \A d \in Buckets :
          sets'[i].buckets[d].current_offset =
              RoomIn(stored', sets'[i].name, d, epoch') % OffsetValues
  BY <1>1, <1>8, <1>13
<1> QED
  BY <1>11, <1>12, <1>14 DEF SpaceInv

\* A new set starts at offset 0 in every bucket, and nothing was stored under
\* its name in this life.
LEMMA SpaceCreated ==
    ASSUME SpaceInv, StorageInv, TypeOK, NEW c \in Conns, NEW n \in Names,
           PutBucketsetCreated(c, n), [Next]_vars
    PROVE  SpaceInv'
<1> DEFINE L == Len(sets) + 1
<1>1. /\ up /\ ~ Known(n)
      /\ sets' = Append(sets, bucketset_create(n))
      /\ UNCHANGED <<epoch, stored>>
  BY DEF PutBucketsetCreated, Dispatched
<1>2. /\ bucketset_create(n) \in Bucketset
      /\ bucketset_create(n).name = n
      /\ \A d \in Buckets : bucketset_create(n).buckets[d].current_offset = 0
  BY CreateType DEF bucketset_create, bucket_create
<1>3. /\ DOMAIN sets = 1 .. Len(sets) /\ Len(sets) \in Nat
      /\ DOMAIN sets' = 1 .. L
      /\ \A j \in DOMAIN sets : sets'[j] = sets[j]
      /\ sets'[L] = bucketset_create(n)
      /\ \A j \in DOMAIN sets' : j \in DOMAIN sets \/ j = L
  BY <1>1, <1>2, LenProperties, AppendProperties DEF TypeOK
<1>4. ASSUME NEW e \in stored, e.epoch = epoch
      PROVE  e.set # n
  <2>1. Known(e.req) /\ sets[FindSet(e.req)].name = e.set
    BY <1>1, <1>4 DEF StorageInv, Retrievable
  <2>2. FindSet(e.req) \in DOMAIN sets /\ FindSet(e.req) # 0
    BY <2>1, FindSetProperties DEF TypeOK, Known
  <2>3. Known(e.set)
    BY <2>1, <2>2 DEF StorageInv, LookupExact, Known
  <2> QED
    BY <1>1, <2>3
<1> HIDE DEF L
<1>5. \A d \in Buckets : RoomIn(stored, n, d, epoch) % OffsetValues = 0
  <2> SUFFICES ASSUME NEW d \in Buckets
               PROVE  RoomIn(stored, n, d, epoch) % OffsetValues = 0
    OBVIOUS
  <2>1. AcceptsIn(stored, n, d, epoch) = {}
    BY <1>4 DEF AcceptsIn
  <2>2. RoomIn(stored, n, d, epoch) = 0
    BY <2>1, RoomOfNone
  <2>3. 0 % OffsetValues = 0
    BY StoreAssumption, Wrapping
  <2> QED
    BY <2>2, <2>3
<1>6. ASSUME NEW j \in DOMAIN sets', NEW d \in Buckets
      PROVE  sets'[j].buckets[d].current_offset =
               RoomIn(stored, sets'[j].name, d, epoch) % OffsetValues
  <2>1. CASE j \in DOMAIN sets
    BY <1>3, <2>1 DEF SpaceInv
  <2>2. CASE j = L
    BY <1>2, <1>3, <1>5, <2>2
  <2> QED
    BY <1>3, <2>1, <2>2
<1> QED
  BY <1>1, <1>6, SpaceHistory DEF SpaceInv

\* The inductive invariant of the space in the data files.
THEOREM SpaceInvariant == Spec => []SpaceInv
<1>1. Init => SpaceInv
  <2> SUFFICES ASSUME Init PROVE SpaceInv
    OBVIOUS
  <2>1. DOMAIN sets = {} /\ stored = {}
    BY DEF Init
  <2> QED
    BY <2>1, FS_EmptySet DEF SpaceInv
<1>2. TypeOK /\ StorageInv /\ SpaceInv /\ [Next]_vars => SpaceInv'
  <2> SUFFICES ASSUME TypeOK, StorageInv, SpaceInv, [Next]_vars PROVE SpaceInv'
    OBVIOUS
  <2>1. CASE sets' = << >> /\ stored' = stored
    <3>1. DOMAIN sets' = {}
      BY <2>1
    <3> QED
      BY <2>1, <3>1, SpaceHistory DEF SpaceInv
  <2>2. CASE UNCHANGED <<epoch, sets, stored>>
    BY <2>2, SpaceHistory DEF SpaceInv
  <2>3. CASE Lost
    BY <2>1, <2>3, LostStep DEF ProcessLost
  <2>4. CASE Restart
    <3>1. sets' = << >> /\ stored' = stored
      BY <2>4 DEF Restart, TypeOK
    <3> QED
      BY <2>1, <3>1
  <2>5. ASSUME NEW c \in Conns, Quiet(c)
        PROVE  SpaceInv'
    BY <2>2, <2>5, QuietStep
  <2>6. ASSUME NEW c \in Conns, NEW n \in Names, PutBucketsetNotKept(c, n)
        PROVE  SpaceInv'
    BY <2>2, <2>6 DEF PutBucketsetNotKept
  <2>7. ASSUME NEW c \in Conns, NEW n \in Names, PutBucketsetCreated(c, n)
        PROVE  SpaceInv'
    BY <2>7, SpaceCreated
  <2>8. ASSUME NEW c \in Conns, NEW n \in Names, NEW o \in Objects,
               PutObjectRefused(c, n, o)
        PROVE  SpaceInv'
    BY <2>8, SpaceRefused
  <2>9. ASSUME NEW c \in Conns, NEW n \in Names, NEW o \in Objects,
               PutObjectStored(c, n, o)
        PROVE  SpaceInv'
    BY <2>9, SpaceStored
  <2>10. CASE UNCHANGED vars
    BY <2>2, <2>10 DEF vars
  <2> QED
    BY <2>3, <2>4, <2>5, <2>6, <2>7, <2>8, <2>9, <2>10, NextCases
<1> QED
  BY <1>1, <1>2, TypeCorrect, StorageCorrect, PTL DEF Spec

\* The offset of a bucket is, modulo 2^64, the sum of the sizes of what it has
\* accepted in this life: bucket_put leaves no gap and counts nothing twice.
COROLLARY SpaceCorrect == Spec => []SpaceAccounted
BY SpaceInvariant, SizesAreSpace, PTL

\* No two objects overlap in a data file, across any number of restarts, until
\* what its bucket has accepted is more than an offset can count.
COROLLARY NoOverlapCorrect == Spec => []NoOverlapInFile
BY SpaceInvariant, SizesAreSpace, PTL

-----------------------------------------------------------------------------
(* The registry implements the directory of names.                         *)

\* With no sets, no name resolves.
LEMMA OwnerOfEmpty ==
    ASSUME sets = << >>
    PROVE  Owner = [n \in Names |-> None]
<1>1. DOMAIN sets = {}
  OBVIOUS
<1>2. \A n : ~ Known(n)
  BY <1>1 DEF Known, FindSet, Matches
<1> QED
  BY <1>2 DEF Owner

\* Names and lookups that do not change leave the directory as it is.
LEMMA OwnerSameNames ==
    ASSUME sets \in Seq(Bucketset),
           DOMAIN sets' = DOMAIN sets,
           \A j \in DOMAIN sets : sets'[j].name = sets[j].name
    PROVE  Owner' = Owner
<1>1. \A n : FindSet(n)' = FindSet(n) /\ Known(n)' = Known(n)
  BY LookupSameNames
<1>2. ASSUME NEW n \in Names, Known(n)
      PROVE  sets'[FindSet(n)'].name = sets[FindSet(n)].name
  BY <1>1, <1>2, FindSetProperties
<1> QED
  BY <1>1, <1>2 DEF Owner

LEMMA CreateStep ==
    ASSUME TypeOK, NEW c \in Conns, NEW m \in Names, PutBucketsetCreated(c, m)
    PROVE  Directory!Create(m)
<1> DEFINE s == bucketset_create(m)
           L == Len(sets) + 1
<1>1. ~ Known(m) /\ sets' = Append(sets, s) /\ sets \in Seq(Bucketset)
  BY DEF PutBucketsetCreated, TypeOK
<1>2. s \in Bucketset /\ s.name = m
  BY CreateType DEF bucketset_create
<1> HIDE DEF s
<1>3. /\ \A j \in DOMAIN sets : sets'[j] = sets[j]
      /\ sets'[L] = s /\ L # 0
  BY <1>1, <1>2, LenProperties, AppendProperties
<1> HIDE DEF L
<1>4. ASSUME NEW n \in Names
      PROVE  Owner'[n] = IF Owner[n] = None /\ <<m, n>> \in PrefixOf THEN m ELSE Owner[n]
  <2>1. /\ Known(n) => FindSet(n)' = FindSet(n)
        /\ ~ Known(n) /\ NameMatches(s, n) => FindSet(n)' = L
        /\ ~ Known(n) /\ ~ NameMatches(s, n) => FindSet(n)' = 0
    BY <1>1, <1>2, LookupAfterAppend DEF L
  <2>2. CASE Known(n)
    <3>1. FindSet(n) \in DOMAIN sets /\ Known(n)'
      BY <1>1, <2>1, <2>2, FindSetProperties DEF Known
    <3>2. sets[FindSet(n)].name \in Names
      <4>1. sets[FindSet(n)] \in Bucketset
        BY <1>1, <3>1, LenProperties, ElementOfSeq
      <4> QED
        BY <4>1 DEF Bucketset
    <3>3. Owner[n] = sets[FindSet(n)].name /\ Owner'[n] = sets[FindSet(n)].name
      BY <1>3, <2>1, <2>2, <3>1 DEF Owner
    <3> QED
      BY <3>2, <3>3, StoreAssumption
  <2>3. CASE ~ Known(n) /\ NameMatches(s, n)
    BY <1>2, <1>3, <2>1, <2>3 DEF Owner, Known, NameMatches
  <2>4. CASE ~ Known(n) /\ ~ NameMatches(s, n)
    BY <1>2, <2>1, <2>4 DEF Owner, Known, NameMatches
  <2> QED
    BY <2>2, <2>3, <2>4
<1>5. Owner[m] = None
  BY <1>1 DEF Owner
<1>6. Owner' = [n \in Names |->
                  IF Owner[n] = None /\ <<m, n>> \in PrefixOf THEN m ELSE Owner[n]]
  BY <1>4 DEF Owner
<1> QED
  BY <1>5, <1>6 DEF Directory!Create

\* Every behaviour of the server is one of the directory.
THEOREM DirectoryImplemented == Spec => ImplementsDirectory
<1>1. Init => Directory!Init
  BY OwnerOfEmpty DEF Init, Directory!Init, Directory!Unresolved
<1>2. TypeOK /\ TypeOK' /\ [Next]_vars => [Directory!Next]_Owner
  <2> SUFFICES ASSUME TypeOK, TypeOK', [Next]_vars
               PROVE  Owner' = Owner \/ Directory!Next
    OBVIOUS
  <2>1. CASE Lost
    <3>1. Owner' = [n \in Names |-> None]
      <4>1. sets' = << >>
        BY <2>1, LostStep DEF ProcessLost
      <4>2. DOMAIN sets' = {}
        BY <4>1
      <4>3. \A n : ~ Known(n)'
        BY <4>2 DEF Known, FindSet, Matches
      <4> QED
        BY <4>3 DEF Owner
    <3> QED
      BY <3>1 DEF Directory!Next, Directory!Lose, Directory!Unresolved
  <2>2. CASE sets' = sets
    BY <2>2, OwnerSameNames DEF TypeOK
  <2>3. ASSUME NEW c \in Conns, Quiet(c)
        PROVE  sets' = sets
    BY <2>3, QuietStep
  <2>4. CASE \/ Restart
             \/ \E c \in Conns, n \in Names : PutBucketsetNotKept(c, n)
             \/ UNCHANGED vars
    BY <2>2, <2>4 DEF Restart, PutBucketsetNotKept, vars
  <2>5. ASSUME NEW c \in Conns, NEW n \in Names, PutBucketsetCreated(c, n)
        PROVE  Directory!Next
    BY <2>5, CreateStep DEF Directory!Next
  <2>6. ASSUME NEW c \in Conns, NEW n \in Names, NEW o \in Objects,
               PutObjectRefused(c, n, o) \/ PutObjectStored(c, n, o)
        PROVE  Owner' = Owner
    <3> DEFINE bt == sets[FindSet(n)].buckets[Target(o)]
    <3>1. Known(n) /\ Target(o) # NoBucket
      BY <2>6 DEF PutObjectRefused, PutObjectStored
    <3>2. FindSet(n) \in DOMAIN sets /\ Target(o) \in Buckets /\ bt \in Bucket
      BY <3>1, PutObjectSetType
    <3>3. PICK nb \in Bucket : BucketBecomes(FindSet(n), Target(o), nb)
      <4>1. CASE PutObjectRefused(c, n, o)
        <5>1. BucketBecomes(FindSet(n), Target(o), Refuse(bt))
          BY <4>1 DEF PutObjectRefused, BucketBecomes
        <5> QED
          BY <3>2, <5>1, RefuseType
      <4>2. CASE PutObjectStored(c, n, o)
        <5>1. BucketBecomes(FindSet(n), Target(o), Accept(bt, c, o)) /\ SignedLen(o) > 0
          BY <4>2 DEF PutObjectStored, BucketBecomes
        <5> QED
          BY <3>2, <5>1, AcceptType
      <4> QED
        BY <2>6, <4>1, <4>2
    <3>4. /\ DOMAIN sets' = DOMAIN sets
          /\ \A j \in DOMAIN sets : sets'[j].name = sets[j].name
      BY <3>2, <3>3, BucketUpdate DEF TypeOK
    <3> QED
      BY <3>4, OwnerSameNames DEF TypeOK
  <2> QED
    BY <2>1, <2>2, <2>3, <2>4, <2>5, <2>6, NextCases
<1> QED
  BY <1>1, <1>2, TypeCorrect, PTL DEF Spec, ImplementsDirectory, Directory!Spec
=============================================================================
