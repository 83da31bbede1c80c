------------------------ MODULE BucketRoutingProofs ------------------------
(***************************************************************************)
(* What the routing of bucketset.c does for every configuration: the       *)
(* rounding is well defined, the search returns a bucket that covers the   *)
(* hash, that bucket is the only one whose interval contains it, and the   *)
(* hashes for which there is none are exactly the last one of each bucket  *)
(* and those past the last bucket.                                         *)
(***************************************************************************)
EXTENDS BucketRouting, FiniteSetTheorems, TLAPS

\* Min of FiniteSetsExt is the least element of a set of natural numbers.
\* (The strict subset ordering on the initial segments stands for < on Nat.)
LEMMA MinOfNats ==
    ASSUME NEW S \in SUBSET Nat, S # {}
    PROVE  Min(S) \in S /\ \A j \in S : Min(S) <= j
<1> DEFINE Below(x) == 0 .. x - 1
           T == { Below(x) : x \in S }
<1>1. T \subseteq FiniteSubsetsOf(Nat) /\ T # {}
  <2>1. ASSUME NEW x \in S
        PROVE  Below(x) \in FiniteSubsetsOf(Nat)
    <3>1. x \in Nat /\ x - 1 \in Int /\ Below(x) \subseteq Nat
      OBVIOUS
    <3>2. IsFiniteSet(0 .. x - 1)
      BY <3>1, FS_Interval
    <3> QED
      BY <3>1, <3>2 DEF FiniteSubsetsOf
  <2> QED
    BY <2>1
<1>2. PICK t \in T : \A u \in T : <<u, t>> \notin StrictSubsetOrdering(Nat)
  BY <1>1, FS_StrictSubsetOrderingWellFounded, WFMin
<1>3. PICK x \in S : t = Below(x)
  OBVIOUS
<1>4. ASSUME NEW y \in S, y < x
      PROVE  FALSE
  <2>1. Below(y) \subseteq Below(x) /\ y \in Below(x) /\ y \notin Below(y)
    BY <1>4
  <2>2. <<Below(y), Below(x)>> \in StrictSubsetOrdering(Nat)
    BY <2>1 DEF StrictSubsetOrdering
  <2> QED
    BY <1>2, <1>3, <2>2
<1>5. \A y \in S : x <= y
  BY <1>4
<1> QED
  BY <1>5 DEF Min

\* bucketset_hash_range_round returns the least multiple of 512 above base.
THEOREM RoundingExact ==
    ASSUME NEW base \in Nat
    PROVE  LET i == FirstMultipleAbove(base)
           IN  /\ i \in 1 .. base + 1
               /\ i * BUCKET_MIN_HASH > base
               /\ \A j \in 1 .. i - 1 : j * BUCKET_MIN_HASH <= base
<1> DEFINE S == { i \in 1 .. base + 1 : i * BUCKET_MIN_HASH > base }
<1>1. S \subseteq Nat /\ base + 1 \in S
  BY DEF BUCKET_MIN_HASH
<1>2. Min(S) \in S /\ \A j \in S : Min(S) <= j
  BY <1>1, MinOfNats
<1>3. \A j \in 1 .. Min(S) - 1 : j * BUCKET_MIN_HASH <= base
  BY <1>2 DEF BUCKET_MIN_HASH
<1> HIDE DEF S
<1>4. Min(S) \in 1 .. base + 1 /\ Min(S) * BUCKET_MIN_HASH > base
  BY <1>2 DEF S
<1>5. \E i \in 1 .. base + 1 :
        /\ i * BUCKET_MIN_HASH > base
        /\ \A j \in 1 .. i - 1 : j * BUCKET_MIN_HASH <= base
  BY <1>3, <1>4
<1> QED
  BY <1>5 DEF FirstMultipleAbove

\* The rounded range is above the configured one, by at most 512.
COROLLARY RoundingBounds ==
    ASSUME NEW base \in Nat
    PROVE  /\ bucketset_hash_range_round(base) \in Nat
           /\ bucketset_hash_range_round(base) >= BUCKET_MIN_HASH
           /\ bucketset_hash_range_round(base) > base
           /\ bucketset_hash_range_round(base) <= base + BUCKET_MIN_HASH
<1> DEFINE i == FirstMultipleAbove(base)
<1>1. /\ i \in 1 .. base + 1
      /\ i * BUCKET_MIN_HASH > base
      /\ \A j \in 1 .. i - 1 : j * BUCKET_MIN_HASH <= base
  BY RoundingExact
<1> HIDE DEF i
<1>2. i = 1 \/ (i - 1) * BUCKET_MIN_HASH <= base
  BY <1>1
<1>3. i * BUCKET_MIN_HASH <= base + BUCKET_MIN_HASH
  BY <1>1, <1>2 DEF BUCKET_MIN_HASH
<1> QED
  BY <1>1, <1>3 DEF bucketset_hash_range_round, BUCKET_MIN_HASH, i

\* A bucket starts after every bucket before it has ended.
LEMMA RanksAscend ==
    ASSUME NEW range \in Nat \ {0}, NEW i \in Nat, NEW j \in Nat, i < j
    PROVE  MaxRank(range, i) < MinRank(range, j)
<1>1. PICK k \in Nat : j = i + 1 + k
  <2>1. j - i - 1 \in Nat /\ j = i + 1 + (j - i - 1)
    OBVIOUS
  <2> QED
    BY <2>1
<1>2. j * range = (i + 1) * range + k * range
  BY <1>1
<1>3. k * range \in Nat /\ (i + 1) * range \in Nat
  OBVIOUS
<1> QED
  BY <1>2, <1>3 DEF MaxRank, MinRank

\* bucketset_search_bucket: the bucket it returns takes the hash, and it is
\* the only one whose closed interval [min_rank, max_rank] contains it.
THEOREM SearchSound ==
    ASSUME NEW n \in Nat, NEW range \in Nat \ {0}, NEW hash \in Nat,
           bucketset_search_bucket(n, range, hash) # NoBucket
    PROVE  LET i == bucketset_search_bucket(n, range, hash)
           IN  /\ i \in 0 .. n - 1
               /\ Covers(range, i, hash)
               /\ \A b \in 0 .. n - 1 :
                     MinRank(range, b) <= hash /\ hash <= MaxRank(range, b) <=> b = i
<1> DEFINE S == Covering(n, range, hash)
           i == bucketset_search_bucket(n, range, hash)
<1>1. S # {} /\ S \subseteq Nat /\ i = Min(S)
  BY DEF bucketset_search_bucket, Covering
<1>2. i \in S
  BY <1>1, MinOfNats
<1>3. i \in 0 .. n - 1 /\ Covers(range, i, hash)
  BY <1>2 DEF Covering
<1> HIDE DEF i, S
<1>4. ASSUME NEW b \in 0 .. n - 1, b # i,
             MinRank(range, b) <= hash, hash <= MaxRank(range, b)
      PROVE  FALSE
  <2>1. /\ MinRank(range, b) \in Int /\ MaxRank(range, b) \in Int
        /\ MinRank(range, i) \in Int /\ MaxRank(range, i) \in Int
    BY <1>3 DEF MinRank, MaxRank
  <2>2. CASE b < i
    BY <1>3, <1>4, <2>1, <2>2, RanksAscend DEF Covers
  <2>3. CASE i < b
    BY <1>3, <1>4, <2>1, <2>3, RanksAscend DEF Covers
  <2> QED
    BY <1>3, <1>4, <2>2, <2>3
<1>5. MinRank(range, i) <= hash /\ hash <= MaxRank(range, i)
  BY <1>3 DEF Covers, MinRank, MaxRank
<1> QED
  BY <1>3, <1>4, <1>5 DEF i

\* Every hash lies in exactly one interval of the unbounded row of buckets.
LEMMA SomeInterval ==
    ASSUME NEW range \in Nat \ {0}, NEW hash \in Nat
    PROVE  \E i \in Nat : MinRank(range, i) <= hash /\ hash <= MaxRank(range, i)
<1> DEFINE S == { i \in Nat : hash <= MaxRank(range, i) }
<1>1. hash \in S
  <2>1. (hash + 1) * range >= hash + 1
    <3>1. range - 1 \in Nat /\ (hash + 1) * range = (hash + 1) + (hash + 1) * (range - 1)
      OBVIOUS
    <3>2. (hash + 1) * (range - 1) \in Nat
      BY <3>1
    <3> QED
      BY <3>1, <3>2
  <2> QED
    BY <2>1 DEF MaxRank
<1>2. Min(S) \in S /\ \A j \in S : Min(S) <= j
  BY <1>1, MinOfNats
<1> DEFINE k == Min(S)
<1>3. k \in Nat /\ hash <= MaxRank(range, k)
  BY <1>2
<1>4. k = 0 \/ (k - 1 \in Nat /\ k - 1 \notin S)
  BY <1>2
<1> HIDE DEF k
<1>5. MinRank(range, k) <= hash
  <2>1. CASE k = 0
    BY <2>1 DEF MinRank
  <2>2. CASE k # 0
    <3>1. k - 1 \in Nat /\ ~ (hash <= MaxRank(range, k - 1))
      BY <1>4, <2>2
    <3>2. MaxRank(range, k - 1) = MinRank(range, k) - 1 /\ MinRank(range, k) \in Int
      BY <1>3 DEF MaxRank, MinRank
    <3> QED
      BY <3>1, <3>2
  <2> QED
    BY <2>1, <2>2
<1> QED
  BY <1>3, <1>5

\* The search fails on exactly two kinds of hash: the last one of a bucket,
\* because the comparison with max_rank is strict, and those past the end of
\* the last bucket.  read_cb dereferences the NULL it gets for them.
THEOREM SearchFailsExactlyAt ==
    ASSUME NEW n \in Nat, NEW range \in Nat \ {0}, NEW hash \in Nat
    PROVE  bucketset_search_bucket(n, range, hash) = NoBucket
             <=> \/ hash >= MinRank(range, n)
                 \/ \E i \in 0 .. n - 1 : hash = MaxRank(range, i)
<1>1. bucketset_search_bucket(n, range, hash) = NoBucket <=> Covering(n, range, hash) = {}
  <2>1. ASSUME Covering(n, range, hash) # {}
        PROVE  Min(Covering(n, range, hash)) # NoBucket
    <3>1. Covering(n, range, hash) \in SUBSET Nat
      BY DEF Covering
    <3> QED
      BY <2>1, <3>1, MinOfNats DEF NoBucket
  <2> QED
    BY <2>1 DEF bucketset_search_bucket
<1>2. PICK k \in Nat : MinRank(range, k) <= hash /\ hash <= MaxRank(range, k)
  BY SomeInterval
<1>3. \A i \in Nat : MinRank(range, i) \in Nat /\ MaxRank(range, i) \in Nat
  <2>1. ASSUME NEW i \in Nat
        PROVE  MinRank(range, i) \in Nat /\ MaxRank(range, i) \in Nat
    <3>1. i * range \in Nat /\ (i + 1) * range = i * range + range
      OBVIOUS
    <3> QED
      BY <3>1 DEF MinRank, MaxRank
  <2> QED
    BY <2>1
<1>4. ASSUME hash >= MinRank(range, n)
      PROVE  Covering(n, range, hash) = {}
  <2>1. ASSUME NEW i \in 0 .. n - 1
        PROVE  ~ Covers(range, i, hash)
    <3>1. i \in Nat /\ MaxRank(range, i) < MinRank(range, n)
      BY RanksAscend
    <3> QED
      BY <1>3, <1>4, <3>1 DEF Covers
  <2> QED
    BY <2>1 DEF Covering
<1>5. ASSUME NEW i \in 0 .. n - 1, hash = MaxRank(range, i)
      PROVE  Covering(n, range, hash) = {}
  <2>1. ASSUME NEW j \in 0 .. n - 1
        PROVE  ~ Covers(range, j, hash)
    <3>1. i < j => MaxRank(range, i) < MinRank(range, j)
      BY RanksAscend
    <3>2. j < i => MaxRank(range, j) < MinRank(range, i)
      BY RanksAscend
    <3>3. MinRank(range, i) <= MaxRank(range, i)
      BY <1>3 DEF MinRank, MaxRank
    <3> QED
      BY <1>3, <1>5, <3>1, <3>2, <3>3 DEF Covers
  <2> QED
    BY <2>1 DEF Covering
<1>6. ASSUME hash < MinRank(range, n),
             \A i \in 0 .. n - 1 : hash # MaxRank(range, i)
      PROVE  k \in Covering(n, range, hash)
  <2>1. k < n
    <3>1. n < k => MaxRank(range, n) < MinRank(range, k)
      BY RanksAscend
    <3>2. MinRank(range, n) <= MaxRank(range, n)
      BY <1>3 DEF MinRank, MaxRank
    <3>3. n # k
      BY <1>2, <1>3, <1>6
    <3> QED
      BY <1>2, <1>3, <1>6, <3>1, <3>2, <3>3
  <2> QED
    BY <1>2, <1>3, <1>6, <2>1 DEF Covering, Covers
<1> QED
  BY <1>1, <1>3, <1>4, <1>5, <1>6
=============================================================================
