--------------------------- MODULE LibraryProofs ---------------------------
(***************************************************************************)
(* Proofs about the digest, the hash, the integer conversions, the logger, *)
(* the start of the two programs and the client's command line, each under *)
(* its own specification, and about the store's vector among the libraries.*)
(***************************************************************************)
EXTENDS MCLibraries, ContainerProofs, SliceProofs, WellFoundedInduction,
        SequenceTheorems, TLAPS

-----------------------------------------------------------------------------
(* gfs_hashfn.                                                             *)

\* What was taken is words up to intmsg, then full_bytes says how many bytes
\* are left.  In the first loop, slot words of the array are filled and the runs
\* that are left have their words; what is left after it fits in one array.
HashInv ==
    /\ len \in Nat /\ quads \in Nat /\ slot \in 0 .. 4 /\ intmsg \in Nat
    /\ full_words \in Nat /\ full_bytes \in Nat
    /\ hashing \in {"quads", "tail", "bytes", "done"}
    /\ \E r \in 0 .. 3 : len = 4 * intmsg + 4 * full_words + r
    /\ hashing = "quads" =>
          /\ slot <= 3 /\ (quads = 0 => slot = 0)
          /\ full_words - (4 * quads - slot) \in 0 .. 3
          /\ full_bytes = len - 4 * intmsg
    /\ hashing = "tail" =>
          \/ /\ full_words + slot <= 3
             /\ full_bytes = len - 4 * intmsg
          \/ full_words = 0 /\ full_bytes = 0
    /\ hashing = "bytes" =>
          full_words = 0 /\ slot <= 3 /\ full_bytes <= len - 4 * intmsg
    /\ hashing = "done" => full_words = 0 /\ full_bytes = 0

\* What the invariant says holds in every state: the two loops and the bytes
\* share out the message without a gap or an overlap.
THEOREM HashInvariant == HashSpec => []HashInv
<1>1. HashInit => HashInv
  <2> SUFFICES ASSUME HashInit PROVE HashInv
    OBVIOUS
  <2>1. len \in Nat
    BY HashAssumption DEF HashInit
  <2>2. \A n \in Nat : /\ n \div 4 \in Nat /\ n - 4 * (n \div 4) \in 0 .. 3
                        /\ n \div 16 \in Nat /\ n - 16 * (n \div 16) \in 0 .. 15
    OBVIOUS
  <2>3. (len \div 4) - 4 * (len \div 16) \in 0 .. 3
    BY <2>1, <2>2
  <2>4. \E r \in 0 .. 3 : len = 4 * 0 + 4 * (len \div 4) + r
    <3>1. len = 4 * 0 + 4 * (len \div 4) + (len - 4 * (len \div 4))
      BY <2>1, <2>2
    <3> QED
      BY <2>1, <2>2, <3>1
  <2> QED
    BY <2>1, <2>2, <2>3, <2>4 DEF HashInit, HashInv
<1>2. HashInv /\ [HashNext]_hashVars => HashInv'
  <2> SUFFICES ASSUME HashInv, [HashNext]_hashVars PROVE HashInv'
    OBVIOUS
  <2>1. PICK r \in 0 .. 3 : len = 4 * intmsg + 4 * full_words + r
    BY DEF HashInv
  <2>2. CASE QuadWord
    BY <2>1, <2>2 DEF HashInv, QuadWord, TakeWord
  <2>3. CASE QuadsEnd
    BY <2>1, <2>3 DEF HashInv, QuadsEnd
  <2>4. CASE TailWord
    BY <2>1, <2>4 DEF HashInv, TailWord, TakeWord, MoreWords
  <2>5. CASE TailPad
    BY <2>1, <2>5 DEF HashInv, TailPad, MoreWords
  <2>6. CASE TailByte
    BY <2>1, <2>6 DEF HashInv, TailByte
  <2>7. CASE BytesEnd
    BY <2>1, <2>7 DEF HashInv, BytesEnd
  <2>8. CASE HashEnds
    BY <2>1, <2>8 DEF HashInv, HashEnds
  <2>9. CASE UNCHANGED hashVars
    BY <2>1, <2>9 DEF HashInv, hashVars
  <2> QED
    BY <2>2, <2>3, <2>4, <2>5, <2>6, <2>7, <2>8, <2>9 DEF HashNext
<1> QED
  BY <1>1, <1>2, PTL DEF HashSpec

\* A hash is of the whole message and of nothing else, whatever its length.
THEOREM HashCorrect == HashSpec => []HashTakesAll
<1>1. HashInv => HashTakesAll
  BY DEF HashInv, HashTakesAll
<1> QED
  BY <1>1, HashInvariant, PTL

-----------------------------------------------------------------------------
(* The integer conversions.                                                *)

\* A set of natural numbers has a smallest one.
LEMMA SmallestOf ==
    ASSUME NEW T \in SUBSET Nat, T # {}
    PROVE  \E n \in T : \A m \in T : n <= m
<1>1. PICK n \in T : \A m \in T : <<m, n>> \notin OpToRel(<, Nat)
  BY NatLessThanWellFounded, WFMin
<1>2. \A m \in T : ~(m < n)
  BY <1>1 DEF OpToRel
<1> QED
  BY <1>2

\* The function of a reading, up to the place n.
Readings(g, base, v, digits, n) ==
    g = [i \in 0 .. n |-> IF i = 0 THEN v ELSE g[i - 1] * base + digits[i]]

\* There is such a function for every text.
LEMMA ReadingsExist ==
    ASSUME NEW base, NEW v, NEW digits, NEW n \in Nat
    PROVE  \E g : Readings(g, base, v, digits, n)
<1> DEFINE T == {k \in 0 .. n : ~ \E g : Readings(g, base, v, digits, k)}
<1>1. SUFFICES ASSUME T # {} PROVE FALSE
  OBVIOUS
<1>0. T \in SUBSET Nat
  OBVIOUS
<1> HIDE DEF T
<1>2. PICK k \in T : \A m \in T : k <= m
  BY <1>0, <1>1, SmallestOf
<1>3. k \in 0 .. n /\ ~ \E g : Readings(g, base, v, digits, k)
  BY DEF T
<1>4. CASE k = 0
  <2> DEFINE g == [i \in 0 .. 0 |-> v]
  <2>1. Readings(g, base, v, digits, 0)
    BY DEF Readings
  <2> QED
    BY <1>3, <1>4, <2>1
<1>5. CASE k > 0
  <2>1. k - 1 \in 0 .. n /\ k - 1 < k
    BY <1>3, <1>5
  <2>2. k - 1 \notin T
    BY <1>2, <1>3, <2>1
  <2>3. PICK g : Readings(g, base, v, digits, k - 1)
    BY <2>1, <2>2 DEF T
  <2> DEFINE h == [i \in 0 .. k |-> IF i = k THEN g[k - 1] * base + digits[k] ELSE g[i]]
  <2>4. Readings(h, base, v, digits, k)
    <3>1. g = [i \in 0 .. k - 1 |-> IF i = 0 THEN v ELSE g[i - 1] * base + digits[i]]
      BY <2>3 DEF Readings
    <3>2. ASSUME NEW i \in 0 .. k
          PROVE  h[i] = IF i = 0 THEN v ELSE h[i - 1] * base + digits[i]
      <4>1. CASE i = k
        <5>1. h[i] = g[k - 1] * base + digits[k] /\ h[k - 1] = g[k - 1]
          BY <1>3, <1>5, <4>1
        <5> QED
          BY <1>5, <4>1, <5>1
      <4>2. CASE i # k
        <5>1. i \in 0 .. k - 1 /\ h[i] = g[i]
          BY <1>3, <3>2, <4>2
        <5>2. g[i] = IF i = 0 THEN v ELSE g[i - 1] * base + digits[i]
          BY <3>1, <5>1
        <5>3. i # 0 => i - 1 \in 0 .. k /\ i - 1 # k /\ h[i - 1] = g[i - 1]
          BY <1>3, <5>1
        <5> QED
          BY <5>1, <5>2, <5>3
      <4> QED
        BY <4>1, <4>2
    <3> QED
      BY <3>2 DEF Readings
  <2> QED
    BY <1>3, <2>4
<1> QED
  BY <1>3, <1>4, <1>5

\* Two of them agree as far as both go.
LEMMA ReadingsAgree ==
    ASSUME NEW base, NEW v, NEW digits, NEW n \in Nat, NEW m \in Nat,
           NEW g, Readings(g, base, v, digits, n), NEW h, Readings(h, base, v, digits, m)
    PROVE  \A k \in Nat : k <= n /\ k <= m => g[k] = h[k]
<1> DEFINE T == {k \in Nat : k <= n /\ k <= m /\ g[k] # h[k]}
<1>1. SUFFICES ASSUME T # {} PROVE FALSE
  OBVIOUS
<1>0. T \in SUBSET Nat
  OBVIOUS
<1> HIDE DEF T
<1>2. PICK k \in T : \A j \in T : k <= j
  BY <1>0, <1>1, SmallestOf
<1>3. k \in Nat /\ k <= n /\ k <= m /\ g[k] # h[k]
  BY DEF T
<1>4. /\ g[k] = IF k = 0 THEN v ELSE g[k - 1] * base + digits[k]
      /\ h[k] = IF k = 0 THEN v ELSE h[k - 1] * base + digits[k]
  <2>1. k \in 0 .. n /\ k \in 0 .. m
    BY <1>3
  <2> QED
    BY <2>1 DEF Readings
<1>5. k # 0 => k - 1 \in Nat /\ k - 1 <= n /\ k - 1 <= m /\ ~(k <= k - 1)
  BY <1>3
<1>6. k # 0 => k - 1 \notin T
  BY <1>2, <1>5
<1> QED
  BY <1>3, <1>4, <1>5, <1>6 DEF T

\* What is read is the last place of any of them.
LEMMA ReadIs ==
    ASSUME NEW base, NEW v, NEW digits, Len(digits) \in Nat,
           NEW g, Readings(g, base, v, digits, Len(digits))
    PROVE  ReadOn(base, v, digits) = g[Len(digits)]
<1> DEFINE h == CHOOSE h : Readings(h, base, v, digits, Len(digits))
<1>1. Readings(h, base, v, digits, Len(digits))
  OBVIOUS
<1>2. ReadOn(base, v, digits) = h[Len(digits)]
  BY DEF ReadOn, Readings
<1> HIDE DEF h
<1> QED
  BY <1>1, <1>2, ReadingsAgree

\* The same, place by place.
Stepwise(g, base, v, digits, n) ==
    /\ g = [i \in 0 .. n |-> g[i]]
    /\ g[0] = v
    /\ \A k \in 1 .. n : g[k] = g[k - 1] * base + digits[k]

AreIntegers(digits, n) == \A i \in 1 .. n : digits[i] \in Int

LEMMA ReadingSteps ==
    \A base, v, digits, g : \A n \in Nat :
        Readings(g, base, v, digits, n) <=> Stepwise(g, base, v, digits, n)
<1> SUFFICES ASSUME NEW base, NEW v, NEW digits, NEW g, NEW n \in Nat
             PROVE  Readings(g, base, v, digits, n) <=> Stepwise(g, base, v, digits, n)
  OBVIOUS
<1>1. 0 \in 0 .. n /\ \A k \in 1 .. n : k \in 0 .. n /\ k # 0
  OBVIOUS
<1>2. \A k \in 0 .. n : k # 0 => k \in 1 .. n
  OBVIOUS
<1>3. ASSUME Readings(g, base, v, digits, n) PROVE Stepwise(g, base, v, digits, n)
  <2>1. \A k \in 0 .. n : g[k] = IF k = 0 THEN v ELSE g[k - 1] * base + digits[k]
    BY <1>3 DEF Readings
  <2>2. g = [i \in 0 .. n |-> g[i]]
    BY <1>3 DEF Readings
  <2> QED
    BY <1>1, <2>1, <2>2 DEF Stepwise
<1>4. ASSUME Stepwise(g, base, v, digits, n) PROVE Readings(g, base, v, digits, n)
  BY <1>2, <1>4 DEF Readings, Stepwise
<1> QED
  BY <1>3, <1>4

\* A reading of integers goes through integers.
LEMMA ReadingTypes ==
    \A base, v \in Int : \A n \in Nat : \A digits, g :
        AreIntegers(digits, n) /\ Stepwise(g, base, v, digits, n)
            => \A k \in 0 .. n : g[k] \in Int
<1> SUFFICES ASSUME NEW base \in Int, NEW v \in Int, NEW n \in Nat, NEW digits, NEW g,
                    AreIntegers(digits, n), Stepwise(g, base, v, digits, n)
             PROVE  \A k \in 0 .. n : g[k] \in Int
  OBVIOUS
<1> DEFINE T == {k \in 0 .. n : g[k] \notin Int}
<1>1. SUFFICES ASSUME T # {} PROVE FALSE
  OBVIOUS
<1>2. T \in SUBSET Nat
  OBVIOUS
<1> HIDE DEF T
<1>3. PICK k \in T : \A j \in T : k <= j
  BY <1>1, <1>2, SmallestOf
<1>4. k \in 0 .. n /\ g[k] \notin Int
  BY DEF T
<1>5. k # 0
  BY <1>4 DEF Stepwise
<1>6. k \in 1 .. n /\ k - 1 \in 0 .. n /\ ~(k <= k - 1)
  BY <1>4, <1>5
<1>7. g[k - 1] \in Int
  BY <1>3, <1>6 DEF T
<1>8. digits[k] \in Int
  BY <1>6 DEF AreIntegers
<1>9. g[k - 1] * base + digits[k] \in Int
  BY <1>7, <1>8
<1> QED
  BY <1>4, <1>6, <1>9 DEF Stepwise

\* There is a reading, and what is read is its last place.
LEMMA ReadSteps ==
    \A base, v \in Int : \A digits \in Seq(Int) :
        \E g : /\ Stepwise(g, base, v, digits, Len(digits))
               /\ \A k \in 0 .. Len(digits) : g[k] \in Int
               /\ ReadOn(base, v, digits) = g[Len(digits)]
<1> SUFFICES ASSUME NEW base \in Int, NEW v \in Int, NEW digits \in Seq(Int)
             PROVE  \E g : /\ Stepwise(g, base, v, digits, Len(digits))
                           /\ \A k \in 0 .. Len(digits) : g[k] \in Int
                           /\ ReadOn(base, v, digits) = g[Len(digits)]
  OBVIOUS
<1> DEFINE n == Len(digits)
<1>1. n \in Nat /\ AreIntegers(digits, n)
  BY LenProperties, ElementOfSeq DEF AreIntegers
<1>2. PICK g : Readings(g, base, v, digits, n)
  BY <1>1, ReadingsExist
<1>3. Stepwise(g, base, v, digits, n)
  BY <1>1, <1>2, ReadingSteps
<1>4. ReadOn(base, v, digits) = g[n]
  BY <1>1, <1>2, ReadIs
<1> HIDE DEF n
<1>5. \A k \in 0 .. n : g[k] \in Int
  BY <1>1, <1>3, ReadingTypes
<1> QED
  BY <1>3, <1>4, <1>5 DEF n

\* What is read of integers is one.
LEMMA ReadTypes ==
    ASSUME NEW base \in Int, NEW v \in Int, NEW digits \in Seq(Int)
    PROVE  ReadOn(base, v, digits) \in Int
<1>1. Len(digits) \in Nat
  BY LenProperties
<1> QED
  BY <1>1, ReadSteps

\* A reading that is given place by place.
LEMMA ReadGiven ==
    \A base, v, digits, e : \A n \in Nat :
        Len(digits) = n /\ Stepwise(e, base, v, digits, n) => ReadOn(base, v, digits) = e[n]
BY ReadingSteps, ReadIs

\* Reading on from the first digit.
LEMMA ReadPrepends ==
    ASSUME NEW base \in Int, NEW v \in Int, NEW d \in Int, NEW digits \in Seq(Int)
    PROVE  /\ <<d>> \o digits \in Seq(Int)
           /\ Len(<<d>> \o digits) = Len(digits) + 1
           /\ (<<d>> \o digits)[1] = d
           /\ \A i \in 1 .. Len(digits) : (<<d>> \o digits)[i + 1] = digits[i]
           /\ ReadOn(base, v, <<d>> \o digits) = ReadOn(base, v * base + d, digits)
<1> DEFINE n == Len(digits)
           more == <<d>> \o digits
<1>1. n \in Nat /\ \A i \in 1 .. n : digits[i] \in Int
  BY LenProperties, ElementOfSeq
<1>2. /\ more \in Seq(Int) /\ Len(more) = n + 1
      /\ more[1] = d /\ \A i \in 1 .. n : more[i + 1] = digits[i]
  <2>1. <<d>> \in Seq(Int) /\ Len(<<d>>) = 1 /\ <<d>>[1] = d
    OBVIOUS
  <2>2. /\ more \in Seq(Int) /\ Len(more) = 1 + n
        /\ \A i \in 1 .. 1 + n : more[i] = IF i <= 1 THEN <<d>>[i] ELSE digits[i - 1]
    BY <2>1, ConcatProperties
  <2> HIDE DEF more, n
  <2>3. \A i \in 1 .. n : i + 1 \in 1 .. 1 + n /\ ~(i + 1 <= 1) /\ i + 1 - 1 = i
    BY <1>1
  <2>4. 1 \in 1 .. 1 + n /\ 1 <= 1 /\ 1 + n = n + 1
    BY <1>1
  <2>5. more[1] = d
    BY <2>1, <2>2, <2>4
  <2>6. \A i \in 1 .. n : more[i + 1] = digits[i]
    BY <2>2, <2>3
  <2> QED
    BY <2>2, <2>4, <2>5, <2>6
<1> HIDE DEF more
<1>3. PICK g : /\ Stepwise(g, base, v, more, Len(more))
               /\ \A k \in 0 .. Len(more) : g[k] \in Int
               /\ ReadOn(base, v, more) = g[Len(more)]
  BY <1>2, ReadSteps
<1> HIDE DEF n
<1>4. /\ g[0] = v /\ \A k \in 1 .. n + 1 : g[k] = g[k - 1] * base + more[k]
  BY <1>2, <1>3 DEF Stepwise
<1> DEFINE e == [i \in 0 .. n |-> g[i + 1]]
<1>5. e[0] = v * base + d
  <2>1. 1 \in 1 .. n + 1 /\ 0 \in 0 .. n /\ 1 - 1 = 0
    BY <1>1
  <2> QED
    BY <1>2, <1>4, <2>1
<1>6. ASSUME NEW k \in 1 .. n
      PROVE  e[k] = e[k - 1] * base + digits[k]
  <2>1. k + 1 \in 1 .. n + 1 /\ k \in 0 .. n /\ k - 1 \in 0 .. n /\ k + 1 - 1 = k
        /\ k - 1 + 1 = k
    BY <1>1
  <2>2. g[k + 1] = g[k] * base + digits[k]
    BY <1>2, <1>4, <2>1
  <2> QED
    BY <2>1, <2>2
<1>7. e[n] = g[n + 1] /\ e = [i \in 0 .. n |-> e[i]]
  BY <1>1
<1> HIDE DEF e
<1>8. Stepwise(e, base, v * base + d, digits, n)
  BY <1>5, <1>6, <1>7 DEF Stepwise
<1>9. ReadOn(base, v * base + d, digits) = e[n]
  BY <1>1, <1>8, ReadGiven DEF n
<1> QED
  BY <1>2, <1>3, <1>7, <1>9 DEF n, more

\* How many numbers digits can show.
LEMMA HexPowers ==
    /\ HexNumbers[0] = 1
    /\ \A n \in 1 .. 2 * IntDigits : HexNumbers[n] = 16 * HexNumbers[n - 1]
    /\ \A n \in 0 .. 2 * IntDigits : HexNumbers[n] \in Nat \ {0}
<1> DEFINE N == 2 * IntDigits
           F(f) == f = [n \in 0 .. N |-> IF n = 0 THEN 1 ELSE 16 * f[n - 1]]
           zeros == [i \in 1 .. N |-> 0]
<1>1. N \in Nat
  BY FormatAssumption
<1> HIDE DEF N
<1>2. PICK g : Readings(g, 16, 1, zeros, N)
  BY <1>1, ReadingsExist
<1>3. /\ \A k \in 0 .. N : g[k] \in Int
      /\ g[0] = 1
      /\ \A k \in 1 .. N : g[k] = g[k - 1] * 16 + zeros[k]
  <2>1. AreIntegers(zeros, N)
    BY DEF AreIntegers
  <2>2. 16 \in Int /\ 1 \in Int
    OBVIOUS
  <2> HIDE DEF zeros
  <2>3. Stepwise(g, 16, 1, zeros, N)
    BY <1>1, <1>2, ReadingSteps
  <2>4. \A k \in 0 .. N : g[k] \in Int
    BY <1>1, <2>1, <2>2, <2>3, ReadingTypes
  <2> QED
    BY <2>3, <2>4 DEF Stepwise
<1>4. F(g)
  <2>1. ASSUME NEW n \in 0 .. N
        PROVE  g[n] = IF n = 0 THEN 1 ELSE 16 * g[n - 1]
    <3>1. CASE n = 0
      BY <1>3, <3>1
    <3>2. CASE n # 0
      <4>1. n \in 1 .. N /\ n - 1 \in 0 .. N
        BY <1>1, <3>2
      <4>2. g[n] = g[n - 1] * 16 + 0 /\ g[n - 1] \in Int
        BY <1>3, <4>1
      <4> QED
        BY <3>2, <4>2
    <3> QED
      BY <3>1, <3>2
  <2>2. g = [n \in 0 .. N |-> g[n]]
    BY <1>2 DEF Readings
  <2> QED
    BY <2>1, <2>2
<1>5. F(HexNumbers)
  <2>1. HexNumbers = CHOOSE f : F(f)
    BY DEF HexNumbers, N
  <2> HIDE DEF F
  <2> QED
    BY <1>4, <2>1
<1>6. HexNumbers[0] = 1 /\ \A n \in 1 .. N : HexNumbers[n] = 16 * HexNumbers[n - 1]
  <2>1. \A n \in 0 .. N : HexNumbers[n] = IF n = 0 THEN 1 ELSE 16 * HexNumbers[n - 1]
    BY <1>5
  <2>2. 0 \in 0 .. N /\ \A n \in 1 .. N : n \in 0 .. N /\ n # 0
    BY <1>1
  <2> QED
    BY <2>1, <2>2
<1> DEFINE T == {n \in 0 .. N : HexNumbers[n] \notin Nat \ {0}}
<1>7. ASSUME T # {} PROVE FALSE
  <2>1. T \in SUBSET Nat
    OBVIOUS
  <2> HIDE DEF T
  <2>2. PICK k \in T : \A j \in T : k <= j
    BY <1>7, <2>1, SmallestOf
  <2>3. k \in 0 .. N /\ HexNumbers[k] \notin Nat \ {0}
    BY DEF T
  <2>4. k # 0
    BY <1>6, <2>3
  <2>5. k \in 1 .. N /\ k - 1 \in 0 .. N /\ ~(k <= k - 1)
    BY <1>1, <2>3, <2>4
  <2>6. HexNumbers[k - 1] \in Nat \ {0}
    BY <2>2, <2>5 DEF T
  <2>7. HexNumbers[k] = 16 * HexNumbers[k - 1]
    BY <1>6, <2>5
  <2> QED
    BY <2>3, <2>6, <2>7
<1> QED
  BY <1>6, <1>7 DEF N

\* The remainder of an argument that fits, with its sign or without.
LEMMA RemainderIs ==
    ASSUME NEW b \in Nat \ {0}, NEW a \in -b .. b - 1
    PROVE  a % b = IF a < 0 THEN b + a ELSE a
<1>1. a % b \in 0 .. b - 1 /\ a = b * (a \div b) + (a % b) /\ a \div b \in Int
  OBVIOUS
<1> DEFINE q == a \div b
           r == a % b
<1>2. q \in Int /\ r \in 0 .. b - 1 /\ a = b * q + r
  BY <1>1
<1> HIDE DEF q, r
<1>3. ASSUME q >= 1 PROVE FALSE
  <2>1. b * q >= b
    BY <1>2, <1>3
  <2> QED
    BY <1>2, <2>1
<1>4. ASSUME q <= -2 PROVE FALSE
  <2>1. b * q <= -2 * b
    BY <1>2, <1>4
  <2> QED
    BY <1>2, <2>1
<1>5. q = 0 \/ q = -1
  BY <1>2, <1>3, <1>4
<1>6. r = IF a < 0 THEN b + a ELSE a
  <2>1. CASE q = 0
    BY <1>2, <2>1
  <2>2. CASE q = -1
    <3>1. a = -b + r
      BY <1>2, <2>2
    <3> QED
      BY <1>2, <3>1
  <2> QED
    BY <1>5, <2>1, <2>2
<1> QED
  BY <1>6 DEF r

LEMMA RemainderIn ==
    ASSUME NEW b \in Nat \ {0}, NEW a \in Int
    PROVE  a % b \in 0 .. b - 1
OBVIOUS

\* A text of hexadecimal digits, filled up with zeros to the length w, and each
\* digit 15 minus itself.
Complement(w, t) ==
    [i \in 1 .. w |-> 15 - (IF i <= w - Len(t) THEN 0 ELSE t[i - (w - Len(t))])]

\* It reads as what is missing from the largest number of that length.
LEMMA ComplementReads ==
    ASSUME NEW w \in 0 .. 2 * IntDigits, NEW t \in Seq(Int), Len(t) <= w
    PROVE  /\ Complement(w, t) \in Seq(Int)
           /\ Len(Complement(w, t)) = w
           /\ ReadOn(16, 0, Complement(w, t)) = HexNumbers[w] - 1 - ReadOn(16, 0, t)
<1> DEFINE n == Len(t)
           z == w - n
           c == Complement(w, t)
<1>1. n \in Nat /\ z \in Nat /\ w \in Nat /\ n = w - z
  <2>1. n \in Nat
    BY LenProperties
  <2> QED
    BY <2>1, FormatAssumption
<1>2. PICK g : /\ Stepwise(g, 16, 0, t, n)
               /\ \A k \in 0 .. n : g[k] \in Int
               /\ ReadOn(16, 0, t) = g[n]
  BY ReadSteps
<1>3. \A i \in 1 .. n : t[i] \in Int
  BY ElementOfSeq
<1>4. /\ c = [i \in 1 .. w |-> 15 - (IF i <= z THEN 0 ELSE t[i - z])]
  BY DEF Complement
<1> HIDE DEF c, n
<1>5. c \in Seq(Int) /\ Len(c) = w
  <2>1. \A i \in 1 .. w : ~(i <= z) => i - z \in 1 .. n
    BY <1>1
  <2>2. \A i \in 1 .. w : 15 - (IF i <= z THEN 0 ELSE t[i - z]) \in Int
    BY <1>3, <2>1
  <2>3. c \in [1 .. w -> Int]
    BY <1>4, <2>2
  <2> QED
    BY <1>1, <2>3, LenProperties DEF Seq
<1> DEFINE h == [k \in 0 .. w |-> IF k <= z THEN 0 ELSE g[k - z]]
           e == [k \in 0 .. w |-> HexNumbers[k] - 1 - h[k]]
<1>6. \A k \in 0 .. w : h[k] \in Int /\ HexNumbers[k] \in Int
  <2>1. \A k \in 0 .. w : ~(k <= z) => k - z \in 0 .. n
    BY <1>1
  <2>2. \A k \in 0 .. w : k \in 0 .. 2 * IntDigits
    BY FormatAssumption
  <2> QED
    BY <1>2, <2>1, <2>2, HexPowers
<1>7. ASSUME NEW k \in 1 .. w
      PROVE  h[k] = h[k - 1] * 16 + (IF k <= z THEN 0 ELSE t[k - z])
  <2>1. k \in 0 .. w /\ k - 1 \in 0 .. w
    BY <1>1
  <2>2. CASE k <= z
    <3>1. h[k] = 0 /\ h[k - 1] = 0
      BY <1>1, <2>1, <2>2
    <3> QED
      BY <2>2, <3>1
  <2>3. CASE ~(k <= z)
    <3>1. k - z \in 1 .. n /\ k - z - 1 = k - 1 - z
      BY <1>1, <2>3
    <3>2. g[k - z] = g[k - 1 - z] * 16 + t[k - z] /\ g[0] = 0
      BY <1>2, <3>1 DEF Stepwise
    <3>3. h[k - 1] = g[k - 1 - z]
      <4>1. CASE k - 1 <= z
        <5>1. k - 1 - z = 0
          BY <1>1, <2>3, <4>1
        <5> QED
          BY <2>1, <3>2, <4>1, <5>1
      <4>2. CASE ~(k - 1 <= z)
        BY <2>1, <4>2
      <4> QED
        BY <4>1, <4>2
    <3> QED
      BY <2>1, <2>3, <3>2, <3>3
  <2> QED
    BY <2>2, <2>3
<1> HIDE DEF h
<1>8. ASSUME NEW k \in 1 .. w
      PROVE  e[k] = e[k - 1] * 16 + c[k]
  <2> DEFINE d == IF k <= z THEN 0 ELSE t[k - z]
  <2>1. k \in 0 .. w /\ k - 1 \in 0 .. w /\ k \in 1 .. 2 * IntDigits
    BY <1>1, FormatAssumption
  <2>2. e[k] = HexNumbers[k] - 1 - h[k] /\ e[k - 1] = HexNumbers[k - 1] - 1 - h[k - 1]
    BY <2>1
  <2>3. HexNumbers[k] = 16 * HexNumbers[k - 1]
    BY <2>1, HexPowers
  <2>4. d \in Int /\ h[k] = h[k - 1] * 16 + d /\ c[k] = 15 - d
    <3>1. ~(k <= z) => k - z \in 1 .. n
      BY <1>1
    <3> QED
      BY <1>3, <1>4, <1>7, <3>1
  <2>5. /\ h[k] \in Int /\ h[k - 1] \in Int
        /\ HexNumbers[k] \in Int /\ HexNumbers[k - 1] \in Int
    BY <1>6, <2>1
  <2> HIDE DEF d, e
  <2>6. \A x, y \in Int : 16 * x - 1 - (y * 16 + d) = (x - 1 - y) * 16 + (15 - d)
    BY <2>4
  <2>7. 16 * HexNumbers[k - 1] - 1 - (h[k - 1] * 16 + d)
            = (HexNumbers[k - 1] - 1 - h[k - 1]) * 16 + (15 - d)
    BY <2>5, <2>6
  <2> QED
    BY <2>2, <2>3, <2>4, <2>7
<1>9. e[0] = 0
  <2>1. 0 \in 0 .. w /\ 0 <= z
    BY <1>1
  <2>2. h[0] = 0
    BY <2>1 DEF h
  <2> QED
    BY <2>1, <2>2, HexPowers
<1>10. e = [k \in 0 .. w |-> e[k]] /\ e[w] = HexNumbers[w] - 1 - h[w]
  BY <1>1
<1> HIDE DEF e
<1>11. ReadOn(16, 0, c) = e[w]
  <2>1. Stepwise(e, 16, 0, c, w)
    BY <1>8, <1>9, <1>10 DEF Stepwise
  <2> QED
    BY <1>1, <1>5, <2>1, ReadGiven
<1>12. h[w] = g[n]
  <2>1. w \in 0 .. w /\ w - z = n
    BY <1>1
  <2>2. w <= z => n = 0
    BY <1>1
  <2>3. g[0] = 0
    BY <1>2 DEF Stepwise
  <2> QED
    BY <2>1, <2>2, <2>3 DEF h
<1> QED
  BY <1>2, <1>5, <1>10, <1>11, <1>12 DEF c

\* The hexadecimal digits of the argument's type, and half of what it can show.
Width == IF longlong THEN 2 * IntDigits ELSE IntDigits
Half == 8 * HexNumbers[Width - 1]
\* The argument is written as a complement.
Flipped == Negative /\ Base = 16
NoZero(t) == t[1] = 0 => Len(t) = 1

\* The argument fits its type.
ArgOK ==
    /\ letter \in {"d", "u", "x", "p"}
    /\ longlong \in BOOLEAN
    /\ letter = "p" => longlong
    /\ arg \in IF letter = "u" THEN 0 .. 2 * Half - 1 ELSE -Half .. Half - 1

\* While digits are written, the text read on from what is left is the number.
\* The digits to be complemented stay below half of what the type can show.
DigitsOK ==
    /\ val \in Nat
    /\ text \in Seq(Int)
    /\ ReadOn(Base, val, text) = Magnitude(letter, arg)
    /\ val = 0 => text = <<>>
    /\ Flipped => Len(text) < Width /\ val < 8 * HexNumbers[Width - Len(text) - 1]

\* The digits are all written.
WrittenOK(t) ==
    /\ t \in Seq(Int) /\ Len(t) > 0
    /\ ReadOn(Base, 0, t) = Magnitude(letter, arg)
    /\ NoZero(t)
    /\ Flipped => Len(t) <= Width /\ (Len(t) = Width => t[1] < 8)

SignOK == val = 0 /\ WrittenOK(text)

StripOK ==
    /\ minus <=> letter = "d" /\ arg < 0
    /\ IF Flipped THEN \E t : WrittenOK(t) /\ text = Complement(2 * IntDigits, t)
       ELSE WrittenOK(text)

\* The inductive invariant of a conversion.
FormatInv ==
    /\ letter # "0" => ArgOK
    /\ converting \in {"digits", "sign", "strip", "done", "undefined", "garbage", "unmatched"}
    /\ converting \in {"digits", "sign", "strip"} => letter # "0"
    /\ converting = "unmatched" => letter = "0"
    /\ converting = "digits" => DigitsOK
    /\ converting = "sign" => SignOK
    /\ converting = "strip" => StripOK
    /\ ConversionExact

\* The type can show twice Half.
LEMMA WidthIs ==
    ASSUME longlong \in BOOLEAN
    PROVE  /\ Width \in 1 .. 2 * IntDigits /\ Width - 1 \in 0 .. 2 * IntDigits
           /\ Half \in Nat \ {0}
           /\ HexNumbers[Width] = 2 * Half
           /\ HexNumbers[Width] = IF longlong THEN LongRange ELSE IntRange
<1>1. Width \in 1 .. 2 * IntDigits /\ Width - 1 \in 0 .. 2 * IntDigits
  BY FormatAssumption DEF Width
<1>2. HexNumbers[Width - 1] \in Nat \ {0} /\ HexNumbers[Width] = 16 * HexNumbers[Width - 1]
  BY <1>1, HexPowers
<1>3. HexNumbers[Width] = IF longlong THEN LongRange ELSE IntRange
  BY DEF Width, LongRange, IntRange
<1> HIDE DEF Width
<1> QED
  BY <1>1, <1>2, <1>3 DEF Half

\* A digit more in front: the text is read on from what is left.
LEMMA DigitStep == FormatInv /\ Digit => FormatInv'
<1> SUFFICES ASSUME FormatInv, Digit PROVE FormatInv'
  OBVIOUS
<1>1. ArgOK /\ DigitsOK /\ converting = "digits" /\ letter # "0"
  BY DEF FormatInv, Digit
<1> DEFINE d == val % Base
           more == <<d>> \o text
           rest == val \div Base
           m == Len(text)
           Left(l) == 8 * HexNumbers[Width - l - 1]
<1>2. /\ text' = more /\ val' = rest
      /\ converting' = IF rest = 0 THEN "sign" ELSE "digits"
      /\ letter' = letter /\ longlong' = longlong /\ arg' = arg
  BY DEF Digit
<1>3. /\ ArgOK' /\ Base' = Base /\ Width' = Width /\ (Flipped' <=> Flipped)
      /\ Magnitude(letter, arg)' = Magnitude(letter, arg)
  BY <1>1, <1>2 DEF ArgOK, Base, Width, Half, Flipped, Negative, Magnitude
<1>4. Base \in {10, 16} /\ Base \in Int
  BY DEF Base
<1>5. /\ d \in Int /\ rest \in Nat /\ val = rest * Base + d
      /\ 0 <= d /\ d < Base
  <2>1. CASE Base = 10
    <3> HIDE DEF Base
    <3> QED
      BY <1>1, <2>1 DEF DigitsOK
  <2>2. CASE Base = 16
    <3> HIDE DEF Base
    <3> QED
      BY <1>1, <2>2 DEF DigitsOK
  <2> QED
    BY <1>4, <2>1, <2>2
<1> HIDE DEF d, rest
<1>6. /\ more \in Seq(Int) /\ Len(more) = m + 1 /\ more[1] = d
      /\ ReadOn(Base, rest, more) = Magnitude(letter, arg)
  BY <1>1, <1>4, <1>5, ReadPrepends DEF DigitsOK
<1>7. m \in Nat
  BY <1>1, LenProperties DEF DigitsOK
<1> HIDE DEF more
<1>8. rest = 0 => NoZero(more)
  <2>1. ASSUME rest = 0, d = 0 PROVE m = 0
    <3>1. val = 0
      BY <1>4, <1>5, <2>1
    <3> QED
      BY <1>1, <3>1 DEF DigitsOK
  <2> QED
    BY <1>6, <2>1 DEF NoZero
<1> HIDE DEF m
<1>9. ASSUME Flipped
      PROVE  /\ m + 1 <= Width
             /\ m + 1 = Width => d < 8 /\ rest = 0
             /\ m + 1 < Width => rest < Left(m + 1)
  <2>1. m < Width /\ val < Left(m)
    BY <1>1, <1>9 DEF DigitsOK, m
  <2>2. Width \in 1 .. 2 * IntDigits
    BY <1>1, WidthIs DEF ArgOK
  <2>3. val = rest * 16 + d /\ d < 16
    BY <1>5, <1>9 DEF Flipped
  <2> HIDE DEF Width
  <2>4. m + 1 <= Width
    BY <1>7, <2>1, <2>2
  <2>5. m + 1 = Width => d < 8 /\ rest = 0
    <3>1. m + 1 = Width => Left(m) = 8
      <4>1. m + 1 = Width => Width - m - 1 = 0
        BY <1>7, <2>2
      <4> QED
        BY <4>1, HexPowers
    <3> HIDE DEF Left
    <3> QED
      BY <1>5, <2>1, <2>3, <3>1
  <2>6. m + 1 < Width => rest < Left(m + 1)
    <3> SUFFICES ASSUME m + 1 < Width PROVE rest < Left(m + 1)
      OBVIOUS
    <3>1. Width - m - 1 \in 1 .. 2 * IntDigits /\ Width - m - 1 - 1 = Width - (m + 1) - 1
          /\ Width - m - 1 - 1 \in 0 .. 2 * IntDigits
      BY <1>7, <2>2, FormatAssumption
    <3>2. Left(m) = 16 * Left(m + 1) /\ Left(m + 1) \in Nat
      BY <3>1, HexPowers
    <3> HIDE DEF Left
    <3> QED
      BY <1>5, <2>1, <2>3, <3>2
  <2> QED
    BY <2>4, <2>5, <2>6
<1>10. (converting = "digits")' => DigitsOK'
  <2> SUFFICES ASSUME rest # 0 PROVE DigitsOK'
    BY <1>2
  <2>1. Flipped => Len(more) < Width /\ rest < 8 * HexNumbers[Width - Len(more) - 1]
    <3> SUFFICES ASSUME Flipped
                 PROVE  Len(more) < Width /\ rest < 8 * HexNumbers[Width - Len(more) - 1]
      OBVIOUS
    <3>1. Width \in Int
      BY <1>1, WidthIs DEF ArgOK
    <3>2. m + 1 < Width
      BY <1>7, <1>9, <3>1
    <3> QED
      BY <1>6, <1>9, <3>2
  <2> QED
    BY <1>2, <1>3, <1>5, <1>6, <2>1 DEF DigitsOK
<1>11. (converting = "sign")' => SignOK'
  <2> SUFFICES ASSUME rest = 0 PROVE SignOK'
    BY <1>2
  <2> QED
    BY <1>2, <1>3, <1>6, <1>7, <1>8, <1>9 DEF SignOK, WrittenOK, NoZero
<1>12. /\ converting' \in {"digits", "sign"}
  BY <1>2
<1> QED
  BY <1>1, <1>2, <1>3, <1>10, <1>11, <1>12 DEF FormatInv, ConversionExact

\* The filled text of a negative hexadecimal is complemented.
LEMMA SignStep == FormatInv /\ Sign => FormatInv'
<1> SUFFICES ASSUME FormatInv, Sign PROVE FormatInv'
  OBVIOUS
<1>1. ArgOK /\ SignOK /\ converting = "sign" /\ letter # "0"
  BY DEF FormatInv, Sign
<1>2. /\ letter' = letter /\ longlong' = longlong /\ arg' = arg
      /\ converting' = "strip" /\ minus' = (Negative /\ Base = 10)
  BY DEF Sign
<1>3. /\ ArgOK' /\ Base' = Base /\ (Flipped' <=> Flipped)
      /\ \A t : WrittenOK(t)' <=> WrittenOK(t)
  BY <1>1, <1>2 DEF ArgOK, Base, Width, Half, Flipped, Negative, Magnitude, WrittenOK
<1>4. ~ Flipped => text' = text
  BY DEF Sign, Flipped
<1>5. ASSUME Flipped PROVE text' = Complement(2 * IntDigits, text)
  <2> DEFINE n == Len(text)
             w == 2 * IntDigits
             zeros == [i \in 1 .. w - n |-> 0]
             filled == zeros \o text
  <2>1. text' = [i \in DOMAIN filled |-> 15 - filled[i]]
    BY <1>5 DEF Sign, Flipped
  <2>2. n \in Nat /\ n <= w /\ w \in Nat
    <3>1. n <= Width /\ text \in Seq(Int)
      BY <1>1, <1>5 DEF SignOK, WrittenOK
    <3>2. Width \in 1 .. 2 * IntDigits
      BY <1>1, WidthIs DEF ArgOK
    <3>3. n \in Nat
      BY <3>1, LenProperties
    <3> HIDE DEF Width, n
    <3> QED
      BY <3>1, <3>2, <3>3, FormatAssumption
  <2>3. zeros \in Seq(Int) /\ Len(zeros) = w - n
    <3>1. zeros \in [1 .. w - n -> Int] /\ w - n \in Nat
      BY <2>2
    <3> QED
      BY <3>1, LenProperties DEF Seq
  <2>4. text \in Seq(Int)
    BY <1>1 DEF SignOK, WrittenOK
  <2>5. /\ filled \in Seq(Int) /\ Len(filled) = Len(zeros) + Len(text)
        /\ \A i \in 1 .. Len(zeros) + Len(text) :
              filled[i] = IF i <= Len(zeros) THEN zeros[i] ELSE text[i - Len(zeros)]
    BY <2>3, <2>4, ConcatProperties
  <2>6. DOMAIN filled = 1 .. w /\ Len(zeros) + Len(text) = w
    <3>1. Len(filled) = w
      BY <2>2, <2>3, <2>5
    <3> QED
      BY <2>2, <2>3, <2>5, <3>1, LenProperties
  <2>7. \A i \in 1 .. w : i <= w - n => zeros[i] = 0
    BY <2>2
  <2> HIDE DEF zeros, filled
  <2>8. \A i \in 1 .. w : filled[i] = IF i <= w - n THEN 0 ELSE text[i - (w - n)]
    BY <2>3, <2>5, <2>6, <2>7
  <2> QED
    BY <2>1, <2>6, <2>8 DEF Complement
<1>6. WrittenOK(text)
  BY <1>1 DEF SignOK
<1>7. minus' <=> letter' = "d" /\ arg' < 0
  <2>1. Negative /\ Base = 10 <=> letter = "d" /\ arg < 0
    BY <1>1 DEF ArgOK, Negative, Base
  <2> QED
    BY <1>2, <2>1, Zenon
<1>8. StripOK'
  <2>1. CASE Flipped
    <3>1. WrittenOK(text)' \/ TRUE
      OBVIOUS
    <3>2. \E t : WrittenOK(t)' /\ text' = Complement(2 * IntDigits, t)
      BY <1>3, <1>5, <1>6, <2>1
    <3> QED
      BY <1>3, <1>7, <2>1, <3>2 DEF StripOK
  <2>2. CASE ~ Flipped
    BY <1>3, <1>4, <1>6, <1>7, <2>2 DEF StripOK
  <2> QED
    BY <2>1, <2>2
<1> QED
  BY <1>1, <1>2, <1>3, <1>8 DEF FormatInv, ConversionExact

\* What the complement leaves when it is as long as the type.
LEMMA FlippedReads ==
    ASSUME NEW t, ArgOK, Flipped, WrittenOK(t)
    PROVE  /\ ReadOn(16, 0, Complement(Width, t)) = arg % HexNumbers[Width]
           /\ NoZero(Complement(Width, t))
<1>1. /\ Width \in 1 .. 2 * IntDigits /\ Width \in 0 .. 2 * IntDigits
      /\ Half \in Nat \ {0} /\ HexNumbers[Width] = 2 * Half
  BY FormatAssumption, WidthIs DEF ArgOK
<1>2. /\ t \in Seq(Int) /\ Len(t) \in Nat /\ Len(t) > 0 /\ Len(t) <= Width
      /\ Len(t) = Width => t[1] < 8
      /\ t[1] \in Int
  <2>1. t \in Seq(Int) /\ Len(t) > 0 /\ Len(t) <= Width /\ (Len(t) = Width => t[1] < 8)
    BY DEF WrittenOK
  <2>2. Len(t) \in Nat
    BY <2>1, LenProperties
  <2>3. 1 \in 1 .. Len(t)
    BY <2>1, <2>2
  <2> QED
    BY <2>1, <2>2, <2>3, ElementOfSeq
<1>3. arg \in -Half .. Half - 1 /\ arg < 0
  BY DEF ArgOK, Flipped, Negative
<1>4. ReadOn(16, 0, t) = -arg - 1
  BY DEF WrittenOK, Flipped, Negative, Magnitude, Base
<1>5. ReadOn(16, 0, Complement(Width, t)) = HexNumbers[Width] - 1 - ReadOn(16, 0, t)
  BY <1>1, <1>2, ComplementReads
<1>6. Complement(Width, t)[1] # 0
  <2>1. 1 \in 1 .. Width
    BY <1>1
  <2>2. Complement(Width, t)[1]
            = 15 - (IF 1 <= Width - Len(t) THEN 0 ELSE t[1 - (Width - Len(t))])
    BY <2>1 DEF Complement
  <2> HIDE DEF Width
  <2>3. ~(1 <= Width - Len(t)) => Len(t) = Width /\ 1 - (Width - Len(t)) = 1
    BY <1>1, <1>2
  <2> QED
    BY <1>2, <2>2, <2>3
<1> HIDE DEF Width, Half
<1>7. arg % HexNumbers[Width] = HexNumbers[Width] + arg
  <2>1. HexNumbers[Width] \in Nat \ {0} /\ arg \in -HexNumbers[Width] .. HexNumbers[Width] - 1
    BY <1>1, <1>3
  <2> QED
    BY <1>3, <2>1, RemainderIs
<1>8. HexNumbers[Width] - 1 - (-arg - 1) = HexNumbers[Width] + arg
  BY <1>1, <1>3
<1> QED
  BY <1>4, <1>5, <1>6, <1>7, <1>8 DEF NoZero

\* The second half of the digits, where the text is no longer than that.
LEMMA ComplementEnds ==
    ASSUME NEW t \in Seq(Int), Len(t) <= IntDigits
    PROVE  SubSeq(Complement(2 * IntDigits, t), IntDigits + 1, 2 * IntDigits)
               = Complement(IntDigits, t)
<1> DEFINE w == IntDigits
           n == Len(t)
           long == Complement(2 * w, t)
           end == SubSeq(long, w + 1, 2 * w)
<1>1. w \in Nat \ {0} /\ n \in Nat /\ n <= w /\ 2 * w \in 0 .. 2 * IntDigits /\ n <= 2 * w
  BY FormatAssumption, LenProperties
<1>2. long \in Seq(Int) /\ Len(long) = 2 * w
  BY <1>1, ComplementReads
<1>3. \A i \in 1 .. 2 * w : long[i] = 15 - (IF i <= 2 * w - n THEN 0 ELSE t[i - (2 * w - n)])
  BY DEF Complement
<1>4. \A i \in 1 .. 2 * w : long[i] \in Int
  BY <1>2, ElementOfSeq
<1> HIDE DEF n, long
<1>5. /\ end \in Seq(Int) /\ Len(end) = w
      /\ \A i \in 1 .. w : end[i] = long[i + w]
  <2>1. /\ w + 1 \in Int /\ 2 * w \in Int /\ w + 1 <= 2 * w
        /\ 2 * w - (w + 1) + 1 = w
        /\ \A i \in w + 1 .. 2 * w : i \in 1 .. 2 * w
        /\ \A i \in 1 .. w : w + 1 + i - 1 = i + w
    BY <1>1
  <2> HIDE DEF w
  <2>2. \A i \in w + 1 .. 2 * w : long[i] \in Int
    BY <1>4, <2>1
  <2> DEFINE m == w + 1
             k == 2 * w
  <2>3. m \in Int /\ k \in Int /\ \A i \in m .. k : long[i] \in Int
    BY <2>1, <2>2
  <2> HIDE DEF m, k
  <2>4. /\ SubSeq(long, m, k) \in Seq(Int)
        /\ Len(SubSeq(long, m, k)) = IF m <= k THEN k - m + 1 ELSE 0
        /\ \A i \in 1 .. k - m + 1 : SubSeq(long, m, k)[i] = long[m + i - 1]
    BY <2>3, SubSeqProperties
  <2>5. m <= k /\ k - m + 1 = w /\ \A i \in 1 .. w : m + i - 1 = i + w
    BY <2>1 DEF m, k
  <2>6. end = SubSeq(long, m, k)
    BY DEF m, k
  <2> HIDE DEF end
  <2> QED
    BY <2>4, <2>5, <2>6
<1> HIDE DEF end
<1>6. \A i \in 1 .. w : end[i] = 15 - (IF i <= w - n THEN 0 ELSE t[i - (w - n)])
  <2> SUFFICES ASSUME NEW i \in 1 .. w
               PROVE  end[i] = 15 - (IF i <= w - n THEN 0 ELSE t[i - (w - n)])
    OBVIOUS
  <2> DEFINE j == i + w
  <2>1. /\ j \in 1 .. 2 * w
        /\ (j <= 2 * w - n) <=> (i <= w - n)
        /\ j - (2 * w - n) = i - (w - n)
    BY <1>1
  <2>2. end[i] = long[j]
    BY <1>5
  <2> HIDE DEF j
  <2> QED
    BY <1>3, <2>1, <2>2
<1>7. end = [i \in 1 .. w |-> end[i]]
  BY <1>5, LenProperties
<1> QED
  BY <1>6, <1>7 DEF Complement, end, long, n

\* What is left is the text that the argument's own type would have.
LEMMA StripStep == FormatInv /\ Strip => FormatInv'
<1> SUFFICES ASSUME FormatInv, Strip PROVE FormatInv'
  OBVIOUS
<1>1. ArgOK /\ StripOK /\ converting = "strip" /\ letter # "0"
  BY DEF FormatInv, Strip
<1>2. /\ letter' = letter /\ longlong' = longlong /\ arg' = arg
      /\ converting' = "done" /\ minus' = minus
      /\ text' = IF letter = "x" /\ ~longlong /\ arg < 0
                 THEN SubSeq(text, IntDigits + 1, Len(text)) ELSE text
  BY DEF Strip
<1>3. ArgOK' /\ Base' = Base
  BY <1>1, <1>2 DEF ArgOK, Half, Width, Base
<1>4. /\ Half \in Nat \ {0} /\ HexNumbers[Width] = 2 * Half
      /\ HexNumbers[Width] = IF longlong THEN LongRange ELSE IntRange
  BY <1>1, WidthIs DEF ArgOK
<1>5. CASE Flipped
  <2>1. PICK t : WrittenOK(t) /\ text = Complement(2 * IntDigits, t)
    BY <1>1, <1>5 DEF StripOK
  <2>2. text' = Complement(Width, t)
    <3>1. CASE longlong
      BY <1>2, <2>1, <3>1 DEF Width
    <3>2. CASE ~ longlong
      <4>1. /\ letter = "x" /\ arg < 0
        BY <1>1, <1>5, <3>2 DEF ArgOK, Flipped, Negative, Base
      <4>2. /\ t \in Seq(Int) /\ Len(t) <= IntDigits /\ Len(t) \in Nat
        <5>1. t \in Seq(Int) /\ Len(t) <= IntDigits
          BY <1>5, <2>1, <3>2 DEF WrittenOK, Width
        <5> QED
          BY <5>1, LenProperties
      <4>3. IntDigits \in Nat \ {0} /\ 2 * IntDigits \in 0 .. 2 * IntDigits
        BY FormatAssumption
      <4>4. text \in Seq(Int) /\ Len(text) = 2 * IntDigits
        <5>1. Len(t) <= 2 * IntDigits
          BY <4>2, <4>3
        <5> QED
          BY <2>1, <4>2, <4>3, <5>1, ComplementReads
      <4>5. text' = SubSeq(Complement(2 * IntDigits, t), IntDigits + 1, 2 * IntDigits)
        BY <1>2, <2>1, <3>2, <4>1, <4>4
      <4>6. Width = IntDigits
        BY <3>2 DEF Width
      <4> QED
        BY <4>2, <4>5, <4>6, ComplementEnds
    <3> QED
      BY <3>1, <3>2
  <2>3. ReadOn(16, 0, text') = arg % HexNumbers[Width] /\ NoZero(text')
    BY <1>1, <1>5, <2>1, <2>2, FlippedReads
  <2>4. NumberRead' = arg % (IF longlong THEN LongRange ELSE IntRange)
    BY <1>3, <1>4, <1>5, <2>3 DEF NumberRead, Flipped
  <2>5. /\ letter # "d" /\ letter # "u"
        /\ minus <=> letter = "d" /\ arg < 0
    BY <1>1, <1>5 DEF Flipped, Negative, Base, StripOK
  <2>6. ConversionExact'
    BY <1>2, <2>3, <2>4, <2>5 DEF ConversionExact, NoZero
  <2> QED
    BY <1>1, <1>2, <1>3, <2>6 DEF FormatInv
<1>6. CASE ~ Flipped
  <2>1. WrittenOK(text) /\ (minus <=> letter = "d" /\ arg < 0)
    BY <1>1, <1>6 DEF StripOK
  <2>2. text' = text
    BY <1>2, <1>6 DEF Flipped, Negative, Base
  <2>3. NumberRead' = Magnitude(letter, arg) /\ NoZero(text')
    BY <1>3, <2>1, <2>2 DEF NumberRead, WrittenOK
  <2>4. letter = "d" => NumberRead' = IF arg < 0 THEN -arg ELSE arg
    BY <2>3 DEF Magnitude
  <2>5. letter = "u" => NumberRead' = arg
    BY <2>3 DEF Magnitude
  <2>6. letter # "d" /\ letter # "u" =>
            NumberRead' = arg % (IF longlong THEN LongRange ELSE IntRange)
    <3> SUFFICES ASSUME letter # "d", letter # "u"
                 PROVE  NumberRead' = arg % (IF longlong THEN LongRange ELSE IntRange)
      OBVIOUS
    <3>1. arg \in -Half .. Half - 1 /\ ~(arg < 0)
      BY <1>1, <1>6 DEF ArgOK, Flipped, Negative, Base
    <3>2. NumberRead' = arg
      BY <2>3, <3>1 DEF Magnitude
    <3> HIDE DEF Half, Width
    <3>3. HexNumbers[Width] \in Nat \ {0} /\ arg \in -HexNumbers[Width] .. HexNumbers[Width] - 1
      BY <1>4, <3>1
    <3>4. arg % HexNumbers[Width] = arg
      BY <3>1, <3>3, RemainderIs
    <3> QED
      BY <1>4, <3>2, <3>4
  <2>7. ConversionExact'
    BY <1>2, <2>1, <2>3, <2>4, <2>5, <2>6 DEF ConversionExact, NoZero
  <2> QED
    BY <1>1, <1>2, <1>3, <2>7 DEF FormatInv
<1> QED
  BY <1>5, <1>6

\* The argument as it is taken fits its type, and is what is left to write.
LEMMA FormatStarts == FormatInit => FormatInv
<1>a. CASE FormatInit /\ letter = "0"
  BY <1>a DEF FormatInit, FormatInv, ConversionExact
<1> SUFFICES ASSUME FormatInit, letter # "0" PROVE FormatInv
  BY <1>a
<1>1. letter \in {"d", "u", "x", "p"}
  BY DEF FormatInit
<1>2. PICK long \in BOOLEAN, a \in Arguments :
          /\ longlong = (long \/ letter = "p")
          /\ arg = Taken(letter, longlong, a)
          /\ val = Magnitude(letter, arg)
  BY DEF FormatInit
<1>3. /\ text = <<>>
      /\ converting \in {"undefined", "digits"}
  BY DEF FormatInit
<1>4. longlong \in BOOLEAN
  BY <1>2
<1>5. /\ Width \in 1 .. 2 * IntDigits /\ Width - 1 \in 0 .. 2 * IntDigits
      /\ Half \in Nat \ {0} /\ HexNumbers[Width] = 2 * Half
      /\ HexNumbers[Width] = IF longlong THEN LongRange ELSE IntRange
  BY <1>4, WidthIs
<1>6. arg \in IF letter = "u" THEN 0 .. 2 * Half - 1 ELSE -Half .. Half - 1
  <2> DEFINE range == HexNumbers[Width]
             low == a % range
  <2>1. a \in Int
    <3>1. MinLong \in Int
      <4>1. 2 * IntDigits \in 0 .. 2 * IntDigits
        BY FormatAssumption
      <4>2. LongRange \in Int
        BY <4>1, HexPowers DEF LongRange
      <4> QED
        BY <4>2 DEF MinLong
    <3> QED
      BY <3>1, FormatAssumption
  <2>2. arg = IF letter # "u" /\ low >= range \div 2 THEN low - range ELSE low
    BY <1>2, <1>5 DEF Taken
  <2> HIDE DEF Half, Width, low
  <2>3. range \in Nat \ {0} /\ range \div 2 = Half
    BY <1>5
  <2>4. low \in 0 .. range - 1
    BY <2>1, <2>3, RemainderIn DEF low
  <2> HIDE DEF range
  <2>5. range = 2 * Half
    BY <1>5 DEF range
  <2> QED
    BY <1>5, <2>2, <2>3, <2>4, <2>5
<1>7. arg \in Int
  <2> HIDE DEF Half
  <2> QED
    BY <1>5, <1>6
<1>8. val \in Nat
  <2> HIDE DEF Half
  <2> QED
    BY <1>2, <1>5, <1>6 DEF Magnitude
<1>9. ReadOn(Base, val, text) = val
  <2> DEFINE e == [i \in 0 .. 0 |-> val]
  <2>1. Len(text) = 0 /\ e[0] = val
    BY <1>3
  <2>2. Stepwise(e, Base, val, text, 0)
    BY DEF Stepwise
  <2> QED
    BY <2>1, <2>2, ReadGiven
<1>10. ASSUME Flipped
       PROVE  Len(text) < Width /\ val < 8 * HexNumbers[Width - Len(text) - 1]
  <2>1. arg < 0 /\ letter # "u" /\ letter \in {"x", "p"}
    BY <1>1, <1>10 DEF Flipped, Negative, Base
  <2>2. val = -arg - 1
    BY <1>2, <2>1 DEF Magnitude
  <2>3. Len(text) = 0 /\ Width - Len(text) - 1 = Width - 1
    <3> HIDE DEF Width
    <3> QED
      BY <1>3, <1>5
  <2>4. val < Half
    <3> HIDE DEF Half
    <3> QED
      BY <1>5, <1>6, <2>1, <2>2
  <2> QED
    BY <1>5, <2>3, <2>4 DEF Half
<1>11. ArgOK
  BY <1>1, <1>2, <1>6 DEF ArgOK
<1>12. DigitsOK
  BY <1>2, <1>3, <1>8, <1>9, <1>10 DEF DigitsOK
<1> QED
  BY <1>3, <1>11, <1>12 DEF FormatInv, ConversionExact

\* What d, u, x and p write in a log line is the argument, of every argument but
\* the least long and for every width of an int.
THEOREM FormatCorrect == FormatSpec => []ConversionExact
<1>1. FormatInv /\ [FormatNext]_formatVars => FormatInv'
  <2>1. FormatInv /\ Undefined => FormatInv'
    BY DEF FormatInv, Undefined, ArgOK, Half, Width, ConversionExact
  <2>3. FormatInv /\ Unmatched => FormatInv'
    BY DEF FormatInv, Unmatched, ArgOK, Half, Width, ConversionExact
  <2>2. FormatInv /\ UNCHANGED formatVars => FormatInv'
    <3> SUFFICES ASSUME FormatInv, UNCHANGED formatVars PROVE FormatInv'
      OBVIOUS
    <3> QED
      BY DEF FormatInv, formatVars, ArgOK, Half, Width, DigitsOK, SignOK, StripOK, WrittenOK,
             Flipped, Negative, Base, Magnitude, ConversionExact, NumberRead
  <2> QED
    BY <2>1, <2>2, <2>3, DigitStep, SignStep, StripStep DEF FormatNext
<1>2. FormatInv => ConversionExact
  BY DEF FormatInv
<1> QED
  BY <1>1, <1>2, FormatStarts, PTL DEF FormatSpec

-----------------------------------------------------------------------------
(* The logger.                                                             *)

LogTypeOK ==
    /\ fd \in -1 .. MaxFd
    /\ named \in BOOLEAN /\ stray \in BOOLEAN /\ loosened \in BOOLEAN
    /\ returned \in BOOLEAN /\ openFailed \in BOOLEAN
    /\ opened \in [Fds -> {"stdin", "stdout", "stderr", "log", "other", "closed"}]
    /\ told \in {"stdin", "stdout", "stderr", "log", "nothing"}
    /\ line \in [level : Levels \cup {-1}, len : Nat, pieces : 0 .. 5]

\* Until somebody closes under the logger's feet, the standard streams are open
\* and its descriptor is what it was told; only a file that did not open leaves
\* it without one.
LogInv ==
    /\ LogTypeOK
    /\ line.len < LOG_MAX_LEN
    /\ Idle \/ fd >= 0
    /\ ~ loosened =>
          /\ opened[0] = "stdin" /\ opened[1] = "stdout" /\ opened[2] = "stderr"
          /\ fd >= 0 => opened[fd] = told
    /\ stray => loosened
    /\ fd < 0 => openFailed
    /\ returned => openFailed

LEMMA StandardFds == 0 \in Fds /\ 1 \in Fds /\ 2 \in Fds /\ Fds \subseteq Int
BY LogAssumption DEF Fds

LEMMA OpensKeeps ==
    ASSUME LogInv, NEW o \in [Fds -> {"stdin", "stdout", "stderr", "log", "other", "closed"}],
           Opens(o), loosened' \in BOOLEAN, loosened => loosened',
           ~ loosened' => o[0] = "stdin" /\ o[1] = "stdout" /\ o[2] = "stderr",
           Idle, UNCHANGED <<line, stray, returned>>, named' \in BOOLEAN
    PROVE  LogInv'
<1>1. CASE \E d \in Fds : /\ IsLowest(d, o) /\ fd' = d
                          /\ opened' = [o EXCEPT ![d] = "log"]
                          /\ told' = "log" /\ UNCHANGED openFailed
  <2>1. PICK d \in Fds : /\ IsLowest(d, o) /\ fd' = d
                         /\ opened' = [o EXCEPT ![d] = "log"]
                         /\ told' = "log" /\ UNCHANGED openFailed
    BY <1>1
  <2>2. /\ o[d] = "closed" /\ fd' \in -1 .. MaxFd /\ fd' >= 0
        /\ opened' \in [Fds -> {"stdin", "stdout", "stderr", "log", "other", "closed"}]
        /\ opened'[fd'] = told' /\ \A e \in Fds : e # d => opened'[e] = o[e]
    BY <2>1, LogAssumption DEF IsLowest, Fds
  <2>3. ~ loosened' => d # 0 /\ d # 1 /\ d # 2
    BY <2>2
  <2> QED
    BY <2>1, <2>2, <2>3, StandardFds DEF LogInv, LogTypeOK, Idle, NoLine
<1>2. CASE fd' = -1 /\ opened' = o /\ told' = "nothing" /\ openFailed' = TRUE
  <2>1. fd' \in -1 .. MaxFd /\ ~ (fd' >= 0)
    BY <1>2, LogAssumption
  <2> QED
    BY <1>2, <2>1, StandardFds DEF LogInv, LogTypeOK, Idle, NoLine
<1> QED
  BY <1>1, <1>2 DEF Opens

LEMMA ClosedProperties ==
    ASSUME LogInv
    PROVE  /\ Closed \in [Fds -> {"stdin", "stdout", "stderr", "log", "other", "closed"}]
           /\ \A e \in Fds : e # fd => Closed[e] = opened[e]
<1>1. fd < 0 \/ fd \in Fds
  BY LogAssumption DEF LogInv, LogTypeOK, Fds
<1> QED
  BY <1>1 DEF Closed, LogInv, LogTypeOK

LEMMA PieceFits ==
    ASSUME LogInv, Piece
    PROVE  /\ line'.len < LOG_MAX_LEN
           /\ line' \in [level : Levels \cup {-1}, len : Nat, pieces : 0 .. 5]
<1>1. PICK n \in PieceLengths :
         LET m == IF line.pieces = 0 /\ n >= Room THEN 0 ELSE Fits(n)
         IN  line' = [line EXCEPT !.len = @ + m, !.pieces = @ + 1]
  BY DEF Piece
<1>2. n \in Nat /\ line.len \in Nat /\ LOG_MAX_LEN \in Nat /\ line.len < LOG_MAX_LEN
      /\ line.pieces \in 0 .. 3
  BY LogAssumption DEF LogInv, LogTypeOK, Piece
<1> DEFINE m == IF line.pieces = 0 /\ n >= Room THEN 0 ELSE Fits(n)
<1>3. /\ m \in Nat /\ m < LOG_MAX_LEN - line.len
      /\ line' = [line EXCEPT !.len = @ + m, !.pieces = @ + 1]
  BY <1>1, <1>2 DEF Room, Fits
<1> HIDE DEF m
<1>4. line = [level |-> line.level, len |-> line.len, pieces |-> line.pieces]
      /\ line.level \in Levels \cup {-1}
  BY DEF LogInv, LogTypeOK
<1>5. line' = [level |-> line.level, len |-> line.len + m, pieces |-> line.pieces + 1]
  BY <1>3, <1>4
<1>6. line.len + m \in Nat /\ line.pieces + 1 \in 0 .. 5 /\ line.len + m < LOG_MAX_LEN
  BY <1>2, <1>3
<1> QED
  BY <1>4, <1>5, <1>6

LEMMA LogStep ==
    ASSUME LogInv, [LogNext]_logVars
    PROVE  LogInv'
<1>1. /\ fd \in -1 .. MaxFd /\ LOG_MAX_LEN \in Nat /\ LOG_MAX_LEN > 1 /\ MaxFd >= 2 /\ MaxFd \in Nat
      /\ opened \in [Fds -> {"stdin", "stdout", "stderr", "log", "other", "closed"}]
  BY LogAssumption DEF LogInv, LogTypeOK
<1>2. CASE InitStandard
  <2>1. PICK d \in {1, 2} : fd' = d /\ told' = IF d = 1 THEN "stdout" ELSE "stderr"
    BY <1>2 DEF InitStandard
  <2> QED
    BY <1>1, <1>2, <2>1, StandardFds DEF InitStandard, UnchangedHistory, LogInv, LogTypeOK, Idle, NoLine
<1>3. CASE InitFile
  BY <1>1, <1>3, OpensKeeps DEF InitFile, UnchangedHistory, LogInv, LogTypeOK
<1>4. CASE InitUnknown
  BY <1>4 DEF InitUnknown, UnchangedHistory, LogInv, LogTypeOK, Idle, NoLine
<1>5. CASE log_deinit
  <2>1. Closed \in [Fds -> {"stdin", "stdout", "stderr", "log", "other", "closed"}]
    BY ClosedProperties
  <2> QED
    BY <1>5, <2>1 DEF log_deinit, UnchangedHistory, LogInv, LogTypeOK, Idle, NoLine
<1>6. CASE log_reopen
  <2>1. Idle /\ Opens(Closed) /\ loosened' = (loosened \/ fd \in {0, 1}) /\ fd # 2
        /\ UNCHANGED <<named, nerror, line, stray, returned>>
    BY <1>6 DEF log_reopen, Reopens, UnchangedHistory
  <2>2. ~ loosened' => Closed[0] = "stdin" /\ Closed[1] = "stdout" /\ Closed[2] = "stderr"
    BY <2>1, ClosedProperties, StandardFds DEF LogInv
  <2>3. loosened' \in BOOLEAN /\ (loosened => loosened') /\ named' \in BOOLEAN
    BY <2>1 DEF LogInv, LogTypeOK
  <2> QED
    BY <2>1, <2>2, <2>3, ClosedProperties, OpensKeeps
<1>7. CASE OtherOpens
  <2>1. PICK d \in Fds : opened[d] = "closed" /\ opened' = [opened EXCEPT ![d] = "other"]
    BY <1>7 DEF OtherOpens, IsLowest
  <2>2. /\ opened' \in [Fds -> {"stdin", "stdout", "stderr", "log", "other", "closed"}]
        /\ \A e \in Fds : e # d => opened'[e] = opened[e]
    BY <1>1, <2>1
  <2>3. ~ loosened => d # 0 /\ d # 1 /\ d # 2
    BY <2>1 DEF LogInv
  <2> QED
    BY <1>7, <2>1, <2>2, <2>3, StandardFds DEF OtherOpens, UnchangedHistory, LogInv, LogTypeOK, Idle, NoLine
<1>8. CASE CallReturns
  BY <1>8 DEF CallReturns, LogInv, LogTypeOK, Idle, NoLine
<1>9. CASE LineStarts
  <2>1. /\ line' \in [level : Levels \cup {-1}, len : Nat, pieces : 0 .. 5]
        /\ line'.len = 1 /\ line'.pieces = 0
    BY <1>9 DEF LineStarts
  <2> QED
    BY <1>1, <1>9, <2>1 DEF LineStarts, UnchangedHistory, LogInv, LogTypeOK, Idle, NoLine
<1>10. CASE Piece
  BY <1>10, PieceFits DEF Piece, UnchangedHistory, LogInv, LogTypeOK, Idle
<1>11. CASE LineEnds
  <2>1. /\ line' \in [level : Levels \cup {-1}, len : Nat, pieces : 0 .. 5]
        /\ line'.len = 0 /\ ~ Idle
    BY <1>11 DEF LineEnds, NoLine, Idle
  <2>2. fd >= 0 /\ stray' \in BOOLEAN /\ (stray' => loosened)
    BY <1>1, <1>11, <2>1 DEF LineEnds, LogInv, LogTypeOK
  <2>3. UNCHANGED <<fd, named, opened, told, loosened, returned, openFailed>>
    BY <1>11 DEF LineEnds
  <2> QED
    BY <1>1, <2>1, <2>2, <2>3 DEF LogInv, LogTypeOK
<1>12. CASE UNCHANGED logVars
  BY <1>12 DEF logVars, LogInv, LogTypeOK, Idle, NoLine
<1> QED
  BY <1>2, <1>3, <1>4, <1>5, <1>6, <1>7, <1>8, <1>9, <1>10, <1>11, <1>12 DEF LogNext

\* What the invariant says of the logger holds in every state.
THEOREM LogCorrect == LogSpec => []LogInv
<1>1. LogInit => LogInv
  <2> SUFFICES ASSUME LogInit PROVE LogInv
    OBVIOUS
  <2>1. /\ opened \in [Fds -> {"stdin", "stdout", "stderr", "log", "other", "closed"}]
        /\ opened[0] = "stdin" /\ opened[1] = "stdout" /\ opened[2] = "stderr"
    BY StandardFds DEF LogInit
  <2>2. line.len = 0 /\ line.pieces = 0
        /\ line \in [level : Levels \cup {-1}, len : Nat, pieces : 0 .. 5]
    BY DEF LogInit, NoLine
  <2>3. fd = 0 /\ told = "stdin" /\ fd \in -1 .. MaxFd /\ 0 < LOG_MAX_LEN
    BY LogAssumption DEF LogInit
  <2>4. named = FALSE /\ stray = FALSE /\ loosened = FALSE /\ returned = FALSE
        /\ openFailed = FALSE
    BY DEF LogInit
  <2>5. LogTypeOK
    BY <2>1, <2>2, <2>3, <2>4 DEF LogTypeOK
  <2> QED
    BY <2>1, <2>2, <2>3, <2>4, <2>5 DEF LogInv
<1>2. LogInv /\ [LogNext]_logVars => LogInv'
  BY LogStep
<1> QED
  BY <1>1, <1>2, PTL DEF LogSpec

\* No piece of a line, however long, is written past the buffer.
THEOREM BufferCorrect == LogSpec => []LineInBuffer
<1>1. LogInv => LineInBuffer
  BY DEF LogInv, LineInBuffer
<1> QED
  BY <1>1, LogCorrect, PTL

\* A line goes where the logger was told, unless its descriptor was closed
\* under it, and a FATAL call returns only for want of a log file.
THEOREM LinesCorrect == LogSpec => []LinesReachTheLog
<1>1. LogInv => LinesReachTheLog
  BY DEF LogInv, LinesReachTheLog
<1> QED
  BY <1>1, LogCorrect, PTL

-----------------------------------------------------------------------------
(* The ports of the two programs.                                          *)

FilePort == AsInt(file["port"].int)

\* The server has the file's port, then what netsocket_init makes of it; the
\* client has the file's port.
ConfInv ==
    /\ stage \in {"start", "parsed", "bound", "running", "ended"}
    /\ FilePort \in Int
    /\ stage = "parsed" => cf.port = FilePort
    /\ stage \in {"bound", "running"} => net.port \in BindsTo(PortOf(FilePort))
    /\ dialled \in {-1, -2, FilePort % Ports}

LEMMA ConfStep ==
    ASSUME ConfInv, [ConfNext]_confVars
    PROVE  ConfInv'
<1>1. file' = file /\ FilePort' = FilePort
  BY DEF ConfNext, ConfFails, ConfCreated, Bound, NetsocketFails, Listening, ClientEnds,
         ClientDials, confVars, FilePort, AsInt
<1> USE <1>1
<1>2. CASE ConfFails
  BY <1>2 DEF ConfFails, ConfInv
<1>3. CASE ConfCreated
  <2>1. conf_keys[CONF_PORT] = "port"
    BY DEF conf_keys, CONF_PORT
  <2>2. cf'.port = FilePort
    BY <1>3, <2>1 DEF ConfCreated, conf_create, Untouched, FilePort
  <2> QED
    BY <1>3, <2>2 DEF ConfCreated, ConfInv
<1>4. CASE Bound
  <2>1. net'.port \in BindsTo(PortOf(FilePort))
    BY <1>4 DEF Bound, ConfInv
  <2> QED
    BY <1>4, <2>1 DEF Bound, ConfInv, PortOf, BindsTo
<1>5. CASE NetsocketFails
  BY <1>5 DEF NetsocketFails, ConfInv
<1>6. CASE Listening
  BY <1>6 DEF Listening, ConfInv, PortOf, BindsTo
<1>7. CASE ClientEnds
  BY <1>7 DEF ClientEnds, ConfInv, PortOf, BindsTo
<1>8. CASE ClientDials
  BY <1>8 DEF ClientDials, ConfInv, PortOf, FilePort, BindsTo
<1>9. CASE UNCHANGED confVars
  BY <1>9 DEF confVars, ConfInv, PortOf, BindsTo
<1> QED
  BY <1>2, <1>3, <1>4, <1>5, <1>6, <1>7, <1>8, <1>9 DEF ConfNext

\* A running server and a client with one port in their files meet exactly when
\* that port is above 1024 and not 0 in 16 bits, or names the default: for every
\* file, every width of an int and every choice of the system.
THEOREM PortsCorrect == ConfSpec => []MeetAtPort
<1>1. ConfInit => ConfInv
  <2> SUFFICES ASSUME ConfInit PROVE ConfInv
    OBVIOUS
  <2>1. file["port"].int \in Int
    BY ConfAssumption DEF ConfInit, Keys
  <2>2. \A n \in Int, w \in Nat \ {0} : n % w \in Int
    OBVIOUS
  <2>3. FilePort \in Int
    BY <2>1, <2>2, ConfAssumption DEF FilePort, AsInt
  <2> QED
    BY <2>3 DEF ConfInit, ConfInv
<1>2. ConfInv /\ [ConfNext]_confVars => ConfInv'
  BY ConfStep
<1>3. ConfInv => MeetAtPort
  <2> SUFFICES ASSUME ConfInv, stage = "running", dialled >= 0
               PROVE  dialled = net.port <=>
                          \/ FilePort > 1024 /\ dialled # 0
                          \/ dialled = NETSOCKET_DEFAULT_PORT
    BY DEF MeetAtPort, FilePort
  <2>1. dialled = FilePort % Ports /\ net.port \in BindsTo(PortOf(FilePort))
    BY DEF ConfInv
  <2>2. FilePort \in Int /\ Ports \in Nat /\ Ports > 8765
    BY ConfAssumption DEF ConfInv, NETSOCKET_DEFAULT_PORT
  <2>3. CASE FilePort > 1024 /\ dialled # 0
    BY <2>1, <2>2, <2>3 DEF PortOf, BindsTo
  <2>5. CASE FilePort > 1024 /\ dialled = 0
    <3>0. PortOf(FilePort) = FilePort /\ FilePort % Ports = 0
      BY <2>1, <2>2, <2>5 DEF PortOf
    <3>1. net.port \in Ephemeral
      BY <2>1, <3>0 DEF BindsTo
    <3>2. net.port # 0
      BY <2>2, <3>1, ConfAssumption
    <3> QED
      BY <2>5, <3>2 DEF NETSOCKET_DEFAULT_PORT
  <2>4. CASE ~ (FilePort > 1024)
    <3>1. PortOf(FilePort) = 8765
      BY <2>2, <2>4 DEF PortOf, NETSOCKET_DEFAULT_PORT
    <3>2. 8765 % Ports = 8765
      BY <2>2
    <3> QED
      BY <2>1, <2>4, <3>1, <3>2 DEF BindsTo, NETSOCKET_DEFAULT_PORT
  <2> QED
    BY <2>3, <2>4, <2>5
<1> QED
  BY <1>1, <1>2, <1>3, PTL DEF ConfSpec

-----------------------------------------------------------------------------
(* The client's command line.                                              *)

Optional == {Option(l, f, v) : l \in {"r", "t"}, f \in {"short", "long"}, v \in Words}
            \cup {Option("d", f, v) : f \in {"short", "long"}, v \in DataWords}

LEMMA CommandLineType ==
    ASSUME NEW a \in CommandLines
    PROVE  /\ Len(a) \in Nat
           /\ \A i \in 1 .. Len(a) :
                 /\ a[i].letter \in Letters
                 /\ optarg(a[i]) \in Words \cup DataWords \cup {NoArgument}
                 /\ a[i].form \in {"short", "long"}
<1>1. PICK n \in Nat : a \in [1 .. n -> Optional]
  BY ClientMainAssumption DEF CommandLines, Optional
<1>2. a \in Seq(Optional) /\ Len(a) = n
  BY <1>1
<1>3. \A o \in Optional : /\ o.letter \in Letters /\ o.form \in {"short", "long"}
                           /\ optarg(o) \in Words \cup DataWords \cup {NoArgument}
  BY DEF Optional, Option, Letters, optarg
<1> QED
  BY <1>1, <1>2, <1>3

\* Every option that was read had an argument, which its slice has, or the last
\* one ended the client before it did anything.
ClientInv ==
    /\ argv \in CommandLines
    /\ ch \in 0 .. Len(argv)
    /\ slices \in [Letters -> Words \cup DataWords \cup {NoArgument}]
    /\ requested \in BOOLEAN /\ freed \in BOOLEAN
    /\ at \in {"conf", "connect", "options"} => ~ requested /\ ~ freed
    /\ \/ at = "exited" /\ ~ requested /\ ~ freed
       \/ \A i \in 1 .. ch : ~ InitFails(argv[i]) /\ slices[argv[i].letter] # NoArgument
    /\ requested /\ slices["r"] # NoArgument => Names(slices["r"], BUCKSET)
    /\ freed => \E l \in Letters : slices[l] = NoArgument

LEMMA OptionTakenStep ==
    ASSUME ClientInv, OptionTaken
    PROVE  ClientInv'
<1>1. /\ Len(argv) \in Nat /\ ch \in 0 .. Len(argv) /\ ch < Len(argv) /\ ch' = ch + 1
      /\ at = "options" /\ UNCHANGED <<argv, requested, freed>>
  BY CommandLineType DEF ClientInv, OptionTaken
<1>2. ch' \in 0 .. Len(argv) /\ ch' \in 1 .. Len(argv)
  BY <1>1
<1>3. /\ argv[ch'].letter \in Letters
      /\ optarg(argv[ch']) \in Words \cup DataWords \cup {NoArgument}
  BY <1>2, CommandLineType DEF ClientInv
<1>4. ~ requested /\ ~ freed
  BY <1>1 DEF ClientInv
<1>5. CASE InitFails(argv[ch'])
  <2>1. at' = "exited" /\ UNCHANGED slices
    BY <1>1, <1>5 DEF OptionTaken
  <2> QED
    BY <1>1, <1>2, <1>4, <2>1 DEF ClientInv
<1>6. CASE ~ InitFails(argv[ch'])
  <2>1. slices' = [slices EXCEPT ![argv[ch'].letter] = optarg(argv[ch'])] /\ UNCHANGED at
    BY <1>1, <1>6 DEF OptionTaken
  <2>2. /\ slices' \in [Letters -> Words \cup DataWords \cup {NoArgument}]
        /\ slices'[argv[ch'].letter] # NoArgument
        /\ \A l \in Letters : slices[l] # NoArgument => slices'[l] # NoArgument
    BY <1>3, <1>6, <2>1 DEF ClientInv, InitFails
  <2>3. \A i \in 1 .. ch' : ~ InitFails(argv[i]) /\ slices'[argv[i].letter] # NoArgument
    <3> SUFFICES ASSUME NEW i \in 1 .. ch'
                 PROVE  ~ InitFails(argv[i]) /\ slices'[argv[i].letter] # NoArgument
      OBVIOUS
    <3>1. CASE i = ch'
      BY <1>6, <2>2, <3>1
    <3>2. CASE i # ch'
      <4>1. i \in 1 .. ch /\ i \in 1 .. Len(argv)
        BY <1>1, <3>2
      <4>2. ~ InitFails(argv[i]) /\ slices[argv[i].letter] # NoArgument
        BY <1>1, <4>1 DEF ClientInv
      <4>3. argv[i].letter \in Letters
        BY <4>1, CommandLineType DEF ClientInv
      <4> QED
        BY <2>2, <4>2, <4>3
    <3> QED
      BY <3>1, <3>2
  <2> QED
    BY <1>1, <1>2, <1>4, <2>1, <2>2, <2>3 DEF ClientInv
<1> QED
  BY <1>5, <1>6

LEMMA ClientStep ==
    ASSUME ClientInv, [ClientNext]_clientVars
    PROVE  ClientInv'
<1>1. CASE NoConf \/ ConfRead \/ Connects
  BY <1>1 DEF NoConf, ConfRead, Connects, ClientInv, InitFails
<1>2. CASE OptionTaken
  BY <1>2, OptionTakenStep
<1>3. CASE Dispatch
  BY <1>3 DEF Dispatch, ClientInv, InitFails
<1>4. CASE RequestReturns
  BY <1>4 DEF RequestReturns, ClientInv, InitFails
<1>5. CASE Out
  BY <1>5 DEF Out, ClientInv, InitFails
<1>6. CASE UNCHANGED clientVars
  BY <1>6 DEF clientVars, ClientInv, InitFails
<1> QED
  BY <1>1, <1>2, <1>3, <1>4, <1>5, <1>6 DEF ClientNext

\* A request is made of a command line with long names only, and only one that
\* lacks an option frees garbage: for every command line of the options, of any
\* length.
THEOREM OptionsCorrect == ClientSpec => []OnlyLongOptions
<1>1. ClientInit => ClientInv
  <2> SUFFICES ASSUME ClientInit PROVE ClientInv
    OBVIOUS
  <2>1. Len(argv) \in Nat
    BY CommandLineType DEF ClientInit
  <2>2. ch = 0 /\ 0 \in 0 .. Len(argv) /\ \A i \in 1 .. 0 : FALSE
    BY <2>1 DEF ClientInit
  <2> QED
    BY <2>2 DEF ClientInit, ClientInv
<1>2. ClientInv /\ [ClientNext]_clientVars => ClientInv'
  BY ClientStep
<1>3. ClientInv => OnlyLongOptions
  <2> SUFFICES ASSUME ClientInv PROVE OnlyLongOptions
    OBVIOUS
  <2>1. \A i \in 1 .. ch : argv[i].letter \in Letters /\ argv[i].form \in {"short", "long"}
    BY CommandLineType DEF ClientInv
  <2>2. CASE at = "exited" /\ ~ requested /\ ~ freed
    BY <2>2 DEF OnlyLongOptions
  <2>3. CASE \A i \in 1 .. ch : ~ InitFails(argv[i]) /\ slices[argv[i].letter] # NoArgument
    <3>1. ~ Given("r", "short") /\ ~ Given("t", "short")
      BY <2>3 DEF Given, InitFails, optarg
    <3>2. \A l \in Letters : Given(l, "short") \/ Given(l, "long") => slices[l] # NoArgument
      BY <2>3 DEF Given
    <3>3. "r" \in Letters
      BY DEF Letters
    <3> QED
      BY <3>1, <3>2, <3>3 DEF ClientInv, OnlyLongOptions
  <2> QED
    BY <2>2, <2>3 DEF ClientInv
<1> QED
  BY <1>1, <1>2, <1>3, PTL DEF ClientSpec

-----------------------------------------------------------------------------
(* The digest.                                                             *)

Md5Ctx == [lo : 0 .. Word - 1, hi : 0 .. Word - 1,
           buffer : [0 .. BlockSize - 1 -> Int],
           given : Nat, taken : Nat, straight : BOOLEAN]

\* The two words are the number of bits given, but for whole turns of both.
Counts(c) == \E q \in Nat : c.lo + Word * (c.hi + Word * q) = 8 * c.given

\* The context c has had its bytes in order, block by block.
InBlocks(c) ==
    /\ c \in Md5Ctx
    /\ Counts(c)
    /\ c.straight
    /\ c.taken % 64 = 0
    /\ c.given - c.taken = Index(c)
    /\ \A i \in 0 .. Index(c) - 1 : c.buffer[i] = c.taken + i

\* A multiple of 64 more or less does not show in what is left over.
LEMMA Modulo64 ==
    ASSUME NEW t \in Nat, t % 64 = 0, NEW r \in 0 .. 63
    PROVE  (t + r) % 64 = r
OBVIOUS

LEMMA MoreBlocks ==
    ASSUME NEW t \in Nat, t % 64 = 0, NEW l \in Nat
    PROVE  t + l * 64 \in Nat /\ (t + l * 64) % 64 = 0
OBVIOUS

LEMMA WordMultiple == \E k \in Nat : Word = 512 * k /\ Word \in Nat /\ Word > 0
<1>1. Word \in Nat /\ Word > 0 /\ Word % 512 = 0
  BY Md5Assumption
<1>2. Word = 512 * (Word \div 512) /\ Word \div 512 \in Nat
  BY <1>1
<1> QED
  BY <1>1, <1>2

\* The index in the buffer is the number of bytes given, in blocks of 64.
LEMMA IndexIsRest ==
    ASSUME NEW c, c \in Md5Ctx, Counts(c)
    PROVE  Index(c) = c.given % 64
<1>1. PICK k \in Nat : Word = 512 * k
  BY WordMultiple
<1>2. PICK q \in Nat : c.lo + Word * (c.hi + Word * q) = 8 * c.given
  BY DEF Counts
<1>3. c.lo \in Int /\ c.hi \in Int /\ c.given \in Nat
  BY DEF Md5Ctx
<1> DEFINE m == k * (c.hi + Word * q)
<1>4. m \in Int /\ Word * (c.hi + Word * q) = 512 * m
  <2>1. Word \in Int /\ Word * q \in Int
    BY <1>1
  <2>2. \A x \in Int : k * x \in Int /\ (512 * k) * x = 512 * (k * x)
    BY <1>1
  <2> QED
    BY <1>1, <1>3, <2>1, <2>2
<1> HIDE DEF m
<1>5. c.lo = 8 * (c.given - 64 * m)
  BY <1>2, <1>3, <1>4
<1>6. c.lo \div 8 = c.given - 64 * m
  BY <1>3, <1>4, <1>5
<1> QED
  BY <1>3, <1>4, <1>6 DEF Index, BlockSize

\* n bytes more are counted, with the carry of the low word.
LEMMA CountedCounts ==
    ASSUME NEW c, c \in Md5Ctx, Counts(c), NEW n \in Nat
    PROVE  /\ Counted(c, n) \in Md5Ctx /\ Counts(Counted(c, n))
           /\ Counted(c, n).given = c.given + n
           /\ Counted(c, n).buffer = c.buffer /\ Counted(c, n).taken = c.taken
           /\ Counted(c, n).straight = c.straight
<1> DEFINE bits == (8 * n) % Word
           whole == (8 * n) \div Word
           lo == (c.lo + bits) % Word
           carry == IF lo < bits THEN 1 ELSE 0
           hi == (c.hi + carry + whole) % Word
           turns == (c.hi + carry + whole) \div Word
<1>1. Word \in Nat /\ Word > 0
  BY WordMultiple
<1>2. \A x \in Nat : /\ x % Word \in 0 .. Word - 1 /\ x \div Word \in Nat
                     /\ x = (x % Word) + Word * (x \div Word)
  BY <1>1
<1>3. c.lo \in 0 .. Word - 1 /\ c.hi \in 0 .. Word - 1 /\ c.given \in Nat
  BY DEF Md5Ctx
<1>4. bits \in 0 .. Word - 1 /\ whole \in Nat /\ 8 * n = bits + Word * whole
  BY <1>2
<1>5. lo \in 0 .. Word - 1 /\ carry \in 0 .. 1
  BY <1>1, <1>2, <1>3, <1>4
<1>6. c.lo + bits = lo + Word * carry
  <2>1. \A x \in Nat : /\ x < Word => x % Word = x
                       /\ Word <= x /\ x < 2 * Word => x % Word = x - Word
    BY <1>1
  <2>2. c.lo + bits \in Nat /\ c.lo + bits < 2 * Word
    BY <1>1, <1>3, <1>4
  <2>3. CASE c.lo + bits < Word
    BY <1>1, <1>3, <1>4, <2>1, <2>2, <2>3
  <2>4. CASE ~ (c.lo + bits < Word)
    BY <1>1, <1>3, <1>4, <2>1, <2>2, <2>4
  <2> QED
    BY <2>3, <2>4
<1>7. hi \in 0 .. Word - 1 /\ turns \in Nat /\ c.hi + carry + whole = hi + Word * turns
  BY <1>2, <1>3, <1>4, <1>5
<1>8. Counted(c, n) = [c EXCEPT !.lo = lo, !.hi = hi, !.given = @ + n]
  BY DEF Counted
<1> HIDE DEF bits, whole, lo, carry, hi, turns
<1>9. PICK q \in Nat : c.lo + Word * (c.hi + Word * q) = 8 * c.given
  BY DEF Counts
<1>10. lo + Word * (hi + Word * (q + turns)) = 8 * (c.given + n)
  <2> DEFINE x == c.hi + Word * q
  <2>1. x \in Int /\ Word * turns \in Int /\ Word * q \in Int
        /\ Word * (q + turns) = Word * q + Word * turns
    BY <1>1, <1>3, <1>7
  <2>2. hi + Word * (q + turns) = x + (carry + whole)
    BY <1>3, <1>4, <1>5, <1>7, <2>1
  <2> HIDE DEF x
  <2>3. Word * (x + (carry + whole)) = Word * x + Word * carry + Word * whole
    BY <1>1, <1>4, <1>5, <2>1
  <2>4. Word * x \in Int /\ Word * carry \in Int /\ Word * whole \in Int
    BY <1>1, <1>4, <1>5, <2>1
  <2>5. c.lo + Word * x = 8 * c.given
    BY <1>9 DEF x
  <2> QED
    BY <1>3, <1>4, <1>5, <1>6, <2>2, <2>3, <2>4, <2>5
<1>11. c = [lo |-> c.lo, hi |-> c.hi, buffer |-> c.buffer, given |-> c.given,
            taken |-> c.taken, straight |-> c.straight]
  BY DEF Md5Ctx
<1>12. Counted(c, n) = [lo |-> lo, hi |-> hi, buffer |-> c.buffer, given |-> c.given + n,
                        taken |-> c.taken, straight |-> c.straight]
  BY <1>8, <1>11
<1>13. Counted(c, n) \in Md5Ctx
  BY <1>3, <1>5, <1>7, <1>12 DEF Md5Ctx
<1> QED
  BY <1>7, <1>9, <1>10, <1>12, <1>13 DEF Counts

LEMMA InBlocksParts ==
    ASSUME NEW c, InBlocks(c)
    PROVE  /\ Index(c) \in 0 .. 63 /\ Index(c) = c.given % 64
           /\ c.given \in Nat /\ c.taken \in Nat /\ c.given = c.taken + Index(c)
           /\ c.taken % 64 = 0 /\ \A i \in 0 .. Index(c) - 1 : c.buffer[i] = c.taken + i
           /\ c.buffer \in [0 .. 63 -> Int]
<1>1. c.given \in Nat /\ c.taken \in Nat /\ c.buffer \in [0 .. 63 -> Int]
  BY DEF InBlocks, Md5Ctx, BlockSize
<1>2. Index(c) = c.given % 64
  BY IndexIsRest DEF InBlocks
<1>3. c.given - c.taken = Index(c)
  BY DEF InBlocks
<1>4. Index(c) \in 0 .. 63
  BY <1>1, <1>2
<1>5. c.given = c.taken + Index(c)
  BY <1>1, <1>3, <1>4
<1>6. c.taken % 64 = 0 /\ \A i \in 0 .. Index(c) - 1 : c.buffer[i] = c.taken + i
  BY DEF InBlocks
<1> QED
  BY <1>1, <1>2, <1>4, <1>5, <1>6, Zenon

\* md5_update takes n bytes more, whether they fill the buffer or not.
LEMMA UpdateKeeps ==
    ASSUME NEW c, InBlocks(c), NEW n \in Nat
    PROVE  InBlocks(md5_update(c, n)) /\ md5_update(c, n).given = c.given + n
<1> DEFINE d == Counted(c, n)
           x == Index(c)
<1>1. /\ d \in Md5Ctx /\ Counts(d) /\ d.given = c.given + n /\ d.buffer = c.buffer
      /\ d.taken = c.taken /\ d.straight = TRUE
  BY CountedCounts DEF InBlocks
<1>2. x \in 0 .. 63 /\ c.given \in Nat /\ c.taken \in Nat /\ c.given = c.taken + x
  BY InBlocksParts
<1>7. c.taken % 64 = 0
  BY InBlocksParts
<1>8. \A i \in 0 .. x - 1 : c.buffer[i] = c.taken + i
  BY InBlocksParts
<1>3. ASSUME NEW e, e \in Md5Ctx, e.lo = d.lo, e.hi = d.hi, e.given = d.given
      PROVE  Counts(e) /\ Index(e) = (c.given + n) % 64
  <2>1. Counts(e)
    BY <1>1, <1>3 DEF Counts
  <2> QED
    BY <1>1, <1>3, <2>1, IndexIsRest
<1>4. d = [lo |-> d.lo, hi |-> d.hi, buffer |-> d.buffer, given |-> d.given,
           taken |-> d.taken, straight |-> d.straight]
  BY <1>1 DEF Md5Ctx
<1>9. \A k \in 0 .. 63 : c.buffer[k] \in Int
  BY InBlocksParts
<1> HIDE DEF d, x
<1>5. CASE n >= 64 - x
  <2> DEFINE partlen == 64 - x
             filled == [i \in 0 .. 63 |->
                          IF i >= x THEN c.given + i - x ELSE c.buffer[i]]
             loops == (n - partlen) \div 64
             from == partlen + loops * 64
             buffer == [k \in 0 .. 63 |-> IF k < n - from THEN c.given + from + k
                                                         ELSE filled[k]]
             e == md5_update(c, n)
  <2>1. /\ partlen \in 1 .. 64 /\ loops \in Nat
        /\ n - from \in 0 .. 63 /\ from \in Nat
    <3>1. partlen \in 1 .. 64 /\ n - partlen \in Nat
      BY <1>2, <1>5
    <3>2. \A m \in Nat : m \div 64 \in Nat /\ m - (m \div 64) * 64 \in 0 .. 63
      OBVIOUS
    <3>3. loops \in Nat /\ (n - partlen) - loops * 64 \in 0 .. 63
      BY <3>1, <3>2
    <3> HIDE DEF partlen, loops
    <3> QED
      BY <3>1, <3>3
  <2>2. filled = Block(c.taken)
    <3>1. \A i \in 0 .. 63 : filled[i] = c.taken + i
      <4> SUFFICES ASSUME NEW i \in 0 .. 63 PROVE filled[i] = c.taken + i
        OBVIOUS
      <4>1. CASE i >= x
        BY <1>2, <4>1
      <4>2. CASE ~ (i >= x)
        <5>1. i \in 0 .. x - 1 /\ filled[i] = c.buffer[i]
          BY <1>2, <4>2
        <5> QED
          BY <1>8, <5>1
      <4> QED
        BY <4>1, <4>2
    <3> QED
      BY <3>1 DEF Block, BlockSize
  <2>3. filled \in [0 .. 63 -> Int] /\ buffer \in [0 .. 63 -> Int]
    <3>1. \A i \in 0 .. 63 : (IF i >= x THEN c.given + i - x ELSE c.buffer[i]) \in Int
      BY <1>2, <1>9
    <3>2. filled \in [0 .. 63 -> Int]
      BY <3>1
    <3> HIDE DEF filled, from, partlen, loops
    <3>3. \A k \in 0 .. 63 : filled[k] \in Int /\ c.given + from + k \in Int
      BY <1>2, <2>1, <3>2
    <3> QED
      BY <3>2, <3>3
  <2>4. c.given + partlen = c.taken + 64
    BY <1>2
  <2>5. e = [d EXCEPT !.straight = /\ @
                                   /\ filled = Block(c.taken)
                                   /\ loops > 0 => c.given + partlen = c.taken + 64,
                      !.taken = @ + (1 + loops) * 64,
                      !.buffer = buffer]
    BY <1>5 DEF md5_update, Transformed, BlockSize, d, x
  <2> HIDE DEF partlen, filled, loops, from, e
  <2>6. e = [lo |-> d.lo, hi |-> d.hi, buffer |-> buffer, given |-> c.given + n,
             taken |-> c.taken + (1 + loops) * 64, straight |-> TRUE]
    BY <1>1, <1>4, <2>2, <2>4, <2>5
  <2>7. e \in Md5Ctx
    <3>1. d.lo \in 0 .. Word - 1 /\ d.hi \in 0 .. Word - 1
      BY <1>1 DEF Md5Ctx
    <3>2. c.given + n \in Nat /\ c.taken + (1 + loops) * 64 \in Nat
      BY <1>2, <2>1
    <3> QED
      BY <2>3, <2>6, <3>1, <3>2 DEF Md5Ctx, BlockSize
  <2>8. Counts(e) /\ Index(e) = (c.given + n) % 64
    BY <1>1, <1>3, <2>6, <2>7
  <2>9. e.taken % 64 = 0 /\ e.taken \in Nat
    <3>1. 1 + loops \in Nat /\ e.taken = c.taken + (1 + loops) * 64
      BY <2>1, <2>6
    <3>2. /\ c.taken + (1 + loops) * 64 \in Nat
          /\ (c.taken + (1 + loops) * 64) % 64 = 0
      BY <1>2, <1>7, <3>1, MoreBlocks
    <3> QED
      BY <3>1, <3>2
  <2>10. c.given + n = e.taken + (n - from)
    BY <1>2, <2>1, <2>6 DEF from, partlen
  <2>11. Index(e) = n - from /\ e.given - e.taken = n - from
    BY <2>1, <2>6, <2>8, <2>9, <2>10, Modulo64
  <2>12. \A i \in 0 .. Index(e) - 1 : e.buffer[i] = e.taken + i
    <3> SUFFICES ASSUME NEW i \in 0 .. Index(e) - 1 PROVE e.buffer[i] = e.taken + i
      OBVIOUS
    <3>1. i \in 0 .. 63 /\ i < n - from /\ e.buffer[i] = c.given + from + i
      BY <2>1, <2>6, <2>11
    <3>2. e.taken = c.given + from
      BY <1>2, <2>1, <2>9, <2>10
    <3> QED
      BY <3>1, <3>2
  <2> QED
    BY <2>6, <2>7, <2>8, <2>9, <2>11, <2>12 DEF InBlocks, e
<1>6. CASE n < 64 - x
  <2> DEFINE buffer == [k \in 0 .. 63 |-> IF k >= x /\ k < x + n THEN c.given + k - x
                                                               ELSE c.buffer[k]]
             e == md5_update(c, n)
  <2>1. e = [d EXCEPT !.buffer = buffer]
    BY <1>2, <1>6 DEF md5_update, Buffered, BlockSize, d, x
  <2> HIDE DEF e
  <2>2. e = [lo |-> d.lo, hi |-> d.hi, buffer |-> buffer, given |-> c.given + n,
             taken |-> c.taken, straight |-> TRUE]
    BY <1>1, <1>4, <2>1
  <2>3. e \in Md5Ctx
    <3>1. d.lo \in 0 .. Word - 1 /\ d.hi \in 0 .. Word - 1
      BY <1>1 DEF Md5Ctx
    <3>2. c.given + n \in Nat /\ \A k \in 0 .. 63 : c.given + k - x \in Int
      BY <1>2
    <3>3. buffer \in [0 .. 63 -> Int]
      BY <1>9, <3>2
    <3> QED
      BY <1>2, <2>2, <3>1, <3>2, <3>3 DEF Md5Ctx, BlockSize
  <2>4. Counts(e) /\ Index(e) = (c.given + n) % 64
    BY <1>1, <1>3, <2>2, <2>3
  <2>5. x + n \in 0 .. 63 /\ c.given + n = c.taken + (x + n)
    BY <1>2, <1>6
  <2>6. Index(e) = x + n /\ e.given - e.taken = x + n
    <3>1. (c.taken + (x + n)) % 64 = x + n
      BY <1>2, <1>7, <2>5, Modulo64, Zenon
    <3>2. e.given = c.taken + (x + n) /\ e.taken = c.taken
      BY <2>2, <2>5
    <3> QED
      BY <1>2, <2>4, <2>5, <3>1, <3>2
  <2>7. \A i \in 0 .. Index(e) - 1 : e.buffer[i] = e.taken + i
    <3>0. Index(e) = x + n /\ e.buffer = buffer /\ e.taken = c.taken
      BY <2>2, <2>6
    <3>1. ASSUME NEW i \in 0 .. (x + n) - 1 PROVE buffer[i] = c.taken + i
      <4>1. i \in 0 .. 63
        BY <1>2, <2>5
      <4>2. CASE i >= x
        BY <1>2, <4>1, <4>2
      <4>3. CASE ~ (i >= x)
        <5>1. i \in 0 .. x - 1 /\ buffer[i] = c.buffer[i]
          BY <1>2, <4>1, <4>3
        <5> QED
          BY <1>8, <5>1
      <4> QED
        BY <4>2, <4>3
    <3> HIDE DEF buffer
    <3>2. 0 .. Index(e) - 1 = 0 .. (x + n) - 1
      BY <3>0
    <3>3. ASSUME NEW i \in 0 .. Index(e) - 1 PROVE e.buffer[i] = e.taken + i
      <4>1. i \in 0 .. (x + n) - 1
        BY <3>2
      <4>2. buffer[i] = c.taken + i
        BY <4>1, <3>1
      <4> QED
        BY <3>0, <4>2
    <3> QED
      BY <3>3
  <2> HIDE DEF buffer
  <2>8. e.straight /\ e.taken % 64 = 0 /\ e.given = c.given + n
        /\ e.given - e.taken = Index(e)
    BY <1>7, <2>2, <2>6
  <2>9. InBlocks(e)
    BY <2>3, <2>4, <2>7, <2>8 DEF InBlocks
  <2> QED
    BY <2>8, <2>9 DEF e
<1> QED
  BY <1>2, <1>5, <1>6

\* Nothing was given to a context that md5_init made.
LEMMA InitInBlocks == InBlocks(md5_init) /\ md5_init.given = 0
<1>1. /\ md5_init.lo = 0 /\ md5_init.hi = 0 /\ md5_init.given = 0 /\ md5_init.taken = 0
      /\ md5_init.straight = TRUE
  BY DEF md5_init
<1>2. Word \in Nat /\ Word > 0 /\ 0 \in 0 .. Word - 1
  BY WordMultiple
<1>3. md5_init \in Md5Ctx
  BY <1>2 DEF md5_init, Md5Ctx, BlockSize
<1>4. 0 + Word * (0 + Word * 0) = 8 * 0
  BY <1>2
<1>5. Counts(md5_init)
  BY <1>1, <1>4 DEF Counts
<1>6. Index(md5_init) = 0
  BY <1>1 DEF Index, BlockSize
<1>7. 0 % 64 = 0 /\ \A i \in 0 .. 0 - 1 : FALSE
  OBVIOUS
<1> QED
  BY <1>1, <1>3, <1>5, <1>6, <1>7 DEF InBlocks

\* After the padding and the length field, nothing is left in the buffer.
LEMMA FinalEnds ==
    ASSUME NEW c, InBlocks(c)
    PROVE  /\ InBlocks(md5_final(c)) /\ md5_final(c).taken = md5_final(c).given
           /\ md5_final(c).given - 8 - c.given \in 1 .. 64
<1> DEFINE p == md5_update(c, PadLen(c))
           f == md5_update(p, 8)
<1>1. Index(c) \in 0 .. 63 /\ c.given \in Nat /\ c.taken \in Nat
      /\ c.given = c.taken + Index(c)
  BY InBlocksParts
<1>0. c.taken % 64 = 0
  BY InBlocksParts
<1>2. PadLen(c) \in 1 .. 64 /\ (Index(c) + PadLen(c) = 56 \/ Index(c) + PadLen(c) = 120)
  <2>1. PadLen(c) = IF Index(c) < 56 THEN 56 - Index(c) ELSE 120 - Index(c)
    BY DEF PadLen
  <2> QED
    BY <1>1, <2>1
<1>3. InBlocks(p) /\ p.given = c.given + PadLen(c)
  <2>1. PadLen(c) \in Nat
    BY <1>2
  <2> QED
    BY <2>1, UpdateKeeps, Zenon
<1>4. InBlocks(f) /\ f.given = p.given + 8
  BY <1>3, UpdateKeeps
<1> HIDE DEF p, f
<1>5. f.given % 64 = 0
  <2>1. PICK l \in 1 .. 2 : Index(c) + PadLen(c) + 8 = l * 64
    BY <1>1, <1>2
  <2>2. f.given = c.taken + l * 64
    BY <1>1, <1>2, <1>3, <1>4, <2>1
  <2> QED
    BY <1>0, <1>1, <2>2, MoreBlocks
<1>6. f.given - f.taken = 0 /\ f.given \in Nat /\ f.taken \in Nat
  BY <1>4, <1>5, InBlocksParts
<1> QED
  BY <1>1, <1>2, <1>3, <1>4, <1>6 DEF md5_final, p, f

\* Words that count the bits of the message are the number of them, in two words.
LEMMA CodedIsLength ==
    ASSUME NEW c, c \in Md5Ctx, Counts(c)
    PROVE  c.lo + Word * c.hi = (8 * c.given) % (Word * Word)
<1> DEFINE M == Word * Word
           v == c.lo + Word * c.hi
           b == 8 * c.given
<1>1. Word \in Nat /\ Word > 0 /\ c.lo \in 0 .. Word - 1 /\ c.hi \in 0 .. Word - 1
      /\ c.given \in Nat
  BY WordMultiple DEF Md5Ctx
<1>2. PICK q \in Nat : c.lo + Word * (c.hi + Word * q) = b
  BY DEF Counts
<1>3. M \in Nat /\ M > 0 /\ v \in Nat /\ b \in Nat
  <2>1. Word * c.hi \in Nat /\ M \in Nat /\ M > 0
    BY <1>1
  <2> QED
    BY <1>1, <2>1
<1>4. v < M
  <2>1. Word * c.hi <= Word * (Word - 1) /\ Word * (Word - 1) = M - Word
    BY <1>1
  <2>2. Word * c.hi \in Int /\ Word * (Word - 1) \in Int
    BY <1>1
  <2> QED
    BY <1>1, <1>3, <2>1, <2>2
<1>5. v + M * q = b
  <2>1. Word * (c.hi + Word * q) = Word * c.hi + M * q
    BY <1>1
  <2> QED
    BY <1>1, <1>2, <2>1
<1> HIDE DEF M, v, b
<1>6. b % M \in Nat /\ b % M < M /\ b \div M \in Nat /\ b = M * (b \div M) + (b % M)
  BY <1>3
<1>7. v = b % M
  <2> DEFINE d == b \div M
             r == b % M
  <2>1. d \in Nat /\ r \in Nat /\ r < M /\ M * d + r = v + M * q
    BY <1>3, <1>5, <1>6
  <2> HIDE DEF d, r
  <2>2. ~ (d >= q + 1)
    <3> SUFFICES ASSUME d >= q + 1 PROVE FALSE
      OBVIOUS
    <3>1. M * d >= M * (q + 1) /\ M * (q + 1) = M * q + M /\ M * q \in Int /\ M * d \in Int
      BY <1>3, <2>1
    <3> QED
      BY <1>3, <1>4, <2>1, <3>1
  <2>3. ~ (q >= d + 1)
    <3> SUFFICES ASSUME q >= d + 1 PROVE FALSE
      OBVIOUS
    <3>1. M * q >= M * (d + 1) /\ M * (d + 1) = M * d + M /\ M * q \in Int /\ M * d \in Int
      BY <1>3, <2>1
    <3> QED
      BY <1>3, <1>4, <2>1, <3>1
  <2>4. d = q
    BY <2>1, <2>2, <2>3
  <2>5. v = r
    <3>1. M * q \in Int /\ M * q + r = v + M * q
      BY <1>3, <2>1, <2>4
    <3> QED
      BY <1>3, <2>1, <3>1
  <2> QED
    BY <2>5 DEF r
<1> QED
  BY <1>7 DEF M, v, b

\* In the loop of md5_file, what is given and what is unread make the message.
Md5Inv ==
    /\ job # "looping" => InBlocks(ctx)
    /\ job \in {"none", "file", "digest", "failed", "looping"}
    /\ message \in Nat /\ unread \in Nat
    /\ coded \in (0 .. Word - 1) \X (0 .. Word - 1)
    /\ job = "none" => unread = 0
    /\ job = "file" => ctx.given + unread = message
    /\ DigestOfWhole

LEMMA FinishDigests ==
    ASSUME NEW c, InBlocks(c), message' = c.given, message' \in Nat, unread' = 0, Finish(c)
    PROVE  Md5Inv'
<1>1. /\ InBlocks(ctx') /\ ctx'.taken = ctx'.given /\ ctx'.given - 8 - message' \in 1 .. 64
      /\ job' = "digest" /\ coded' = <<c.lo, c.hi>>
  BY FinalEnds DEF Finish
<1>2. c.lo + Word * c.hi = (8 * message') % (Word * Word)
  BY CodedIsLength DEF InBlocks
<1>3. c.lo \in 0 .. Word - 1 /\ c.hi \in 0 .. Word - 1
  BY DEF InBlocks, Md5Ctx
<1>4. coded'[1] = c.lo /\ coded'[2] = c.hi
      /\ coded' \in (0 .. Word - 1) \X (0 .. Word - 1)
  BY <1>1, <1>3
<1>5. DigestOfWhole'
  BY <1>1, <1>2, <1>4 DEF DigestOfWhole
<1>6. InBlocks(ctx)'
  BY <1>1 DEF InBlocks, Counts, Index
<1> QED
  BY <1>1, <1>4, <1>5, <1>6 DEF Md5Inv

LEMMA Md5Step ==
    ASSUME Md5Inv, [Md5Next]_md5Vars
    PROVE  Md5Inv'
<1>0. /\ (job # "looping" => InBlocks(ctx)) /\ message \in Nat /\ unread \in Nat
      /\ coded \in (0 .. Word - 1) \X (0 .. Word - 1)
      /\ (job = "none" => unread = 0) /\ (job = "file" => ctx.given + unread = message)
  BY DEF Md5Inv
<1>1. CASE md5_string
  <2>1. PICK n \in MessageLengths :
            /\ message' = n /\ Finish(md5_update(md5_init, n)) /\ job = "none"
            /\ unread' = unread
    BY <1>1 DEF md5_string
  <2>2. n \in Nat
    BY Md5Assumption
  <2> DEFINE c == md5_update(md5_init, n)
  <2>3. InBlocks(c) /\ c.given = 0 + n
    BY <2>2, InitInBlocks, UpdateKeeps
  <2> HIDE DEF c
  <2>4. message' = c.given /\ message' \in Nat /\ unread' = 0
    BY <1>0, <2>1, <2>2, <2>3
  <2>5. Finish(c)
    BY <2>1 DEF c
  <2> QED
    BY <2>3, <2>4, <2>5, FinishDigests
<1>2. CASE FileOpened
  <2>1. PICK n \in MessageLengths : message' = n /\ unread' = n
    BY <1>2 DEF FileOpened
  <2>2. n \in Nat
    BY Md5Assumption
  <2>3. ctx' = md5_init /\ job' = "file" /\ coded' = coded
    BY <1>2 DEF FileOpened
  <2>4. InBlocks(ctx)' /\ ctx'.given = 0
    BY <2>3, InitInBlocks DEF InBlocks, Counts, Index
  <2>5. ctx'.given + unread' = message'
    BY <2>1, <2>2, <2>4
  <2> QED
    BY <1>0, <2>1, <2>2, <2>3, <2>4, <2>5 DEF Md5Inv, DigestOfWhole
<1>3. CASE FileRead
  <2> DEFINE n == IF unread < ReadSize THEN unread ELSE ReadSize
             c == md5_update(ctx, n)
  <2>1. /\ n \in Nat /\ unread - n \in Nat /\ (LastRead(n) => unread - n = 0)
    BY <1>0, Md5Assumption DEF LastRead
  <2>0. InBlocks(ctx)
    BY <1>0, <1>3 DEF FileRead
  <2>2. InBlocks(c) /\ c.given = ctx.given + n
    BY <2>0, <2>1, UpdateKeeps
  <2>3. /\ job = "file" /\ unread' = unread - n /\ message' = message
        /\ IF LastRead(n) THEN Finish(c) ELSE ctx' = c /\ UNCHANGED <<coded, job>>
    BY <1>3 DEF FileRead
  <2> HIDE DEF n, c
  <2>4. c.given + unread' = message'
    <3>1. ctx.given \in Nat
      BY <2>0, InBlocksParts
    <3> QED
      BY <1>0, <2>1, <2>2, <2>3, <3>1
  <2>5. CASE LastRead(n)
    <3>1. Finish(c) /\ unread' = 0
      BY <2>1, <2>3, <2>5
    <3>2. c.given \in Nat
      BY <2>2, InBlocksParts
    <3>3. message' = c.given /\ message' \in Nat
      BY <1>0, <2>3, <2>4, <3>1, <3>2
    <3> QED
      BY <2>2, <3>1, <3>3, FinishDigests
  <2>6. CASE ~ LastRead(n)
    <3>1. ctx' = c /\ job' = "file" /\ coded' = coded
      BY <2>3, <2>6
    <3>2. InBlocks(ctx)'
      BY <2>2, <3>1 DEF InBlocks, Counts, Index
    <3> QED
      BY <1>0, <2>1, <2>3, <2>4, <3>1, <3>2 DEF Md5Inv, DigestOfWhole
  <2> QED
    BY <2>5, <2>6
<1>4. CASE FileFails
  BY <1>4 DEF FileFails, Md5Inv, InBlocks, Counts, Index, DigestOfWhole
<1>5. CASE UNCHANGED md5Vars
  BY <1>5 DEF md5Vars, Md5Inv, InBlocks, Counts, Index, DigestOfWhole
<1>6. CASE StringLoops
  <2>1. /\ job' = "looping" /\ message' \in MessageLengths
        /\ unread' = unread /\ coded' = coded
    BY <1>6 DEF StringLoops
  <2> QED
    BY <1>0, <2>1, Md5Assumption DEF Md5Inv, DigestOfWhole
<1> QED
  BY <1>1, <1>2, <1>3, <1>4, <1>5, <1>6 DEF Md5Next

\* What the invariant says of the context and of the file holds in every state.
THEOREM Md5Correct == Md5Spec => []Md5Inv
<1>1. Md5Init => Md5Inv
  <2> SUFFICES ASSUME Md5Init PROVE Md5Inv
    OBVIOUS
  <2>1. ctx = md5_init /\ job = "none" /\ message = 0 /\ unread = 0 /\ coded = <<0, 0>>
    BY DEF Md5Init
  <2>2. InBlocks(ctx)
    BY <2>1, InitInBlocks
  <2>3. coded \in (0 .. Word - 1) \X (0 .. Word - 1)
    <3>1. 0 \in 0 .. Word - 1
      BY WordMultiple
    <3> QED
      BY <2>1, <3>1
  <2> QED
    BY <2>1, <2>2, <2>3 DEF Md5Inv, DigestOfWhole
<1>2. Md5Inv /\ [Md5Next]_md5Vars => Md5Inv'
  BY Md5Step
<1> QED
  BY <1>1, <1>2, PTL DEF Md5Spec

\* However a message is cut into reads, md5_transform gets its bytes in order,
\* each once, and the buffer holds the rest: of every file, and of every string
\* whose blocks an unsigned int can count.
THEOREM TransformCorrect == Md5Spec => []BlocksInOrder
<1>1. Md5Inv => BlocksInOrder
  BY DEF Md5Inv, InBlocks, BlocksInOrder
<1> QED
  BY <1>1, Md5Correct, PTL

\* A digest is of the whole message, its padding and its length in bits, for
\* every length and every size of the reads and of the word.
THEOREM DigestCorrect == Md5Spec => []DigestOfWhole
<1>1. Md5Inv => DigestOfWhole
  BY DEF Md5Inv
<1> QED
  BY <1>1, Md5Correct, PTL

-----------------------------------------------------------------------------
(* The libraries together.                                                 *)

\* In the behaviours of the libraries in which the store runs, what
\* StoreAddCorrect says holds.
THEOREM StoreScansCorrect == LibSpec => []StoreScansMeetSets
<1> DEFINE Inv == under = "store" => StoreAddInv
<1>1. LibInit => Inv
  BY StoreAddInvInit DEF LibInit
<1>2. Inv /\ [LibNext]_libVars => Inv'
  <2> SUFFICES ASSUME Inv, [LibNext]_libVars, under' = "store" PROVE StoreAddInv'
    OBVIOUS
  <2>1. under = "store" /\ [StoreAddNext]_storeAddVars
    BY DEF LibNext, Only, libVars, storeAddVars
  <2> QED
    BY <2>1, StoreAddStep
<1>3. Inv => StoreScansMeetSets
  BY StoreAddInvImplies DEF StoreScansMeetSets
<1> QED
  BY <1>1, <1>2, <1>3, PTL DEF LibSpec

LEMMA ClientStartsWithNothing ==
    ASSUME LibInit
    PROVE  ClientInit
<1>1. CASE under = "client"
  BY <1>1 DEF LibInit
<1>2. CASE under # "client"
  <2>1. /\ argv = <<>> /\ ch = 0 /\ at = "conf" /\ requested = FALSE /\ freed = FALSE
        /\ slices = [l \in Letters |-> NoArgument]
    BY <1>2 DEF LibInit
  <2>2. <<>> \in [1 .. 0 -> Optional] /\ 0 \in 0 .. MaxOptions
    BY ClientMainAssumption
  <2>3. <<>> \in CommandLines
    BY <2>2 DEF CommandLines, Optional
  <2> QED
    BY <2>1, <2>3 DEF ClientInit
<1> QED
  BY <1>1, <1>2

\* What the libraries do together is what each of them does, or nothing.
LEMMA LibraryParts ==
    LibSpec => /\ Md5Spec /\ HashSpec /\ FormatSpec /\ LogSpec /\ SliceSpec /\ ConfSpec
               /\ ListSpec /\ ClientSpec
<1>1. LibInit => /\ Md5Init /\ HashInit /\ FormatInit /\ LogInit /\ SliceInit /\ ConfInit /\ ListInit
                 /\ ClientInit
  BY ClientStartsWithNothing DEF LibInit
<1>2. [LibNext]_libVars => [Md5Next]_md5Vars
  BY DEF LibNext, Only, libVars, md5Vars
<1>3. [LibNext]_libVars => [HashNext]_hashVars
  BY DEF LibNext, Only, libVars, hashVars
<1>4. [LibNext]_libVars => [LogNext]_logVars
  BY DEF LibNext, Only, libVars, logVars
<1>5. [LibNext]_libVars => [SliceNext]_sliceVars
  BY DEF LibNext, Only, libVars, sliceVars
<1>6. [LibNext]_libVars => [ConfNext]_confVars
  BY DEF LibNext, Only, libVars, confVars
<1>7. [LibNext]_libVars => [ListNext]_listVars
  BY DEF LibNext, Only, libVars, listVars
<1>8. [LibNext]_libVars => [ClientNext]_clientVars
  BY DEF LibNext, Only, libVars, clientVars
<1>9. [LibNext]_libVars => [FormatNext]_formatVars
  BY DEF LibNext, Only, libVars, formatVars
<1> QED
  BY <1>1, <1>2, <1>3, <1>4, <1>5, <1>6, <1>7, <1>8, <1>9, PTL
     DEF LibSpec, Md5Spec, HashSpec, FormatSpec, LogSpec, SliceSpec, ConfSpec, ListSpec, ClientSpec

\* Whatever the store does to its vector is what a vector does.
LEMMA StoreUsesVector ==
    ASSUME VectorTypeOK, [LibNext]_libVars
    PROVE  [VectorNext]_vectorVars
<1>1. CASE StoreAddNext
  <2>1. CASE AddedToNewList
    <3>1. PICK s \in Sets, index \in hash_jump_consistent(size), l \in Fresh :
              vector_insert(index, l)
      BY <2>1 DEF AddedToNewList
    <3>2. size \in Nat /\ index \in Nat
      BY VectorAssumption DEF VectorTypeOK, hash_jump_consistent
    <3>3. index \in Slots /\ l \in Items
      BY <3>1, <3>2, VectorAssumption, NoListsAreSets DEF vector_insert, Put, Slots, Fresh
    <3> QED
      BY <3>1, <3>3 DEF VectorNext
  <2>2. CASE SetPushed
    BY <2>2, NoListsAreSets DEF SetPushed, VectorNext
  <2>3. CASE StoreInits \/ AddedNowhere \/ AddedToFound \/ StoreDeinits
    BY <2>3 DEF StoreInits, AddedNowhere, AddedToFound, StoreDeinits, VectorNext
  <2> QED
    BY <1>1, <2>1, <2>2, <2>3 DEF StoreAddNext
<1>2. CASE ~ StoreAddNext
  BY <1>2 DEF LibNext, Only, libVars, storeAddVars, vectorVars
<1> QED
  BY <1>1, <1>2

\* The vector of the libraries shows a sequence of items, pushed and replaced,
\* as long as nothing was written outside its table.
THEOREM LibraryVectorCorrect == LibSpec => ShowsTheSequence
<1>1. LibInit => VectorInit
  BY DEF LibInit, StoreAddInit
<1>2. VectorInit => VectorTypeOK
  BY VectorInitType
<1>3. VectorTypeOK /\ [LibNext]_libVars => [VectorNext]_vectorVars
  BY StoreUsesVector
<1>4. VectorTypeOK /\ [VectorNext]_vectorVars => VectorTypeOK'
  BY VectorTypeStep
<1>5. LibSpec => VectorSpec
  BY <1>1, <1>2, <1>3, <1>4, PTL DEF LibSpec, VectorSpec
<1> QED
  BY <1>5, VectorImplements

\* In every behaviour of the libraries: the digest and the hash take the whole
\* message, an integer is written exactly, a line stays in its buffer and reaches
\* the log, a slice has its text and its block, the ports meet, a scan meets sets,
\* the list and its walks agree, and the client takes the options that it can.
THEOREM LibrariesCorrect ==
    LibSpec => [](/\ BlocksInOrder /\ DigestOfWhole /\ HashTakesAll
                  /\ ConversionExact /\ LineInBuffer /\ LinesReachTheLog
                  /\ SliceHolds /\ BlocksAccounted
                  /\ MeetAtPort
                  /\ StoreScansMeetSets /\ WalksAgree /\ DestroyNeedsAMiddle
                  /\ OnlyLongOptions)
BY LibraryParts, TransformCorrect, DigestCorrect, HashCorrect, FormatCorrect, BufferCorrect,
   LinesCorrect, HoldsCorrect, BlocksCorrect, PortsCorrect, StoreScansCorrect,
   WalksCorrect, DestroyCorrect, OptionsCorrect, PTL
=============================================================================
