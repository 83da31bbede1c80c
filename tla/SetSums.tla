------------------------------ MODULE SetSums ------------------------------
(***************************************************************************)
(* Sums over finite sets, for the invariants that count bytes and buffers. *)
(* MapThenSumSet is a fold, defined by recursion over the subsets; the     *)
(* theorems say what it computes.  There is no induction rule in them: each*)
(* takes a smallest set for which the statement fails.                     *)
(***************************************************************************)
EXTENDS Integers, FiniteSetsExt, FiniteSetTheorems, TLAPS

CONSTANT weight(_)

Sum(S) == MapThenSumSet(weight, S)

\* The element that the fold takes out first.
Chosen(S) == CHOOSE x \in S : TRUE

\* One unfolding of the function that the fold defines on the subsets of S.
Unfolded(S, f) ==
    [s \in SUBSET S |-> IF s = {} THEN 0 ELSE weight(Chosen(s)) + f[s \ {Chosen(s)}]]

Folding(S) == CHOOSE f : f = Unfolded(S, f)

LEMMA SumByFolding ==
    ASSUME NEW S
    PROVE  Sum(S) = Folding(S)[S]
BY DEF Sum, MapThenSumSet, MapThenFoldSet, Folding, Unfolded, Chosen

LEMMA ChosenIn ==
    ASSUME NEW S, S # {}
    PROVE  Chosen(S) \in S
BY DEF Chosen

\* A set of finite subsets of S has a smallest one.
LEMMA SmallestSubset ==
    ASSUME NEW S, IsFiniteSet(S), NEW T \in SUBSET SUBSET S, T # {}
    PROVE  \E t \in T : \A u \in SUBSET t : u # t => u \notin T
<1>1. FiniteSubsetsOf(S) = SUBSET S
  BY FS_FiniteSubsetsOfFinite
<1>2. IsWellFoundedOn(StrictSubsetOrdering(S), SUBSET S)
  BY <1>1, FS_StrictSubsetOrderingWellFounded
<1>3. PICK t \in T : \A u \in T : <<u, t>> \notin StrictSubsetOrdering(S)
  BY <1>2, WFMin
<1>4. ASSUME NEW u \in SUBSET t, u # t, u \in T
      PROVE  FALSE
  BY <1>3, <1>4 DEF StrictSubsetOrdering
<1> QED
  BY <1>3, <1>4

\* Two such functions agree where both are defined.
LEMMA FoldingsAgree ==
    ASSUME NEW S, IsFiniteSet(S), NEW R \in SUBSET S,
           NEW f, f = Unfolded(S, f), NEW g, g = Unfolded(R, g)
    PROVE  \A s \in SUBSET R : f[s] = g[s]
<1> DEFINE T == {s \in SUBSET R : f[s] # g[s]}
<1>1. SUFFICES ASSUME T # {} PROVE FALSE
  OBVIOUS
<1>2. T \in SUBSET SUBSET S
  OBVIOUS
<1> HIDE DEF T
<1>3. PICK t \in T : \A u \in SUBSET t : u # t => u \notin T
  BY <1>1, <1>2, SmallestSubset
<1>4. t \in SUBSET S /\ t \in SUBSET R /\ f[t] # g[t]
  BY DEF T
<1>5. /\ f[t] = IF t = {} THEN 0 ELSE weight(Chosen(t)) + f[t \ {Chosen(t)}]
      /\ g[t] = IF t = {} THEN 0 ELSE weight(Chosen(t)) + g[t \ {Chosen(t)}]
  <2>1. /\ Unfolded(S, f)[t] =
              IF t = {} THEN 0 ELSE weight(Chosen(t)) + f[t \ {Chosen(t)}]
        /\ Unfolded(R, g)[t] =
              IF t = {} THEN 0 ELSE weight(Chosen(t)) + g[t \ {Chosen(t)}]
    BY <1>4 DEF Unfolded
  <2> QED
    BY <2>1
<1>6. t # {}
  BY <1>4, <1>5
<1>7. f[t \ {Chosen(t)}] = g[t \ {Chosen(t)}]
  BY <1>3, <1>4, <1>6, ChosenIn DEF T
<1> QED
  BY <1>4, <1>5, <1>6, <1>7

\* There is such a function.
LEMMA FoldingUnfolds ==
    ASSUME NEW S, IsFiniteSet(S)
    PROVE  Folding(S) = Unfolded(S, Folding(S))
<1> DEFINE T == {s \in SUBSET S : Folding(s) # Unfolded(s, Folding(s))}
<1>1. SUFFICES ASSUME T # {} PROVE FALSE
  OBVIOUS
<1>2. PICK t \in T : \A u \in SUBSET t : u # t => u \notin T
  BY <1>1, SmallestSubset
<1>3. \A u \in SUBSET t : u # t => Folding(u) = Unfolded(u, Folding(u))
  BY <1>2
<1> DEFINE f == [s \in SUBSET t |->
                   IF s = {} THEN 0 ELSE weight(Chosen(s)) + Sum(s \ {Chosen(s)})]
<1>4. ASSUME NEW u \in SUBSET t, u # t
      PROVE  f[u] = Sum(u)
  <2>1. Sum(u) = IF u = {} THEN 0 ELSE weight(Chosen(u)) + Folding(u)[u \ {Chosen(u)}]
    BY <1>3, <1>4, SumByFolding DEF Unfolded
  <2>2. CASE u # {}
    <3> DEFINE v == u \ {Chosen(u)}
    <3>1. v \in SUBSET t /\ v # t /\ v \in SUBSET u
      BY <1>4, <2>2
    <3>2. IsFiniteSet(u)
      BY <1>4, FS_Subset
    <3>3. Folding(u)[v] = Folding(v)[v]
      BY <1>3, <1>4, <3>1, <3>2, FoldingsAgree
    <3> QED
      BY <1>4, <2>1, <2>2, <3>3, SumByFolding
  <2> QED
    BY <1>4, <2>1, <2>2
<1>5. f = Unfolded(t, f)
  <2>1. ASSUME NEW s \in SUBSET t, s # {}
        PROVE  f[s \ {Chosen(s)}] = Sum(s \ {Chosen(s)})
    BY <1>4, <2>1, ChosenIn
  <2> QED
    BY <2>1 DEF Unfolded
<1> HIDE DEF f
<1>6. Folding(t) = Unfolded(t, Folding(t))
  BY <1>5 DEF Folding
<1> QED
  BY <1>2, <1>6

\* Taking out the chosen element.
LEMMA SumUnfolds ==
    ASSUME NEW S, IsFiniteSet(S)
    PROVE  Sum(S) = IF S = {} THEN 0 ELSE weight(Chosen(S)) + Sum(S \ {Chosen(S)})
<1>1. Sum(S) = IF S = {} THEN 0 ELSE weight(Chosen(S)) + Folding(S)[S \ {Chosen(S)}]
  BY FoldingUnfolds, SumByFolding DEF Unfolded
<1> DEFINE R == S \ {Chosen(S)}
<1>2. R \in SUBSET S /\ IsFiniteSet(R)
  BY FS_Subset
<1>3. Folding(S)[R] = Folding(R)[R]
  BY <1>2, FoldingUnfolds, FoldingsAgree
<1> QED
  BY <1>1, <1>3, SumByFolding

\* Taking out any element: the order of the fold does not matter.
THEOREM SumRemoves ==
    ASSUME NEW S, IsFiniteSet(S), \A x \in S : weight(x) \in Int
    PROVE  /\ Sum(S) \in Int
           /\ \A x \in S : Sum(S) = weight(x) + Sum(S \ {x})
<1> DEFINE Holds(s) == /\ Sum(s) \in Int
                       /\ \A x \in s : Sum(s) = weight(x) + Sum(s \ {x})
           T == {s \in SUBSET S : ~Holds(s)}
<1>1. SUFFICES ASSUME T # {} PROVE FALSE
  OBVIOUS
<1>0. T \in SUBSET SUBSET S
  OBVIOUS
<1> HIDE DEF T
<1>2. PICK t \in T : \A u \in SUBSET t : u # t => u \notin T
  BY <1>0, <1>1, SmallestSubset
<1> HIDE DEF Holds
<1>4. t \in SUBSET S /\ IsFiniteSet(t) /\ ~Holds(t)
  BY FS_Subset DEF T
<1>3. \A u \in SUBSET t : u # t => Holds(u)
  BY <1>2, <1>4 DEF T
<1>5. CASE t = {}
  <2>1. Sum(t) = 0
    BY <1>4, <1>5, SumUnfolds
  <2> QED
    BY <1>4, <1>5, <2>1 DEF Holds
<1>6. CASE t # {}
  <2> DEFINE c == Chosen(t)
             r == t \ {c}
  <2>1. c \in t /\ weight(c) \in Int
    BY <1>4, <1>6, ChosenIn
  <2>2. r \in SUBSET t /\ r # t
    BY <2>1
  <2>3. Sum(t) = weight(c) + Sum(r)
    BY <1>4, <1>6, SumUnfolds
  <2> HIDE DEF c, r
  <2>4. Holds(r)
    BY <1>3, <2>2
  <2>5. Sum(t) \in Int
    BY <2>1, <2>3, <2>4 DEF Holds
  <2>6. ASSUME NEW x \in t
        PROVE  Sum(t) = weight(x) + Sum(t \ {x})
    <3>1. CASE x = c
      BY <2>3, <3>1 DEF r
    <3>2. CASE x # c
      <4> DEFINE o == t \ {x}
                 both == t \ {x, c}
      <4>1. o \in SUBSET t /\ o # t /\ both \in SUBSET t /\ both # t
        BY <2>1
      <4>2. Holds(o) /\ Holds(both)
        BY <1>3, <4>1
      <4>3. x \in r /\ c \in o /\ r \ {x} = both /\ o \ {c} = both
        BY <2>1, <3>2 DEF r
      <4> HIDE DEF o, both
      <4>4. Sum(r) = weight(x) + Sum(both) /\ Sum(o) = weight(c) + Sum(both)
        BY <2>4, <4>2, <4>3 DEF Holds
      <4>5. weight(x) \in Int /\ Sum(both) \in Int
        BY <1>4, <4>2 DEF Holds
      <4>6. Sum(t) = weight(x) + Sum(o)
        BY <2>1, <2>3, <4>4, <4>5
      <4> QED
        BY <4>6 DEF o
    <3> QED
      BY <3>1, <3>2
  <2> QED
    BY <1>4, <2>5, <2>6 DEF Holds
<1> QED
  BY <1>5, <1>6

\* The sum over nothing, and over one element more.
THEOREM SumOfNone == Sum({}) = 0
BY FS_EmptySet, SumUnfolds

THEOREM SumAdds ==
    ASSUME NEW S, IsFiniteSet(S), NEW x, x \notin S,
           weight(x) \in Int, \A y \in S : weight(y) \in Int
    PROVE  /\ IsFiniteSet(S \cup {x})
           /\ Sum(S \cup {x}) = Sum(S) + weight(x)
<1> DEFINE U == S \cup {x}
<1>1. IsFiniteSet(U) /\ x \in U /\ U \ {x} = S /\ \A y \in U : weight(y) \in Int
  BY FS_AddElement
<1> HIDE DEF U
<1>2. Sum(U) = weight(x) + Sum(S)
  BY <1>1, SumRemoves
<1>3. Sum(S) \in Int
  BY SumRemoves
<1> QED
  BY <1>1, <1>2, <1>3 DEF U

\* A sum of natural numbers is one.
THEOREM SumOfNaturals ==
    ASSUME NEW S, IsFiniteSet(S), \A x \in S : weight(x) \in Nat
    PROVE  Sum(S) \in Nat
<1> DEFINE T == {s \in SUBSET S : Sum(s) \notin Nat}
<1>1. SUFFICES ASSUME T # {} PROVE FALSE
  OBVIOUS
<1>0. T \in SUBSET SUBSET S
  OBVIOUS
<1> HIDE DEF T
<1>2. PICK t \in T : \A u \in SUBSET t : u # t => u \notin T
  BY <1>0, <1>1, SmallestSubset
<1>3. IsFiniteSet(t) /\ t \in SUBSET S /\ Sum(t) \notin Nat
  BY FS_Subset DEF T
<1>4. PICK x \in t : TRUE
  BY <1>3, SumOfNone
<1>5. Sum(t \ {x}) \in Nat
  BY <1>2, <1>3, <1>4 DEF T
<1>6. Sum(t) = weight(x) + Sum(t \ {x})
  BY <1>3, <1>4, SumRemoves
<1> QED
  BY <1>3, <1>4, <1>5, <1>6
=============================================================================
