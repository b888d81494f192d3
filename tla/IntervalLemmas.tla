------------------------------ MODULE IntervalLemmas --------------------------
(***************************************************************************)
(* What the proofs use about the intervals of naturals that number the     *)
(* places of a sequence.                                                   *)
(***************************************************************************)
EXTENDS Naturals, FiniteSetTheorems, WellFoundedInduction, TLAPS

(* A set of indices that is not empty has a least one: the intervals from  *)
(* 1 are well founded by inclusion.                                        *)
LEMMA LeastIndex ==
  ASSUME NEW N \in Nat, NEW T \in SUBSET (1..N), T # {}
  PROVE  \E i \in T : \A j \in T : i <= j
<1> DEFINE C == {1..t : t \in T}
           less == StrictSubsetOrdering(1..N)
<1>1. IsWellFoundedOn(less, SUBSET (1..N))
  <2>1. FiniteSubsetsOf(1..N) = SUBSET (1..N)
    <3>1. IsFiniteSet(1..N)
      BY FS_Interval
    <3> QED BY <3>1, FS_FiniteSubsetsOfFinite
  <2> QED BY <2>1, FS_StrictSubsetOrderingWellFounded
<1>2. C \subseteq SUBSET (1..N) /\ C # {}
  <2>1. \A t \in T : 1..t \in SUBSET (1..N)
    OBVIOUS
  <2> QED BY <2>1
<1>3. PICK x \in C : \A y \in C : <<y, x>> \notin less
  <2> HIDE DEF C, less
  <2> QED BY <1>1, <1>2, WFMin
<1>4. PICK i \in T : x = 1..i
  OBVIOUS
<1>5. ASSUME NEW j \in T, j < i
      PROVE  FALSE
  <2>1. i \in 1..i /\ i \notin 1..j /\ 1..j \subseteq 1..i
    BY <1>5
  <2>2. 1..i \in SUBSET (1..N) /\ 1..j \in SUBSET (1..N) /\ 1..j \in C
    BY <1>2
  <2>3. <<1..j, 1..i>> \in less
    BY <2>1, <2>2 DEF StrictSubsetOrdering
  <2> QED BY <1>3, <1>4, <2>2, <2>3
<1> QED BY <1>5

(* Induction, over a set of naturals.                                      *)
LEMMA SetInduction ==
  ASSUME NEW T \in SUBSET Nat, 0 \in T, \A n \in T : n + 1 \in T
  PROVE  T = Nat
<1> SUFFICES ASSUME NEW n \in Nat, n \notin T
             PROVE  FALSE
  OBVIOUS
<1> DEFINE L == {k \in 1..n : k \notin T}
<1>1. n \in 1..n /\ L \in SUBSET (1..n) /\ n \in L
  OBVIOUS
<1>2. PICK i \in L : \A j \in L : i <= j
  <2> HIDE DEF L
  <2> QED BY <1>1, LeastIndex
<1>3. i - 1 \in T
  BY <1>2
<1>4. i \in T
  BY <1>2, <1>3
<1> QED BY <1>2, <1>4

(* A recursion over 0..M in a set S has values: the first of them, to n,   *)
(* exist for each n.                                                       *)
Recurses(f, a, G, n) == f[0] = a /\ \A k \in 1..n : f[k] = G[k][f[k-1]]
LEMMA RecursionValues ==
  ASSUME NEW S, NEW a \in S, NEW M \in Nat, NEW G \in [1..M -> [S -> S]]
  PROVE  \E f \in [0..M -> S] : Recurses(f, a, G, M)
<1> DEFINE T == {n \in Nat : n <= M => \E f \in [0..n -> S] : Recurses(f, a, G, n)}
<1>1. 0 \in T
  <2>1. [k \in 0..0 |-> a] \in [0..0 -> S] /\ Recurses([k \in 0..0 |-> a], a, G, 0)
    BY DEF Recurses
  <2> QED BY <2>1
<1>2. ASSUME NEW n \in T
      PROVE  n + 1 \in T
  <2> SUFFICES ASSUME n + 1 <= M
               PROVE  \E f \in [0..n+1 -> S] : Recurses(f, a, G, n + 1)
    OBVIOUS
  <2>1. PICK f \in [0..n -> S] : Recurses(f, a, G, n)
    OBVIOUS
  <2> DEFINE g == [k \in 0..n+1 |-> IF k = n + 1 THEN G[n+1][f[n]] ELSE f[k]]
  <2>2. n \in Nat /\ n + 1 \in 1..M /\ f[n] \in S
    BY <2>1
  <2>3. G[n+1][f[n]] \in S
    BY <2>2
  <2>4. g \in [0..n+1 -> S]
    BY <2>2, <2>3
  <2>5. ASSUME NEW k \in 1..n+1
        PROVE  g[k] = G[k][g[k-1]]
    <3>1. CASE k = n + 1
      <4>1. g[k] = G[n+1][f[n]] /\ k - 1 = n /\ g[n] = f[n]
        BY <2>2, <3>1
      <4> QED BY <3>1, <4>1
    <3>2. CASE k # n + 1
      <4>1. k \in 1..n /\ g[k] = f[k] /\ g[k-1] = f[k-1]
        BY <2>2, <3>2
      <4> QED BY <2>1, <4>1 DEF Recurses
    <3> QED BY <3>1, <3>2
  <2>6. g[0] = a
    BY <2>1, <2>2 DEF Recurses
  <2>7. Recurses(g, a, G, n + 1)
    <3> HIDE DEF g
    <3> QED BY <2>5, <2>6 DEF Recurses
  <2> QED BY <2>4, <2>7
<1>3. T = Nat
  <2> HIDE DEF T
  <2>1. T \in SUBSET Nat
    BY DEF T
  <2> QED BY <1>1, <1>2, <2>1, SetInduction
<1> QED BY <1>3

(* It has a result.                                                        *)
LEMMA Recursion ==
  ASSUME NEW S, NEW a \in S, NEW M \in Nat, NEW G \in [1..M -> [S -> S]]
  PROVE  \E f \in [0..M -> S] :
            f = [k \in 0..M |-> IF k = 0 THEN a ELSE G[k][f[k-1]]]
<1>1. PICK f \in [0..M -> S] : Recurses(f, a, G, M)
  BY RecursionValues
<1>2. f = [k \in 0..M |-> IF k = 0 THEN a ELSE G[k][f[k-1]]]
  BY <1>1 DEF Recurses
<1> QED BY <1>2
===============================================================================
