---------------------------- MODULE SetInduction ----------------------------
(***************************************************************************)
(* Induction over the naturals and over intervals, for sets of numbers in  *)
(* place of predicates.  The proofs about recursive functions and about    *)
(* all prefixes of a sequence cite these.                                  *)
(***************************************************************************)
EXTENDS Integers, WellFoundedInduction, TLAPS

\* A set of numbers that has 0 and the successor of each of its members has all.
LEMMA NatSetInduction ==
  ASSUME NEW T \in SUBSET Nat, 0 \in T, \A n \in T : n + 1 \in T
  PROVE  T = Nat
<1> SUFFICES ASSUME Nat \ T # {} PROVE FALSE
  OBVIOUS
<1>1. PICK x \in Nat \ T : \A y \in Nat \ T : ~ (<<y, x>> \in OpToRel(<, Nat))
  BY NatLessThanWellFounded, WFMin
<1>2. x \in Nat \ {0}
  OBVIOUS
<1>3. x - 1 \in Nat /\ (x - 1) + 1 = x
  BY <1>2
<1>4. x - 1 \notin T
  BY <1>3
<1>5. <<x - 1, x>> \in OpToRel(<, Nat)
  BY <1>2, <1>3 DEF OpToRel
<1> QED BY <1>1, <1>3, <1>4, <1>5

\* The same up to a bound.
LEMMA IntervalInduction ==
  ASSUME NEW m \in Nat, NEW T \in SUBSET (0..m), 0 \in T,
         \A n \in T : n < m => n + 1 \in T
  PROVE  T = 0..m
<1> DEFINE U == {n \in Nat : n <= m => n \in T}
<1>1. U \in SUBSET Nat /\ 0 \in U
  OBVIOUS
<1>2. \A n \in U : n + 1 \in U
  OBVIOUS
<1>3. U = Nat
  <2> HIDE DEF U
  <2> QED BY <1>1, <1>2, NatSetInduction
<1>4. ASSUME NEW n \in 0..m PROVE n \in T
  <2>1. n \in U
    BY <1>3
  <2> QED BY <2>1
<1> QED BY <1>4

\* A function on 0..m, by recursion: its value at 0, and the step to each other one.
Steppers(m, S) == [1..m -> [S -> S]]
Recursive(f, m, S, a, g) ==
  f \in [0..m -> S] /\ f[0] = a /\ \A n \in 1..m : f[n] = g[n][f[n - 1]]

\* It exists.
LEMMA IntervalRecursion ==
  ASSUME NEW m \in Nat, NEW S, NEW a \in S, NEW g, g \in Steppers(m, S)
  PROVE  \E f : Recursive(f, m, S, a, g)
<1> USE DEF Steppers, Recursive
<1> DEFINE Starts(f, n) == /\ f \in [0..n -> S] /\ f[0] = a
                           /\ \A k \in 1..n : f[k] = g[k][f[k - 1]]
           T == {n \in 0..m : \E f : Starts(f, n)}
<1>1. 0 \in T
  <2>1. Starts([k \in 0..0 |-> a], 0)
    OBVIOUS
  <2>2. \E f : Starts(f, 0)
    <3> HIDE DEF Starts
    <3> QED BY <2>1
  <2> QED BY <2>2
<1>2. ASSUME NEW n \in T, n < m PROVE n + 1 \in T
  <2>1. PICK f : Starts(f, n)
    OBVIOUS
  <2> DEFINE b == g[n + 1][f[n]]
             h == [k \in 0..n + 1 |-> IF k <= n THEN f[k] ELSE b]
  <2>2. b \in S
    BY <1>2, <2>1
  <2>3. h \in [0..n + 1 -> S] /\ h[0] = a
    BY <2>1, <2>2
  <2>4. ASSUME NEW k \in 1..n + 1 PROVE h[k] = g[k][h[k - 1]]
    <3>1. CASE k <= n
      BY <2>1, <3>1
    <3>2. CASE k = n + 1
      BY <2>1, <3>2
    <3> QED BY <3>1, <3>2
  <2>5. Starts(h, n + 1)
    BY <2>3, <2>4
  <2>6. \E e : Starts(e, n + 1)
    <3> HIDE DEF Starts, h
    <3> QED BY <2>5
  <2> QED BY <1>2, <2>6
<1>3. T = 0..m
  <2> HIDE DEF T
  <2>1. T \in SUBSET (0..m)
    BY DEF T
  <2> QED BY <1>1, <1>2, <2>1, IntervalInduction
<1>4. m \in T
  BY <1>3
<1> QED BY <1>4
=============================================================================
