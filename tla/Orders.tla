------------------------------- MODULE Orders -------------------------------
(* Facts about the natural numbers, and recursion over them, that the proofs of this project share. *)
EXTENDS Integers, FiniteSets, FiniteSetTheorems, WellFoundedInduction, TLAPS

(***************************************************************************)
(* Every non-empty set of natural numbers has a least element.  (The       *)
(* library states this for predicates; this form, for sets, follows from   *)
(* the well-foundedness of strict inclusion on the finite sets 1..n.)      *)
(***************************************************************************)
THEOREM LeastNatural ==
  ASSUME NEW S, S \subseteq Nat, S # {}
  PROVE  \E m \in S : \A n \in S : m <= n
<1> DEFINE T == {1..n : n \in S}
           R == StrictSubsetOrdering(Nat)
<1>1. T \subseteq FiniteSubsetsOf(Nat)
  <2> SUFFICES ASSUME NEW n \in S PROVE 1..n \in FiniteSubsetsOf(Nat)
    OBVIOUS
  <2>1. IsFiniteSet(1..n)
    BY FS_Interval
  <2> QED BY <2>1 DEF FiniteSubsetsOf
<1>2. T # {}
  OBVIOUS
<1>3. IsWellFoundedOn(R, FiniteSubsetsOf(Nat))
  BY FS_StrictSubsetOrderingWellFounded
<1>4. \E x \in T : \A y \in T : ~ (<<y, x>> \in R)
  <2> HIDE DEF T, R
  <2> QED BY <1>1, <1>2, <1>3, WFMin
<1>5. PICK m \in S : \A y \in T : ~ (<<y, 1..m>> \in R)
  BY <1>4
<1>6. ASSUME NEW n \in S, n < m PROVE FALSE
  <2>1. 1..n \subseteq 1..m
    BY <1>6
  <2>2. m \in 1..m /\ m \notin 1..n
    BY <1>6
  <2>3. <<1..n, 1..m>> \in R
    BY <2>1, <2>2 DEF StrictSubsetOrdering
  <2> QED BY <1>5, <2>3
<1> QED BY <1>5, <1>6

\* A function on 0..n can be given by its first value and the steps from each to the next.
LEMMA Recursion ==
  ASSUME NEW S, NEW a \in S, NEW n \in Nat, NEW step \in [1..n -> [S -> S]]
  PROVE  \E f \in [0..n -> S] : f[0] = a /\ \A i \in 1..n : f[i] = step[i][f[i - 1]]
<1> DEFINE Up(f, k) == f[0] = a /\ \A i \in 1..k : f[i] = step[i][f[i - 1]]
           Bad      == {k \in 0..n : ~ \E f \in [0..k -> S] : Up(f, k)}
<1>1. Bad = {}
  <2> SUFFICES ASSUME Bad # {} PROVE FALSE
    OBVIOUS
  <2>1. PICK m \in Bad : \A k \in Bad : m <= k
    <3>1. Bad \subseteq Nat
      OBVIOUS
    <3> HIDE DEF Bad
    <3> QED BY <3>1, LeastNatural
  <2>2. m \in 0..n /\ ~ \E f \in [0..m -> S] : Up(f, m)
    BY <2>1
  <2>3. CASE m = 0
    <3> DEFINE f == [i \in 0..0 |-> a]
    <3>1. f \in [0..m -> S] /\ Up(f, m)
      BY <2>3
    <3> QED BY <2>2, <3>1
  <2>4. CASE m > 0
    <3> DEFINE k == m - 1
    <3>1. k \in 0..n /\ k + 1 = m /\ m \in 1..n /\ ~ m <= k /\ k \in Nat
      BY <2>2, <2>4
    <3> HIDE DEF k
    <3>2. k \notin Bad
      BY <2>1, <3>1
    <3>3. PICK f \in [0..k -> S] : Up(f, k)
      BY <3>1, <3>2
    <3> DEFINE g == [i \in 0..m |-> IF i = m THEN step[m][f[k]] ELSE f[i]]
    <3>4. g \in [0..m -> S]
      <4>1. step[m] \in [S -> S] /\ f[k] \in S
        BY <3>1, <3>3
      <4>2. ASSUME NEW i \in 0..m, i # m PROVE f[i] \in S
        <5>1. i \in 0..k
          BY <3>1, <4>2
        <5> QED BY <3>3, <5>1
      <4> QED BY <4>1, <4>2
    <3>5. g[0] = a
      <4>1. 0 \in 0..m /\ 0 # m
        BY <3>1
      <4> QED BY <3>3, <4>1
    <3>6. ASSUME NEW i \in 1..m PROVE g[i] = step[i][g[i - 1]]
      <4>1. i \in 0..m /\ i - 1 \in 0..m /\ i - 1 # m
        BY <3>1, <3>6
      <4>2. g[i - 1] = f[i - 1]
        BY <4>1
      <4>3. CASE i = m
        <5>1. i - 1 = k
          BY <3>1, <4>3
        <5> QED BY <4>1, <4>2, <4>3, <5>1
      <4>4. CASE i # m
        <5>1. i \in 1..k
          BY <3>1, <3>6, <4>4
        <5>2. g[i] = f[i]
          BY <4>1, <4>4
        <5> QED BY <3>3, <4>2, <5>1, <5>2
      <4> QED BY <4>3, <4>4
    <3> HIDE DEF g
    <3> QED BY <2>2, <3>4, <3>5, <3>6
  <2> QED BY <2>2, <2>3, <2>4
<1>2. PICK f \in [0..n -> S] : Up(f, n)
  <2>1. n \in 0..n
    OBVIOUS
  <2> QED BY <1>1, <2>1
<1> QED BY <1>2
=============================================================================
