------------------------------ MODULE SetInduction -----------------------------
(***************************************************************************)
(* Induction on the natural numbers, stated of a set: what the proofs      *)
(* about recursive functions (the nodes reached over next_, the bins of a  *)
(* spectrum) need.                                                         *)
(***************************************************************************)
EXTENDS Integers, FiniteSets, FiniteSetTheorems, TLAPS

Least(T) == CHOOSE n \in T : \A m \in T : n <= m

(* A set of natural numbers has a least element: the intervals up to its    *)
(* members are finite sets, and inclusion of finite sets is well-founded.   *)
LEMMA LeastElement ==
  ASSUME NEW T, T \subseteq Nat, T # {}
  PROVE  Least(T) \in T /\ \A m \in T : Least(T) <= m
<1> DEFINE F == {0 .. n : n \in T}
<1>1. F \subseteq FiniteSubsetsOf(Nat) /\ F # {}
  <2>1. ASSUME NEW n \in T PROVE 0 .. n \in FiniteSubsetsOf(Nat)
    BY FS_Interval DEF FiniteSubsetsOf
  <2> QED BY <2>1
<1>2. PICK x \in F : \A y \in F : <<y, x>> \notin StrictSubsetOrdering(Nat)
  <2> HIDE DEF F
  <2> QED BY <1>1, FS_StrictSubsetOrderingWellFounded, WFMin
<1>3. PICK n \in T : x = 0 .. n BY <1>2
<1>4. ASSUME NEW m \in T, m < n PROVE FALSE
  <2>1. 0 .. m \in F OBVIOUS
  <2>2. 0 .. m \subseteq 0 .. n BY <1>4
  <2>3. n \in 0 .. n /\ n \notin 0 .. m BY <1>4
  <2>4. <<0 .. m, 0 .. n>> \in StrictSubsetOrdering(Nat)
    BY <2>2, <2>3 DEF StrictSubsetOrdering
  <2> QED BY <1>2, <1>3, <2>1, <2>4
<1>5. \A m \in T : n <= m BY <1>4
<1> HIDE DEF F
<1> QED BY <1>5 DEF Least

(* A set that holds 0, and n + 1 if it holds n, holds every number. *)
LEMMA NaturalsIn ==
  ASSUME NEW S, 0 \in S, \A n \in Nat : n \in S => n + 1 \in S
  PROVE  Nat \subseteq S
<1> DEFINE T == Nat \ S
           n == Least(T)
<1>1. SUFFICES ASSUME T # {} PROVE FALSE OBVIOUS
<1>2. n \in T /\ \A m \in T : n <= m
  <2>1. T \subseteq Nat OBVIOUS
  <2> HIDE DEF T
  <2> QED BY <1>1, <2>1, LeastElement
<1> HIDE DEF n
<1>3. n # 0 BY <1>2
<1>4. n - 1 \in Nat /\ n - 1 \notin T BY <1>2, <1>3
<1> QED BY <1>2, <1>4

(* A finite set of natural numbers has a greatest element: of the sets of    *)
(* what is above a member, the smallest is empty.                            *)
LEMMA GreatestElement ==
  ASSUME NEW T, T \subseteq Nat, T # {}, IsFiniteSet(T)
  PROVE  \E n \in T : \A m \in T : n >= m
<1> DEFINE Above(n) == {m \in T : m > n}
           F == {Above(n) : n \in T}
<1>1. F \subseteq FiniteSubsetsOf(T) /\ F # {}
  <2>1. ASSUME NEW n \in T PROVE Above(n) \in FiniteSubsetsOf(T)
    BY FS_Subset DEF FiniteSubsetsOf
  <2> QED BY <2>1
<1>2. PICK x \in F : \A y \in F : <<y, x>> \notin StrictSubsetOrdering(T)
  <2> HIDE DEF F
  <2> QED BY <1>1, FS_StrictSubsetOrderingWellFounded, WFMin
<1>3. PICK n \in T : x = Above(n) BY <1>2
<1>4. ASSUME NEW k \in T, k > n PROVE FALSE
  <2>1. Above(k) \in F OBVIOUS
  <2>2. Above(k) \subseteq Above(n)
    <3>1. ASSUME NEW m \in T, m > k PROVE m > n BY <3>1, <1>4
    <3> QED BY <3>1
  <2>3. k \in Above(n) /\ k \notin Above(k) BY <1>4
  <2>4. <<Above(k), Above(n)>> \in StrictSubsetOrdering(T)
    BY <2>2, <2>3 DEF StrictSubsetOrdering
  <2> QED BY <1>2, <1>3, <2>1, <2>4
<1>5. \A m \in T : n >= m BY <1>4
<1> QED BY <1>5
================================================================================
