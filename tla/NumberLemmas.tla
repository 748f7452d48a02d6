---------------------------- MODULE NumberLemmas ----------------------------
(***************************************************************************)
(* The extremes of sets of natural numbers: a least counterexample stands  *)
(* in for an induction, wherever one would be over the steps of a path, a  *)
(* list or a block of code.                                                *)
(***************************************************************************)
EXTENDS Naturals, FiniteSetTheorems, WellFoundedInduction, TLAPS

\* A set of natural numbers has a least one.
LEMMA LeastNatural ==
    ASSUME NEW S \in SUBSET Nat, S # {}
    PROVE  \E n \in S : \A m \in S : n <= m
<1> DEFINE Upto == {0 .. n : n \in S}
<1>1. Upto # {} OBVIOUS
<1>2. Upto \subseteq FiniteSubsetsOf(Nat)
  <2>1. \A n \in S : IsFiniteSet(0 .. n) /\ 0 .. n \in SUBSET Nat
    BY FS_Interval
  <2> QED BY <2>1 DEF FiniteSubsetsOf
<1>3. PICK X \in Upto : \A Y \in Upto : ~(<<Y, X>> \in StrictSubsetOrdering(Nat))
  <2> HIDE DEF Upto
  <2> QED BY <1>1, <1>2, FS_StrictSubsetOrderingWellFounded, WFMin
<1>4. PICK n \in S : X = 0 .. n
  BY <1>3
<1>5. ASSUME NEW m \in S, m < n PROVE FALSE
  <2>1. 0 .. m \in Upto OBVIOUS
  <2>2. 0 .. m \in SUBSET Nat /\ 0 .. n \in SUBSET Nat /\ 0 .. m \subseteq 0 .. n
    BY <1>5
  <2>3. n \in 0 .. n /\ n \notin 0 .. m
    BY <1>5
  <2>4. <<0 .. m, 0 .. n>> \in StrictSubsetOrdering(Nat)
    BY <2>2, <2>3 DEF StrictSubsetOrdering
  <2> QED BY <2>1, <2>4, <1>3, <1>4
<1> QED BY <1>5

\* A bounded one has a greatest.
LEMMA GreatestBelow ==
    ASSUME NEW n \in Nat, NEW S \in SUBSET (1 .. n), S # {}
    PROVE  \E i \in S : \A j \in S : j <= i
<1> DEFINE Down == {n - i : i \in S}
<1>1. Down \in SUBSET Nat /\ Down # {}
  <2>1. \A i \in S : n - i \in Nat
    OBVIOUS
  <2> QED BY <2>1
<1>2. PICK d \in Down : \A e \in Down : d <= e
  <2> HIDE DEF Down
  <2> QED BY <1>1, LeastNatural
<1>3. PICK i \in S : d = n - i
  BY <1>2
<1>4. ASSUME NEW j \in S PROVE j <= i
  <2>1. n - j \in Down OBVIOUS
  <2>2. n - i <= n - j
    BY <1>2, <1>3, <2>1
  <2> QED BY <2>2
<1> QED BY <1>4
=============================================================================
