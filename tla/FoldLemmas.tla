------------------------------ MODULE FoldLemmas ----------------------------
(***************************************************************************)
(* Induction over the natural numbers for sets, and that FoldLeft is the   *)
(* iteration it stands for.  The library's induction theorems take a       *)
(* predicate as an operator; here it is a set, which follows from the      *)
(* well-foundedness of < on Nat.                                           *)
(***************************************************************************)
EXTENDS SequencesExt, WellFoundedInduction, FiniteSetTheorems, TLAPS

-----------------------------------------------------------------------------
(* Induction                                                               *)

\* A set of natural numbers that is not empty has a least element.
LEMMA Least ==
    ASSUME NEW T \in SUBSET Nat, T # {}
    PROVE  \E x \in T : \A y \in T : x <= y
<1> DEFINE R == {p \in Nat \X Nat : p[1] < p[2]}
<1>1. IsWellFoundedOn(R, Nat)
  BY NatLessThanWellFounded DEF OpToRel
<1> HIDE DEF R
<1>2. PICK x \in T : \A y \in T : <<y, x>> \notin R
  BY <1>1, WFMin
<1> USE DEF R
<1>3. \A y \in T : ~(y < x)
  BY <1>2
<1> QED BY <1>3

\* A set that has 0, and with a number the next one, has every natural number.
LEMMA Induction ==
    ASSUME NEW S, 0 \in S, \A n \in Nat : n \in S => n + 1 \in S
    PROVE  Nat \subseteq S
<1> SUFFICES ASSUME ~(Nat \subseteq S) PROVE FALSE
  OBVIOUS
<1>1. PICK n \in Nat \ S : \A m \in Nat \ S : n <= m
  BY Least
<1>2. n # 0
  OBVIOUS
<1>3. n - 1 \in Nat /\ n - 1 \in S
  BY <1>1, <1>2
<1> QED BY <1>1, <1>3

\* Any set of indices of a sequence has a greatest one.
LEMMA MaxOfIndices ==
    ASSUME NEW n \in Nat, NEW s \in SUBSET (1..n), s # {}
    PROVE  /\ Max(s) \in s
           /\ \A y \in s : Max(s) >= y
<1> DEFINE T == {n - x : x \in s}
<1>1. T \in SUBSET Nat /\ T # {}
  <2>1. \A x \in s : n - x \in Nat
    OBVIOUS
  <2> QED BY <2>1
<1>2. PICK y \in T : \A z \in T : y <= z
  BY <1>1, Least
<1>3. PICK x \in s : y = n - x
  OBVIOUS
<1>4. ASSUME NEW z \in s PROVE x >= z
  <2>1. n - z \in T
    OBVIOUS
  <2>2. n - x <= n - z
    BY <1>2, <1>3, <2>1
  <2>3. n \in Int /\ x \in Int /\ z \in Int
    OBVIOUS
  <2> HIDE DEF T
  <2> QED BY <2>2, <2>3
<1> QED BY <1>4 DEF Max

\* The same of the least one.
LEMMA MinOfIndices ==
    ASSUME NEW n \in Nat, NEW s \in SUBSET (1..n), s # {}
    PROVE  /\ Min(s) \in s
           /\ \A y \in s : Min(s) <= y
<1>1. PICK x \in s : \A y \in s : x <= y
  <2>1. s \in SUBSET Nat
    OBVIOUS
  <2> QED BY <2>1, Least
<1> QED BY <1>1 DEF Min

LEMMA MaxOfInterval ==
    ASSUME NEW n \in Nat, NEW s \in SUBSET (1..n), n \in s
    PROVE  Max(s) = n
<1>1. Max(s) \in s /\ Max(s) >= n
  BY MaxOfIndices
<1>2. Max(s) \in 1..n
  BY <1>1
<1> QED BY <1>1, <1>2

-----------------------------------------------------------------------------
(* Folds                                                                   *)

\* "it" is the function FoldLeft is defined with, for a step given as a function.
Iterates(it, A, Step, base, q) ==
    /\ it \in [SUBSET DOMAIN q -> A]
    /\ \A s \in SUBSET DOMAIN q :
          it[s] = IF s = {} THEN base ELSE Step[<<it[s \ {Max(s)}], q[Max(s)]>>]

\* The function exists: FoldLeft's recursive definition is a definition.
LEMMA IterationExists ==
    ASSUME NEW A, NEW B, NEW Step \in [A \X B -> A], NEW base \in A, NEW q \in Seq(B)
    PROVE  \E it : Iterates(it, A, Step, base, q)
<1> DEFINE It(it, n) ==
             /\ it \in [SUBSET (1..n) -> A]
             /\ \A s \in SUBSET (1..n) :
                  it[s] = IF s = {} THEN base ELSE Step[<<it[s \ {Max(s)}], q[Max(s)]>>]
           Good == {n \in Nat : n <= Len(q) => \E it : It(it, n)}
<1>1. 0 \in Good
  <2> DEFINE it == [s \in SUBSET (1..0) |-> base]
  <2>1. SUBSET (1..0) = {{}}
    OBVIOUS
  <2>2. It(it, 0)
    BY <2>1
  <2> QED BY <2>2
<1>2. ASSUME NEW n \in Nat, n \in Good PROVE n + 1 \in Good
  <2> SUFFICES ASSUME n + 1 <= Len(q) PROVE \E it : It(it, n + 1)
    <3> HIDE DEF It
    <3> QED OBVIOUS
  <2>1. PICK it : It(it, n)
    <3> HIDE DEF It
    <3>1. n <= Len(q)
      OBVIOUS
    <3> QED BY <1>2, <3>1
  <2> DEFINE next == [s \in SUBSET (1..(n + 1)) |->
                        IF n + 1 \in s THEN Step[<<it[s \ {n + 1}], q[n + 1]>>] ELSE it[s]]
  <2>2. q[n + 1] \in B
    OBVIOUS
  <2>3. ASSUME NEW s \in SUBSET (1..(n + 1))
        PROVE  /\ next[s] \in A
               /\ next[s] = IF s = {} THEN base
                            ELSE Step[<<next[s \ {Max(s)}], q[Max(s)]>>]
    <3>1. CASE n + 1 \in s
      <4>1. Max(s) = n + 1
        BY <3>1, MaxOfInterval
      <4>2. /\ s \ {n + 1} \in SUBSET (1..n) /\ s \ {n + 1} \in SUBSET (1..(n + 1))
            /\ n + 1 \notin s \ {n + 1}
        OBVIOUS
      <4>3. next[s \ {n + 1}] = it[s \ {n + 1}] /\ it[s \ {n + 1}] \in A
        BY <2>1, <4>2
      <4> QED BY <2>2, <3>1, <4>1, <4>3
    <3>2. CASE n + 1 \notin s
      <4>1. s \in SUBSET (1..n)
        BY <3>2
      <4>2. /\ it[s] \in A
            /\ it[s] = IF s = {} THEN base ELSE Step[<<it[s \ {Max(s)}], q[Max(s)]>>]
        BY <2>1, <4>1
      <4>3. s \ {Max(s)} \in SUBSET (1..(n + 1)) /\ n + 1 \notin s \ {Max(s)}
        BY <3>2
      <4> QED BY <3>2, <4>2, <4>3
    <3> QED BY <3>1, <3>2
  <2>4. It(next, n + 1)
    <3>1. DOMAIN next = SUBSET (1..(n + 1)) /\ next = [s \in SUBSET (1..(n + 1)) |-> next[s]]
      OBVIOUS
    <3> HIDE DEF next
    <3> QED BY <2>3, <3>1
  <2> HIDE DEF It
  <2> QED BY <2>4
<1>3. Len(q) \in Good
  <2> HIDE DEF Good
  <2> QED BY <1>1, <1>2, Induction
<1>4. DOMAIN q = 1..Len(q)
  OBVIOUS
<1>5. PICK it : It(it, Len(q))
  <2> HIDE DEF It
  <2> QED BY <1>3
<1>6. Iterates(it, A, Step, base, q)
  BY <1>4, <1>5 DEF Iterates
<1> QED BY <1>6

\* Where Max is applied in it.
LEMMA Iteration ==
    ASSUME NEW A, NEW B, NEW q \in Seq(B), NEW Step, NEW base,
           NEW it, Iterates(it, A, Step, base, q),
           NEW s \in SUBSET DOMAIN q, s # {}
    PROVE  it[s \ {Max(s)}] \in A /\ q[Max(s)] \in B /\ it = [u \in SUBSET DOMAIN q |-> it[u]]
<1>1. DOMAIN q = 1..Len(q)
  OBVIOUS
<1>2. Max(s) \in s
  BY <1>1, MaxOfIndices
<1>3. s \ {Max(s)} \in SUBSET DOMAIN q
  OBVIOUS
<1> QED BY <1>2, <1>3 DEF Iterates

-----------------------------------------------------------------------------
(* Counting                                                                *)

\* A sequence without repetitions is as long as the set of its elements is large.
LEMMA LenIsCardinality ==
    ASSUME NEW B, NEW q \in Seq(B), \A i, j \in 1..Len(q) : q[i] = q[j] => i = j
    PROVE  Len(q) = Cardinality(ToSet(q))
<1>1. q \in Bijection(1..Len(q), ToSet(q))
  BY DEF Bijection, Injection, IsInjective, Surjection, ToSet
<1>2. Len(q) \in Nat /\ IsFiniteSet(1..Len(q)) /\ Cardinality(1..Len(q)) = Len(q)
  BY FS_Interval
<1>3. Cardinality(ToSet(q)) = Cardinality(1..Len(q))
  BY <1>1, <1>2, FS_Bijection DEF ExistsBijection
<1> QED BY <1>2, <1>3
=============================================================================
