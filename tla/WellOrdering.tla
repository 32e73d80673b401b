----------------------------- MODULE WellOrdering -----------------------------
(***************************************************************************)
(* Induction over the natural numbers, in the form in which the proofs     *)
(* about recursive functions need it: with sets where the theorems of      *)
(* NaturalsInduction have a predicate.  The components that these proofs   *)
(* are about are Router, Work, FramedBuffer and RouteAdvertisement.        *)
(***************************************************************************)
EXTENDS Naturals, TLAPS, WellFoundedInduction

Smaller == {pair \in Nat \X Nat : pair[1] < pair[2]}

(* Every set of natural numbers that is not empty has a least element.     *)
LEMMA LeastExists ==
  ASSUME NEW S \in SUBSET Nat, S # {}
  PROVE  \E x \in S : \A y \in S : x <= y
<1>1. IsWellFoundedOn(Smaller, Nat)
  BY NatLessThanWellFounded DEF OpToRel, Smaller
<1>2. PICK x \in S : \A y \in S : ~(<<y, x>> \in Smaller)
  BY <1>1, WFMin
<1>3. \A y \in S : ~(y < x)
  BY <1>2 DEF Smaller
<1> QED
  BY <1>3

(* A set with 0 that has with every number the next has all of them.       *)
LEMMA AllOfNat ==
  ASSUME NEW S \in SUBSET Nat, 0 \in S, \A n \in S : n + 1 \in S
  PROVE  S = Nat
<1> SUFFICES ASSUME Nat \ S # {} PROVE FALSE
  OBVIOUS
<1>1. PICK x \in Nat \ S : \A y \in Nat \ S : x <= y
  BY LeastExists
<1>2. x - 1 \in Nat /\ x - 1 \notin Nat \ S
  BY <1>1
<1> QED
  BY <1>1, <1>2

(* The same for the numbers up to a bound.                                 *)
LEMMA AllUpTo ==
  ASSUME NEW N \in Nat, NEW S, 0 \in S, \A n \in 0 .. N : n \in S /\ n < N => n + 1 \in S
  PROVE  0 .. N \subseteq S
<1> DEFINE T == {n \in Nat : n <= N => n \in S}
<1>1. \A n \in T : n + 1 \in T
  OBVIOUS
<1>2. T = Nat
  BY <1>1, AllOfNat
<1> QED
  BY <1>2

(* Steps from a first value, as many as n: each maps the value before it.  *)
Iterates(f, S, first, step, n) ==
  /\ f \in [0 .. n -> S]
  /\ f[0] = first
  /\ \A k \in 1 .. n : f[k] = step[k][f[k - 1]]

(* There is a function that takes them all.                                *)
LEMMA Iteration ==
  ASSUME NEW S, NEW first \in S, NEW step \in [Nat -> [S -> S]], NEW last \in Nat
  PROVE  \E f : Iterates(f, S, first, step, last)
<1> DEFINE T == {n \in Nat : \E f : Iterates(f, S, first, step, n)}
<1>1. 0 \in T
  <2>1. Iterates([k \in 0 .. 0 |-> first], S, first, step, 0)
    BY DEF Iterates
  <2> QED
    BY <2>1
<1>2. ASSUME NEW n \in T PROVE n + 1 \in T
  <2>1. PICK f : Iterates(f, S, first, step, n)
    OBVIOUS
  <2> DEFINE h == [k \in 0 .. n + 1 |-> IF k = n + 1 THEN step[n + 1][f[n]] ELSE f[k]]
  <2>2. n \in Nat /\ f \in [0 .. n -> S]
    BY <2>1 DEF Iterates
  <2>3. f[n] \in S /\ step[n + 1][f[n]] \in S
    BY <2>2
  <2>4. h \in [0 .. n + 1 -> S]
    BY <2>2, <2>3
  <2>5. ASSUME NEW k \in 1 .. n + 1 PROVE h[k] = step[k][h[k - 1]]
    <3>1. h[k - 1] = f[k - 1]
      BY <2>2
    <3>2. CASE k = n + 1
      BY <2>2, <3>1, <3>2
    <3>3. CASE k # n + 1
      BY <2>1, <2>2, <3>1, <3>3 DEF Iterates
    <3> QED
      BY <3>2, <3>3
  <2>6. h[0] = first
    BY <2>1, <2>2 DEF Iterates
  <2>7. Iterates(h, S, first, step, n + 1)
    BY <2>4, <2>5, <2>6 DEF Iterates
  <2> HIDE DEF h
  <2> QED
    BY <2>2, <2>7
<1>3. T = Nat
  BY <1>1, <1>2, AllOfNat
<1> QED
  BY <1>3
=============================================================================
