-------------------------- MODULE Induction_proofs --------------------------
(***************************************************************************)
(* Induction over data for the proofs about files, names and answers.  The *)
(* induction theorems of the library are about operators; these say the    *)
(* same of sets and functions, and rest on the least element of a set of   *)
(* naturals.                                                               *)
(***************************************************************************)
EXTENDS Integers, FiniteSetTheorems, WellFoundedInduction, SequenceTheorems, TLAPS

LEMMA LeastNatural ==
  ASSUME NEW T \in SUBSET Nat, T # {}
  PROVE  \E n \in T : \A m \in T : n <= m
<1> DEFINE R == OpToRel(<, Nat)
<1>1. \A m, n \in Nat : m < n => <<m, n>> \in R
  BY DEF OpToRel
<1>2. IsWellFoundedOn(R, Nat)
  BY NatLessThanWellFounded
<1> HIDE DEF R
<1>3. PICK n \in T : \A m \in T : ~(<<m, n>> \in R)
  BY <1>2, WFMin
<1>4. ASSUME NEW m \in T PROVE n <= m
  <2>1. ~(m < n)
    BY <1>1, <1>3
  <2> QED BY <2>1
<1> QED BY <1>4

\* Induction up to a bound, for the set of numbers of which something holds.
LEMMA Induction ==
  ASSUME NEW N \in Nat, NEW S, 0 \in S, \A n \in 1..N : n - 1 \in S => n \in S
  PROVE  0..N \subseteq S
<1> DEFINE T == (0..N) \ S
<1> SUFFICES ASSUME T # {} PROVE FALSE
  OBVIOUS
<1>1. T \in SUBSET Nat
  OBVIOUS
<1>2. PICK n \in T : \A m \in T : n <= m
  <2> HIDE DEF T
  <2> QED BY <1>1, LeastNatural
<1>3. n \in 1..N /\ n - 1 \in 0..N /\ ~(n <= n - 1)
  OBVIOUS
<1>4. n - 1 \in S
  BY <1>2, <1>3
<1> QED BY <1>3, <1>4

\* f is given by its value at 0, and at n by n and its value before.
Recurs(f, N, base, step) == f[0] = base /\ \A n \in 1..N : f[n] = step[<<n, f[n - 1]>>]

\* A definition by recursion up to a bound is met by some function.
LEMMA Recursion ==
  ASSUME NEW N \in Nat, NEW A, NEW base \in A, NEW step \in [(1..N) \X A -> A]
  PROVE  \E f \in [0..N -> A] : Recurs(f, N, base, step)
<1> DEFINE Meets(f, n) == Recurs(f, n, base, step)
           Met(n) == \E f \in [0..n -> A] : Meets(f, n)
           S == {n \in 0..N : Met(n)}
<1> USE DEF Recurs
<1>1. Met(0)
  <2> DEFINE f == [i \in 0..0 |-> base]
  <2>1. f \in [0..0 -> A] /\ Meets(f, 0)
    OBVIOUS
  <2> QED BY <2>1
<1>2. ASSUME NEW n \in 1..N, Met(n - 1) PROVE Met(n)
  <2>1. PICK f \in [0..(n - 1) -> A] : Meets(f, n - 1)
    BY <1>2
  <2> DEFINE g == [i \in 0..n |-> IF i = n THEN step[<<n, f[n - 1]>>] ELSE f[i]]
  <2>2. f[n - 1] \in A /\ step[<<n, f[n - 1]>>] \in A
    OBVIOUS
  <2>3. g \in [0..n -> A]
    BY <2>2
  <2>4. /\ g[0] = base /\ \A i \in 1..(n - 1) : g[i] = f[i] /\ g[i - 1] = f[i - 1]
        /\ g[n] = step[<<n, f[n - 1]>>] /\ g[n - 1] = f[n - 1]
    BY <2>1
  <2> HIDE DEF g
  <2>5. \A i \in 1..n : g[i] = step[<<i, g[i - 1]>>]
    <3> SUFFICES ASSUME NEW i \in 1..n PROVE g[i] = step[<<i, g[i - 1]>>]
      OBVIOUS
    <3>1. CASE i = n
      BY <2>4, <3>1
    <3>2. CASE i \in 1..(n - 1)
      BY <2>1, <2>4, <3>2
    <3> QED BY <3>1, <3>2
  <2> QED BY <2>3, <2>4, <2>5
<1> HIDE DEF Met
<1>3. N \in S
  <2>1. 0 \in S /\ \A n \in 1..N : n - 1 \in S => n \in S
    BY <1>1, <1>2
  <2> HIDE DEF S
  <2>2. 0..N \subseteq S
    BY <2>1, Induction
  <2> QED BY <2>2
<1> QED BY <1>3 DEF Met
=============================================================================
