----------------------------- MODULE Iteration -----------------------------
(***************************************************************************)
(* Induction on the number of rounds of a loop.  The loops of the program  *)
(* (decode_frames, the handling of received frames) are recursive          *)
(* functions on 0 .. N: what a round makes of the state before it.  The    *)
(* facts here take a round as a function on a set of states, so that they  *)
(* can be used for every loop: such a loop has a run, and all states of a  *)
(* run stay in a set that no round leaves.                                 *)
(***************************************************************************)
EXTENDS Naturals, WellFoundedInduction, TLAPS

(* Every set of natural numbers that is not empty has a least element. *)
LEMMA LeastNat ==
  ASSUME NEW T \in SUBSET Nat, T # {}
  PROVE  \E x \in T : \A y \in T : x <= y
  <1> DEFINE R == OpToRel(<, Nat)
  <1>1. IsWellFoundedOn(R, Nat)
    BY NatLessThanWellFounded
  <1>2. \A x, y \in Nat : <<x, y>> \in R <=> x < y
    BY DEF OpToRel
  <1> HIDE DEF R
  <1>3. PICK x \in T : \A y \in T : ~ (<<y, x>> \in R)
    BY <1>1, WFMin
  <1>4. ASSUME NEW y \in T
        PROVE  x <= y
    <2>1. x \in Nat /\ y \in Nat /\ ~ (<<y, x>> \in R)
      BY <1>3
    <2>2. ~ (y < x)
      BY <1>2, <2>1
    <2> QED
      BY <2>1, <2>2
  <1> QED
    BY <1>4

(* Induction up to a bound, for a set of round numbers. *)
LEMMA BoundedInduction ==
  ASSUME NEW N \in Nat, NEW T, 0 \in T, \A n \in 1 .. N : n - 1 \in T => n \in T
  PROVE  0 .. N \subseteq T
  <1> DEFINE Out == {n \in 0 .. N : n \notin T}
  <1>1. ASSUME NEW x \in Out, \A y \in Out : x <= y
        PROVE  FALSE
    <2>1. x \in 0 .. N /\ x \notin T
      OBVIOUS
    <2>2. x # 0
      BY <2>1
    <2>3. x \in 1 .. N /\ x - 1 \in 0 .. N /\ ~ (x <= x - 1)
      BY <2>1, <2>2
    <2>4. x - 1 \in T
      BY <1>1, <2>3
    <2> QED
      BY <2>1, <2>3, <2>4
  <1>2. Out \in SUBSET Nat
    OBVIOUS
  <1>3. Out = {}
    <2> HIDE DEF Out
    <2> QED
      BY <1>1, <1>2, LeastNat
  <1> QED
    BY <1>3

(* A set of states that holds the first one and that no round leaves holds  *)
(* them all.                                                                *)
LEMMA IterationStays ==
  ASSUME NEW N \in Nat, NEW S, NEW h, h[0] \in S, \A n \in 1 .. N : h[n - 1] \in S => h[n] \in S
  PROVE  \A n \in 0 .. N : h[n] \in S
  <1> DEFINE T == {n \in 0 .. N : h[n] \in S}
  <1>1. 0 \in T
    OBVIOUS
  <1>2. ASSUME NEW n \in 1 .. N, n - 1 \in T
        PROVE  n \in T
    BY <1>2
  <1> HIDE DEF T
  <1>3. 0 .. N \subseteq T
    BY <1>1, <1>2, BoundedInduction
  <1> QED
    BY <1>3 DEF T

(* g is the run, from x, of a loop of N rounds whose n-th is F[n]. *)
Rounds(g, S, x, N, F) ==
  g \in [0 .. N -> S] /\ g[0] = x /\ \A n \in 1 .. N : g[n] = F[n][g[n - 1]]

LEMMA Iterates ==
  ASSUME NEW S, NEW x \in S, NEW N \in Nat, NEW F \in [1 .. N -> [S -> S]]
  PROVE  \E g : Rounds(g, S, x, N, F)
  <1> DEFINE Run(g, n) == /\ g \in [0 .. n -> S] /\ g[0] = x
                          /\ \A i \in 1 .. n : g[i] = F[i][g[i - 1]]
             T == {n \in 0 .. N : \E g : Run(g, n)}
  <1>1. 0 \in T
    <2> DEFINE z == [i \in 0 .. 0 |-> x]
    <2>1. z \in [0 .. 0 -> S] /\ z[0] = x
      OBVIOUS
    <2>2. \A i \in 1 .. 0 : FALSE
      OBVIOUS
    <2> HIDE DEF z
    <2>3. Run(z, 0)
      BY <2>1, <2>2
    <2>4. 0 \in 0 .. N
      OBVIOUS
    <2> HIDE DEF Run
    <2> QED
      BY <2>3, <2>4
  <1>2. ASSUME NEW n \in 1 .. N, n - 1 \in T
        PROVE  n \in T
    <2>1. PICK g : Run(g, n - 1)
      BY <1>2
    <2> DEFINE e == [i \in 0 .. n |-> IF i = n THEN F[n][g[n - 1]] ELSE g[i]]
    <2>2. n - 1 \in 0 .. (n - 1) /\ \A i \in 0 .. n : i = n \/ i \in 0 .. (n - 1)
      OBVIOUS
    <2>3. F[n] \in [S -> S] /\ g[n - 1] \in S
      BY <2>1, <2>2
    <2>4. e \in [0 .. n -> S]
      BY <2>1, <2>2, <2>3
    <2>5. e[0] = x
      BY <2>1
    <2>6. ASSUME NEW i \in 1 .. n
          PROVE  e[i] = F[i][e[i - 1]]
      <3>1. i - 1 \in 0 .. n /\ i - 1 # n /\ e[i - 1] = g[i - 1]
        OBVIOUS
      <3>2. CASE i = n
        BY <3>1, <3>2
      <3>3. CASE i # n
        <4>1. i \in 1 .. (n - 1) /\ e[i] = g[i]
          BY <3>3
        <4> QED
          BY <2>1, <3>1, <4>1
      <3> QED
        BY <3>2, <3>3
    <2>7. Run(e, n)
      BY <2>4, <2>5, <2>6
    <2> HIDE DEF Run, e
    <2> QED
      BY <2>7
  <1>3. N \in T
    <2> HIDE DEF T
    <2>1. 0 .. N \subseteq T
      BY <1>1, <1>2, BoundedInduction
    <2> QED
      BY <2>1
  <1> QED
    BY <1>3 DEF Rounds

=============================================================================
