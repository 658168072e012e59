----------------------------- MODULE LoopLemmas -----------------------------
(***************************************************************************)
(* Loops as recursive functions.  A definition                             *)
(*   LET f[i \in 0..n] == IF i = 0 THEN first ELSE ... f[i - 1] ... IN f[n] *)
(* names a function that has to be shown to exist, and facts about f[n]    *)
(* take an induction over the rounds.  Both are stated here for sets and   *)
(* functions, without a parameter that is an operator.                     *)
(***************************************************************************)
EXTENDS Integers, FiniteSetTheorems, WellFoundedInduction, TLAPS

-----------------------------------------------------------------------------
(* A set of numbers that is not empty has a least one.                     *)
LEMMA LeastNumber ==
  ASSUME NEW S, S \subseteq Nat, S # {}
  PROVE  \E m \in S : \A n \in S : m <= n
  <1> DEFINE T == {0 .. n : n \in S}
  <1>1. T \subseteq FiniteSubsetsOf(Nat)
    <2> SUFFICES ASSUME NEW n \in S PROVE 0 .. n \in FiniteSubsetsOf(Nat)
      OBVIOUS
    <2>1. n \in Int /\ 0 \in Int /\ 0 .. n \subseteq Nat
      OBVIOUS
    <2> QED
      BY <2>1, FS_Interval DEF FiniteSubsetsOf
  <1>2. PICK U \in T : \A V \in T : <<V, U>> \notin StrictSubsetOrdering(Nat)
    <2>1. T # {}
      OBVIOUS
    <2> HIDE DEF T
    <2> QED
      BY <1>1, <2>1, FS_StrictSubsetOrderingWellFounded, WFMin
  <1>3. PICK m \in S : U = 0 .. m
    OBVIOUS
  <1>4. ASSUME NEW n \in S, n < m PROVE FALSE
    <2>1. 0 .. n \subseteq 0 .. m /\ 0 .. n \subseteq Nat /\ 0 .. m \subseteq Nat
      BY <1>4
    <2>2. m \in 0 .. m /\ m \notin 0 .. n
      BY <1>4
    <2>3. <<0 .. n, 0 .. m>> \in StrictSubsetOrdering(Nat)
      BY <2>1, <2>2 DEF StrictSubsetOrdering
    <2> QED
      BY <1>2, <1>3, <2>3
  <1> QED
    BY <1>4

(* Induction over a loop of n rounds: a set of rounds with the first one   *)
(* and with the next of each.                                              *)
LEMMA EveryRound ==
  ASSUME NEW n \in Nat, NEW S, 0 \in S, \A i \in 1 .. n : i - 1 \in S => i \in S
  PROVE  \A i \in 0 .. n : i \in S
  <1> DEFINE Missing == {i \in 0 .. n : i \notin S}
  <1> SUFFICES ASSUME Missing # {} PROVE FALSE
    OBVIOUS
  <1>1. PICK m \in Missing : \A i \in Missing : m <= i
    <2>1. Missing \subseteq Nat
      OBVIOUS
    <2> HIDE DEF Missing
    <2> QED
      BY <2>1, LeastNumber
  <1>2. m \in 1 .. n /\ m - 1 \in 0 .. n /\ ~(m <= m - 1) /\ m \notin S
    OBVIOUS
  <1>3. m - 1 \in S
    BY <1>1, <1>2
  <1> QED
    BY <1>2, <1>3

(* A loop of n rounds from a first value, over the values of D.            *)
Rounds(n, D) == [1 .. n -> [D -> D]]
Runs(f, n, first, round) == f[0] = first /\ \A i \in 1 .. n : f[i] = round[i][f[i - 1]]

(* The function of a loop exists, whatever a round computes.               *)
LEMMA LoopExists ==
  ASSUME NEW n \in Nat, NEW D, NEW first \in D, NEW round \in Rounds(n, D)
  PROVE  \E f \in [0 .. n -> D] : Runs(f, n, first, round)
  <1> DEFINE Upto(k, f) == Runs(f, k, first, round)
             S == {k \in 0 .. n : \E f \in [0 .. k -> D] : Upto(k, f)}
  <1>1. 0 \in S
    <2> DEFINE g == [i \in 0 .. 0 |-> first]
    <2>1. g \in [0 .. 0 -> D] /\ Upto(0, g) /\ 0 \in 0 .. n
      BY DEF Runs
    <2> HIDE DEF g, Upto
    <2> QED
      BY <2>1
  <1>2. ASSUME NEW k \in 1 .. n, k - 1 \in S PROVE k \in S
    <2>1. PICK f \in [0 .. k - 1 -> D] : Upto(k - 1, f)
      BY <1>2
    <2> DEFINE g == [i \in 0 .. k |-> IF i = k THEN round[k][f[k - 1]] ELSE f[i]]
    <2>2. k - 1 \in 0 .. k - 1 /\ f[k - 1] \in D
      OBVIOUS
    <2>3. round[k][f[k - 1]] \in D
      BY <2>2 DEF Rounds
    <2>4. g \in [0 .. k -> D]
      <3> SUFFICES ASSUME NEW i \in 0 .. k, i # k PROVE f[i] \in D
        BY <2>3
      <3>1. i \in 0 .. k - 1
        OBVIOUS
      <3> QED
        BY <3>1
    <2>5. g[0] = first
      <3>1. 0 \in 0 .. k /\ 0 # k
        OBVIOUS
      <3> QED
        BY <3>1, <2>1 DEF Runs
    <2>6. ASSUME NEW i \in 1 .. k PROVE g[i] = round[i][g[i - 1]]
      <3>1. i \in 0 .. k /\ i - 1 \in 0 .. k /\ i - 1 # k
        OBVIOUS
      <3>2. g[i - 1] = f[i - 1]
        BY <3>1
      <3>3. CASE i = k
        BY <3>1, <3>2, <3>3
      <3>4. CASE i # k
        <4>1. i \in 1 .. k - 1 /\ g[i] = f[i]
          BY <3>1, <3>4
        <4> QED
          BY <4>1, <3>2, <2>1 DEF Runs
      <3> QED
        BY <3>3, <3>4
    <2>7. Upto(k, g)
      BY <2>5, <2>6 DEF Runs
    <2> HIDE DEF g, Upto
    <2> QED
      BY <2>4, <2>7
  <1>3. \A i \in 0 .. n : i \in S
    <2> HIDE DEF S
    <2> QED
      BY <1>1, <1>2, EveryRound
  <1> HIDE DEF Upto
  <1>4. n \in S
    BY <1>3
  <1>5. \E f \in [0 .. n -> D] : Upto(n, f)
    BY <1>4
  <1> QED
    BY <1>5 DEF Upto
=============================================================================
