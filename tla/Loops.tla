-------------------------------- MODULE Loops --------------------------------
(***************************************************************************)
(* Loops of the code are recursive functions in the models: the state      *)
(* after each turn from the state before it.  What a loop does is proved   *)
(* by induction over its turns.  The library's theorems on induction take  *)
(* the predicate as an operator; the lemmas here take the set of the       *)
(* numbers for which it holds.                                             *)
(***************************************************************************)
EXTENDS Integers, WellFoundedInduction, TLAPS

\* A set of natural numbers that holds 0 and with every number the next holds
\* all of them.
LEMMA NatSetInduction ==
  ASSUME NEW S, S \subseteq Nat, 0 \in S, \A n \in S : n + 1 \in S
  PROVE  \A n \in Nat : n \in S
<1>. DEFINE R == OpToRel(<, Nat)
            T == Nat \ S
<1>1. IsWellFoundedOn(R, Nat)
  BY NatLessThanWellFounded
<1>2. SUFFICES ASSUME T # {} PROVE FALSE
  OBVIOUS
<1>3. T \subseteq Nat
  OBVIOUS
<1>. HIDE DEF T, R
<1>4. PICK x \in T : \A y \in T : ~ (<<y, x>> \in R)
  BY <1>1, <1>2, <1>3, WFMin
<1>5. x \in Nat /\ x # 0
  BY <1>4, <1>3 DEF T
<1>6. x - 1 \in Nat
  BY <1>5
<1>7. x - 1 \in T
  <2>1. SUFFICES ASSUME x - 1 \in S PROVE FALSE
    BY <1>6 DEF T
  <2>2. (x - 1) + 1 \in S
    BY <2>1
  <2>3. (x - 1) + 1 = x
    BY <1>5
  <2>. QED  BY <2>2, <2>3 DEF T
<1>8. <<x - 1, x>> \in R
  BY <1>5, <1>6 DEF R, OpToRel
<1>. QED  BY <1>4, <1>7, <1>8

\* What holds before a loop and is kept by each of its n turns holds after each.
\* The turns for which it holds are a set, so that no operator is a parameter.
LEMMA LoopInduction ==
  ASSUME NEW n \in Nat, NEW S, 0 \in S,
         \A i \in 1 .. n : i - 1 \in S => i \in S
  PROVE  \A i \in 0 .. n : i \in S
<1>. DEFINE T == {k \in Nat : k <= n => k \in S}
<1>1. 0 \in T
  OBVIOUS
<1>2. ASSUME NEW k \in T PROVE k + 1 \in T
  <2>1. CASE k + 1 <= n
    <3>1. k + 1 \in 1 .. n /\ (k + 1) - 1 = k /\ k <= n
      BY <2>1
    <3>2. k \in S
      BY <3>1
    <3>. QED  BY <3>1, <3>2
  <2>2. CASE ~(k + 1 <= n)
    BY <2>2
  <2>. QED  BY <2>1, <2>2
<1>3. T \subseteq Nat
  OBVIOUS
<1>. HIDE DEF T
<1>4. \A k \in Nat : k \in T
  BY <1>1, <1>2, <1>3, NatSetInduction
<1>. QED  BY <1>4 DEF T

\* g[i] is the state after i turns of a loop whose turn i is the function step[i].
IsLoop(g, n, a, step) ==
  g = [i \in 0 .. n |-> IF i = 0 THEN a ELSE step[i][g[i - 1]]]

\* The recursion by which a loop is written has a solution.
LEMMA LoopExists ==
  ASSUME NEW n \in Nat, NEW X, NEW a \in X, NEW step \in [1 .. n -> [X -> X]]
  PROVE  \E g \in [0 .. n -> X] : IsLoop(g, n, a, step)
<1>. DEFINE Loop(k, g) == IsLoop(g, k, a, step)
            S == {k \in 0 .. n : \E g \in [0 .. k -> X] : Loop(k, g)}
<1>1. 0 \in S
  <2>. DEFINE g == [i \in 0 .. 0 |-> a]
  <2>1. g \in [0 .. 0 -> X] /\ Loop(0, g)
    BY DEF IsLoop
  <2>. HIDE DEF g, Loop
  <2>. QED  BY <2>1
<1>2. ASSUME NEW k \in 1 .. n, k - 1 \in S PROVE k \in S
  <2>1. PICK g \in [0 .. (k - 1) -> X] : Loop(k - 1, g)
    BY <1>2
  <2>. DEFINE h == [i \in 0 .. k |-> IF i = k THEN step[k][g[k - 1]] ELSE g[i]]
  <2>2. h \in [0 .. k -> X]
    OBVIOUS
  <2>3. ASSUME NEW i \in 0 .. k
        PROVE  h[i] = IF i = 0 THEN a ELSE step[i][h[i - 1]]
    <3>1. CASE i = k
      BY <3>1
    <3>2. CASE i # k
      <4>1. i \in 0 .. (k - 1) /\ h[i] = g[i]
        BY <3>2
      <4>2. g[i] = IF i = 0 THEN a ELSE step[i][g[i - 1]]
        BY <4>1, <2>1 DEF IsLoop
      <4>3. i # 0 => h[i - 1] = g[i - 1]
        BY <4>1
      <4>. QED  BY <4>1, <4>2, <4>3
    <3>. QED  BY <3>1, <3>2
  <2>4. Loop(k, h)
    BY <2>3 DEF IsLoop
  <2>. HIDE DEF h, Loop
  <2>. QED  BY <2>2, <2>4
<1>. HIDE DEF S
<1>3. \A k \in 0 .. n : k \in S
  BY <1>1, <1>2, LoopInduction
<1>. QED  BY <1>3 DEF S
==============================================================================
