------------------------------- MODULE Induction -------------------------------
(***************************************************************************)
(* Induction and recursion along 0 .. n, stated about sets and functions,  *)
(* so that a proof can cite them for a given set or function.  They carry  *)
(* the proofs about the loops of the code that run over a list.            *)
(***************************************************************************)
EXTENDS Integers, FiniteSetTheorems, TLAPS

\* A set that holds 0 and with each index the next one holds every index of a
\* loop of n turns.  The initial segments of 0 .. n are well founded under
\* strict inclusion.
LEMMA PrefixInduction ==
  ASSUME NEW n \in Nat, NEW S, 0 \in S, \A i \in 1 .. n : i - 1 \in S => i \in S
  PROVE  0 .. n \subseteq S
<1> SUFFICES ASSUME NEW m \in 0 .. n, m \notin S PROVE FALSE
  OBVIOUS
<1> DEFINE Rest == {0 .. k : k \in (0 .. n) \ S}
           R == StrictSubsetOrdering(0 .. n)
<1>1. IsWellFoundedOn(R, FiniteSubsetsOf(0 .. n))
  BY FS_StrictSubsetOrderingWellFounded
<1>2. Rest \subseteq FiniteSubsetsOf(0 .. n) /\ Rest # {}
  <2>1. \A k \in 0 .. n : IsFiniteSet(0 .. k)
    BY FS_Interval
  <2> QED
    BY <2>1 DEF FiniteSubsetsOf
<1>3. PICK x \in Rest : \A y \in Rest : <<y, x>> \notin R
  <2> HIDE DEF Rest, R
  <2> QED
    BY <1>1, <1>2, WFMin
<1>4. PICK k \in (0 .. n) \ S : x = 0 .. k
  BY <1>3
<1>5. k # 0 /\ k - 1 \in (0 .. n) \ S
  BY <1>4
<1>6. 0 .. (k - 1) \in Rest
  BY <1>5
<1>7. <<0 .. (k - 1), 0 .. k>> \in R
  BY <1>4, <1>5 DEF StrictSubsetOrdering
<1> QED
  BY <1>3, <1>4, <1>6, <1>7

\* A set of natural numbers has a least element.
LEMMA LeastOf ==
  ASSUME NEW S \in SUBSET Nat, S # {}
  PROVE  \E k \in S : \A j \in S : k <= j
<1>1. PICK n \in S : TRUE
  OBVIOUS
<1> SUFFICES ASSUME \A k \in S : \E j \in S : j < k PROVE FALSE
  OBVIOUS
<1> DEFINE T == {i \in 0 .. n : \A j \in S : i < j}
<1>2. 0 \in T
  OBVIOUS
<1>3. \A i \in 1 .. n : i - 1 \in T => i \in T
  OBVIOUS
<1>4. n \in T
  <2> HIDE DEF T
  <2>1. 0 .. n \subseteq T
    BY <1>2, <1>3, PrefixInduction
  <2> QED
    BY <2>1
<1> QED
  BY <1>4

-----------------------------------------------------------------------------
(* Loops *)

\* g[i] is the accumulator of a loop after i turns.
IsLoop(g, n, b, step) == g[0] = b /\ \A i \in 1 .. n : g[i] = step[i][g[i - 1]]

\* Every loop has its accumulators, of the accumulator's type.
LEMMA LoopExists ==
  ASSUME NEW n \in Nat, NEW V, NEW b \in V, NEW step \in [1 .. n -> [V -> V]]
  PROVE  \E g \in [0 .. n -> V] : IsLoop(g, n, b, step)
<1> DEFINE S == {k \in 0 .. n : \E g \in [0 .. k -> V] : IsLoop(g, k, b, step)}
<1>1. 0 \in S
  <2> DEFINE g == [i \in 0 .. 0 |-> b]
  <2>1. g \in [0 .. 0 -> V] /\ IsLoop(g, 0, b, step)
    BY DEF IsLoop
  <2> HIDE DEF g
  <2> QED
    BY <2>1
<1>2. ASSUME NEW i \in 1 .. n, i - 1 \in S PROVE i \in S
  <2>1. PICK g \in [0 .. (i - 1) -> V] : IsLoop(g, i - 1, b, step)
    BY <1>2
  <2> DEFINE h == [k \in 0 .. i |-> IF k = i THEN step[i][g[i - 1]] ELSE g[k]]
  <2>2. h \in [0 .. i -> V]
    <3>1. step[i] \in [V -> V] /\ g[i - 1] \in V /\ step[i][g[i - 1]] \in V
      OBVIOUS
    <3>2. \A k \in 0 .. i : k # i => g[k] \in V
      OBVIOUS
    <3> QED
      BY <3>1, <3>2
  <2>3. \A k \in 0 .. i - 1 : h[k] = g[k]
    OBVIOUS
  <2>4. h[i] = step[i][h[i - 1]]
    OBVIOUS
  <2>5. IsLoop(h, i, b, step)
    <3> HIDE DEF h
    <3> QED
      BY <2>1, <2>3, <2>4 DEF IsLoop
  <2> HIDE DEF h
  <2> QED
    BY <2>2, <2>5
<1>3. 0 .. n \subseteq S
  <2> HIDE DEF S
  <2> QED
    BY <1>1, <1>2, PrefixInduction
<1> QED
  BY <1>3
=============================================================================
