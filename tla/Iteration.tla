------------------------------ MODULE Iteration -------------------------------
(***************************************************************************)
(* What every step of a loop keeps, the loop keeps.  A module that proves  *)
(* something of a loop of the model takes an INSTANCE of this one, WITH    *)
(* Step the loop's body and Holds(c, base, k, v) what holds of the value v *)
(* after round k of a loop that started from base.                         *)
(***************************************************************************)
EXTENDS Loops, WellFoundedInduction, TLAPS

CONSTANTS Step(_, _, _), Holds(_, _, _, _)

\* Induction on the steps: a set of numbers that holds 0 and every successor
\* of its members is all of Nat.
LEMMA Steps ==
    ASSUME NEW S, 0 \in S, \A n \in Nat : n \in S => n + 1 \in S
    PROVE  \A n \in Nat : n \in S
<1> SUFFICES ASSUME NEW n \in Nat, n \notin S PROVE FALSE
  OBVIOUS
<1> DEFINE R == OpToRel(<, Nat)
           T == Nat \ S
<1>1. IsWellFoundedOn(R, Nat)
  BY NatLessThanWellFounded
<1>2. T \subseteq Nat /\ T # {}
  OBVIOUS
<1>3. PICK x \in T : \A y \in T : ~ (<<y, x>> \in R)
  <2> HIDE DEF R, T
  <2> QED
    BY <1>1, <1>2, WFMin
<1>4. x # 0 /\ x \in Nat
  OBVIOUS
<1>5. x - 1 \in Nat /\ x - 1 < x /\ (x - 1) + 1 = x
  BY <1>4
<1>6. <<x - 1, x>> \in R
  BY <1>4, <1>5, Zenon DEF OpToRel
<1>7. x - 1 \in S
  BY <1>3, <1>5, <1>6
<1> QED
  BY <1>5, <1>7

\* A loop has, after its last round, what its start has and every round keeps.
THEOREM Kept ==
    ASSUME NEW c, NEW base, NEW N \in Nat, Holds(c, base, 0, base),
           \A v : \A k \in 1..N : Holds(c, base, k - 1, v) => Holds(c, base, k, Step(c, v, k))
    PROVE  Holds(c, base, N, Loop(Step, c, base, N))
<1> DEFINE rounds[k \in 0..N] == IF k = 0 THEN base ELSE Step(c, rounds[k - 1], k)
<1>1. rounds[0] = base /\ \A k \in 1..N : rounds[k] = Step(c, rounds[k - 1], k)
  <2> HIDE DEF rounds
  <2>1. PICK g : g[0] = base /\ \A k \in 1..N : g[k] = Step(c, g[k-1], k)
    <3> DEFINE Is(f, n) == /\ f[0] = base
                           /\ \A k \in 1..n : f[k] = Step(c, f[k - 1], k)
               S == {n \in Nat : \E f : Is(f, n)}
    <3>1. 0 \in S
      <4>1. 0..0 = {0} /\ 1..0 = {}
        OBVIOUS
      <4>2. Is([k \in 0..0 |-> base], 0)
        BY <4>1
      <4>3. \E f : Is(f, 0)
        <5> HIDE DEF Is
        <5> QED
          BY <4>2
      <4> QED
        BY <4>3
    <3>2. ASSUME NEW n \in Nat, n \in S PROVE n + 1 \in S
      <4>1. PICK f : Is(f, n)
        BY <3>2
      <4> DEFINE g == [k \in 0..(n + 1) |-> IF k <= n THEN f[k] ELSE Step(c, f[n], n + 1)]
      <4>3. g[0] = base
        BY <4>1
      <4>4. ASSUME NEW k \in 1..(n + 1) PROVE g[k] = Step(c, g[k - 1], k)
        <5>1. CASE k <= n
          <6>1. k \in 1..n /\ k \in 0..(n + 1) /\ k - 1 \in 0..(n + 1) /\ k - 1 <= n
            BY <5>1
          <6>2. g[k] = f[k] /\ g[k - 1] = f[k - 1]
            BY <5>1, <6>1
          <6> QED
            BY <4>1, <6>1, <6>2
        <5>2. CASE k = n + 1
          <6>1. g[k] = Step(c, f[n], k) /\ g[n] = f[n] /\ k - 1 = n
            BY <5>2
          <6> QED
            BY <5>2, <6>1
        <5> QED
          BY <5>1, <5>2
      <4>5. \E q : Is(q, n + 1)
        <5>1. Is(g, n + 1)
          BY <4>3, <4>4
        <5> HIDE DEF g, Is
        <5> QED
          BY <5>1
      <4> QED
        BY <4>5
    <3>3. N \in S
      <4>1. \A n \in Nat : n \in S
        <5> HIDE DEF S
        <5> QED
          BY <3>1, <3>2, Steps
      <4> QED
        BY <4>1
    <3> QED
      BY <3>3
  <2> DEFINE h == [k \in 0..N |-> g[k]]
  <2>2. h = [k \in 0..N |-> IF k = 0 THEN base ELSE Step(c, h[k-1], k)]
    BY <2>1
  <2>3. rounds = [k \in 0..N |-> IF k = 0 THEN base ELSE Step(c, rounds[k-1], k)]
    <3> USE DEF rounds
    <3> HIDE DEF h
    <3> QED
    BY <2>2
  <2> HIDE DEF rounds
  <2>4. rounds[0] = base
    BY <2>3
  <2> QED BY <2>3, <2>4
<1> HIDE DEF rounds
<1> DEFINE S == {n \in Nat : n <= N => Holds(c, base, n, rounds[n])}
<1>2. 0 \in S
  BY <1>1
<1>3. ASSUME NEW n \in Nat, n \in S PROVE n + 1 \in S
  <2> SUFFICES ASSUME n + 1 <= N PROVE Holds(c, base, n + 1, rounds[n + 1])
    OBVIOUS
  <2>1. n + 1 \in 1..N /\ (n + 1) - 1 = n /\ n <= N
    OBVIOUS
  <2>2. rounds[n + 1] = Step(c, rounds[n], n + 1)
    BY <1>1, <2>1
  <2>3. Holds(c, base, n, rounds[n])
    BY <1>3, <2>1
  <2> QED
    BY <2>1, <2>2, <2>3
<1>4. N \in S
  <2>1. \A n \in Nat : n \in S
    <3> HIDE DEF S
    <3> QED
      BY <1>2, <1>3, Steps
  <2> QED
    BY <2>1
<1> QED
  BY <1>4 DEF Loop, rounds
=============================================================================
