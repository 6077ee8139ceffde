------------------------------ MODULE Induction ------------------------------
(***************************************************************************)
(* Induction over the natural numbers, stated for sets: least and greatest *)
(* elements, and the principle itself.                                     *)
(***************************************************************************)
EXTENDS Integers, WellFoundedInduction, TLAPS

\* A set of natural numbers that is not empty has a least element.
LEMMA MinExists ==
  ASSUME NEW T \in SUBSET Nat, T # {}
  PROVE  \E x \in T : \A y \in T : x <= y
<1> DEFINE R == OpToRel(<, Nat)
<1>1. IsWellFoundedOn(R, Nat)
  BY NatLessThanWellFounded, ZenonT(30)
<1>2. \A x, y \in Nat : <<y, x>> \in R <=> y < x
  BY DEF OpToRel
<1> HIDE DEF R
<1>3. PICK x \in T : \A y \in T : ~(<<y, x>> \in R)
  BY <1>1, WFMin, ZenonT(30)
<1>4. ASSUME NEW y \in T
      PROVE  x <= y
  <2>1. ~(y < x)
    BY <1>2, <1>3, ZenonT(30)
  <2>2. QED
    BY <2>1
<1>5. QED
  BY <1>4

\* A bounded set of natural numbers that is not empty has a greatest element.
LEMMA MaxExists ==
  ASSUME NEW n \in Nat, NEW T \in SUBSET (0 .. n), T # {}
  PROVE  \E x \in T : \A y \in T : y <= x
<1> DEFINE U == {k \in Nat : n - k \in T}
<1>1. PICK t \in T : TRUE
  BY ZenonT(30)
<1>2. t \in 0 .. n /\ n - t \in Nat /\ n - (n - t) = t
  OBVIOUS
<1>3. n - t \in U
  BY <1>1, <1>2
<1>4. PICK k \in U : \A j \in U : k <= j
  BY <1>3, MinExists, ZenonT(30)
<1>5. n - k \in T /\ k \in Nat
  BY <1>4
<1>6. ASSUME NEW y \in T
      PROVE  y <= n - k
  <2>1. y \in 0 .. n /\ n - y \in Nat /\ n - (n - y) = y
    OBVIOUS
  <2>2. n - y \in U
    BY <2>1
  <2>3. k <= n - y
    BY <1>4, <2>2, ZenonT(30)
  <2>4. QED
    BY <1>5, <2>1, <2>3
<1>7. QED
  BY <1>5, <1>6

\* Induction: a set with 0 that has the successors of its members is all of Nat.
LEMMA SetInduction ==
  ASSUME NEW S, 0 \in S, \A n \in Nat : n \in S => n + 1 \in S
  PROVE  \A n \in Nat : n \in S
<1> SUFFICES ASSUME \E n \in Nat : n \notin S PROVE FALSE
  OBVIOUS
<1> DEFINE T == {n \in Nat : n \notin S}
<1>1. PICK x \in T : \A y \in T : x <= y
  BY MinExists, ZenonT(30)
<1>2. x \in Nat /\ x # 0 /\ x - 1 \in Nat
  BY <1>1
<1>3. x - 1 \in S
  <2>1. ~(x <= x - 1)
    BY <1>2
  <2>2. QED
    BY <1>1, <1>2, <2>1
<1>4. (x - 1) + 1 = x
  BY <1>2
<1>5. QED
  BY <1>1, <1>2, <1>3, <1>4

\* A function can be defined by recursion along the numbers up to N.
LEMMA Iteration ==
  ASSUME NEW S, NEW a \in S, NEW N \in Nat, NEW step \in [1 .. N -> [S -> S]]
  PROVE  \E f \in [0 .. N -> S] : f[0] = a /\ \A k \in 1 .. N : f[k] = step[k][f[k - 1]]
<1> DEFINE Upto(n) ==
             \E f \in [0 .. n -> S] : f[0] = a /\ \A k \in 1 .. n : f[k] = step[k][f[k - 1]]
           T == {n \in Nat : n <= N => Upto(n)}
<1>1. 0 \in T
  <2> DEFINE f == [k \in 0 .. 0 |-> a]
  <2>1. f \in [0 .. 0 -> S] /\ f[0] = a /\ \A k \in 1 .. 0 : f[k] = step[k][f[k - 1]]
    OBVIOUS
  <2>2. QED
    BY <2>1, ZenonT(30)
<1>2. ASSUME NEW n \in Nat, n \in T
      PROVE  n + 1 \in T
  <2>1. SUFFICES ASSUME n + 1 <= N PROVE Upto(n + 1)
    OBVIOUS
  <2>2. n <= N /\ n + 1 \in 1 .. N
    BY <2>1
  <2>3. PICK f \in [0 .. n -> S] : f[0] = a /\ \A k \in 1 .. n : f[k] = step[k][f[k - 1]]
    BY <1>2, <2>2
  <2> DEFINE g == [k \in 0 .. n + 1 |-> IF k = n + 1 THEN step[n + 1][f[n]] ELSE f[k]]
  <2>4. step[n + 1] \in [S -> S] /\ f[n] \in S
    BY <2>2, <2>3
  <2>5. step[n + 1][f[n]] \in S
    BY <2>4
  <2>6. \A k \in 0 .. n + 1 : k # n + 1 => k \in 0 .. n /\ f[k] \in S
    BY <2>3
  <2>7. g \in [0 .. n + 1 -> S]
    BY <2>5, <2>6
  <2>8. g[0] = a
    BY <2>3
  <2>9. ASSUME NEW k \in 1 .. n + 1
        PROVE  g[k] = step[k][g[k - 1]]
    <3>1. k - 1 \in 0 .. n /\ k - 1 # n + 1 /\ k - 1 \in 0 .. n + 1 /\ k \in 0 .. n + 1
      OBVIOUS
    <3>2. g[k - 1] = f[k - 1]
      BY <3>1
    <3>3. CASE k = n + 1
      <4>1. k - 1 = n
        BY <3>3
      <4>2. QED
        BY <3>2, <3>3, <4>1
    <3>4. CASE k # n + 1
      <4>1. k \in 1 .. n
        BY <3>4
      <4>2. g[k] = f[k]
        BY <3>1, <3>4
      <4>3. QED
        BY <2>3, <3>2, <4>1, <4>2
    <3>5. QED
      BY <3>3, <3>4
  <2> HIDE DEF g
  <2>10. QED
    BY <2>7, <2>8, <2>9, ZenonT(30)
<1> HIDE DEF T
<1>3. \A n \in Nat : n \in T
  BY <1>1, <1>2, SetInduction
<1>4. QED
  BY <1>3 DEF T
=============================================================================
