---------------------------- MODULE ProofLemmas -----------------------------
(***************************************************************************)
(* What the proofs about the several components share: division with a     *)
(* remainder, counting up to a bound, and the states a loop passes         *)
(* through.                                                                *)
(***************************************************************************)
EXTENDS Integers, WellFoundedInduction, TLAPS

-----------------------------------------------------------------------------
(* Arithmetic *)

LEMMA Multiplies == \A a, b \in Nat : a * b \in Nat
  OBVIOUS

LEMMA Divides ==
  ASSUME NEW a \in Nat, NEW d \in Nat \ {0}
  PROVE  a \div d \in Nat /\ a \div d <= a
  OBVIOUS

(* A number is determined by a quotient and its remainder.                  *)
LEMMA QuotientRemainder ==
  ASSUME NEW x \in Int, NEW w \in Int, w > 0
  PROVE  x % w \in 0..(w - 1) /\ \E q \in Int : x = w * q + (x % w)
<1>1. x = w * (x \div w) + (x % w)
  OBVIOUS
<1>2. x \div w \in Int /\ x % w \in 0..(w - 1)
  OBVIOUS
<1> QED
  BY <1>1, <1>2

LEMMA RemainderUnique ==
  ASSUME NEW w \in Nat \ {0}, NEW q \in Int, NEW p \in Int,
         NEW r \in 0..(w - 1), NEW s \in 0..(w - 1), w * q + r = w * p + s
  PROVE  r = s
<1>1. w * (q - p) = s - r
  OBVIOUS
<1>2. ~ (q - p >= 1)
  <2> SUFFICES ASSUME q - p >= 1 PROVE FALSE
    OBVIOUS
  <2>1. (q - p - 1) * w \in Nat
    BY Multiplies
  <2>2. (q - p - 1) * w = w * (q - p) - w
    OBVIOUS
  <2> QED
    BY <1>1, <2>1, <2>2
<1>3. ~ (p - q >= 1)
  <2> SUFFICES ASSUME p - q >= 1 PROVE FALSE
    OBVIOUS
  <2>1. (p - q - 1) * w \in Nat
    BY Multiplies
  <2>2. (p - q - 1) * w = - (w * (q - p)) - w
    OBVIOUS
  <2> QED
    BY <1>1, <2>1, <2>2
<1>4. q - p = 0
  BY <1>2, <1>3
<1> QED
  BY <1>1, <1>4

LEMMA QuotientIs ==
  ASSUME NEW w \in Nat \ {0}, NEW q \in Int, NEW r \in 0..(w - 1)
  PROVE  (w * q + r) \div w = q /\ (w * q + r) % w = r
<1> DEFINE x == w * q + r
           p == x \div w
           s == x % w
<1>1. x \in Int
  OBVIOUS
<1>2. p \in Int /\ s \in 0..(w - 1) /\ x = w * p + s
  BY <1>1
<1> HIDE DEF p, s
<1>3. w * q + r = w * p + s
  BY <1>2
<1>4. r = s
  BY <1>2, <1>3, RemainderUnique
<1>5. w * (q - p) = 0
  BY <1>2, <1>3, <1>4
<1>6. q = p
  BY <1>2, <1>5
<1> QED
  BY <1>4, <1>6 DEF p, s

-----------------------------------------------------------------------------
(* Counting *)

(* A nonempty set of naturals has a least element.                          *)
LEMMA LeastElement ==
  ASSUME NEW S \in SUBSET Nat, S # {}
  PROVE  \E x \in S : \A y \in S : x <= y
<1> DEFINE R == OpToRel(<, Nat)
<1>1. IsWellFoundedOn(R, Nat)
  BY NatLessThanWellFounded
<1>2. \A x, y \in Nat : x < y => << x, y >> \in R
  BY DEF OpToRel
<1> HIDE DEF R
<1>3. PICK x \in S : \A y \in S : ~ << y, x >> \in R
  BY <1>1, WFMin
<1>4. \A y \in S : ~ (y < x)
  BY <1>2, <1>3
<1> QED
  BY <1>4

(* What holds of 0 and of i when it holds of i - 1 holds up to n.           *)
LEMMA UpTo ==
  ASSUME NEW n \in Nat, NEW G, 0 \in G, \A i \in 1..n : i - 1 \in G => i \in G
  PROVE  \A i \in 0..n : i \in G
<1> DEFINE T == {i \in 0..n : i \notin G}
<1>1. T = {}
  <2> SUFFICES ASSUME T # {} PROVE FALSE
    OBVIOUS
  <2>0. T \subseteq Nat
    OBVIOUS
  <2>1. PICK x \in T : \A y \in T : x <= y
    BY <2>0, LeastElement
  <2>2. x # 0
    BY <2>1
  <2>3. x - 1 \in 0..n /\ x \in 1..n /\ ~ (x <= x - 1)
    BY <2>1, <2>2
  <2> QED
    BY <2>1, <2>3
<1> QED
  BY <1>1

(* A loop of n steps from a, as a function of the number of steps done.     *)
Steps(h, n, S) == h \in [(1..n) \X S -> S]
Run(g, h, a, n, S) ==
  g \in [0..n -> S] /\ g[0] = a /\ \A i \in 1..n : g[i] = h[<< i, g[i - 1] >>]

LEMMA Iterates ==
  ASSUME NEW S, NEW a, a \in S, NEW n, n \in Nat, NEW h, Steps(h, n, S)
  PROVE  \E g : Run(g, h, a, n, S)
<1> DEFINE Ran(g, k) == g = [i \in 0..k |-> IF i = 0 THEN a ELSE h[<< i, g[i - 1] >>]]
           G == {k \in 0..n : \E g \in [0..k -> S] : Ran(g, k)}
<1>1. 0 \in G
  <2> DEFINE g == [i \in 0..0 |-> a]
  <2>1. g \in [0..0 -> S] /\ \A i \in 0..0 : i = 0
    OBVIOUS
  <2>2. \A i \in 0..0 : a = IF i = 0 THEN a ELSE h[<< i, g[i - 1] >>]
    OBVIOUS
  <2>3. Ran(g, 0)
    BY <2>2
  <2>4. \E g2 \in [0..0 -> S] : Ran(g2, 0)
    BY <2>1, <2>3
  <2>5. 0 \in 0..n
    OBVIOUS
  <2> QED
    BY <2>4, <2>5
<1>2. ASSUME NEW k \in 1..n, k - 1 \in G PROVE k \in G
  <2>1. PICK g \in [0..(k - 1) -> S] : Ran(g, k - 1)
    BY <1>2
  <2> DEFINE e == [i \in 0..k |-> IF i = k THEN h[<< k, g[k - 1] >>] ELSE g[i]]
  <2>2. \A i \in 0..(k - 1) : i \in 0..k /\ i # k /\ e[i] = g[i] /\ g[i] \in S
    OBVIOUS
  <2>3. e[k] = h[<< k, g[k - 1] >>] /\ k - 1 \in 0..(k - 1)
    OBVIOUS
  <2>4. h[<< k, g[k - 1] >>] \in S
    BY <2>2, <2>3 DEF Steps
  <2>5. e \in [0..k -> S]
    <3>1. ASSUME NEW i \in 0..k PROVE e[i] \in S
      <4>1. CASE i = k
        BY <2>3, <2>4, <4>1
      <4>2. CASE i # k
        <5>1. i \in 0..(k - 1)
          BY <4>2
        <5> QED
          BY <2>2, <5>1
      <4> QED
        BY <4>1, <4>2
    <3> QED
      BY <3>1
  <2>6. e = [i \in 0..k |-> e[i]]
    OBVIOUS
  <2> HIDE DEF e
  <2>7. ASSUME NEW i \in 0..k PROVE e[i] = IF i = 0 THEN a ELSE h[<< i, e[i - 1] >>]
    <3>1. CASE i = k
      <4>1. e[k - 1] = g[k - 1] /\ k # 0
        BY <2>2, <2>3
      <4> QED
        BY <2>3, <3>1, <4>1
    <3>2. CASE i # k /\ i # 0
      <4>1. i \in 0..(k - 1) /\ i - 1 \in 0..(k - 1)
        BY <3>2
      <4>2. g[i] = h[<< i, g[i - 1] >>]
        BY <2>1, <3>2, <4>1
      <4> QED
        BY <2>2, <3>2, <4>1, <4>2
    <3>3. CASE i # k /\ i = 0
      <4>1. 0 \in 0..(k - 1)
        OBVIOUS
      <4>2. g[0] = a
        BY <2>1, <4>1
      <4> QED
        BY <2>2, <3>3, <4>1, <4>2
    <3> QED
      BY <3>1, <3>2, <3>3
  <2>8. Ran(e, k)
    BY <2>6, <2>7
  <2>9. \E g2 \in [0..k -> S] : Ran(g2, k)
    BY <2>5, <2>8
  <2>10. k \in 0..n
    OBVIOUS
  <2> QED
    BY <2>9, <2>10
<1> HIDE DEF G
<1>3. n \in 0..n /\ \A k \in 0..n : k \in G
  BY <1>1, <1>2, UpTo
<1>4. PICK g \in [0..n -> S] : Ran(g, n)
  BY <1>3 DEF G
<1>5. 0 \in 0..n /\ \A i \in 1..n : i \in 0..n /\ i # 0
  OBVIOUS
<1> QED
  BY <1>4, <1>5 DEF Run
=============================================================================
