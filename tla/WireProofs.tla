----------------------------- MODULE WireProofs -----------------------------
(***************************************************************************)
(* Proofs about the checksums, the conversions and the sequence numbers of *)
(* module Wire, for every width of a byte, every pair of initial sequence  *)
(* numbers and every payload.                                              *)
(***************************************************************************)
EXTENDS WireProperties, SequenceTheorems, ProofLemmas

-----------------------------------------------------------------------------
(* The width of the fields *)

(* 1 << n, as the last of the powers up to it.                              *)
LEMMA ShiftedPowers ==
  ASSUME NEW n \in Nat
  PROVE  \E f \in [0..n -> Nat] :
           /\ f[0] = 1 /\ \A i \in 1..n : f[i] = 2 * f[i - 1]
           /\ Shifted(n) = f[n]
<1> DEFINE h == [x \in (1..n) \X Nat |-> 2 * x[2]]
           Powers(g) == g = [i \in 0..n |-> IF i = 0 THEN 1 ELSE 2 * g[i - 1]]
<1>1. h \in [(1..n) \X Nat -> Nat]
  OBVIOUS
<1>2. \A i \in 1..n, k \in Nat : h[<< i, k >>] = 2 * k
  OBVIOUS
<1> HIDE DEF h
<1>3. PICK g : Run(g, h, 1, n, Nat)
  BY <1>1, Iterates DEF Steps
<1>4. /\ g \in [0..n -> Nat] /\ g[0] = 1
      /\ \A i \in 1..n : g[i] = 2 * g[i - 1]
  <2>1. \A i \in 1..n : i - 1 \in 0..n
    OBVIOUS
  <2> QED
    BY <1>2, <1>3, <2>1 DEF Run
<1>5. \A i \in 0..n : i # 0 => i \in 1..n
  OBVIOUS
<1>6. g = [i \in 0..n |-> g[i]]
  BY <1>4
<1>7. \A i \in 0..n : g[i] = IF i = 0 THEN 1 ELSE 2 * g[i - 1]
  BY <1>4, <1>5
<1>8. Powers(g)
  BY <1>6, <1>7
<1> DEFINE p == CHOOSE f : Powers(f)
<1>9. Powers(p)
  BY <1>8
<1>10. Shifted(n) = p[n]
  BY DEF Shifted
<1> HIDE DEF p
<1>11. \A i \in 0..n : p[i] = IF i = 0 THEN 1 ELSE 2 * p[i - 1]
  BY <1>9
<1> DEFINE G == {i \in 0..n : p[i] = g[i]}
<1>12. 0 \in G
  BY <1>4, <1>11
<1>13. ASSUME NEW i \in 1..n, i - 1 \in G PROVE i \in G
  BY <1>4, <1>11, <1>13
<1> HIDE DEF G
<1>14. \A i \in 0..n : i \in G
  BY <1>12, <1>13, UpTo
<1>15. n \in 0..n
  OBVIOUS
<1>16. p[n] = g[n]
  BY <1>14, <1>15 DEF G
<1> QED
  BY <1>4, <1>10, <1>16

(* The next power is the double.                                            *)
LEMMA ShiftedDoubles ==
  ASSUME NEW n \in Nat
  PROVE  Shifted(n + 1) = 2 * Shifted(n) /\ Shifted(n) \in Nat
<1>1. PICK f \in [0..n -> Nat] :
        /\ f[0] = 1 /\ \A i \in 1..n : f[i] = 2 * f[i - 1]
        /\ Shifted(n) = f[n]
  BY ShiftedPowers
<1>2. PICK g \in [0..(n + 1) -> Nat] :
        /\ g[0] = 1 /\ \A i \in 1..(n + 1) : g[i] = 2 * g[i - 1]
        /\ Shifted(n + 1) = g[n + 1]
  <2>1. n + 1 \in Nat
    OBVIOUS
  <2> QED
    BY <2>1, ShiftedPowers
<1> DEFINE G == {i \in 0..n : f[i] = g[i]}
<1>3. 0 \in G
  BY <1>1, <1>2
<1>4. ASSUME NEW i \in 1..n, i - 1 \in G PROVE i \in G
  BY <1>1, <1>2, <1>4
<1> HIDE DEF G
<1>5. \A i \in 0..n : i \in G
  BY <1>3, <1>4, UpTo
<1>6. n \in 0..n /\ n + 1 \in 1..(n + 1) /\ (n + 1) - 1 = n
  OBVIOUS
<1>7. f[n] = g[n]
  BY <1>5, <1>6 DEF G
<1>8. g[n + 1] = 2 * g[n]
  BY <1>2, <1>6
<1> QED
  BY <1>1, <1>2, <1>6, <1>7, <1>8

(* A mask is a proper bit of the byte.                                      *)
LEMMA ShiftedBounds ==
  ASSUME NEW n \in Nat, NEW j \in 0..(n - 1)
  PROVE  Shifted(j) \in Nat /\ Shifted(j) >= 1 /\ 2 * Shifted(j) <= Shifted(n)
<1> DEFINE P == {k \in 0..j : Shifted(k) >= 1}
           G == {k \in 0..(n - 1 - j) : 2 * Shifted(j) <= Shifted(j + 1 + k)}
<1>0. \A k \in Nat : Shifted(k + 1) = 2 * Shifted(k) /\ Shifted(k) \in Nat
  BY ShiftedDoubles
<1>1. Shifted(0) = 1
  BY ShiftedPowers
<1>2. 0 \in P /\ \A k \in 1..j : k - 1 \in P => k \in P
  <2>1. ASSUME NEW k \in 1..j, k - 1 \in P PROVE k \in P
    <3>1. k - 1 \in Nat /\ (k - 1) + 1 = k /\ k \in 0..j
      OBVIOUS
    <3>2. Shifted(k) = 2 * Shifted(k - 1) /\ Shifted(k - 1) \in Nat
      BY <1>0, <3>1
    <3> QED
      BY <2>1, <3>1, <3>2
  <2> QED
    BY <1>1, <2>1
<1>3. j \in Nat /\ j \in 0..j /\ n - 1 - j \in Nat /\ j + 1 \in Nat
  OBVIOUS
<1>4. j \in P
  <2> HIDE DEF P
  <2> QED
    BY <1>2, <1>3, UpTo
<1>5. 0 \in G
  BY <1>0, <1>3
<1>6. ASSUME NEW k \in 1..(n - 1 - j), k - 1 \in G PROVE k \in G
  <2>1. j + 1 + (k - 1) \in Nat /\ (j + 1 + (k - 1)) + 1 = j + 1 + k
    BY <1>3
  <2>2. Shifted(j + 1 + k) = 2 * Shifted(j + 1 + (k - 1)) /\ Shifted(j + 1 + (k - 1)) \in Nat
    BY <1>0, <2>1
  <2>3. 2 * Shifted(j) <= Shifted(j + 1 + (k - 1)) /\ Shifted(j) \in Nat
    BY <1>0, <1>3, <1>6
  <2> QED
    BY <2>2, <2>3
<1>7. n - 1 - j \in G
  <2> HIDE DEF G
  <2>1. n - 1 - j \in 0..(n - 1 - j)
    BY <1>3
  <2> QED
    BY <1>3, <1>5, <1>6, <2>1, UpTo
<1>8. j + 1 + (n - 1 - j) = n
  OBVIOUS
<1> QED
  BY <1>0, <1>3, <1>4, <1>7, <1>8

LEMMA Widths ==
  /\ Byte \in Nat /\ Byte >= 2
  /\ HalfWord \in Nat /\ HalfWord >= 2 * Byte
  /\ Word \in Nat /\ Word >= 2 * HalfWord
<1>1. Bits \in Nat /\ Bits - 1 \in 0..(Bits - 1)
  BY WireAssumption
<1>2. Byte \in Nat /\ Byte >= 2
  BY <1>1, ShiftedBounds, ShiftedDoubles DEF Byte
<1>3. ASSUME NEW a \in Nat, NEW b \in Nat, a >= 2 PROVE a * b \in Nat /\ a * b >= 2 * b
  <2>0. a - 2 \in Nat
    BY <1>3
  <2>1. (a - 2) * b \in Nat
    BY <2>0, Multiplies
  <2>2. (a - 2) * b = a * b - 2 * b
    OBVIOUS
  <2> QED
    BY <2>1, <2>2
<1>4. HalfWord \in Nat /\ HalfWord >= 2 * Byte
  BY <1>2, <1>3 DEF HalfWord
<1>5. HalfWord >= 2
  BY <1>2, <1>4
<1>6. Word \in Nat /\ Word >= 2 * HalfWord
  BY <1>3, <1>4, <1>5 DEF Word
<1> QED
  BY <1>2, <1>4, <1>6

-----------------------------------------------------------------------------
(* Checksums *)

(* The total of a sequence, as the last of its partial sums.                *)
LEMMA TotalSums ==
  ASSUME NEW words \in Seq(Nat)
  PROVE  \E f \in [0..Len(words) -> Nat] :
           /\ f[0] = 0 /\ \A i \in 1..Len(words) : f[i] = f[i - 1] + words[i]
           /\ Total(words) = f[Len(words)]
<1> DEFINE n == Len(words)
           h == [x \in (1..n) \X Nat |-> x[2] + words[x[1]]]
           Sums(g) == g = [i \in 0..n |-> IF i = 0 THEN 0 ELSE g[i - 1] + words[i]]
<1>0. n \in Nat /\ \A i \in 1..n : words[i] \in Nat
  BY ElementOfSeq, LenProperties
<1>1. h \in [(1..n) \X Nat -> Nat]
  BY <1>0
<1>2. \A i \in 1..n, k \in Nat : h[<< i, k >>] = k + words[i]
  OBVIOUS
<1> HIDE DEF h
<1>3. PICK g : Run(g, h, 0, n, Nat)
  BY <1>0, <1>1, Iterates DEF Steps
<1>4. /\ g \in [0..n -> Nat] /\ g[0] = 0
      /\ \A i \in 1..n : g[i] = g[i - 1] + words[i]
  <2>1. \A i \in 1..n : i - 1 \in 0..n
    BY <1>0
  <2> QED
    BY <1>2, <1>3, <2>1 DEF Run
<1>5. \A i \in 0..n : i # 0 => i \in 1..n
  BY <1>0
<1>6. g = [i \in 0..n |-> g[i]]
  BY <1>4
<1>7. \A i \in 0..n : g[i] = IF i = 0 THEN 0 ELSE g[i - 1] + words[i]
  BY <1>4, <1>5
<1>8. Sums(g)
  BY <1>6, <1>7
<1> DEFINE p == CHOOSE f : Sums(f)
<1>9. Sums(p)
  BY <1>8
<1>10. Total(words) = p[n]
  BY DEF Total
<1> HIDE DEF p
<1>11. \A i \in 0..n : p[i] = IF i = 0 THEN 0 ELSE p[i - 1] + words[i]
  BY <1>9
<1> DEFINE G == {i \in 0..n : p[i] = g[i]}
<1>12. 0 \in G
  BY <1>0, <1>4, <1>11
<1>13. ASSUME NEW i \in 1..n, i - 1 \in G PROVE i \in G
  BY <1>0, <1>4, <1>11, <1>13
<1> HIDE DEF G
<1>14. \A i \in 0..n : i \in G
  BY <1>0, <1>12, <1>13, UpTo
<1>15. n \in 0..n
  BY <1>0
<1>16. p[n] = g[n]
  BY <1>14, <1>15 DEF G
<1> QED
  BY <1>4, <1>10, <1>16

(* What one word changes is what the total changes.                         *)
LEMMA TotalChanges ==
  ASSUME NEW words \in Seq(Nat), NEW other \in Seq(Nat), Len(other) = Len(words),
         NEW m \in 1..Len(words), \A i \in 1..Len(words) : i # m => other[i] = words[i]
  PROVE  Total(other) - Total(words) = other[m] - words[m]
<1> DEFINE n == Len(words)
<1>1. n \in Nat /\ \A i \in 1..n : words[i] \in Nat /\ other[i] \in Nat
  BY ElementOfSeq, LenProperties
<1>2. PICK f \in [0..n -> Nat] :
        /\ f[0] = 0 /\ \A i \in 1..n : f[i] = f[i - 1] + words[i]
        /\ Total(words) = f[n]
  BY TotalSums
<1>3. PICK g \in [0..n -> Nat] :
        /\ g[0] = 0 /\ \A i \in 1..n : g[i] = g[i - 1] + other[i]
        /\ Total(other) = g[n]
  BY TotalSums
<1> DEFINE G == {i \in 0..n : g[i] - f[i] = IF i < m THEN 0 ELSE other[m] - words[m]}
<1>4. 0 \in G
  BY <1>1, <1>2, <1>3
<1>5. ASSUME NEW i \in 1..n, i - 1 \in G PROVE i \in G
  <2>0. i \in 0..n /\ i - 1 \in 0..n
    BY <1>1
  <2>1. /\ f[i] = f[i - 1] + words[i] /\ g[i] = g[i - 1] + other[i]
        /\ f[i - 1] \in Nat /\ g[i - 1] \in Nat /\ words[i] \in Nat /\ other[i] \in Nat
    BY <1>1, <1>2, <1>3, <2>0
  <2>2. g[i - 1] - f[i - 1] = IF i - 1 < m THEN 0 ELSE other[m] - words[m]
    BY <1>5
  <2>3. CASE i = m
    BY <2>0, <2>1, <2>2, <2>3, SMTT(30)
  <2>4. CASE i # m
    <3>1. other[i] = words[i]
      BY <2>4
    <3>2. i - 1 < m <=> i < m
      BY <2>4
    <3> QED
      BY <2>0, <2>1, <2>2, <3>1, <3>2, SMTT(30)
  <2> QED
    BY <2>3, <2>4
<1>6. n \in G
  <2> HIDE DEF G
  <2>1. n \in 0..n
    BY <1>1
  <2> QED
    BY <1>1, <1>4, <1>5, <2>1, UpTo
<1> QED
  BY <1>1, <1>2, <1>3, <1>6

(* One carry of the sum.                                                    *)
Carried(n) == (n \div HalfWord) + (n % HalfWord)

(* A carry makes the sum smaller by a multiple of what a half word counts.  *)
LEMMA CarryShrinks ==
  ASSUME NEW n \in Nat, ~(n < HalfWord)
  PROVE  /\ Carried(n) \in Nat /\ Carried(n) < n
         /\ \E q \in Nat : n = Carried(n) + q * (HalfWord - 1)
<1> DEFINE H == HalfWord
           q == n \div H
           r == n % H
<1>1. H \in Nat /\ H >= 4
  BY Widths
<1>2. q \in Int /\ r \in 0..(H - 1) /\ n = H * q + r
  BY <1>1
<1>3. Carried(n) = q + r
  BY DEF Carried
<1> HIDE DEF q, r
<1>4. q >= 1
  <2> SUFFICES ASSUME ~(q >= 1) PROVE FALSE
    OBVIOUS
  <2>1. -q \in Nat
    BY <1>2
  <2>2. H * (-q) \in Nat
    BY <1>1, <2>1, Multiplies
  <2>3. H * (-q) = -(H * q)
    BY <1>1, <1>2
  <2> QED
    BY <1>1, <1>2, <2>2, <2>3
<1>5. (q - 1) * (H - 1) \in Nat
  <2>1. q - 1 \in Nat /\ H - 1 \in Nat
    BY <1>1, <1>2, <1>4
  <2> QED
    BY <2>1, Multiplies
<1>6. q * (H - 1) = H * q - q /\ (q - 1) * (H - 1) = q * (H - 1) - (H - 1)
  BY <1>1, <1>2
<1>7. n = (q + r) + q * (H - 1)
  BY <1>1, <1>2, <1>6
<1>8. q * (H - 1) > 0
  BY <1>1, <1>2, <1>5, <1>6
<1>9. q \in Nat /\ q + r \in Nat /\ q + r < n
  BY <1>1, <1>2, <1>4, <1>7, <1>8
<1> QED
  BY <1>3, <1>7, <1>9

(* The carries of the numbers up to n.                                      *)
FoldsTo(g, n) ==
  /\ g \in [0..n -> 0..(HalfWord - 1)]
  /\ \A k \in 0..n : g[k] = IF k < HalfWord THEN k ELSE g[Carried(k)]

LEMMA FoldsExist ==
  ASSUME NEW n \in Nat
  PROVE  \E g : FoldsTo(g, n)
<1> DEFINE G == {k \in 0..n : \E g : FoldsTo(g, k)}
<1>0. HalfWord \in Nat /\ HalfWord >= 4
  BY Widths
<1>1. 0 \in G
  <2> DEFINE g == [k \in 0..0 |-> 0]
  <2>1. g \in [0..0 -> 0..(HalfWord - 1)] /\ \A k \in 0..0 : k = 0 /\ g[k] = 0
    BY <1>0
  <2>2. FoldsTo(g, 0)
    BY <1>0, <2>1 DEF FoldsTo
  <2> QED
    BY <2>2
<1>2. ASSUME NEW m \in 1..n, m - 1 \in G PROVE m \in G
  <2>1. PICK g : FoldsTo(g, m - 1)
    BY <1>2
  <2> DEFINE last == IF m < HalfWord THEN m ELSE g[Carried(m)]
             e == [k \in 0..m |-> IF k = m THEN last ELSE g[k]]
  <2>2. \A k \in 0..m : k # m => k \in 0..(m - 1)
    OBVIOUS
  <2>3. ~(m < HalfWord) => Carried(m) \in 0..(m - 1)
    BY CarryShrinks
  <2>4. last \in 0..(HalfWord - 1)
    BY <1>0, <2>1, <2>3 DEF FoldsTo
  <2> HIDE DEF last
  <2>5. e \in [0..m -> 0..(HalfWord - 1)]
    BY <2>1, <2>2, <2>4 DEF FoldsTo
  <2>6. /\ \A k \in 0..(m - 1) : e[k] = g[k] /\ k # m /\ k \in 0..m
        /\ e[m] = last
    OBVIOUS
  <2> HIDE DEF e
  <2>7. ASSUME NEW k \in 0..m PROVE e[k] = IF k < HalfWord THEN k ELSE e[Carried(k)]
    <3>1. CASE k = m
      <4>1. ~(m < HalfWord) => e[Carried(m)] = g[Carried(m)]
        BY <2>3, <2>6
      <4> QED
        BY <2>6, <3>1, <4>1 DEF last
    <3>2. CASE k # m
      <4>1. k \in 0..(m - 1) /\ k \in Nat
        BY <2>2, <3>2
      <4>2. ~(k < HalfWord) => Carried(k) \in 0..(m - 1)
        BY <4>1, CarryShrinks
      <4>3. g[k] = IF k < HalfWord THEN k ELSE g[Carried(k)]
        BY <2>1, <4>1 DEF FoldsTo
      <4> QED
        BY <2>6, <4>1, <4>2, <4>3
    <3> QED
      BY <3>1, <3>2
  <2>8. FoldsTo(e, m)
    BY <2>5, <2>7 DEF FoldsTo
  <2> QED
    BY <2>8
<1> HIDE DEF G
<1>3. n \in G
  <2>1. n \in 0..n
    OBVIOUS
  <2> QED
    BY <1>1, <1>2, <2>1, UpTo
<1> QED
  BY <1>3 DEF G

LEMMA FoldsAgree ==
  ASSUME NEW n \in Nat, NEW m \in Nat, NEW g, NEW f, FoldsTo(g, n), FoldsTo(f, m),
         NEW k \in Nat, k <= n, k <= m
  PROVE  g[k] = f[k]
<1> DEFINE T == {i \in Nat : i <= n /\ i <= m /\ g[i] # f[i]}
<1> SUFFICES ASSUME T # {} PROVE FALSE
  OBVIOUS
<1>0. T \in SUBSET Nat
  OBVIOUS
<1>1. PICK x \in T : \A y \in T : x <= y
  BY <1>0, LeastElement
<1>2. x \in 0..n /\ x \in 0..m /\ x \in Nat
  BY <1>1
<1>3. CASE x < HalfWord
  BY <1>1, <1>2, <1>3 DEF FoldsTo
<1>4. CASE ~(x < HalfWord)
  <2>1. Carried(x) \in Nat /\ Carried(x) < x
    BY <1>2, <1>4, CarryShrinks
  <2>2. Carried(x) \notin T
    BY <1>1, <1>2, <2>1
  <2>3. g[Carried(x)] = f[Carried(x)]
    BY <1>2, <2>1, <2>2
  <2>4. g[x] = g[Carried(x)] /\ f[x] = f[Carried(x)]
    BY <1>2, <1>4 DEF FoldsTo
  <2> QED
    BY <1>1, <2>3, <2>4
<1> QED
  BY <1>3, <1>4

(* The recursion has a solution, so Folded is one.                          *)
LEMMA FoldedUnfolds ==
  \A n \in Nat : Folded[n] = IF n < HalfWord THEN n ELSE Folded[Carried(n)]
<1> DEFINE Folds(f) == f = [sum \in Nat |-> IF sum < HalfWord THEN sum
                                            ELSE f[(sum \div HalfWord) + (sum % HalfWord)]]
           upto(n) == CHOOSE g : FoldsTo(g, n)
           F == [n \in Nat |-> upto(n)[n]]
<1>1. \A n \in Nat : FoldsTo(upto(n), n)
  BY FoldsExist
<1> HIDE DEF upto
<1>2. \A n \in Nat : F[n] = upto(n)[n]
  OBVIOUS
<1>3. F = [n \in Nat |-> F[n]]
  OBVIOUS
<1> HIDE DEF F
<1>4. ASSUME NEW n \in Nat PROVE F[n] = IF n < HalfWord THEN n ELSE F[Carried(n)]
  <2>1. n \in 0..n
    OBVIOUS
  <2>2. upto(n)[n] = IF n < HalfWord THEN n ELSE upto(n)[Carried(n)]
    BY <1>1, <2>1 DEF FoldsTo
  <2>3. CASE n < HalfWord
    BY <1>2, <2>2, <2>3
  <2>4. CASE ~(n < HalfWord)
    <3> DEFINE k == Carried(n)
    <3>1. k \in Nat /\ k <= n /\ k <= k
      BY <2>4, CarryShrinks
    <3> HIDE DEF k
    <3>2. upto(n)[k] = upto(k)[k]
      BY <1>1, <3>1, FoldsAgree
    <3> QED
      BY <1>2, <2>2, <2>4, <3>1, <3>2 DEF k
  <2> QED
    BY <2>3, <2>4
<1>5. Folds(F)
  BY <1>3, <1>4 DEF Carried
<1>6. Folded = CHOOSE f : Folds(f)
  BY DEF Folded
<1>7. Folds(Folded)
  BY <1>5, <1>6
<1> QED
  BY <1>7 DEF Carried

(* What is folded is the rest of the sum that a half word can hold.         *)
LEMMA FoldedIs ==
  ASSUME NEW n \in Nat
  PROVE  /\ Folded[n] \in 0..(HalfWord - 1)
         /\ \E q \in Nat : n = Folded[n] + q * (HalfWord - 1)
<1> DEFINE H == HalfWord
           Good(k) == /\ Folded[k] \in 0..(H - 1)
                      /\ \E q \in Nat : k = Folded[k] + q * (H - 1)
           T == {k \in Nat : ~Good(k)}
<1>1. H \in Nat /\ H >= 4
  BY Widths
<1>2. T = {}
  <2> SUFFICES ASSUME T # {} PROVE FALSE
    OBVIOUS
  <2>0. T \in SUBSET Nat
    OBVIOUS
  <2>1. PICK x \in T : \A y \in T : x <= y
    BY <2>0, LeastElement
  <2>2. x \in Nat /\ ~Good(x)
    BY <2>1
  <2>3. CASE x < H
    <3>1. Folded[x] = x
      BY <2>2, <2>3, FoldedUnfolds
    <3>2. x = x + 0 * (H - 1)
      BY <1>1, <2>2
    <3>3. Good(x)
      BY <1>1, <2>2, <2>3, <3>1, <3>2
    <3> QED
      BY <2>2, <3>3
  <2>4. CASE ~(x < H)
    <3>1. Carried(x) \in Nat /\ Carried(x) < x
      BY <2>2, <2>4, CarryShrinks
    <3>2. PICK p \in Nat : x = Carried(x) + p * (H - 1)
      BY <2>2, <2>4, CarryShrinks
    <3>3. Good(Carried(x))
      BY <2>1, <2>2, <3>1
    <3>4. PICK q \in Nat : Carried(x) = Folded[Carried(x)] + q * (H - 1)
      BY <3>3
    <3>5. Folded[x] = Folded[Carried(x)]
      BY <2>2, <2>4, FoldedUnfolds
    <3>6. Folded[x] \in 0..(H - 1)
      BY <3>3, <3>5
    <3>7. p + q \in Nat /\ (p + q) * (H - 1) = p * (H - 1) + q * (H - 1)
      BY <1>1
    <3>8. p * (H - 1) \in Int /\ q * (H - 1) \in Int
      BY <1>1
    <3>9. x = Folded[x] + (p + q) * (H - 1)
      BY <1>1, <3>2, <3>4, <3>5, <3>6, <3>7, <3>8
    <3>10. Good(x)
      BY <3>6, <3>7, <3>9
    <3> QED
      BY <2>2, <3>10
  <2> QED
    BY <2>3, <2>4
<1>3. Good(n)
  BY <1>2
<1> QED
  BY <1>3

(* Turning the bytes of a half word twice restores it.                      *)
LEMMA HtonsTurns ==
  ASSUME NEW x \in 0..(HalfWord - 1)
  PROVE  htons(x) \in 0..(HalfWord - 1) /\ htons(htons(x)) = x
<1> DEFINE B == Byte
           q == x \div B
           r == x % B
<1>1. B \in Nat /\ B >= 2 /\ HalfWord = B * B /\ HalfWord \in Nat
  BY Widths DEF HalfWord
<1>2. q \in Int /\ r \in 0..(B - 1) /\ x = B * q + r /\ x \in Nat
  BY <1>1
<1>3. htons(x) = r * B + q
  BY DEF htons
<1> HIDE DEF B, q, r
<1>4. q >= 0
  <2> SUFFICES ASSUME ~(q >= 0) PROVE FALSE
    OBVIOUS
  <2>1. -1 - q \in Nat
    BY <1>2
  <2>2. B * (-1 - q) \in Nat
    BY <1>1, <2>1, Multiplies
  <2>3. B * (-1 - q) = -B - B * q
    BY <1>1, <1>2
  <2> QED
    BY <1>1, <1>2, <2>2, <2>3
<1>5. q <= B - 1
  <2> SUFFICES ASSUME ~(q <= B - 1) PROVE FALSE
    OBVIOUS
  <2>1. q - B \in Nat
    BY <1>1, <1>2
  <2>2. B * (q - B) \in Nat
    BY <1>1, <2>1, Multiplies
  <2>3. B * (q - B) = B * q - B * B
    BY <1>1, <1>2
  <2> QED
    BY <1>1, <1>2, <2>2, <2>3
<1>6. q \in 0..(B - 1)
  BY <1>1, <1>2, <1>4, <1>5
<1>7. B * r + q \in 0..(HalfWord - 1)
  <2>1. B * ((B - 1) - r) \in Nat /\ B * r \in Nat
    BY <1>1, <1>2, Multiplies
  <2>2. B * ((B - 1) - r) = (B * B - B) - B * r
    BY <1>1, <1>2
  <2> QED
    BY <1>1, <1>6, <2>1, <2>2
<1>8. htons(x) = B * r + q
  BY <1>1, <1>2, <1>3
<1>9. (B * r + q) \div B = r /\ (B * r + q) % B = q
  BY <1>1, <1>2, <1>6, QuotientIs
<1>10. htons(B * r + q) = q * B + r
  BY <1>9 DEF htons, B
<1>11. q * B = B * q
  BY <1>1, <1>6
<1> QED
  BY <1>2, <1>7, <1>8, <1>10, <1>11

(* The complement of a folded sum, where zero is replaced.                  *)
Complement(f) == IF f = HalfWord - 1 THEN HalfWord - 1 ELSE HalfWord - 1 - f

LEMMA CksumIs ==
  ASSUME NEW words \in Seq(Nat)
  PROVE  /\ Total(words) \in Nat
         /\ cksum(words) = htons(Complement(Folded[Total(words)]))
         /\ cksum(words) \in 0..(HalfWord - 1)
<1> DEFINE H == HalfWord
           f == Folded[Total(words)]
           top == H - 1
<1>0. H \in Nat /\ H >= 4 /\ top \in 0..(H - 1)
  BY Widths
<1>1. Total(words) \in Nat
  <2>1. Len(words) \in Nat
    BY LenProperties
  <2>2. Len(words) \in 0..Len(words)
    BY <2>1
  <2> QED
    BY <2>2, TotalSums
<1>2. f \in 0..(H - 1)
  BY <1>1, FoldedIs
<1>3. htons(top) = top
  <2>1. Byte \in Nat /\ Byte >= 2 /\ H = Byte * Byte
    BY Widths DEF HalfWord
  <2>2. top = Byte * (Byte - 1) + (Byte - 1) /\ Byte - 1 \in 0..(Byte - 1)
    BY <2>1
  <2> HIDE DEF top
  <2>3. top \div Byte = Byte - 1 /\ top % Byte = Byte - 1
    <3>1. Byte \in Nat \ {0} /\ Byte - 1 \in Int
      BY <2>1
    <3> QED
      BY <2>2, <3>1, QuotientIs
  <2> QED
    BY <2>1, <2>2, <2>3 DEF htons
<1>4. cksum(words) = IF top - f = 0 THEN top ELSE htons(top - f)
  BY DEF cksum
<1>5. Complement(f) = IF f = top THEN top ELSE top - f
  BY DEF Complement
<1>6. Complement(f) \in 0..(H - 1)
  BY <1>0, <1>2, <1>5
<1>7. cksum(words) = htons(Complement(f))
  BY <1>0, <1>2, <1>3, <1>4, <1>5
<1> QED
  BY <1>1, <1>6, <1>7, HtonsTurns

(* Sums that differ by less than a half word counts have other checksums.   *)
LEMMA CksumDiffers ==
  ASSUME NEW words \in Seq(Nat), NEW other \in Seq(Nat), Total(words) # Total(other),
         Total(other) - Total(words) < HalfWord - 1,
         Total(words) - Total(other) < HalfWord - 1
  PROVE  cksum(words) # cksum(other)
<1> SUFFICES ASSUME cksum(words) = cksum(other) PROVE FALSE
  OBVIOUS
<1> DEFINE H == HalfWord
           m == Total(words)
           n == Total(other)
           f == Folded[m]
           g == Folded[n]
<1>1. H \in Nat /\ H >= 4
  BY Widths
<1>2. /\ m \in Nat /\ cksum(words) = htons(Complement(f))
      /\ n \in Nat /\ cksum(other) = htons(Complement(g))
  BY CksumIs
<1>3. f \in 0..(H - 1) /\ g \in 0..(H - 1)
  BY <1>2, FoldedIs
<1>4. PICK p \in Nat : m = f + p * (H - 1)
  BY <1>2, FoldedIs
<1>5. PICK q \in Nat : n = g + q * (H - 1)
  BY <1>2, FoldedIs
<1>6. Complement(f) = Complement(g)
  <2>1. Complement(f) \in 0..(H - 1) /\ Complement(g) \in 0..(H - 1)
    BY <1>1, <1>3 DEF Complement
  <2>2. htons(Complement(f)) = htons(Complement(g))
    BY <1>2
  <2> QED
    BY <2>1, <2>2, HtonsTurns
<1> HIDE DEF f, g, m, n
<1>7. f = g \/ (f = 0 /\ g = H - 1) \/ (f = H - 1 /\ g = 0)
  BY <1>1, <1>3, <1>6 DEF Complement
<1>8. \E d \in Int : n - m = d * (H - 1)
  <2>1. n - m = (g - f) + (q - p) * (H - 1)
    BY <1>1, <1>3, <1>4, <1>5
  <2>2. CASE f = g
    <3>1. n - m = (q - p) * (H - 1)
      BY <1>1, <1>3, <2>1, <2>2
    <3> QED
      BY <3>1
  <2>3. CASE f = 0 /\ g = H - 1
    <3>1. n - m = ((q - p) + 1) * (H - 1)
      BY <1>1, <2>1, <2>3
    <3> QED
      BY <3>1
  <2>4. CASE f = H - 1 /\ g = 0
    <3>1. n - m = ((q - p) - 1) * (H - 1)
      BY <1>1, <2>1, <2>4
    <3> QED
      BY <3>1
  <2> QED
    BY <1>7, <2>2, <2>3, <2>4
<1>9. PICK d \in Int : n - m = d * (H - 1)
  BY <1>8
<1>10. ASSUME NEW e \in Int, e >= 1 PROVE e * (H - 1) >= H - 1
  <2>1. e - 1 \in Nat /\ H - 1 \in Nat
    BY <1>1, <1>10
  <2>2. (e - 1) * (H - 1) \in Nat
    BY <2>1, Multiplies
  <2>3. (e - 1) * (H - 1) = e * (H - 1) - (H - 1)
    BY <1>1
  <2> QED
    BY <1>1, <2>2, <2>3
<1>11. n - m < H - 1 /\ m - n < H - 1 /\ m # n
  BY DEF m, n
<1>12. CASE d >= 1
  <2>1. d * (H - 1) >= H - 1
    BY <1>10, <1>12
  <2> QED
    BY <1>1, <1>2, <1>9, <1>11, <2>1
<1>13. CASE d <= -1
  <2>1. -d >= 1 /\ -d \in Int /\ (-d) * (H - 1) = -(d * (H - 1))
    BY <1>1, <1>13
  <2>2. (-d) * (H - 1) >= H - 1
    BY <1>10, <2>1
  <2> QED
    BY <1>1, <1>2, <1>9, <1>11, <2>1, <2>2
<1>14. CASE d = 0
  BY <1>1, <1>2, <1>9, <1>11, <1>14
<1> QED
  BY <1>12, <1>13, <1>14

-----------------------------------------------------------------------------
(* Segments as words *)

(* Headers hold what their fields have room for; corruption and the         *)
(* conversions keep the others natural.                                     *)
CtcpSegment == [seqno : 0..(Word - 1), ackno : 0..(Word - 1), len : Nat, window : Nat,
                cksum : Nat, data : Seq(Nat)]

LEMMA NatDivision ==
  ASSUME NEW a \in Nat, NEW w \in Nat \ {0}
  PROVE  /\ a \div w \in Nat /\ a % w \in 0..(w - 1) /\ a % w \in Nat
         /\ a = w * (a \div w) + (a % w)
<1>1. a \div w \in Nat
  BY Divides
<1>2. a % w \in 0..(w - 1)
  OBVIOUS
<1>3. a = w * (a \div w) + (a % w)
  <2>1. a \in Int /\ w \in Int /\ w > 0
    OBVIOUS
  <2> QED
    BY <2>1
<1>4. a % w \in Nat
  BY <1>2
<1> QED
  BY <1>1, <1>2, <1>3, <1>4

LEMMA HtonsNat == ASSUME NEW x \in Nat PROVE htons(x) \in Nat
<1>1. Byte \in Nat \ {0}
  BY Widths
<1>2. x % Byte \in Nat /\ x \div Byte \in Nat
  BY <1>1, NatDivision
<1>3. (x % Byte) * Byte \in Nat
  BY <1>1, <1>2, Multiplies
<1> QED
  BY <1>2, <1>3 DEF htons

LEMMA HalvesAre ==
  ASSUME NEW x \in Nat
  PROVE  Halves(x) \in Seq(Nat) /\ Len(Halves(x)) = 2
<1>1. HalfWord \in Nat \ {0}
  BY Widths
<1>2. x % HalfWord \in Nat /\ x \div HalfWord \in Nat
  BY <1>1, NatDivision
<1> QED
  BY <1>2 DEF Halves

(* The half words of the payload.                                           *)
LEMMA PairedIs ==
  ASSUME NEW bytes \in Seq(Nat)
  PROVE  /\ Paired(bytes) \in Seq(Nat) /\ Len(Paired(bytes)) = (Len(bytes) + 1) \div 2
         /\ (Len(bytes) + 1) \div 2 \in Nat
         /\ \A i \in 1..((Len(bytes) + 1) \div 2) :
              /\ Paired(bytes)[i] = bytes[2 * i - 1] * Byte
                                      + (IF 2 * i <= Len(bytes) THEN bytes[2 * i] ELSE 0)
              /\ 2 * i - 1 \in 1..Len(bytes)
<1> DEFINE n == (Len(bytes) + 1) \div 2
           e(i) == bytes[2 * i - 1] * Byte + (IF 2 * i <= Len(bytes) THEN bytes[2 * i] ELSE 0)
<1>1. Len(bytes) \in Nat /\ n \in Nat /\ \A i \in 1..Len(bytes) : bytes[i] \in Nat
  <2>1. Len(bytes) \in Nat
    BY LenProperties
  <2>2. n \in Nat
    BY <2>1
  <2> QED
    BY <2>1, <2>2, ElementOfSeq
<1>2. ASSUME NEW i \in 1..n PROVE e(i) \in Nat /\ 2 * i - 1 \in 1..Len(bytes)
  <2>1. 2 * i - 1 \in 1..Len(bytes)
    BY <1>1
  <2>2. 2 * i <= Len(bytes) => 2 * i \in 1..Len(bytes)
    BY <1>1
  <2>3. bytes[2 * i - 1] * Byte \in Nat
    <3>1. bytes[2 * i - 1] \in Nat /\ Byte \in Nat
      BY <1>1, <2>1, Widths
    <3> QED
      BY <3>1, Multiplies
  <2>4. (IF 2 * i <= Len(bytes) THEN bytes[2 * i] ELSE 0) \in Nat
    BY <1>1, <2>2
  <2> QED
    BY <2>1, <2>3, <2>4, SMTT(30)
<1>3. Paired(bytes) = [i \in 1..n |-> e(i)]
  BY DEF Paired
<1> HIDE DEF n, e
<1>4. [i \in 1..n |-> e(i)] \in Seq(Nat) /\ Len([i \in 1..n |-> e(i)]) = n
  BY <1>1, <1>2
<1>5. \A i \in 1..n : Paired(bytes)[i] = e(i)
  BY <1>3
<1> QED
  BY <1>1, <1>2, <1>3, <1>4, <1>5 DEF n, e

(* Two numbers and four half words, in a row.                               *)
LEMMA EightWords ==
  ASSUME NEW x \in Seq(Nat), NEW y \in Seq(Nat), NEW z \in Seq(Nat),
         Len(x) = 2, Len(y) = 2, Len(z) = 4
  PROVE  /\ x \o y \o z \in Seq(Nat) /\ Len(x \o y \o z) = 8
         /\ \A i \in 1..8 : (x \o y \o z)[i] =
              IF i <= 4 THEN (x \o y)[i] ELSE z[i - 4]
<1>1. x \o y \in Seq(Nat) /\ Len(x \o y) = 4
  <2>1. x \o y \in Seq(Nat) /\ Len(x \o y) = Len(x) + Len(y)
    BY ConcatProperties
  <2> QED
    BY <2>1
<1> DEFINE v == x \o y
<1> HIDE DEF v
<1>2. /\ v \o z \in Seq(Nat) /\ Len(v \o z) = Len(v) + Len(z)
      /\ \A i \in 1..(Len(v) + Len(z)) : (v \o z)[i] = IF i <= Len(v) THEN v[i] ELSE z[i - Len(v)]
  BY <1>1, ConcatProperties DEF v
<1> QED
  BY <1>1, <1>2 DEF v

LEMMA HeaderIs ==
  ASSUME NEW s \in CtcpSegment
  PROVE  /\ Header(s) \in Seq(Nat) /\ Len(Header(s)) = 8
         /\ Header(s)[7] = s.window
         /\ \A t \in CtcpSegment :
              t.seqno = s.seqno /\ t.ackno = s.ackno /\ t.len = s.len /\ t.cksum = s.cksum =>
                \A i \in 1..8 : i # 7 => Header(t)[i] = Header(s)[i]
<1> DEFINE x(t) == Halves(t.seqno)
           y(t) == Halves(t.ackno)
           z(t) == << t.len, TH_ACK * Byte, t.window, htons(t.cksum) >>
<1>1. ASSUME NEW t \in CtcpSegment
      PROVE  /\ x(t) \in Seq(Nat) /\ Len(x(t)) = 2
             /\ y(t) \in Seq(Nat) /\ Len(y(t)) = 2
             /\ z(t) \in Seq(Nat) /\ Len(z(t)) = 4
  <2>1. t.seqno \in Nat /\ t.ackno \in Nat /\ t.len \in Nat /\ t.window \in Nat /\ t.cksum \in Nat
    BY Widths DEF CtcpSegment
  <2>2. TH_ACK * Byte \in Nat
    <3>1. TH_ACK \in Nat /\ Byte \in Nat
      BY WireAssumption, Widths
    <3> QED
      BY <3>1, Multiplies
  <2>3. htons(t.cksum) \in Nat
    BY <2>1, HtonsNat
  <2>4. z(t) \in Seq(Nat) /\ Len(z(t)) = 4
    BY <2>1, <2>2, <2>3
  <2> QED
    BY <2>1, <2>4, HalvesAre
<1>2. \A t \in CtcpSegment : z(t)[3] = t.window /\ \A i \in 1..4 : i # 3 =>
         \/ (z(t)[i] = t.len /\ i = 1) \/ (z(t)[i] = TH_ACK * Byte /\ i = 2)
         \/ (z(t)[i] = htons(t.cksum) /\ i = 4)
  OBVIOUS
<1>3. \A t : Header(t) = x(t) \o y(t) \o z(t)
  BY DEF Header
<1>4. \A t \in CtcpSegment : t.seqno = s.seqno /\ t.ackno = s.ackno => x(t) \o y(t) = x(s) \o y(s)
  <2> SUFFICES ASSUME NEW t \in CtcpSegment, t.seqno = s.seqno, t.ackno = s.ackno
               PROVE  x(t) \o y(t) = x(s) \o y(s)
    OBVIOUS
  <2>1. x(t) = x(s) /\ y(t) = y(s)
    OBVIOUS
  <2> HIDE DEF x, y
  <2> QED
    BY <2>1
<1>5. \A t \in CtcpSegment : t.len = s.len /\ t.cksum = s.cksum =>
        \A i \in 1..4 : i # 3 => z(t)[i] = z(s)[i]
  BY <1>2
<1> HIDE DEF x, y, z
<1>6. ASSUME NEW t \in CtcpSegment
      PROVE  /\ Header(t) \in Seq(Nat) /\ Len(Header(t)) = 8
             /\ \A i \in 1..8 : Header(t)[i] = IF i <= 4 THEN (x(t) \o y(t))[i] ELSE z(t)[i - 4]
  <2> DEFINE u == x(t)
             v == y(t)
             w == z(t)
  <2>1. /\ u \in Seq(Nat) /\ Len(u) = 2 /\ v \in Seq(Nat) /\ Len(v) = 2
        /\ w \in Seq(Nat) /\ Len(w) = 4
    BY <1>1
  <2>2. Header(t) = u \o v \o w
    BY <1>3
  <2>0. x(t) \o y(t) = u \o v /\ z(t) = w
    OBVIOUS
  <2> HIDE DEF u, v, w
  <2>3. /\ u \o v \o w \in Seq(Nat) /\ Len(u \o v \o w) = 8
        /\ \A i \in 1..8 : (u \o v \o w)[i] = IF i <= 4 THEN (u \o v)[i] ELSE w[i - 4]
    BY <2>1, EightWords
  <2> DEFINE all == u \o v \o w
             four == u \o v
  <2>4. Header(t) = all /\ x(t) \o y(t) = four /\ z(t) = w
    BY <2>0, <2>2
  <2>5. /\ all \in Seq(Nat) /\ Len(all) = 8
        /\ \A i \in 1..8 : all[i] = IF i <= 4 THEN four[i] ELSE w[i - 4]
    BY <2>3
  <2> HIDE DEF all, four
  <2> QED
    BY <2>4, <2>5
<1>7. Header(s)[7] = z(s)[3]
  BY <1>6
<1>8. ASSUME NEW t \in CtcpSegment, t.seqno = s.seqno, t.ackno = s.ackno, t.len = s.len,
             t.cksum = s.cksum, NEW i \in 1..8, i # 7
      PROVE  Header(t)[i] = Header(s)[i]
  <2>1. x(t) \o y(t) = x(s) \o y(s)
    BY <1>4, <1>8
  <2>2. ~(i <= 4) => i - 4 \in 1..4 /\ i - 4 # 3
    BY <1>8
  <2>3. ~(i <= 4) => z(t)[i - 4] = z(s)[i - 4]
    BY <1>5, <1>8, <2>2
  <2> QED
    BY <1>6, <2>1, <2>3
<1> QED
  BY <1>2, <1>6, <1>7, <1>8

Words(s) == Header(s) \o Paired(s.data)

LEMMA WordsAre ==
  ASSUME NEW s \in CtcpSegment
  PROVE  /\ Words(s) \in Seq(Nat) /\ Len(Words(s)) = 8 + Len(Paired(s.data))
         /\ Len(Paired(s.data)) \in Nat
         /\ \A i \in 1..(8 + Len(Paired(s.data))) :
              Words(s)[i] = IF i <= 8 THEN Header(s)[i] ELSE Paired(s.data)[i - 8]
         /\ SegmentSum(s) = cksum(Words(s)) /\ SegmentSum(s) \in 0..(HalfWord - 1)
<1>1. Header(s) \in Seq(Nat) /\ Len(Header(s)) = 8
  BY HeaderIs
<1>2. Paired(s.data) \in Seq(Nat)
  BY PairedIs DEF CtcpSegment
<1>3. /\ Words(s) \in Seq(Nat) /\ Len(Words(s)) = 8 + Len(Paired(s.data))
      /\ \A i \in 1..(8 + Len(Paired(s.data))) :
           Words(s)[i] = IF i <= 8 THEN Header(s)[i] ELSE Paired(s.data)[i - 8]
  <2> DEFINE u == Header(s)
             v == Paired(s.data)
  <2>1. u \in Seq(Nat) /\ v \in Seq(Nat) /\ Len(u) = 8
    BY <1>1, <1>2
  <2>2. Words(s) = u \o v
    BY DEF Words
  <2> HIDE DEF u, v
  <2>3. /\ u \o v \in Seq(Nat) /\ Len(u \o v) = Len(u) + Len(v)
        /\ \A i \in 1..(Len(u) + Len(v)) : (u \o v)[i] = IF i <= Len(u) THEN u[i] ELSE v[i - Len(u)]
    BY <2>1, ConcatProperties
  <2> QED
    BY <2>1, <2>2, <2>3 DEF u, v
<1>4. Len(Paired(s.data)) \in Nat
  BY <1>2, LenProperties
<1>5. SegmentSum(s) = cksum(Words(s))
  BY DEF SegmentSum, Words
<1> QED
  BY <1>3, <1>4, <1>5, CksumIs

LEMMA TcpSumIs ==
  ASSUME NEW p, p.th_seq \in Nat, p.th_ack \in Nat, p.th_win \in Nat, p.data \in Seq(Nat)
  PROVE  cksum_tcp(p) \in 0..(HalfWord - 1)
<1> DEFINE x == Halves(p.th_seq)
           y == Halves(p.th_ack)
           z == << PseudoHeader, Len(p.data), TH_ACK, p.th_win >>
<1>1. x \in Seq(Nat) /\ Len(x) = 2 /\ y \in Seq(Nat) /\ Len(y) = 2
  BY HalvesAre
<1>2. z \in Seq(Nat) /\ Len(z) = 4
  <2>1. PseudoHeader \in Nat /\ TH_ACK \in Nat
    BY WireAssumption, Widths
  <2>2. Len(p.data) \in Nat
    BY LenProperties
  <2> QED
    BY <2>1, <2>2
<1>3. cksum_tcp(p) = cksum(x \o y \o z \o Paired(p.data))
  BY DEF cksum_tcp
<1> HIDE DEF x, y, z
<1>4. x \o y \o z \in Seq(Nat) /\ Paired(p.data) \in Seq(Nat)
  BY <1>1, <1>2, EightWords, PairedIs
<1>5. x \o y \o z \o Paired(p.data) \in Seq(Nat)
  BY <1>4, ConcatProperties
<1> QED
  BY <1>3, <1>5, CksumIs

-----------------------------------------------------------------------------
(* A flipped bit *)

LEMMA FlippedByte ==
  ASSUME NEW byte \in Nat, NEW mask \in Nat \ {0},
         NEW flipped, flipped = IF (byte \div mask) % 2 = 1 THEN byte - mask ELSE byte + mask
  PROVE  flipped \in Nat /\ (flipped = byte - mask \/ flipped = byte + mask)
<1>1. (byte \div mask) % 2 = 1 => byte >= mask
  <2> SUFFICES ASSUME ~(byte >= mask), (byte \div mask) % 2 = 1 PROVE FALSE
    OBVIOUS
  <2>1. byte \in 0..(mask - 1) /\ mask * 0 + byte = byte
    OBVIOUS
  <2>2. (mask * 0 + byte) \div mask = 0
    BY <2>1, QuotientIs
  <2> QED
    BY <2>1, <2>2
<1> QED
  BY <1>1

LEMMA Tail4Is ==
  ASSUME NEW s \in CtcpSegment
  PROVE  /\ Tail4(s) \in Seq(Nat) /\ Len(Tail4(s)) = 4 + Len(s.data) /\ Len(s.data) \in Nat
         /\ Tail4(s)[1] = s.window \div Byte /\ Tail4(s)[2] = s.window % Byte
         /\ Tail4(s)[3] = s.cksum % Byte /\ Tail4(s)[4] = s.cksum \div Byte
         /\ \A i \in 1..Len(s.data) : Tail4(s)[i + 4] = s.data[i]
<1> DEFINE u == << s.window \div Byte, s.window % Byte, s.cksum % Byte, s.cksum \div Byte >>
           v == s.data
           mem == u \o v
<1>1. Tail4(s) = mem
  BY DEF Tail4
<1>2. u \in Seq(Nat) /\ Len(u) = 4 /\ v \in Seq(Nat) /\ Len(v) \in Nat
  <2>1. Byte \in Nat \ {0} /\ s.window \in Nat /\ s.cksum \in Nat /\ s.data \in Seq(Nat)
    BY Widths DEF CtcpSegment
  <2>2. /\ s.window \div Byte \in Nat /\ s.window % Byte \in Nat
        /\ s.cksum % Byte \in Nat /\ s.cksum \div Byte \in Nat
    BY <2>1, NatDivision
  <2> QED
    BY <2>1, <2>2, LenProperties
<1>3. /\ u[1] = s.window \div Byte /\ u[2] = s.window % Byte
      /\ u[3] = s.cksum % Byte /\ u[4] = s.cksum \div Byte
  OBVIOUS
<1> HIDE DEF u
<1>4. /\ mem \in Seq(Nat) /\ Len(mem) = Len(u) + Len(v)
      /\ \A i \in 1..(Len(u) + Len(v)) : mem[i] = IF i <= Len(u) THEN u[i] ELSE v[i - Len(u)]
  BY <1>2, ConcatProperties
<1> HIDE DEF mem
<1>5. /\ Len(mem) = 4 + Len(v)
      /\ \A i \in 1..(4 + Len(v)) : mem[i] = IF i <= 4 THEN u[i] ELSE v[i - 4]
  BY <1>2, <1>4
<1>6. mem[1] = u[1] /\ mem[2] = u[2] /\ mem[3] = u[3] /\ mem[4] = u[4]
  <2>1. \A i \in 1..4 : i \in 1..(4 + Len(v)) /\ i <= 4
    BY <1>2
  <2> QED
    BY <1>5, <2>1
<1>7. ASSUME NEW i \in 1..Len(v) PROVE mem[i + 4] = v[i]
  <2>1. i + 4 \in 1..(4 + Len(v)) /\ ~(i + 4 <= 4) /\ (i + 4) - 4 = i
    BY <1>2
  <2> QED
    BY <1>5, <2>1
<1> QED
  BY <1>1, <1>2, <1>3, <1>4, <1>5, <1>6, <1>7

(* A change by a bit of one byte.                                           *)
Small(d) == d \in Int /\ d # 0 /\ 2 * d <= Byte /\ -2 * d <= Byte

Changed(mem, k, d) == [mem EXCEPT ![k] = mem[k] + d]

Rewritten(s, mem) ==
  [s EXCEPT !.window = mem[1] * Byte + mem[2], !.cksum = mem[4] * Byte + mem[3],
            !.data = SubSeq(mem, 5, Len(mem))]

LEMMA FlipIs ==
  ASSUME NEW s \in CtcpSegment, NEW t \in Corrupted(s)
  PROVE  \E k \in 1..(4 + Len(s.data)), d \in Int :
           /\ Small(d) /\ Tail4(s)[k] + d \in Nat
           /\ t = Rewritten(s, Changed(Tail4(s), k, d))
<1> DEFINE n == 4 + Len(s.data)
           mem == Tail4(s)
<1>1. mem \in Seq(Nat) /\ Len(mem) = n /\ n \in Nat
  BY Tail4Is
<1>2. PICK bit \in 0..(n * Bits - 2) : t = flipbit(s, bit)
  BY DEF Corrupted
<1> DEFINE q == bit \div Bits
           mask == Shifted(bit % Bits)
           flipped == IF (mem[q + 1] \div mask) % 2 = 1 THEN mem[q + 1] - mask
                      ELSE mem[q + 1] + mask
           d == flipped - mem[q + 1]
<1>3. Bits \in Nat \ {0} /\ n * Bits \in Int
  BY <1>1, WireAssumption
<1>4. bit \in Nat /\ bit < n * Bits
  BY <1>3
<1>5. q \in Nat /\ bit % Bits \in 0..(Bits - 1) /\ bit = Bits * q + (bit % Bits)
  BY <1>3, <1>4, NatDivision
<1>6. q < n
  <2> SUFFICES ASSUME ~(q < n) PROVE FALSE
    OBVIOUS
  <2>1. q - n \in Nat /\ Bits \in Nat
    BY <1>1, <1>3, <1>5
  <2>2. Bits * (q - n) \in Nat
    BY <2>1, Multiplies
  <2> HIDE DEF q, n
  <2>3. Bits * (q - n) = Bits * q - n * Bits
    BY <1>1, <1>3, <1>5
  <2> QED
    BY <1>3, <1>4, <1>5, <2>2, <2>3
<1>7. q + 1 \in 1..n /\ mem[q + 1] \in Nat
  <2>1. q + 1 \in 1..n
    BY <1>1, <1>5, <1>6, SMTT(30)
  <2> QED
    BY <1>1, <2>1, ElementOfSeq
<1>8. mask \in Nat \ {0} /\ 2 * mask <= Byte
  <2> DEFINE j == bit % Bits
  <2>1. Bits \in Nat /\ j \in 0..(Bits - 1)
    BY <1>3, <1>5
  <2>2. mask = Shifted(j)
    OBVIOUS
  <2> HIDE DEF j, mask
  <2>3. Shifted(j) \in Nat /\ Shifted(j) >= 1 /\ 2 * Shifted(j) <= Shifted(Bits)
    BY <2>1, ShiftedBounds
  <2> QED
    BY <2>2, <2>3 DEF Byte
<1>9. t = Rewritten(s, [mem EXCEPT ![q + 1] = flipped])
  BY <1>2 DEF flipbit, Rewritten
<1> HIDE DEF q, mask, mem, n
<1>10. flipped \in Nat /\ (flipped = mem[q + 1] - mask \/ flipped = mem[q + 1] + mask)
  BY <1>7, <1>8, FlippedByte
<1> HIDE DEF flipped
<1>11. Small(d) /\ mem[q + 1] + d = flipped /\ d \in Int
  <2> DEFINE b == mem[q + 1]
  <2>1. b \in Nat /\ (flipped = b - mask \/ flipped = b + mask) /\ d = flipped - b
    BY <1>7, <1>10
  <2>2. mask \in Nat /\ mask >= 1 /\ 2 * mask <= Byte /\ Byte \in Nat
    BY <1>8, Widths
  <2> HIDE DEF b, d
  <2>3. CASE flipped = b - mask
    <3>1. d = -mask
      BY <2>1, <2>2, <2>3
    <3>2. -2 * d = 2 * mask /\ 2 * d <= 0
      BY <2>2, <3>1
    <3> QED
      BY <2>1, <2>2, <2>3, <3>1, <3>2 DEF Small, b
  <2>4. CASE flipped = b + mask
    <3>1. d = mask
      BY <2>1, <2>2, <2>4
    <3>2. -2 * d <= 0
      BY <2>2, <3>1
    <3> QED
      BY <2>1, <2>2, <2>4, <3>1, <3>2 DEF Small, b
  <2> QED
    BY <2>1, <2>3, <2>4
<1>12. [mem EXCEPT ![q + 1] = flipped] = Changed(mem, q + 1, d)
  BY <1>11 DEF Changed
<1> HIDE DEF d
<1>13. Small(d) /\ mem[q + 1] + d \in Nat /\ t = Rewritten(s, Changed(mem, q + 1, d))
  BY <1>9, <1>10, <1>11, <1>12
<1>14. \E k \in 1..n, e \in Int :
         Small(e) /\ mem[k] + e \in Nat /\ t = Rewritten(s, Changed(mem, k, e))
  BY <1>7, <1>11, <1>13
<1> QED
  BY <1>14 DEF mem, n

(* Near enough for the folded sum to tell them apart.                       *)
Near(a, b) == a # b /\ b - a < HalfWord - 1 /\ a - b < HalfWord - 1

LEMMA SmallIsNear ==
  ASSUME NEW x \in Nat, NEW d, Small(d)
  PROVE  Near(x, x + d) /\ Near(x, x + d * Byte)
<1> DEFINE B == Byte
           H == HalfWord
           e == d * B
<1>1. B \in Nat /\ B >= 2 /\ H = B * B /\ H \in Nat /\ H >= 2 * B
  BY Widths DEF HalfWord
<1>2. d \in Int /\ d # 0 /\ 2 * d <= B /\ -2 * d <= B
  BY DEF Small
<1>3. e \in Int /\ e # 0 /\ 2 * e <= H /\ -2 * e <= H
  <2>1. B * (B - 2 * d) \in Nat /\ B * (B + 2 * d) \in Nat
    <3>1. B - 2 * d \in Nat /\ B + 2 * d \in Nat
      BY <1>1, <1>2
    <3> QED
      BY <1>1, <3>1, Multiplies
  <2>2. B * (B - 2 * d) = B * B - 2 * e /\ B * (B + 2 * d) = B * B + 2 * e
    BY <1>1, <1>2
  <2>3. e \in Int
    BY <1>1, <1>2
  <2>4. e # 0
    BY <1>1, <1>2
  <2> HIDE DEF e
  <2> QED
    BY <1>1, <2>1, <2>2, <2>3, <2>4
<1> HIDE DEF B, H, e
<1>4. x + d # x /\ (x + d) - x < H - 1 /\ x - (x + d) < H - 1
  BY <1>1, <1>2
<1>5. x + e # x /\ (x + e) - x < H - 1 /\ x - (x + e) < H - 1
  BY <1>1, <1>3
<1> QED
  BY <1>4, <1>5 DEF Near, B, H, e

(* A flipped bit leaves the numbers and the lengths alone, and changes one  *)
(* of the checksum, the window and a byte of the data, by little.           *)
LEMMA FlipCases ==
  ASSUME NEW s \in CtcpSegment, NEW t \in Corrupted(s)
  PROVE  /\ t \in CtcpSegment /\ t.seqno = s.seqno /\ t.ackno = s.ackno /\ t.len = s.len
         /\ Len(t.data) = Len(s.data)
         /\ \/ Near(s.cksum, t.cksum) /\ t.window = s.window /\ t.data = s.data
            \/ t.cksum = s.cksum /\ Near(s.window, t.window) /\ t.data = s.data
            \/ /\ t.cksum = s.cksum /\ t.window = s.window
               /\ \E i \in 1..Len(s.data), d \in Int :
                    /\ Small(d) /\ t.data[i] = s.data[i] + d
                    /\ \A j \in 1..Len(s.data) : j # i => t.data[j] = s.data[j]
<1> DEFINE len == Len(s.data)
           mem == Tail4(s)
<1>1. PICK k \in 1..(4 + len), d \in Int :
        Small(d) /\ mem[k] + d \in Nat /\ t = Rewritten(s, Changed(mem, k, d))
  BY FlipIs
<1> DEFINE new == Changed(mem, k, d)
<1>2. /\ mem \in Seq(Nat) /\ Len(mem) = 4 + len /\ len \in Nat
      /\ mem[1] = s.window \div Byte /\ mem[2] = s.window % Byte
      /\ mem[3] = s.cksum % Byte /\ mem[4] = s.cksum \div Byte
      /\ \A i \in 1..len : mem[i + 4] = s.data[i]
  BY Tail4Is
<1>3. s.window \in Nat /\ s.cksum \in Nat /\ s.data \in Seq(Nat) /\ Byte \in Nat \ {0}
  BY Widths DEF CtcpSegment
<1> HIDE DEF mem, len
<1>4. /\ new \in Seq(Nat) /\ Len(new) = 4 + len
      /\ \A j \in 1..(4 + len) : new[j] = IF j = k THEN mem[k] + d ELSE mem[j]
  BY <1>1, <1>2, ExceptSeq DEF Changed
<1> HIDE DEF new
<1>5. /\ s.window = mem[1] * Byte + mem[2] /\ s.cksum = mem[4] * Byte + mem[3]
      /\ mem[1] \in Nat /\ mem[2] \in Nat /\ mem[3] \in Nat /\ mem[4] \in Nat
  <2>1. /\ s.window = Byte * (s.window \div Byte) + (s.window % Byte)
        /\ s.cksum = Byte * (s.cksum \div Byte) + (s.cksum % Byte)
        /\ s.window \div Byte \in Nat /\ s.window % Byte \in Nat
        /\ s.cksum \div Byte \in Nat /\ s.cksum % Byte \in Nat
    BY <1>3, NatDivision
  <2>2. /\ Byte * (s.window \div Byte) = (s.window \div Byte) * Byte
        /\ Byte * (s.cksum \div Byte) = (s.cksum \div Byte) * Byte
    <3>1. \A a, b \in Nat : a * b = b * a
      OBVIOUS
    <3> QED
      BY <1>3, <2>1, <3>1
  <2> QED
    BY <1>2, <2>1, <2>2
<1> DEFINE w == new[1] * Byte + new[2]
           c == new[4] * Byte + new[3]
           data == SubSeq(new, 5, Len(new))
<1>6. /\ data \in Seq(Nat) /\ Len(data) = len
      /\ \A i \in 1..len : data[i] = new[i + 4]
  <2>1. Len(new) \in Int /\ \A i \in 5..Len(new) : new[i] \in Nat
    <3>1. Len(new) \in Int /\ \A i \in 5..Len(new) : i \in 1..Len(new)
      BY <1>2, <1>4
    <3> QED
      BY <1>4, <3>1, ElementOfSeq
  <2>2. /\ data \in Seq(Nat)
        /\ Len(data) = IF 5 <= Len(new) THEN Len(new) - 5 + 1 ELSE 0
        /\ \A i \in 1..(Len(new) - 5 + 1) : data[i] = new[5 + i - 1]
    BY <2>1, SubSeqProperties
  <2>3. Len(new) - 5 + 1 = len /\ \A i \in 1..len : 5 + i - 1 = i + 4
    BY <1>2, <1>4
  <2> HIDE DEF data
  <2> QED
    BY <1>2, <1>4, <2>2, <2>3
<1>7. /\ new[1] \in Nat /\ new[2] \in Nat /\ new[3] \in Nat /\ new[4] \in Nat
      /\ \A j \in 1..4 : new[j] = IF j = k THEN mem[k] + d ELSE mem[j]
  <2>1. \A j \in 1..4 : j \in 1..(4 + len)
    BY <1>2
  <2>2. \A j \in 1..4 : new[j] \in Nat
    BY <1>4, <2>1, ElementOfSeq
  <2> QED
    BY <1>4, <2>1, <2>2, SMTT(30)
<1>8. w \in Nat /\ c \in Nat
  <2>1. new[1] * Byte \in Nat /\ new[4] * Byte \in Nat
    BY <1>3, <1>7, Multiplies
  <2> QED
    BY <1>7, <2>1
<1>9. t = [s EXCEPT !.window = w, !.cksum = c, !.data = data]
  BY <1>1 DEF Rewritten, new
<1> HIDE DEF w, c, data
<1>10. /\ t \in CtcpSegment /\ t.seqno = s.seqno /\ t.ackno = s.ackno /\ t.len = s.len
       /\ t.window = w /\ t.cksum = c /\ t.data = data
  BY <1>6, <1>8, <1>9 DEF CtcpSegment
<1>11. d \in Int /\ d * Byte \in Int /\ Byte \in Int
  BY <1>3
<1>12. CASE k \in 1..4
  <2>1. data = s.data
    <3>1. ASSUME NEW i \in 1..len PROVE data[i] = s.data[i]
      <4>1. i + 4 \in 1..(4 + len) /\ i + 4 # k
        BY <1>2, <1>12
      <4> QED
        BY <1>2, <1>4, <1>6, <4>1
    <3> QED
      BY <1>3, <1>6, <3>1, SeqEqual DEF len
  <2>2. CASE k = 1
    <3>1. c = s.cksum
      BY <1>5, <1>7, <2>2 DEF c
    <3>2. new[1] = mem[1] + d /\ new[2] = mem[2]
      BY <1>7, <2>2
    <3>3. w = s.window + d * Byte
      BY <1>5, <1>11, <3>2 DEF w
    <3> QED
      BY <1>1, <1>3, <1>6, <1>10, <2>1, <3>1, <3>3, SmallIsNear DEF len
  <2>3. CASE k = 2
    <3>1. c = s.cksum
      BY <1>5, <1>7, <2>3 DEF c
    <3>2. new[1] = mem[1] /\ new[2] = mem[2] + d
      BY <1>7, <2>3
    <3>3. w = s.window + d
      BY <1>5, <1>11, <3>2 DEF w
    <3> QED
      BY <1>1, <1>3, <1>6, <1>10, <2>1, <3>1, <3>3, SmallIsNear DEF len
  <2>4. CASE k = 3
    <3>1. w = s.window
      BY <1>5, <1>7, <2>4 DEF w
    <3>2. new[4] = mem[4] /\ new[3] = mem[3] + d
      BY <1>7, <2>4
    <3>3. c = s.cksum + d
      BY <1>5, <1>11, <3>2 DEF c
    <3> QED
      BY <1>1, <1>3, <1>6, <1>10, <2>1, <3>1, <3>3, SmallIsNear DEF len
  <2>5. CASE k = 4
    <3>1. w = s.window
      BY <1>5, <1>7, <2>5 DEF w
    <3>2. new[4] = mem[4] + d /\ new[3] = mem[3]
      BY <1>7, <2>5
    <3>3. c = s.cksum + d * Byte
      BY <1>5, <1>11, <3>2 DEF c
    <3> QED
      BY <1>1, <1>3, <1>6, <1>10, <2>1, <3>1, <3>3, SmallIsNear, ZenonT(60) DEF len
  <2> QED
    BY <1>12, <2>2, <2>3, <2>4, <2>5
<1>13. CASE k \notin 1..4
  <2>1. k - 4 \in 1..len /\ (k - 4) + 4 = k
    BY <1>1, <1>2, <1>13
  <2>2. w = s.window
    BY <1>5, <1>7, <1>13 DEF w
  <2>3. c = s.cksum
    BY <1>5, <1>7, <1>13 DEF c
  <2>4. data[k - 4] = s.data[k - 4] + d
    BY <1>2, <1>4, <1>6, <2>1
  <2>5. ASSUME NEW j \in 1..len, j # k - 4 PROVE data[j] = s.data[j]
    <3>1. j + 4 \in 1..(4 + len) /\ j + 4 # k
      BY <1>2, <2>1, <2>5
    <3> QED
      BY <1>2, <1>4, <1>6, <3>1
  <2>6. \E i \in 1..len, e \in Int :
          /\ Small(e) /\ data[i] = s.data[i] + e
          /\ \A j \in 1..len : j # i => data[j] = s.data[j]
    BY <1>1, <2>1, <2>4, <2>5
  <2> QED
    BY <1>6, <1>10, <2>2, <2>3, <2>6 DEF len
<1> QED
  BY <1>12, <1>13

-----------------------------------------------------------------------------
(* What a flip does to the checksum *)

LEMMA PairedChanges ==
  ASSUME NEW bytes \in Seq(Nat), NEW other \in Seq(Nat), Len(other) = Len(bytes),
         NEW i \in 1..Len(bytes), NEW d \in Int, other[i] = bytes[i] + d,
         \A j \in 1..Len(bytes) : j # i => other[j] = bytes[j]
  PROVE  /\ Len(Paired(other)) = Len(Paired(bytes))
         /\ \E p \in 1..Len(Paired(bytes)) :
              /\ \/ Paired(other)[p] = Paired(bytes)[p] + d
                 \/ Paired(other)[p] = Paired(bytes)[p] + d * Byte
              /\ \A j \in 1..Len(Paired(bytes)) : j # p => Paired(other)[j] = Paired(bytes)[j]
<1> DEFINE n == Len(bytes)
           half == (n + 1) \div 2
           p == (i + 1) \div 2
           low(b, j) == IF 2 * j <= n THEN b[2 * j] ELSE 0
<1>1. /\ n \in Nat /\ half \in Nat
      /\ Len(Paired(bytes)) = half /\ Len(Paired(other)) = half
      /\ \A j \in 1..half : /\ Paired(bytes)[j] = bytes[2 * j - 1] * Byte + low(bytes, j)
                            /\ Paired(other)[j] = other[2 * j - 1] * Byte + low(other, j)
                            /\ 2 * j - 1 \in 1..n
  <2>1. n \in Nat
    BY LenProperties
  <2> QED
    BY <2>1, PairedIs
<1>2. p \in 1..half /\ (i = 2 * p - 1 \/ i = 2 * p)
  BY <1>1
<1>3. \A j \in 1..n : bytes[j] \in Nat /\ other[j] \in Nat
  BY ElementOfSeq
<1>4. \A j \in 1..n : other[j] = IF i = j THEN bytes[j] + d ELSE bytes[j]
  OBVIOUS
<1>5. \A j \in 1..half : /\ 2 * j \in Int /\ 2 * j > 0
                         /\ (2 * j <= n => 2 * j \in 1..n)
  BY <1>1
<1>6. i \in Int /\ i <= n
  BY <1>1
<1> HIDE DEF p, half, n
<1>7. ASSUME NEW j \in 1..half
      PROVE  /\ bytes[2 * j - 1] \in Nat /\ other[2 * j - 1] \in Nat
             /\ low(bytes, j) \in Nat /\ low(other, j) \in Nat
             /\ i = 2 * j - 1 => other[2 * j - 1] = bytes[2 * j - 1] + d
             /\ i # 2 * j - 1 => other[2 * j - 1] = bytes[2 * j - 1]
             /\ i = 2 * j => low(other, j) = low(bytes, j) + d
             /\ i # 2 * j => low(other, j) = low(bytes, j)
  <2>1. /\ bytes[2 * j - 1] \in Nat /\ other[2 * j - 1] \in Nat
        /\ other[2 * j - 1] = (IF i = 2 * j - 1 THEN bytes[2 * j - 1] + d ELSE bytes[2 * j - 1])
    <3>1. 2 * j - 1 \in 1..n
      BY <1>1
    <3> QED
      BY <1>3, <1>4, <3>1
  <2>2. CASE 2 * j <= n
    <3>1. 2 * j \in 1..n
      BY <1>5, <2>2
    <3>2. low(bytes, j) = bytes[2 * j] /\ low(other, j) = other[2 * j]
      BY <2>2
    <3> QED
      BY <1>3, <1>4, <2>1, <3>1, <3>2
  <2>3. CASE ~(2 * j <= n)
    <3>1. low(bytes, j) = 0 /\ low(other, j) = 0 /\ i # 2 * j
      BY <1>5, <1>6, <2>3
    <3> HIDE DEF low
    <3>2. low(bytes, j) \in Nat /\ low(other, j) \in Nat /\ low(other, j) = low(bytes, j)
      BY <3>1
    <3> QED
      BY <2>1, <3>1, <3>2
  <2> QED
    BY <2>2, <2>3
<1> HIDE DEF low
<1>8. ASSUME NEW j \in 1..half, j # p PROVE Paired(other)[j] = Paired(bytes)[j]
  <2>1. j \in Int /\ p \in Int
    BY <1>1, <1>2
  <2>2. 2 * j - 1 # i /\ 2 * j # i
    BY <1>2, <1>8, <2>1, SMTT(30)
  <2>3. other[2 * j - 1] = bytes[2 * j - 1] /\ low(other, j) = low(bytes, j)
    BY <1>7, <2>2
  <2> QED
    BY <1>1, <2>3
<1> DEFINE left(x, j) == x[2 * j - 1]
<1>9. ASSUME NEW j \in 1..half, j = p
      PROVE  \/ Paired(other)[j] = Paired(bytes)[j] + d
             \/ Paired(other)[j] = Paired(bytes)[j] + d * Byte
  <2>1. /\ left(bytes, j) \in Nat /\ left(other, j) \in Nat
        /\ low(bytes, j) \in Nat /\ low(other, j) \in Nat
        /\ i = 2 * j - 1 => left(other, j) = left(bytes, j) + d
        /\ i # 2 * j - 1 => left(other, j) = left(bytes, j)
        /\ i = 2 * j => low(other, j) = low(bytes, j) + d
        /\ i # 2 * j => low(other, j) = low(bytes, j)
    BY <1>7
  <2>2. /\ Paired(bytes)[j] = left(bytes, j) * Byte + low(bytes, j)
        /\ Paired(other)[j] = left(other, j) * Byte + low(other, j)
    BY <1>1
  <2> HIDE DEF left
  <2> DEFINE a == left(bytes, j)
             b == low(bytes, j)
             u == left(other, j)
             v == low(other, j)
  <2>3. /\ a \in Int /\ b \in Int /\ u \in Int /\ v \in Int
        /\ i = 2 * j - 1 => u = a + d
        /\ i # 2 * j - 1 => u = a
        /\ i = 2 * j => v = b + d
        /\ i # 2 * j => v = b
    BY <2>1
  <2>4. Paired(bytes)[j] = a * Byte + b /\ Paired(other)[j] = u * Byte + v
    BY <2>2
  <2>5. j \in Int /\ n \in Int /\ (i = 2 * j - 1 \/ i = 2 * j)
    BY <1>1, <1>2, <1>9
  <2> HIDE DEF a, b, u, v
  <2>6. u * Byte + v = (a * Byte + b) + d \/ u * Byte + v = (a * Byte + b) + d * Byte
    <3>1. Byte \in Int /\ a * Byte \in Int
      BY <2>3, Widths
    <3>2. CASE i = 2 * j
      <4>1. u = a /\ v = b + d
        BY <2>3, <2>5, <3>2
      <4> QED
        BY <2>3, <3>1, <4>1
    <3>3. CASE i = 2 * j - 1
      <4>1. u = a + d /\ v = b
        BY <2>3, <2>5, <3>3
      <4>2. \A x, y, z \in Int : (x + y) * z = x * z + y * z /\ x * z \in Int
        OBVIOUS
      <4>3. (a + d) * Byte = a * Byte + d * Byte /\ d * Byte \in Int
        BY <2>3, <3>1, <4>2
      <4> QED
        BY <2>3, <3>1, <4>1, <4>3
    <3> QED
      BY <2>5, <3>2, <3>3
  <2> QED
    BY <2>4, <2>6
<1> QED
  BY <1>1, <1>2, <1>8, <1>9

Blank(s) == [s EXCEPT !.cksum = 0]

LEMMA BlankIs ==
  ASSUME NEW s \in CtcpSegment
  PROVE  /\ Blank(s) \in CtcpSegment /\ Blank(s).cksum = 0
         /\ Blank(s).seqno = s.seqno /\ Blank(s).ackno = s.ackno /\ Blank(s).len = s.len
         /\ Blank(s).window = s.window /\ Blank(s).data = s.data
  BY DEF Blank, CtcpSegment

(* Two numbers that are near are not equal in a half word.                  *)
LEMMA NearModulo ==
  ASSUME NEW a \in 0..(HalfWord - 1), NEW b \in Nat, Near(a, b)
  PROVE  b % HalfWord # a
<1> SUFFICES ASSUME b % HalfWord = a PROVE FALSE
  OBVIOUS
<1> DEFINE H == HalfWord
           q == b \div H
<1>1. H \in Nat \ {0}
  BY Widths
<1>2. q \in Nat /\ b = H * q + a
  BY <1>1, NatDivision
<1> HIDE DEF q
<1>3. q # 0
  BY <1>1, <1>2 DEF Near
<1>4. H * (q - 1) \in Nat
  <2>1. q - 1 \in Nat
    BY <1>2, <1>3
  <2> QED
    BY <1>1, <2>1, Multiplies
<1>5. H * (q - 1) = H * q - H
  BY <1>1, <1>2
<1> QED
  BY <1>1, <1>2, <1>4, <1>5 DEF Near

(* Segments with sums that are near have other checksums.                   *)
LEMMA NearTotals ==
  ASSUME NEW s \in CtcpSegment, NEW t \in CtcpSegment,
         Len(Words(t)) = Len(Words(s)), NEW m \in 1..Len(Words(s)),
         \A i \in 1..Len(Words(s)) : i # m => Words(t)[i] = Words(s)[i],
         Near(Words(s)[m], Words(t)[m])
  PROVE  SegmentSum(t) # SegmentSum(s)
<1>1. Words(s) \in Seq(Nat) /\ Words(t) \in Seq(Nat)
  BY WordsAre
<1>2. Total(Words(t)) - Total(Words(s)) = Words(t)[m] - Words(s)[m]
  BY <1>1, TotalChanges
<1>3. Total(Words(t)) \in Nat /\ Total(Words(s)) \in Nat
  BY <1>1, CksumIs
<1>4. Words(t)[m] \in Nat /\ Words(s)[m] \in Nat /\ HalfWord \in Nat
  BY <1>1, ElementOfSeq, Widths
<1>5. /\ Total(Words(s)) # Total(Words(t))
      /\ Total(Words(t)) - Total(Words(s)) < HalfWord - 1
      /\ Total(Words(s)) - Total(Words(t)) < HalfWord - 1
  BY <1>2, <1>3, <1>4 DEF Near
<1>6. cksum(Words(s)) # cksum(Words(t))
  BY <1>1, <1>5, CksumDiffers
<1> QED
  BY <1>6, WordsAre

(* No single flipped bit leaves the checksum valid: one in the checksum     *)
(* itself moves it away from the unchanged sum by less than a half word,    *)
(* and one elsewhere changes one half word of the sum, by so little that    *)
(* the end-around carry does not hide it.                                   *)
LEMMA RefusedSum ==
  ASSUME NEW s \in CtcpSegment, s.cksum = SegmentSum(Blank(s)), NEW t \in Corrupted(s)
  PROVE  t.cksum % HalfWord # SegmentSum(Blank(t))
<1> DEFINE x == Blank(s)
           y == Blank(t)
<1>1. /\ t \in CtcpSegment /\ t.seqno = s.seqno /\ t.ackno = s.ackno /\ t.len = s.len
      /\ Len(t.data) = Len(s.data)
      /\ \/ Near(s.cksum, t.cksum) /\ t.window = s.window /\ t.data = s.data
         \/ t.cksum = s.cksum /\ Near(s.window, t.window) /\ t.data = s.data
         \/ /\ t.cksum = s.cksum /\ t.window = s.window
            /\ \E i \in 1..Len(s.data), d \in Int :
                 /\ Small(d) /\ t.data[i] = s.data[i] + d
                 /\ \A j \in 1..Len(s.data) : j # i => t.data[j] = s.data[j]
  BY FlipCases
<1>2. /\ x \in CtcpSegment /\ x.cksum = 0 /\ x.window = s.window /\ x.data = s.data
      /\ x.seqno = s.seqno /\ x.ackno = s.ackno /\ x.len = s.len
  BY BlankIs
<1>3. /\ y \in CtcpSegment /\ y.cksum = 0 /\ y.window = t.window /\ y.data = t.data
      /\ y.seqno = t.seqno /\ y.ackno = t.ackno /\ y.len = t.len
  BY <1>1, BlankIs
<1> HIDE DEF x, y
<1>4. /\ s.cksum = SegmentSum(x)
      /\ SegmentSum(x) \in 0..(HalfWord - 1) /\ SegmentSum(y) \in 0..(HalfWord - 1)
  BY <1>2, <1>3, WordsAre DEF x
<1>5. /\ Words(x) \in Seq(Nat) /\ Len(Words(x)) = 8 + Len(Paired(s.data))
      /\ \A i \in 1..(8 + Len(Paired(s.data))) :
           Words(x)[i] = IF i <= 8 THEN Header(x)[i] ELSE Paired(s.data)[i - 8]
  BY <1>2, WordsAre, SMTT(30)
<1>6. /\ Words(y) \in Seq(Nat) /\ Len(Words(y)) = 8 + Len(Paired(t.data))
      /\ \A i \in 1..(8 + Len(Paired(t.data))) :
           Words(y)[i] = IF i <= 8 THEN Header(y)[i] ELSE Paired(t.data)[i - 8]
  BY <1>3, WordsAre, SMTT(30)
<1>7. /\ Header(x)[7] = s.window /\ Header(y)[7] = t.window
      /\ \A i \in 1..8 : i # 7 => Header(y)[i] = Header(x)[i]
  BY <1>1, <1>2, <1>3, HeaderIs, SMTT(30)
<1>8. Len(Paired(s.data)) \in Nat /\ s.window \in Nat /\ t.window \in Nat
      /\ s.data \in Seq(Nat) /\ t.data \in Seq(Nat)
  BY <1>1, WordsAre DEF CtcpSegment
<1>9. ASSUME t.cksum = s.cksum PROVE t.cksum % HalfWord = SegmentSum(x)
  <2>1. HalfWord \in Nat \ {0}
    BY Widths
  <2> DEFINE k == SegmentSum(x)
  <2>2. k \in 0..(HalfWord - 1) /\ t.cksum = k
    BY <1>4, <1>9
  <2> HIDE DEF k
  <2>3. k % HalfWord = k
    <3>1. HalfWord * 0 + k = k
      BY <2>1, <2>2
    <3>2. (HalfWord * 0 + k) % HalfWord = k
      BY <2>1, <2>2, QuotientIs
    <3> QED
      BY <3>1, <3>2
  <2> QED
    BY <2>2, <2>3 DEF k
<1>10. CASE Near(s.cksum, t.cksum) /\ t.window = s.window /\ t.data = s.data
  <2>1. x = y
    <3>1. s \in CtcpSegment /\ t \in CtcpSegment
      BY <1>1
    <3> QED
      BY <1>1, <1>10, <3>1 DEF x, y, Blank, CtcpSegment
  <2>2. t.cksum \in Nat /\ s.cksum \in 0..(HalfWord - 1)
    BY <1>1, <1>4 DEF CtcpSegment
  <2>3. t.cksum % HalfWord # s.cksum
    BY <1>10, <2>2, NearModulo
  <2> QED
    BY <1>4, <2>1, <2>3 DEF x, y
<1>11. CASE t.cksum = s.cksum /\ Near(s.window, t.window) /\ t.data = s.data
  <2> DEFINE n == 8 + Len(Paired(s.data))
  <2>1. n \in Nat /\ Len(Words(x)) = n /\ Len(Words(y)) = n /\ 7 \in 1..n
    BY <1>5, <1>6, <1>8, <1>11
  <2>2. ASSUME NEW i \in 1..n, i # 7 PROVE Words(y)[i] = Words(x)[i]
    <3>1. i <= 8 => i \in 1..8
      BY <2>1
    <3>2. i <= 8 => Header(y)[i] = Header(x)[i]
      BY <1>7, <2>2, <3>1
    <3> QED
      BY <1>5, <1>6, <1>11, <3>2
  <2>3. Words(x)[7] = s.window /\ Words(y)[7] = t.window
    <3>1. Words(x)[7] = Header(x)[7]
      <4>1. 7 \in 1..(8 + Len(Paired(s.data))) /\ 7 <= 8
        BY <1>8
      <4> QED
        BY <1>5, <4>1
    <3>2. Words(y)[7] = Header(y)[7]
      <4>1. 7 \in 1..(8 + Len(Paired(t.data))) /\ 7 <= 8
        BY <1>8, <1>11
      <4> QED
        BY <1>6, <4>1
    <3> QED
      BY <1>7, <3>1, <3>2
  <2>4. Near(Words(x)[7], Words(y)[7])
    BY <1>11, <2>3
  <2> HIDE DEF n
  <2>5. SegmentSum(y) # SegmentSum(x)
    BY <1>2, <1>3, <2>1, <2>2, <2>4, NearTotals
  <2> QED
    BY <1>9, <1>11, <2>5 DEF y
<1>12. ASSUME t.cksum = s.cksum, t.window = s.window, NEW e \in 1..Len(s.data), NEW d \in Int,
              Small(d), t.data[e] = s.data[e] + d,
              \A j \in 1..Len(s.data) : j # e => t.data[j] = s.data[j]
       PROVE  t.cksum % HalfWord # SegmentSum(y)
  <2>1. /\ Len(Paired(t.data)) = Len(Paired(s.data))
        /\ \E p \in 1..Len(Paired(s.data)) :
             /\ \/ Paired(t.data)[p] = Paired(s.data)[p] + d
                \/ Paired(t.data)[p] = Paired(s.data)[p] + d * Byte
             /\ \A j \in 1..Len(Paired(s.data)) : j # p => Paired(t.data)[j] = Paired(s.data)[j]
    BY <1>1, <1>8, <1>12, PairedChanges
  <2>2. PICK p \in 1..Len(Paired(s.data)) :
             /\ \/ Paired(t.data)[p] = Paired(s.data)[p] + d
                \/ Paired(t.data)[p] = Paired(s.data)[p] + d * Byte
             /\ \A j \in 1..Len(Paired(s.data)) : j # p => Paired(t.data)[j] = Paired(s.data)[j]
    BY <2>1
  <2> DEFINE len == Len(Paired(s.data))
             n == 8 + len
             m == 8 + p
  <2>3. /\ len \in Nat /\ n \in Nat /\ Len(Words(x)) = n /\ Len(Words(y)) = n
        /\ m \in 1..n /\ m - 8 = p /\ ~(m <= 8) /\ p \in 1..len
    BY <1>5, <1>6, <1>8, <2>1
  <2>4. \A j \in 1..len : j # p => Paired(t.data)[j] = Paired(s.data)[j]
    BY <2>2
  <2>5. /\ \A i \in 1..n : Words(x)[i] = IF i <= 8 THEN Header(x)[i] ELSE Paired(s.data)[i - 8]
        /\ \A i \in 1..n : Words(y)[i] = IF i <= 8 THEN Header(y)[i] ELSE Paired(t.data)[i - 8]
    BY <1>5, <1>6, <2>1
  <2> HIDE DEF len
  <2>6. ASSUME NEW i \in 1..n, i # m PROVE Words(y)[i] = Words(x)[i]
    <3>1. CASE i <= 8
      <4>1. i \in 1..8
        BY <2>3, <3>1
      <4>2. Header(y)[i] = Header(x)[i]
        BY <1>7, <1>12, <4>1
      <4> QED
        BY <2>5, <3>1, <4>2
    <3>2. CASE ~(i <= 8)
      <4>1. i - 8 \in 1..len /\ i - 8 # p
        BY <2>3, <2>6, <3>2
      <4>2. Paired(t.data)[i - 8] = Paired(s.data)[i - 8]
        BY <2>4, <4>1
      <4> QED
        BY <2>5, <3>2, <4>2
    <3> QED
      BY <3>1, <3>2
  <2>7. Words(x)[m] = Paired(s.data)[p] /\ Words(y)[m] = Paired(t.data)[p]
    BY <2>3, <2>5
  <2>8. Near(Words(x)[m], Words(y)[m])
    <3>1. Paired(s.data)[p] \in Nat
      <4>1. Paired(s.data) \in Seq(Nat)
        BY <1>8, PairedIs
      <4> QED
        BY <4>1, ElementOfSeq
    <3>2. /\ Near(Paired(s.data)[p], Paired(s.data)[p] + d)
          /\ Near(Paired(s.data)[p], Paired(s.data)[p] + d * Byte)
      BY <1>12, <3>1, SmallIsNear
    <3> QED
      BY <2>2, <2>7, <3>2
  <2> HIDE DEF n, m
  <2>9. SegmentSum(y) # SegmentSum(x)
    BY <1>2, <1>3, <2>3, <2>6, <2>8, NearTotals
  <2> QED
    BY <1>9, <1>12, <2>9
<1> QED
  BY <1>1, <1>10, <1>11, <1>12 DEF y

-----------------------------------------------------------------------------
(* Between the hosts *)

(* What is added modulo w and subtracted again leaves the number.           *)
LEMMA WrapsBack ==
  ASSUME NEW w \in Nat \ {0}, NEW a \in 0..(w - 1), NEW c \in Int
  PROVE  ((a + c) % w) \in 0..(w - 1) /\ (((a + c) % w) - c) % w = a
<1> DEFINE x == a + c
           r == x % w
           q == x \div w
<1>1. x \in Int
  OBVIOUS
<1>2. r \in 0..(w - 1) /\ q \in Int /\ x = w * q + r
  BY <1>1
<1> HIDE DEF r, q
<1>3. w * (-q) + a = r - c
  <2>1. w * (-q) = -(w * q) /\ w * q \in Int
    BY <1>2
  <2> QED
    BY <1>2, <2>1
<1>4. -q \in Int
  BY <1>2
<1>5. (w * (-q) + a) % w = a
  BY <1>4, QuotientIs
<1> QED
  BY <1>2, <1>3, <1>5 DEF r

(* The difference of the carried sum and its other part is what was left    *)
(* out of it, modulo w.                                                     *)
LEMMA CarriesBack ==
  ASSUME NEW w \in Nat \ {0}, NEW sum \in Int, NEW k \in Int
  PROVE  ((sum - k) % w) \in 0..(w - 1) /\ (sum - ((sum - k) % w)) % w = k % w
<1> DEFINE x == sum - k
           m == x % w
           q == x \div w
           r == k % w
           p == k \div w
<1>1. x \in Int
  OBVIOUS
<1>2. m \in 0..(w - 1) /\ q \in Int /\ x = w * q + m
  BY <1>1
<1>3. r \in 0..(w - 1) /\ p \in Int /\ k = w * p + r
  OBVIOUS
<1> HIDE DEF m, q, r, p
<1>4. sum - m = w * (q + p) + r /\ q + p \in Int
  <2>1. w * (q + p) = w * q + w * p /\ w * q \in Int /\ w * p \in Int
    BY <1>2, <1>3
  <2> QED
    BY <1>2, <1>3, <2>1
<1>5. (w * (q + p) + r) % w = r
  BY <1>3, <1>4, QuotientIs
<1> QED
  BY <1>2, <1>4, <1>5 DEF m, r

(* The two ends of a connection.                                            *)
Ends(c, e) ==
  /\ c.init_seqno = e.their_init_seqno /\ c.their_init_seqno = e.init_seqno
  /\ c.init_seqno \in Nat /\ c.their_init_seqno \in Nat

(* What ctcp_receive sees of a segment is the segment, its checksum reduced *)
(* to a half word.                                                          *)
LEMMA Arrives ==
  ASSUME NEW c, NEW e, Ends(c, e), NEW t \in CtcpSegment, t.len = HeaderSize + Len(t.data)
  PROVE  LET p == convert_to_datagram(c, t)
             a == convert_to_ctcp(e, p)
         IN  /\ p.th_seq = (t.seqno + c.init_seqno) % Word
             /\ p.th_ack = (t.ackno + c.their_init_seqno) % Word
             /\ a \in CtcpSegment /\ a.cksum = t.cksum % HalfWord /\ Blank(a) = Blank(t)
             /\ a.seqno = t.seqno /\ a.ackno = t.ackno /\ a.data = t.data
<1> DEFINE p == convert_to_datagram(c, t)
           a == convert_to_ctcp(e, p)
           whole == Absolute(c, t)
           tcp == cksum_tcp(whole)
           own == SegmentSum(Blank(t))
<1>1. /\ Word \in Nat \ {0} /\ HalfWord \in Nat \ {0} /\ HeaderSize \in Nat
      /\ c.init_seqno \in Int /\ c.their_init_seqno \in Int
      /\ c.init_seqno = e.their_init_seqno /\ c.their_init_seqno = e.init_seqno
  BY Widths, WireAssumption DEF Ends
<1>2. /\ t.seqno \in 0..(Word - 1) /\ t.ackno \in 0..(Word - 1) /\ t.len \in Nat
      /\ t.window \in Nat /\ t.cksum \in Nat /\ t.data \in Seq(Nat)
  BY DEF CtcpSegment
<1>3. /\ whole.th_seq = (t.seqno + c.init_seqno) % Word
      /\ whole.th_ack = (t.ackno + c.their_init_seqno) % Word
      /\ whole.th_win = t.window /\ whole.data = t.data
  BY DEF Absolute
<1>4. /\ p.th_seq = whole.th_seq /\ p.th_ack = whole.th_ack /\ p.th_win = whole.th_win
      /\ p.data = whole.data /\ p.th_sum = (tcp + own - t.cksum) % HalfWord
  BY DEF convert_to_datagram, Absolute, Blank
<1> HIDE DEF p, whole
<1>5. /\ whole.th_seq \in Nat /\ whole.th_ack \in Nat
      /\ ((whole.th_seq - c.init_seqno) % Word) = t.seqno
      /\ ((whole.th_ack - c.their_init_seqno) % Word) = t.ackno
  <2>1. /\ (t.seqno + c.init_seqno) % Word \in 0..(Word - 1)
        /\ (((t.seqno + c.init_seqno) % Word) - c.init_seqno) % Word = t.seqno
    BY <1>1, <1>2, WrapsBack
  <2>2. /\ (t.ackno + c.their_init_seqno) % Word \in 0..(Word - 1)
        /\ (((t.ackno + c.their_init_seqno) % Word) - c.their_init_seqno) % Word = t.ackno
    BY <1>1, <1>2, WrapsBack
  <2> QED
    BY <1>1, <1>3, <2>1, <2>2
<1>6. Relative(e, p) = Blank(t)
  <2>1. Relative(e, p) = [seqno |-> t.seqno, ackno |-> t.ackno, len |-> t.len,
                          window |-> t.window, cksum |-> 0, data |-> t.data]
    BY <1>1, <1>3, <1>4, <1>5 DEF Relative
  <2>2. Blank(t) = [seqno |-> t.seqno, ackno |-> t.ackno, len |-> t.len,
                    window |-> t.window, cksum |-> 0, data |-> t.data]
    BY DEF Blank, CtcpSegment
  <2> QED
    BY <2>1, <2>2
<1>7. cksum_tcp(p) = tcp
  BY <1>4 DEF cksum_tcp
<1>8. tcp \in Nat /\ own \in Nat
  <2>1. tcp \in 0..(HalfWord - 1)
    BY <1>2, <1>3, <1>5, TcpSumIs
  <2>2. own \in 0..(HalfWord - 1)
    BY BlankIs, WordsAre
  <2> QED
    BY <1>1, <2>1, <2>2
<1>9. a = [Blank(t) EXCEPT !.cksum = (own + tcp - p.th_sum) % HalfWord]
  BY <1>6, <1>7 DEF convert_to_ctcp
<1> HIDE DEF tcp, own
<1>10. (own + tcp - p.th_sum) % HalfWord = t.cksum % HalfWord
  <2> DEFINE sum == tcp + own
  <2>1. sum \in Int /\ t.cksum \in Int /\ tcp + own - t.cksum = sum - t.cksum
    BY <1>2, <1>8
  <2>2. ((sum - t.cksum) % HalfWord) \in Int
        /\ (sum - ((sum - t.cksum) % HalfWord)) % HalfWord = t.cksum % HalfWord
    <3> HIDE DEF sum
    <3> DEFINE k == t.cksum
               w == HalfWord
    <3>1. w \in Nat \ {0} /\ sum \in Int /\ k \in Int
      BY <1>1, <2>1
    <3> HIDE DEF k, w
    <3>2. ((sum - k) % w) \in 0..(w - 1) /\ (sum - ((sum - k) % w)) % w = k % w
      BY <3>1, CarriesBack
    <3>3. ((sum - k) % w) \in Int
      BY <3>1, <3>2
    <3> QED
      BY <3>2, <3>3 DEF k, w
  <2>3. p.th_sum = (sum - t.cksum) % HalfWord
    <3> HIDE DEF sum
    <3> QED
      BY <1>4, <2>1
  <2>4. own + tcp - p.th_sum = sum - p.th_sum
    BY <1>8, <2>2, <2>3
  <2> HIDE DEF sum
  <2>5. (own + tcp - p.th_sum) % HalfWord = (sum - p.th_sum) % HalfWord
    BY <2>4
  <2> QED
    BY <2>2, <2>3, <2>5
<1>11. t.cksum % HalfWord \in Nat
  BY <1>1, <1>2, NatDivision
<1>12. /\ Blank(t) \in CtcpSegment /\ Blank(t).seqno = t.seqno /\ Blank(t).ackno = t.ackno
       /\ Blank(t).data = t.data /\ Blank(t).cksum = 0
  BY BlankIs
<1>13. a = [Blank(t) EXCEPT !.cksum = t.cksum % HalfWord]
  BY <1>9, <1>10
<1> HIDE DEF a
<1> DEFINE b == Blank(t)
           k == t.cksum % HalfWord
<1>14. b \in CtcpSegment /\ b.cksum = 0 /\ k \in Nat /\ a = [b EXCEPT !.cksum = k]
  BY <1>11, <1>12, <1>13
<1> HIDE DEF b, k
<1>15. /\ a \in CtcpSegment /\ a.cksum = k /\ a.seqno = b.seqno /\ a.ackno = b.ackno
       /\ a.data = b.data
  BY <1>14 DEF CtcpSegment
<1>16. Blank(a) = b
  BY <1>14 DEF Blank, CtcpSegment
<1>17. /\ p.th_seq = (t.seqno + c.init_seqno) % Word
       /\ p.th_ack = (t.ackno + c.their_init_seqno) % Word
       /\ a \in CtcpSegment /\ a.cksum = t.cksum % HalfWord /\ Blank(a) = Blank(t)
       /\ a.seqno = t.seqno /\ a.ackno = t.ackno /\ a.data = t.data
  BY <1>3, <1>4, <1>12, <1>15, <1>16 DEF b, k
<1> QED
  BY <1>17 DEF a, p

(* What create_segment makes.                                               *)
LEMMA Creates ==
  ASSUME NEW seqno \in Nat, NEW ackno \in Nat, NEW d \in Payloads \cup {<< >>}
  PROVE  LET s == create_segment(seqno, ackno, d)
         IN  /\ s \in CtcpSegment /\ s.seqno = seqno % Word /\ s.ackno = ackno % Word
             /\ s.data = d /\ s.len = HeaderSize + Len(d) /\ s.cksum = SegmentSum(Blank(s))
<1> DEFINE s == create_segment(seqno, ackno, d)
           s0 == [seqno |-> seqno % Word, ackno |-> ackno % Word, len |-> HeaderSize + Len(d),
                  window |-> Window, cksum |-> 0, data |-> d]
           k == SegmentSum(s0)
<1>1. s = [s0 EXCEPT !.cksum = k]
  BY DEF create_segment
<1>2. Word \in Nat \ {0} /\ HalfWord \in Nat /\ Byte \in Nat
  BY Widths
<1>3. d \in Seq(Nat) /\ Len(d) \in Nat
  <2>1. CASE d = << >>
    BY <2>1
  <2>2. CASE d \in Payloads
    <3>1. d \in Seq(0..(Byte - 1))
      BY <2>2, WireAssumption
    <3>2. Len(d) \in Nat /\ d = [i \in 1..Len(d) |-> d[i]] /\ \A i \in 1..Len(d) : d[i] \in 0..(Byte - 1)
      BY <3>1, LenProperties, ElementOfSeq
    <3>3. \A i \in 1..Len(d) : d[i] \in Nat
      BY <1>2, <3>2
    <3> QED
      BY <3>2, <3>3, IsASeq
  <2> QED
    BY <2>1, <2>2
<1>4. s0 \in CtcpSegment /\ s0.cksum = 0
  <2>1. seqno % Word \in 0..(Word - 1) /\ ackno % Word \in 0..(Word - 1)
    BY <1>2, NatDivision
  <2>2. HeaderSize + Len(d) \in Nat /\ Window \in Nat
    BY <1>2, <1>3, WireAssumption
  <2> QED
    BY <1>3, <2>1, <2>2 DEF CtcpSegment
<1>5. /\ s0.seqno = seqno % Word /\ s0.ackno = ackno % Word /\ s0.data = d
      /\ s0.len = HeaderSize + Len(d)
  OBVIOUS
<1> HIDE DEF s0, s
<1>6. k \in Nat
  BY <1>2, <1>4, WordsAre
<1> HIDE DEF k
<1>7. /\ s \in CtcpSegment /\ s.cksum = k /\ s.seqno = s0.seqno /\ s.ackno = s0.ackno
      /\ s.data = s0.data /\ s.len = s0.len
  BY <1>1, <1>4, <1>6 DEF CtcpSegment
<1>8. Blank(s) = s0
  BY <1>1, <1>4, <1>6 DEF Blank, CtcpSegment
<1>9. /\ s \in CtcpSegment /\ s.seqno = seqno % Word /\ s.ackno = ackno % Word
      /\ s.data = d /\ s.len = HeaderSize + Len(d) /\ s.cksum = SegmentSum(Blank(s))
  BY <1>5, <1>7, <1>8 DEF k
<1> QED
  BY <1>9 DEF s

-----------------------------------------------------------------------------
(* The inductive invariant *)

(* Each host knows both initial numbers, its own and the other's.           *)
ConnInv ==
  /\ Ends(conn["sender"], conn["receiver"])
  /\ conn["sender"].init_seqno \in InitSeqnos /\ conn["receiver"].init_seqno \in InitSeqnos

CountersInv ==
  /\ acked \in Nat /\ taken \in Nat
  /\ unacked # None => \E d \in Payloads : unacked = create_segment(acked + 1, 1, d)

(* The segment a datagram on its way to a host was made of is the one its   *)
(* peer would make now: no state behind it changes before it arrives.       *)
Sent(to) == IF to = "receiver" THEN unacked ELSE create_segment(1, taken + 1, << >>)

TransitInv ==
  wire # None =>
    /\ wire.to \in Host /\ (wire.to = "receiver" => unacked # None)
    /\ wire.sent = Sent(wire.to)
    /\ \E t \in {wire.sent} \cup Corrupted(wire.sent) :
         /\ (wire.corrupt <=> t # wire.sent)
         /\ wire.pkt = convert_to_datagram(conn[Peer(wire.to)], t)

Outstanding == {acked} \cup (IF unacked = None THEN {} ELSE {acked + Len(unacked.data)})

(* The receiver is not ahead of the segment the sender is at, as long as    *)
(* its next number is one; and forever, if no payload is longer than the    *)
(* initial number, because then recv_filter ends the traffic first.         *)
BeforeWrap == taken + 1 < Word => taken \in Outstanding

FilterInv ==
  conn["receiver"].their_init_seqno >= LongestPayload =>
    taken \in Outstanding /\ acked + conn["sender"].init_seqno + 1 < Word

WireInvariant == ConnInv /\ CountersInv /\ TransitInv /\ BeforeWrap /\ FilterInv

LEMMA WordWidth == Word \in Nat /\ Word >= 8 /\ Word \div 2 \in Nat /\ 2 * (Word \div 2) <= Word
<1>1. Word \in Nat /\ Word >= 8
  BY Widths
<1> QED
  BY <1>1

LEMMA Reduced ==
  ASSUME NEW a \in Nat, a < Word
  PROVE  a % Word = a
<1>1. Word \in Nat \ {0} /\ a \in 0..(Word - 1)
  BY WordWidth
<1>2. Word * 0 + a = a
  BY <1>1
<1>3. (Word * 0 + a) % Word = a
  BY <1>1, QuotientIs
<1> QED
  BY <1>2, <1>3

LEMMA LongestIs ==
  ASSUME NEW d \in Payloads
  PROVE  LongestPayload \in Nat /\ Len(d) \in 1..LongestPayload
<1> DEFINE L == {Len(x) : x \in Payloads}
           T == {HalfWord - n : n \in L}
<1>1. HalfWord \in Nat
  BY Widths
<1>2. ASSUME NEW x \in Payloads PROVE Len(x) \in Nat /\ Len(x) >= 1 /\ Len(x) < HalfWord
  <2>1. x \in Seq(0..(Byte - 1)) /\ x # << >> /\ HeaderSize + Len(x) < HalfWord /\ HeaderSize \in Nat
    BY WireAssumption, <1>1
  <2>2. Len(x) \in Nat /\ Len(x) # 0
    BY <2>1, LenProperties, EmptySeq
  <2> QED
    BY <1>1, <2>1, <2>2
<1>3. \A n \in L : n \in Nat /\ n >= 1 /\ n < HalfWord
  BY <1>2
<1>4. Len(d) \in L
  OBVIOUS
<1>5. T \in SUBSET Nat /\ T # {}
  BY <1>1, <1>3, <1>4
<1>6. PICK m \in T : \A y \in T : m <= y
  BY <1>5, LeastElement
<1>7. PICK n \in L : m = HalfWord - n
  BY <1>6
<1>8. \A k \in L : k <= n
  <2> SUFFICES ASSUME NEW k \in L PROVE k <= n
    OBVIOUS
  <2>1. HalfWord - n <= HalfWord - k
    BY <1>6, <1>7
  <2> QED
    BY <1>1, <1>3, <1>7, <2>1
<1>9. \A x \in Payloads : Len(x) <= n
  BY <1>8
<1>10. LongestPayload \in L /\ \A x \in Payloads : Len(x) <= LongestPayload
  BY <1>7, <1>9 DEF LongestPayload
<1> HIDE DEF L
<1>11. LongestPayload \in Nat
  BY <1>3, <1>10
<1> QED
  BY <1>2, <1>10, <1>11

(* The segment under way to a host.                                         *)
LEMMA SentIs ==
  ASSUME CountersInv, NEW to \in Host, to = "receiver" => unacked # None
  PROVE  /\ Sent(to) \in CtcpSegment /\ Sent(to).len = HeaderSize + Len(Sent(to).data)
         /\ Sent(to).cksum = SegmentSum(Blank(Sent(to)))
         /\ to = "receiver" => /\ Sent(to).seqno = (acked + 1) % Word /\ Sent(to).ackno = 1
                               /\ Sent(to).data \in Payloads
         /\ to = "sender" => Sent(to).seqno = 1 /\ Sent(to).ackno = (taken + 1) % Word
<1>1. acked + 1 \in Nat /\ taken + 1 \in Nat /\ 1 \in Nat /\ 1 % Word = 1
  BY WordWidth, Reduced DEF CountersInv
<1>2. CASE to = "receiver"
  <2>1. PICK d \in Payloads : unacked = create_segment(acked + 1, 1, d)
    BY <1>2 DEF CountersInv
  <2>2. Sent(to) = create_segment(acked + 1, 1, d)
    BY <1>2, <2>1 DEF Sent
  <2> DEFINE s == create_segment(acked + 1, 1, d)
  <2>3. /\ s \in CtcpSegment /\ s.seqno = (acked + 1) % Word /\ s.ackno = 1 % Word
        /\ s.data = d /\ s.len = HeaderSize + Len(d) /\ s.cksum = SegmentSum(Blank(s))
    BY <1>1, Creates
  <2> HIDE DEF s
  <2> QED
    BY <1>1, <1>2, <2>2, <2>3 DEF s
<1>3. CASE to = "sender"
  <2>2. Sent(to) = create_segment(1, taken + 1, << >>)
    BY <1>3 DEF Sent
  <2> DEFINE s == create_segment(1, taken + 1, << >>)
  <2>3. /\ s \in CtcpSegment /\ s.seqno = 1 % Word /\ s.ackno = (taken + 1) % Word
        /\ s.data = << >> /\ s.len = HeaderSize + Len(<< >>) /\ s.cksum = SegmentSum(Blank(s))
    BY <1>1, Creates
  <2> HIDE DEF s
  <2> QED
    BY <1>1, <1>3, <2>2, <2>3 DEF s
<1> QED
  BY <1>2, <1>3 DEF Host

LEMMA EndsBoth ==
  ASSUME ConnInv, NEW to \in Host
  PROVE  Ends(conn[Peer(to)], conn[to]) /\ conn[Peer(to)].init_seqno \in InitSeqnos
         /\ conn[Peer(to)].their_init_seqno \in InitSeqnos
<1>1. Peer("receiver") = "sender" /\ Peer("sender") = "receiver"
  BY DEF Peer
<1>2. to = "receiver" \/ to = "sender"
  BY DEF Host
<1> QED
  BY <1>1, <1>2 DEF ConnInv, Ends

(* What the host it is under way to will see of the segment.                *)
LEMMA Delivered ==
  ASSUME ConnInv, CountersInv, TransitInv, wire # None
  PROVE  /\ wire.to \in Host /\ (wire.to = "receiver" => unacked # None)
         /\ wire.sent = Sent(wire.to)
         /\ wire.pkt.th_seq = (wire.sent.seqno + conn[Peer(wire.to)].init_seqno) % Word
         /\ wire.pkt.th_ack = (wire.sent.ackno + conn[Peer(wire.to)].their_init_seqno) % Word
         /\ Arrived.seqno = wire.sent.seqno /\ Arrived.ackno = wire.sent.ackno
         /\ ~wire.corrupt => /\ is_cksum_valid(Arrived) /\ Blank(Arrived) = Blank(wire.sent)
                             /\ Arrived.data = wire.sent.data
         /\ wire.corrupt => ~is_cksum_valid(Arrived)
<1> DEFINE s == wire.sent
           c == conn[Peer(wire.to)]
           e == conn[wire.to]
<1>1. /\ wire.to \in Host /\ (wire.to = "receiver" => unacked # None) /\ s = Sent(wire.to)
      /\ \E t \in {s} \cup Corrupted(s) : /\ (wire.corrupt <=> t # s)
                                          /\ wire.pkt = convert_to_datagram(c, t)
  BY DEF TransitInv
<1>2. PICK t \in {s} \cup Corrupted(s) :
        (wire.corrupt <=> t # s) /\ wire.pkt = convert_to_datagram(c, t)
  BY <1>1
<1>3. /\ s \in CtcpSegment /\ s.len = HeaderSize + Len(s.data) /\ s.cksum = SegmentSum(Blank(s))
  BY <1>1, SentIs
<1>4. Ends(c, e)
  BY <1>1, EndsBoth
<1>5. Arrived = convert_to_ctcp(e, wire.pkt)
  BY DEF Arrived
<1> HIDE DEF s, c, e
<1>6. /\ t \in CtcpSegment /\ t.seqno = s.seqno /\ t.ackno = s.ackno
      /\ t.len = HeaderSize + Len(t.data)
  <2>1. CASE t = s
    BY <1>3, <2>1
  <2>2. CASE t \in Corrupted(s)
    <3>1. /\ t \in CtcpSegment /\ t.seqno = s.seqno /\ t.ackno = s.ackno /\ t.len = s.len
          /\ Len(t.data) = Len(s.data)
      BY <1>3, <2>2, FlipCases
    <3> QED
      BY <1>3, <3>1
  <2> QED
    BY <1>2, <2>1, <2>2
<1> DEFINE p == convert_to_datagram(c, t)
           a == convert_to_ctcp(e, p)
<1>7. /\ p.th_seq = (t.seqno + c.init_seqno) % Word
      /\ p.th_ack = (t.ackno + c.their_init_seqno) % Word
      /\ a \in CtcpSegment /\ a.cksum = t.cksum % HalfWord /\ Blank(a) = Blank(t)
      /\ a.seqno = t.seqno /\ a.ackno = t.ackno /\ a.data = t.data
  BY <1>4, <1>6, Arrives
<1>8. wire.pkt = p /\ Arrived = a
  BY <1>2, <1>5
<1> HIDE DEF p, a
<1>9. is_cksum_valid(a) <=> (t.cksum % HalfWord) = SegmentSum(Blank(t))
  <2>1. is_cksum_valid(a) <=> a.cksum = SegmentSum(Blank(a))
    BY DEF is_cksum_valid, Blank
  <2> QED
    BY <1>7, <2>1
<1>10. ASSUME t = s PROVE is_cksum_valid(a)
  <2>1. s.cksum \in 0..(HalfWord - 1)
    <3>1. SegmentSum(Blank(s)) \in 0..(HalfWord - 1)
      BY <1>3, BlankIs, WordsAre
    <3> QED
      BY <1>3, <3>1
  <2>2. s.cksum % HalfWord = s.cksum
    <3> DEFINE k == s.cksum
    <3>1. HalfWord \in Nat \ {0} /\ k \in 0..(HalfWord - 1)
      BY <2>1, Widths
    <3> HIDE DEF k
    <3>2. HalfWord * 0 + k = k
      BY <3>1
    <3>3. (HalfWord * 0 + k) % HalfWord = k
      BY <3>1, QuotientIs
    <3>4. k % HalfWord = k
      BY <3>2, <3>3
    <3> QED
      BY <3>4 DEF k
  <2>3. (t.cksum % HalfWord) = SegmentSum(Blank(t))
    BY <1>3, <1>10, <2>2
  <2> QED
    BY <1>9, <2>3
<1>11. ASSUME t # s PROVE ~is_cksum_valid(a)
  <2>1. t \in Corrupted(s)
    BY <1>2, <1>11
  <2>2. t.cksum % HalfWord # SegmentSum(Blank(t))
    BY <1>3, <2>1, RefusedSum
  <2> QED
    BY <1>9, <2>2
<1>12. ~wire.corrupt => t = s
  BY <1>2
<1>13. wire.corrupt => t # s
  BY <1>2
<1>14. ~wire.corrupt => is_cksum_valid(Arrived)
  BY <1>8, <1>10, <1>12
<1>15. wire.corrupt => ~is_cksum_valid(Arrived)
  BY <1>8, <1>11, <1>13
<1>16. ~wire.corrupt => Blank(Arrived) = Blank(s) /\ Arrived.data = s.data
  BY <1>7, <1>8, <1>12
<1>17. /\ wire.pkt.th_seq = (s.seqno + c.init_seqno) % Word
       /\ wire.pkt.th_ack = (s.ackno + c.their_init_seqno) % Word
       /\ Arrived.seqno = s.seqno /\ Arrived.ackno = s.ackno
  BY <1>6, <1>7, <1>8
<1> QED
  BY <1>1, <1>14, <1>15, <1>16, <1>17 DEF s, c

-----------------------------------------------------------------------------
(* The inductive steps *)

LEMMA InitialNumber ==
  ASSUME NEW n \in InitSeqnos
  PROVE  n \in Nat /\ n < Word \div 2 /\ n + 1 < Word
<1>1. n \in 0..((Word \div 2) - 1)
  BY WireAssumption
<1> QED
  BY <1>1, WordWidth

LEMMA EndsStart == Init => ConnInv
<1> SUFFICES ASSUME Init PROVE ConnInv
  OBVIOUS
<1>1. PICK mine \in InitSeqnos, theirs \in InitSeqnos :
        conn = [h \in Host |-> IF h = "sender"
                               THEN [init_seqno |-> mine, their_init_seqno |-> theirs]
                               ELSE [init_seqno |-> theirs, their_init_seqno |-> mine]]
  BY DEF Init
<1>2. "sender" \in Host /\ "receiver" \in Host /\ "sender" # "receiver"
  BY DEF Host
<1>3. /\ conn["sender"] = [init_seqno |-> mine, their_init_seqno |-> theirs]
      /\ conn["receiver"] = [init_seqno |-> theirs, their_init_seqno |-> mine]
  BY <1>1, <1>2
<1>4. mine \in Nat /\ theirs \in Nat
  BY InitialNumber
<1> QED
  BY <1>3, <1>4 DEF ConnInv, Ends

LEMMA WireStarts == Init => WireInvariant
<1> SUFFICES ASSUME Init PROVE WireInvariant
  OBVIOUS
<1>1. unacked = None /\ acked = 0 /\ taken = 0 /\ wire = None
  BY DEF Init
<1>2. ConnInv
  BY EndsStart
<1>3. CountersInv /\ TransitInv /\ BeforeWrap
  BY <1>1 DEF CountersInv, TransitInv, BeforeWrap, Outstanding
<1>4. conn["sender"].init_seqno \in Nat /\ conn["sender"].init_seqno + 1 < Word
  BY <1>2, InitialNumber DEF ConnInv
<1>5. FilterInv
  BY <1>1, <1>4 DEF FilterInv, Outstanding
<1> QED
  BY <1>2, <1>3, <1>5 DEF WireInvariant

(* The bytes of the segment the sender is at.                               *)
LEMMA UnackedIs ==
  ASSUME CountersInv, unacked # None
  PROVE  /\ unacked = Sent("receiver") /\ unacked.data \in Payloads
         /\ Len(unacked.data) \in Nat /\ Len(unacked.data) >= 1
         /\ LongestPayload \in Nat /\ Len(unacked.data) <= LongestPayload
         /\ unacked.seqno = (acked + 1) % Word /\ unacked.ackno = 1
         /\ Outstanding = {acked, acked + Len(unacked.data)}
<1>1. unacked = Sent("receiver") /\ "receiver" \in Host
  BY DEF Sent, Host
<1>2. /\ unacked.data \in Payloads
      /\ unacked.seqno = (acked + 1) % Word /\ unacked.ackno = 1
  BY <1>1, SentIs
<1>3. LongestPayload \in Nat /\ Len(unacked.data) \in 1..LongestPayload
  BY <1>2, LongestIs
<1> QED
  BY <1>1, <1>2, <1>3 DEF Outstanding

(* A receiver that takes a segment had not taken it: the last state of both *)
(* counters is one in which only the acknowledged bytes were taken.         *)
LEMMA TakenWasNew ==
  ASSUME CountersInv, unacked # None, taken \in Outstanding, taken + 1 < Word,
         (taken + 1) % Word <= (acked + 1) % Word
  PROVE  taken = acked
<1>1. /\ Len(unacked.data) \in Nat /\ Len(unacked.data) >= 1 /\ acked \in Nat /\ taken \in Nat
      /\ (taken = acked \/ taken = acked + Len(unacked.data))
  BY UnackedIs DEF CountersInv
<1>2. Word \in Nat
  BY WordWidth
<1>3. acked + 1 < Word /\ acked + 1 \in Nat /\ taken + 1 \in Nat
  BY <1>1, <1>2
<1>4. (taken + 1) % Word = taken + 1 /\ (acked + 1) % Word = acked + 1
  BY <1>3, Reduced
<1> QED
  BY <1>1, <1>3, <1>4

LEMMA NewSegmentKeeps ==
  ASSUME WireInvariant, NewSegment
  PROVE  WireInvariant'
<1>1. /\ unacked = None /\ wire = None /\ wire' = wire /\ conn' = conn
      /\ acked' = acked /\ taken' = taken
      /\ \E d \in Payloads : unacked' = create_segment(acked + 1, 1, d)
  BY DEF NewSegment
<1>2. ConnInv' /\ TransitInv'
  BY <1>1 DEF WireInvariant, ConnInv, Ends, TransitInv
<1>3. CountersInv'
  BY <1>1 DEF WireInvariant, CountersInv
<1>4. Outstanding \subseteq Outstanding'
  BY <1>1 DEF Outstanding
<1>5. BeforeWrap'
  BY <1>1, <1>4 DEF WireInvariant, BeforeWrap
<1>6. FilterInv'
  BY <1>1, <1>4 DEF WireInvariant, FilterInv
<1> QED
  BY <1>2, <1>3, <1>5, <1>6 DEF WireInvariant

LEMMA SendEstablishes ==
  ASSUME NEW from, NEW s, conn_send(from, s), conn' = conn, Peer(from) \in Host,
         from = Peer(Peer(from)),
         Peer(from) = "receiver" => unacked' # None, s = Sent(Peer(from))'
  PROVE  TransitInv'
<1>1. PICK t \in {s} \cup Corrupted(s) :
        wire' = [to |-> Peer(from), sent |-> s, corrupt |-> t # s,
                 pkt |-> convert_to_datagram(conn[from], t)]
  BY DEF conn_send
<1>2. /\ wire'.to = Peer(from) /\ wire'.sent = s /\ (wire'.corrupt <=> t # s)
      /\ wire'.pkt = convert_to_datagram(conn[from], t)
  <2> DEFINE d == convert_to_datagram(conn[from], t)
             b == t # s
  <2>1. wire' = [to |-> Peer(from), sent |-> s, corrupt |-> b, pkt |-> d]
    BY <1>1
  <2>2. b \in BOOLEAN
    OBVIOUS
  <2> HIDE DEF d, b
  <2>3. wire'.to = Peer(from) /\ wire'.sent = s /\ wire'.pkt = d /\ wire'.corrupt = b
    BY <2>1
  <2>4. wire'.corrupt <=> b
    BY <2>2, <2>3
  <2> QED
    BY <2>3, <2>4 DEF d, b
<1>3. Sent(wire.to)' = Sent(Peer(from))'
  BY <1>2 DEF Sent
<1>4. conn[Peer(wire.to)]' = conn[from]
  BY <1>2 DEF Peer
<1> QED
  BY <1>2, <1>3, <1>4 DEF TransitInv, Host

LEMMA TransmitKeeps ==
  ASSUME WireInvariant, Transmit
  PROVE  WireInvariant'
<1>1. /\ unacked # None /\ conn' = conn /\ acked' = acked /\ taken' = taken
      /\ unacked' = unacked /\ conn_send("sender", unacked)
  BY DEF Transmit
<1>2. ConnInv' /\ CountersInv' /\ BeforeWrap' /\ FilterInv'
  BY <1>1 DEF WireInvariant, ConnInv, Ends, CountersInv, BeforeWrap, FilterInv, Outstanding
<1>3. Peer("sender") = "receiver" /\ Peer("receiver") = "sender" /\ "receiver" \in Host
  BY DEF Peer, Host
<1>4. Sent(Peer("sender"))' = unacked
  BY <1>1, <1>3 DEF Sent
<1>5. TransitInv'
  BY <1>1, <1>3, <1>4, SendEstablishes
<1> QED
  BY <1>2, <1>5 DEF WireInvariant

LEMMA DroppedKeeps ==
  ASSUME WireInvariant, Dropped \/ UNCHANGED vars
  PROVE  WireInvariant'
<1>1. CASE UNCHANGED vars
  BY <1>1 DEF vars, WireInvariant, ConnInv, Ends, CountersInv, TransitInv, BeforeWrap,
              FilterInv, Outstanding, Sent
<1>2. CASE Dropped
  <2>1. /\ wire' = None /\ conn' = conn /\ acked' = acked /\ taken' = taken /\ unacked' = unacked
    BY <1>2 DEF Dropped
  <2> QED
    BY <2>1 DEF WireInvariant, ConnInv, Ends, CountersInv, TransitInv, BeforeWrap,
                FilterInv, Outstanding
<1> QED
  BY <1>1, <1>2

(* recv_filter and ctcp_receive let through what nothing corrupted.         *)
LEMMA PassedIs ==
  ASSUME ConnInv, CountersInv, TransitInv, wire # None, Passes
  PROVE  /\ Arrived.data = wire.sent.data /\ wire.sent = Sent(wire.to)
         /\ Arrived.seqno = wire.sent.seqno /\ Arrived.ackno = wire.sent.ackno
         /\ wire.pkt.th_ack >= conn[wire.to].init_seqno
<1>1. is_cksum_valid(Arrived) /\ IsExpected(conn[wire.to], wire.pkt)
  BY DEF Passes
<1>2. ~wire.corrupt
  BY <1>1, Delivered
<1>3. wire.pkt.th_ack >= conn[wire.to].init_seqno
  BY <1>1 DEF IsExpected
<1> QED
  BY <1>2, <1>3, Delivered

LEMMA TakesKeeps ==
  ASSUME WireInvariant, Takes
  PROVE  WireInvariant'
<1>1. /\ wire # None /\ wire.to = "receiver" /\ Passes /\ (taken + 1) % Word <= Arrived.seqno
      /\ taken' = taken + Len(Arrived.data) /\ conn' = conn /\ acked' = acked
      /\ unacked' = unacked /\ conn_send("receiver", create_segment(1, taken' + 1, << >>))
  BY DEF Takes, IsNew
<1>2. ConnInv /\ CountersInv /\ TransitInv /\ BeforeWrap /\ FilterInv
  BY DEF WireInvariant
<1>3. unacked # None
  BY <1>1, <1>2 DEF TransitInv
<1>4. /\ unacked = Sent("receiver") /\ unacked.data \in Payloads
      /\ Len(unacked.data) \in Nat /\ Len(unacked.data) >= 1
      /\ LongestPayload \in Nat /\ Len(unacked.data) <= LongestPayload
      /\ unacked.seqno = (acked + 1) % Word
      /\ Outstanding = {acked, acked + Len(unacked.data)}
  BY <1>2, <1>3, UnackedIs
<1>5. Arrived.data = unacked.data /\ Arrived.seqno = (acked + 1) % Word
  <2>1. Arrived.data = wire.sent.data /\ wire.sent = Sent(wire.to) /\ Arrived.seqno = wire.sent.seqno
    BY <1>1, <1>2, PassedIs
  <2> QED
    BY <1>1, <1>4, <2>1
<1> DEFINE len == Len(unacked.data)
<1>6. /\ taken' = taken + len /\ len \in Nat /\ len >= 1 /\ acked \in Nat /\ taken \in Nat
      /\ (taken + 1) % Word <= (acked + 1) % Word /\ Word \in Nat
  BY <1>1, <1>2, <1>4, <1>5, WordWidth DEF CountersInv
<1>7. Outstanding' = Outstanding /\ Outstanding = {acked, acked + len}
  BY <1>1, <1>4 DEF Outstanding
<1>8. ASSUME taken \in Outstanding, taken + 1 < Word PROVE taken' \in Outstanding'
  <2>1. taken = acked
    BY <1>2, <1>3, <1>6, <1>8, TakenWasNew
  <2> QED
    BY <1>6, <1>7, <2>1
<1> HIDE DEF len
<1>9. ConnInv'
  BY <1>1, <1>2 DEF ConnInv, Ends
<1>10. CountersInv'
  <2>1. acked' \in Nat /\ taken' \in Nat
    BY <1>1, <1>6
  <2> QED
    BY <1>1, <1>2, <2>1 DEF CountersInv
<1>11. TransitInv'
  <2>1. Peer("receiver") = "sender" /\ Peer("sender") = "receiver" /\ "sender" \in Host
    BY DEF Peer, Host
  <2>2. Sent(Peer("receiver"))' = create_segment(1, taken' + 1, << >>)
    BY <1>1, <2>1 DEF Sent
  <2> DEFINE s == create_segment(1, taken' + 1, << >>)
  <2>3. conn_send("receiver", s) /\ s = Sent(Peer("receiver"))'
    BY <1>1, <2>2
  <2> HIDE DEF s
  <2> QED
    BY <1>1, <2>1, <2>3, SendEstablishes
<1>12. BeforeWrap'
  <2> SUFFICES ASSUME taken' + 1 < Word PROVE taken' \in Outstanding'
    BY DEF BeforeWrap
  <2>1. taken + 1 < Word
    BY <1>6
  <2> QED
    BY <1>2, <1>8, <2>1 DEF BeforeWrap
<1>13. FilterInv'
  <2> DEFINE first == conn["sender"].init_seqno
  <2> SUFFICES ASSUME conn["receiver"].their_init_seqno >= LongestPayload
               PROVE  taken' \in Outstanding' /\ acked + first + 1 < Word
    BY <1>1 DEF FilterInv
  <2>1. taken \in Outstanding /\ acked + first + 1 < Word
    BY <1>2 DEF FilterInv
  <2>2. first \in Nat /\ first >= LongestPayload
    BY <1>2 DEF ConnInv, Ends
  <2> HIDE DEF first
  <2>3. taken = acked \/ taken = acked + len
    BY <1>7, <2>1
  <2>4. len <= LongestPayload /\ LongestPayload \in Nat
    BY <1>4 DEF len
  <2>5. taken + 1 < Word
    BY <1>6, <2>1, <2>2, <2>3, <2>4
  <2> QED
    BY <1>8, <2>1, <2>5
<1> QED
  BY <1>9, <1>10, <1>11, <1>12, <1>13 DEF WireInvariant

LEMMA WrappedOnce ==
  ASSUME NEW a \in Nat, a >= Word, a < 2 * Word
  PROVE  a % Word = a - Word
<1>1. Word \in Nat \ {0} /\ a - Word \in 0..(Word - 1) /\ Word * 1 + (a - Word) = a
  BY WordWidth
<1>2. (Word * 1 + (a - Word)) % Word = a - Word
  BY <1>1, QuotientIs
<1> QED
  BY <1>1, <1>2

LEMMA ReleasedKeeps ==
  ASSUME WireInvariant, Released
  PROVE  WireInvariant'
<1>1. /\ wire # None /\ wire.to = "sender" /\ Passes /\ unacked # None
      /\ unacked.seqno < Arrived.ackno /\ acked' = acked + Len(unacked.data)
      /\ unacked' = None /\ wire' = None /\ conn' = conn /\ taken' = taken
  BY DEF Released, Acknowledges
<1>2. ConnInv /\ CountersInv /\ TransitInv /\ BeforeWrap /\ FilterInv
  BY DEF WireInvariant
<1> DEFINE len == Len(unacked.data)
           first == conn["sender"].init_seqno
<1>3. /\ len \in Nat /\ len >= 1 /\ LongestPayload \in Nat /\ len <= LongestPayload
      /\ unacked.seqno = (acked + 1) % Word /\ Outstanding = {acked, acked + len}
  BY <1>1, <1>2, UnackedIs
<1>4. acked' = acked + len /\ acked \in Nat /\ taken \in Nat /\ Word \in Nat
  BY <1>1, <1>2, WordWidth DEF CountersInv
<1>5. /\ Arrived.ackno = (taken + 1) % Word /\ wire.pkt.th_ack >= first
      /\ wire.pkt.th_ack = (((taken + 1) % Word) + first) % Word
      /\ first \in InitSeqnos /\ first = conn["receiver"].their_init_seqno
  <2>1. /\ wire.sent = Sent("sender") /\ Arrived.ackno = wire.sent.ackno
        /\ wire.pkt.th_ack >= first
    BY <1>1, <1>2, PassedIs
  <2>2. wire.pkt.th_ack = (wire.sent.ackno + conn[Peer(wire.to)].their_init_seqno) % Word
    BY <1>1, <1>2, Delivered
  <2>3. "sender" \in Host /\ "sender" # "receiver" /\ Peer("sender") = "receiver"
    BY DEF Host, Peer
  <2>4. Sent("sender").ackno = (taken + 1) % Word
    BY <1>2, <2>3, SentIs
  <2>5. first \in InitSeqnos /\ first = conn["receiver"].their_init_seqno
    BY <1>2 DEF ConnInv, Ends
  <2> QED
    BY <1>1, <2>1, <2>2, <2>3, <2>4, <2>5
<1>6. (acked + 1) % Word < (taken + 1) % Word
  BY <1>1, <1>3, <1>5
<1>7. first \in Nat /\ first < Word \div 2
  BY <1>5, InitialNumber
<1>8. Outstanding' = {acked + len}
  BY <1>1 DEF Outstanding
<1> HIDE DEF len, first
<1>9. ASSUME taken \in Outstanding PROVE taken = acked + len
  <2>1. taken # acked
    <3> SUFFICES ASSUME taken = acked PROVE FALSE
      OBVIOUS
    <3> DEFINE m == (acked + 1) % Word
    <3>1. m < m /\ m \in Int
      BY <1>4, <1>6, WordWidth
    <3> HIDE DEF m
    <3> QED
      BY <3>1
  <2> QED
    BY <1>3, <1>9, <2>1
<1>10. ConnInv' /\ TransitInv'
  BY <1>1, <1>2 DEF ConnInv, Ends, TransitInv
<1>11. CountersInv'
  BY <1>1, <1>3, <1>4 DEF CountersInv
<1>12. BeforeWrap'
  BY <1>1, <1>2, <1>8, <1>9 DEF BeforeWrap
<1>13. FilterInv'
  <2> SUFFICES ASSUME conn["receiver"].their_init_seqno >= LongestPayload
               PROVE  taken \in Outstanding' /\ acked + len + first + 1 < Word
    BY <1>1, <1>4 DEF FilterInv, first
  <2>1. taken \in Outstanding /\ acked + first + 1 < Word /\ first >= LongestPayload
    BY <1>2, <1>5 DEF FilterInv, first
  <2>2. taken = acked + len
    BY <1>9, <2>1
  <2>3. taken + 1 < Word /\ taken + 1 \in Nat
    BY <1>3, <1>4, <1>7, <2>1, <2>2
  <2>4. (taken + 1) % Word = taken + 1
    BY <2>3, Reduced
  <2>5. taken + 1 + first < Word
    <3> SUFFICES ASSUME ~(taken + 1 + first < Word) PROVE FALSE
      OBVIOUS
    <3> DEFINE a == taken + 1 + first
    <3>1. a \in Nat /\ a >= Word /\ a < 2 * Word
      BY <1>4, <1>7, <2>3, WordWidth
    <3>2. (((taken + 1) % Word) + first) % Word = a % Word
      BY <2>4
    <3> HIDE DEF a
    <3>3. a % Word = a - Word
      BY <3>1, WrappedOnce
    <3>4. a - Word >= first
      BY <1>5, <3>2, <3>3
    <3> QED
      BY <1>4, <1>7, <2>3, <3>4 DEF a
  <2>6. acked + len + first + 1 < Word
    BY <1>3, <1>4, <1>7, <2>2, <2>5
  <2> QED
    BY <1>8, <2>2, <2>6
<1> QED
  BY <1>10, <1>11, <1>12, <1>13 DEF WireInvariant

LEMMA WireStep ==
  ASSUME WireInvariant, [Next]_vars
  PROVE  WireInvariant'
<1>1. CASE NewSegment
  BY <1>1, NewSegmentKeeps
<1>2. CASE Transmit
  BY <1>2, TransmitKeeps
<1>3. CASE Takes
  BY <1>3, TakesKeeps
<1>4. CASE Released
  BY <1>4, ReleasedKeeps
<1>5. CASE Dropped \/ UNCHANGED vars
  BY <1>5, DroppedKeeps
<1> QED
  BY <1>1, <1>2, <1>3, <1>4, <1>5 DEF Next

(* The invariant holds at every width of the fields, for every initial      *)
(* number, payload and number of bytes sent.                                *)
LEMMA WireInvariantHolds == Spec => []WireInvariant
<1>1. Init => WireInvariant
  BY WireStarts
<1>2. WireInvariant /\ [Next]_vars => WireInvariant'
  BY WireStep
<1> QED
  BY <1>1, <1>2, PTL DEF Spec

-----------------------------------------------------------------------------
(* The properties *)

(* Whatever the initial and the relative numbers are, convert_to_datagram   *)
(* and convert_to_ctcp cancel out, the checksum included.                   *)
THEOREM SurvivesIntact == Spec => []IntactSurvives
<1>1. WireInvariant => IntactSurvives
  <2> SUFFICES ASSUME WireInvariant, wire # None, ~wire.corrupt
               PROVE  /\ is_cksum_valid(Arrived)
                      /\ [Arrived EXCEPT !.cksum = 0] = [wire.sent EXCEPT !.cksum = 0]
    BY DEF IntactSurvives
  <2>1. is_cksum_valid(Arrived) /\ Blank(Arrived) = Blank(wire.sent)
    BY Delivered DEF WireInvariant
  <2> QED
    BY <2>1 DEF Blank
<1> QED
  BY <1>1, WireInvariantHolds, PTL

(* The checksum of ctcp_utils.c finds every single flipped bit, in payloads *)
(* of any length, although the conversions replace it by another one.       *)
THEOREM RefusesFlips == Spec => []FlipIsRefused
<1>1. WireInvariant => FlipIsRefused
  BY Delivered DEF WireInvariant, FlipIsRefused
<1> QED
  BY <1>1, WireInvariantHolds, PTL

(* The receiver is at the segment the sender is at, or just behind it,      *)
(* however many bytes are sent: before ctcp_receive could mistake an old    *)
(* segment for a new one, recv_filter has stopped the traffic.              *)
THEOREM TakesOnce == Spec => []TakenOnce
<1>1. WireInvariant => TakenOnce
  BY DEF WireInvariant, FilterInv, Outstanding, TakenOnce
<1> QED
  BY <1>1, WireInvariantHolds, PTL

(* recv_filter passes every segment of both directions until the absolute   *)
(* sequence number reaches 2^32.                                            *)
THEOREM FilterPasses == Spec => []PassesUntilWrap
<1>1. WireInvariant => PassesUntilWrap
  <2> DEFINE mine == conn["sender"].init_seqno
             theirs == conn["receiver"].init_seqno
  <2> SUFFICES ASSUME WireInvariant, wire # None, mine + taken + 1 < Word
               PROVE  IsExpected(conn[wire.to], wire.pkt)
    BY DEF PassesUntilWrap
  <2>1. ConnInv /\ CountersInv /\ TransitInv /\ BeforeWrap
    BY DEF WireInvariant
  <2>2. /\ mine \in Nat /\ theirs \in Nat /\ theirs + 1 < Word
        /\ conn["sender"].their_init_seqno = theirs /\ conn["receiver"].their_init_seqno = mine
    BY <2>1, InitialNumber DEF ConnInv, Ends
  <2>3. acked \in Nat /\ taken \in Nat /\ Word \in Nat
    BY <2>1, WordWidth DEF CountersInv
  <2>4. /\ wire.to \in Host /\ (wire.to = "receiver" => unacked # None)
        /\ wire.sent = Sent(wire.to)
        /\ wire.pkt.th_seq = (wire.sent.seqno + conn[Peer(wire.to)].init_seqno) % Word
        /\ wire.pkt.th_ack = (wire.sent.ackno + conn[Peer(wire.to)].their_init_seqno) % Word
    BY <2>1, Delivered
  <2>5. CASE wire.to = "receiver"
    <3>1. /\ wire.sent.seqno = (acked + 1) % Word /\ wire.sent.ackno = 1 /\ unacked # None
          /\ Peer(wire.to) = "sender"
      BY <2>1, <2>4, <2>5, SentIs DEF Peer
    <3>2. taken \in Outstanding
      <4>1. taken + 1 < Word
        BY <2>2, <2>3
      <4> QED
        BY <2>1, <4>1 DEF BeforeWrap
    <3>3. taken >= acked
      <4>1. Len(unacked.data) \in Nat /\ Outstanding = {acked, acked + Len(unacked.data)}
        BY <2>1, <3>1, UnackedIs
      <4> QED
        BY <2>3, <3>2, <4>1
    <3> HIDE DEF mine, theirs
    <3>4. acked + 1 \in Nat /\ acked + 1 < Word /\ acked + 1 + mine \in Nat
          /\ acked + 1 + mine < Word /\ 1 + theirs \in Nat /\ 1 + theirs < Word
      BY <2>2, <2>3, <3>3
    <3>5. (acked + 1) % Word = acked + 1 /\ (acked + 1 + mine) % Word = acked + 1 + mine
          /\ (1 + theirs) % Word = 1 + theirs
      BY <3>4, Reduced
    <3>6. wire.pkt.th_seq = acked + 1 + mine /\ wire.pkt.th_ack = 1 + theirs
      BY <2>2, <2>4, <3>1, <3>5 DEF mine
    <3>7. acked + 1 + mine >= mine /\ 1 + theirs >= theirs
      BY <2>2, <2>3
    <3> QED
      BY <2>2, <2>5, <3>6, <3>7 DEF IsExpected, theirs
  <2>6. CASE wire.to = "sender"
    <3>1. /\ wire.sent.seqno = 1 /\ wire.sent.ackno = (taken + 1) % Word
          /\ Peer(wire.to) = "receiver"
      BY <2>1, <2>4, <2>6, SentIs DEF Peer
    <3> HIDE DEF mine, theirs
    <3>2. taken + 1 \in Nat /\ taken + 1 < Word /\ taken + 1 + mine \in Nat
          /\ taken + 1 + mine < Word /\ 1 + theirs \in Nat /\ 1 + theirs < Word
      BY <2>2, <2>3
    <3>3. (taken + 1) % Word = taken + 1 /\ (taken + 1 + mine) % Word = taken + 1 + mine
          /\ (1 + theirs) % Word = 1 + theirs
      BY <3>2, Reduced
    <3>4. wire.pkt.th_seq = 1 + theirs /\ wire.pkt.th_ack = taken + 1 + mine
      BY <2>2, <2>4, <3>1, <3>3 DEF theirs
    <3>5. taken + 1 + mine >= mine /\ 1 + theirs >= theirs
      BY <2>2, <2>3
    <3> QED
      BY <2>2, <2>6, <3>4, <3>5 DEF IsExpected, mine
  <2> QED
    BY <2>4, <2>5, <2>6 DEF Host
<1> QED
  BY <1>1, WireInvariantHolds, PTL
=============================================================================
