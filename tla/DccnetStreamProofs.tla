------------------------- MODULE DccnetStreamProofs -------------------------
(***************************************************************************)
(* Proofs about DccnetStream for all payloads that create_frames can cut,  *)
(* any number of frames, ACKs and faults, and any noise: the checksum that *)
(* a sender fills in is the one that a reader accepts, one wrong digit     *)
(* makes it refuse a frame, and a reader that nothing has disturbed yet    *)
(* returns what was sent.                                                  *)
(***************************************************************************)
EXTENDS DccnetStream, SequenceTheorems, FiniteSetTheorems, WellFoundedInduction, TLAPS

-----------------------------------------------------------------------------
(* Digits put together and taken apart *)

\* Digits put after others.
Cat(s, t) == s \o t

LEMMA Joined ==
  ASSUME NEW s \in Seq(Digit), NEW t \in Seq(Digit)
  PROVE  /\ Cat(s, t) \in Seq(Digit) /\ Len(Cat(s, t)) = Len(s) + Len(t)
         /\ \A i \in Nat : 1 <= i /\ i <= Len(s) => Cat(s, t)[i] = s[i]
         /\ \A i \in Nat : 1 <= i /\ i <= Len(t) => Cat(s, t)[Len(s) + i] = t[i]
<1>1. Len(s) \in Nat /\ Len(t) \in Nat
  OBVIOUS
<1>2. Cat(s, t) \in Seq(Digit) /\ Len(Cat(s, t)) = Len(s) + Len(t)
  BY DEF Cat
<1>3. \A i \in Nat : 1 <= i /\ i <= Len(s) => Cat(s, t)[i] = s[i]
  BY DEF Cat
<1>4. \A i \in Nat : 1 <= i /\ i <= Len(t) => Cat(s, t)[Len(s) + i] = t[i]
  BY DEF Cat
<1> QED
  BY <1>2, <1>3, <1>4

\* Digits taken out of others.
Part(s, k, n) == SubSeq(s, k, n)

LEMMA Cut ==
  ASSUME NEW s \in Seq(Digit), NEW k \in Nat, NEW n \in Nat, 1 <= k, k <= n + 1, n <= Len(s)
  PROVE  /\ Part(s, k, n) \in Seq(Digit) /\ Len(Part(s, k, n)) = n + 1 - k
         /\ \A i \in Nat : 1 <= i /\ i <= n + 1 - k => Part(s, k, n)[i] = s[k - 1 + i]
<1>1. Len(s) \in Nat
  OBVIOUS
<1>2. Part(s, k, n) \in Seq(Digit)
  BY DEF Part
<1>3. Len(Part(s, k, n)) = n + 1 - k
  BY DEF Part
<1>4. \A i \in Nat : 1 <= i /\ i <= n + 1 - k => Part(s, k, n)[i] = s[k - 1 + i]
  BY DEF Part
<1> QED
  BY <1>2, <1>3, <1>4

\* The first digits of others, and n digits after the first m.
LEMMA First ==
  ASSUME NEW s \in Seq(Digit), NEW n \in Nat, n <= Len(s)
  PROVE  /\ Part(s, 1, n) \in Seq(Digit) /\ Len(Part(s, 1, n)) = n
         /\ \A i \in Nat : 1 <= i /\ i <= n => Part(s, 1, n)[i] = s[i]
<1>1. Len(s) \in Nat
  OBVIOUS
<1>2. Part(s, 1, n) \in Seq(Digit)
  BY DEF Part
<1>3. Len(Part(s, 1, n)) = n
  BY DEF Part
<1>4. \A i \in Nat : 1 <= i /\ i <= n => Part(s, 1, n)[i] = s[i]
  BY DEF Part
<1> QED
  BY <1>2, <1>3, <1>4

LEMMA Behind ==
  ASSUME NEW s \in Seq(Digit), NEW m \in Nat, NEW n \in Nat, m + n <= Len(s)
  PROVE  /\ Part(s, m + 1, m + n) \in Seq(Digit) /\ Len(Part(s, m + 1, m + n)) = n
         /\ \A i \in Nat : 1 <= i /\ i <= n => Part(s, m + 1, m + n)[i] = s[m + i]
<1>1. Len(s) \in Nat
  OBVIOUS
<1>2. Part(s, m + 1, m + n) \in Seq(Digit)
  BY DEF Part
<1>3. Len(Part(s, m + 1, m + n)) = n
  BY DEF Part
<1>4. \A i \in Nat : 1 <= i /\ i <= n => Part(s, m + 1, m + n)[i] = s[m + i]
  BY DEF Part
<1> QED
  BY <1>2, <1>3, <1>4

\* A run of digits begins with another one.
LEMMA Begins ==
  ASSUME NEW f \in Seq(Digit), NEW g \in Seq(Digit), Len(g) <= Len(f),
         \A i \in Nat : 1 <= i /\ i <= Len(g) => f[i] = g[i]
  PROVE  Part(f, 1, Len(g)) = g
<1>1. PICK n \in Nat : n = Len(g)
  OBVIOUS
<1>2. PICK s : s = Part(f, 1, n)
  OBVIOUS
<1>3. s \in Seq(Digit) /\ Len(s) = n /\ \A i \in Nat : 1 <= i /\ i <= n => s[i] = f[i]
  <2>1. /\ Part(f, 1, n) \in Seq(Digit) /\ Len(Part(f, 1, n)) = n
        /\ \A i \in Nat : 1 <= i /\ i <= n => Part(f, 1, n)[i] = f[i]
    BY <1>1, First
  <2> QED
    BY <1>2, <2>1
<1>4. ASSUME NEW i \in 1..Len(s)
      PROVE  s[i] = g[i]
  <2>1. i \in Nat /\ 1 <= i /\ i <= n
    BY <1>3
  <2> QED
    BY <1>1, <1>3, <2>1
<1>5. s = g
  BY <1>1, <1>3, <1>4, SeqEqual
<1> QED
  BY <1>1, <1>2, <1>5

\* Digits put in place of others: p in place of the digits of f after m up to n.
Put(f, p, m, n) == (SubSeq(f, 1, m) \o p) \o SubSeq(f, n + 1, Len(f))

LEMMA Replaced ==
  ASSUME NEW f \in Seq(Digit), NEW p \in Seq(Digit), NEW m \in Nat, NEW n \in Nat,
         m <= n, n <= Len(f), Len(p) = n - m
  PROVE  /\ Put(f, p, m, n) \in Seq(Digit) /\ Len(Put(f, p, m, n)) = Len(f)
         /\ \A i \in Nat : 1 <= i /\ i <= m => Put(f, p, m, n)[i] = f[i]
         /\ \A i \in Nat : 1 <= i /\ i <= n - m => Put(f, p, m, n)[m + i] = p[i]
         /\ \A i \in Nat : n < i /\ i <= Len(f) => Put(f, p, m, n)[i] = f[i]
<1> DEFINE l == Len(f)
<1>0. l \in Nat /\ l = Len(f) /\ n <= l
  OBVIOUS
<1> HIDE DEF l
<1>1. PICK h : h = SubSeq(f, 1, m)
  OBVIOUS
<1>2. PICK t : t = SubSeq(f, n + 1, l)
  OBVIOUS
<1>3. h \in Seq(Digit) /\ Len(h) = m
  BY <1>0, <1>1
<1>4. \A i \in Nat : 1 <= i /\ i <= m => h[i] = f[i]
  BY <1>0, <1>1
<1>5. t \in Seq(Digit) /\ Len(t) = l - n
  BY <1>0, <1>2
<1>6. \A i \in Nat : 1 <= i /\ i <= l - n => t[i] = f[n + i]
  BY <1>0, <1>2
<1>7. PICK a : a = Cat(h, p)
  OBVIOUS
<1>8. /\ a \in Seq(Digit) /\ Len(a) = Len(h) + Len(p)
      /\ \A i \in Nat : 1 <= i /\ i <= Len(h) => a[i] = h[i]
      /\ \A i \in Nat : 1 <= i /\ i <= Len(p) => a[Len(h) + i] = p[i]
  <2>1. /\ Cat(h, p) \in Seq(Digit) /\ Len(Cat(h, p)) = Len(h) + Len(p)
        /\ \A i \in Nat : 1 <= i /\ i <= Len(h) => Cat(h, p)[i] = h[i]
        /\ \A i \in Nat : 1 <= i /\ i <= Len(p) => Cat(h, p)[Len(h) + i] = p[i]
    BY <1>3, Joined
  <2> QED
    BY <1>7, <2>1
<1>9. PICK g : g = Cat(a, t)
  OBVIOUS
<1>10. /\ g \in Seq(Digit) /\ Len(g) = Len(a) + Len(t)
       /\ \A i \in Nat : 1 <= i /\ i <= Len(a) => g[i] = a[i]
       /\ \A i \in Nat : 1 <= i /\ i <= Len(t) => g[Len(a) + i] = t[i]
  <2>1. a \in Seq(Digit) /\ t \in Seq(Digit)
    BY <1>5, <1>8
  <2>2. /\ Cat(a, t) \in Seq(Digit) /\ Len(Cat(a, t)) = Len(a) + Len(t)
        /\ \A i \in Nat : 1 <= i /\ i <= Len(a) => Cat(a, t)[i] = a[i]
        /\ \A i \in Nat : 1 <= i /\ i <= Len(t) => Cat(a, t)[Len(a) + i] = t[i]
    BY <2>1, Joined
  <2> QED
    BY <1>9, <2>2
<1>11. Len(a) = n /\ Len(g) = l
  BY <1>0, <1>3, <1>5, <1>8, <1>10
<1>12. \A i \in Nat : 1 <= i /\ i <= m => g[i] = f[i]
  <2>1. \A i \in Nat : 1 <= i /\ i <= m => g[i] = a[i]
    BY <1>10, <1>11
  <2> QED
    BY <1>3, <1>4, <1>8, <2>1
<1>13. \A i \in Nat : 1 <= i /\ i <= n - m => g[m + i] = p[i]
  <2>1. \A i \in Nat : 1 <= i /\ i <= n - m => g[m + i] = a[m + i]
    BY <1>10, <1>11
  <2> QED
    BY <1>3, <1>8, <2>1
<1>14. ASSUME NEW i \in Nat, n < i, i <= l
       PROVE  g[i] = f[i]
  <2>1. i - n \in Nat /\ 1 <= i - n /\ i - n <= l - n /\ n + (i - n) = i
    BY <1>0, <1>14
  <2>2. g[i] = t[i - n] /\ t[i - n] = f[i]
    BY <1>5, <1>6, <1>10, <1>11, <2>1
  <2> QED
    BY <2>2
<1>15. g = Put(f, p, m, n)
  BY <1>0, <1>1, <1>2, <1>7, <1>9 DEF Put, Cat
<1> QED
  BY <1>0, <1>10, <1>11, <1>12, <1>13, <1>14, <1>15

-----------------------------------------------------------------------------
(* Carries and sums *)

\* Among numbers there is a least one.  (Proofs by induction look for the least number
\* that has not the property.)
LEMMA Least ==
  ASSUME NEW T, T \subseteq Nat, T # {}
  PROVE  \E n \in T : \A m \in T : n <= m
<1>1. IsWellFoundedOn(OpToRel(<, Nat), Nat)
  BY NatLessThanWellFounded
<1>2. PICK n \in T : \A m \in T : ~(<<m, n>> \in OpToRel(<, Nat))
  BY <1>1, WFMin
<1>3. \A m \in T : ~(m < n)
  BY <1>2 DEF OpToRel
<1> QED
  BY <1>3

\* What is left of a sum when its carries are added at the low end: its remainder modulo
\* 2^16 - 1, where 2^16 - 1 itself stands for the multiples of it that are not 0.
Folded(n) == IF n = 0 THEN 0 ELSE 1 + ((n - 1) % (Word - 1))

LEMMA FoldedLeft ==
  ASSUME NEW n \in Nat, n > 0
  PROVE  /\ (n + (Word - 1 - Folded(n))) % (Word - 1) = 0
         /\ n + (Word - 1 - Folded(n)) > 0
<1>1. PICK k \in Nat, r \in Nat : n - 1 = 65535 * k + r /\ r < 65535 /\ r = (n - 1) % 65535
  <2>1. n - 1 \in Nat
    OBVIOUS
  <2>2. PICK m \in Nat : m = n - 1
    BY <2>1
  <2>3. m \div 65535 \in Nat /\ m % 65535 \in Nat /\ m % 65535 < 65535
    OBVIOUS
  <2>4. m = 65535 * (m \div 65535) + (m % 65535)
    OBVIOUS
  <2> QED
    BY <2>2, <2>3, <2>4
<1>2. Word - 1 = 65535 /\ n # 0
  BY DEF Word
<1>3. Folded(n) = 1 + r
  BY <1>1, <1>2 DEF Folded
<1>4. n + (Word - 1 - Folded(n)) = 65535 * (k + 1)
  BY <1>1, <1>2, <1>3
<1>5. \A j \in Nat : (65535 * j) % 65535 = 0
  OBVIOUS
<1>6. k + 1 \in Nat /\ 65535 * (k + 1) > 0
  BY <1>1
<1> QED
  BY <1>2, <1>4, <1>5, <1>6

LEMMA FoldedStep ==
  ASSUME NEW n \in Nat
  PROVE  Folded(n) = IF n < Word THEN n ELSE Folded((n \div Word) + (n % Word))
<1>1. CASE n < Word
  BY <1>1 DEF Folded, Word
<1>2. CASE ~(n < Word)
  <2>1. PICK q \in Nat, r \in Nat : /\ q = n \div Word /\ r = n % Word
                                  /\ n = Word * q + r /\ q > 0
    BY <1>2 DEF Word
  <2>2. q + r - 1 \in Nat /\ n - 1 = (Word - 1) * q + (q + r - 1)
    BY <2>1 DEF Word
  <2>3. (n - 1) % (Word - 1) = (q + r - 1) % (Word - 1)
    BY <2>2 DEF Word
  <2>4. PICK m : m = q + r
    OBVIOUS
  <2>5. n # 0 /\ m # 0
    BY <2>1, <2>4 DEF Word
  <2>6. Folded(n) = Folded(m)
    BY <2>3, <2>4, <2>5 DEF Folded
  <2> QED
    BY <1>2, <2>1, <2>4, <2>6
<1> QED
  BY <1>1, <1>2

\* The loop of compute_checksum ends for every sum, and this is what it leaves.
LEMMA FoldCarryIs ==
  ASSUME NEW n \in Nat
  PROVE  FoldCarry(n) = Folded(n)
<1> DEFINE Is(f) == f = [k \in Nat |-> IF k < Word THEN k ELSE f[(k \div Word) + (k % Word)]]
           fold == CHOOSE f : Is(f)
<1>1. Is([k \in Nat |-> Folded(k)])
  <2> DEFINE g == [k \in Nat |-> Folded(k)]
  <2>1. ASSUME NEW k \in Nat
        PROVE  g[k] = IF k < Word THEN k ELSE g[(k \div Word) + (k % Word)]
    <3>1. (k \div Word) + (k % Word) \in Nat
      BY DEF Word
    <3> QED
      BY <3>1, FoldedStep
  <2> QED
    BY <2>1
<1>2. Is(fold)
  BY <1>1
<1>3. \A k \in Nat : fold[k] = IF k < Word THEN k ELSE fold[(k \div Word) + (k % Word)]
  <2> HIDE DEF fold
  <2> QED
    BY <1>2
<1> HIDE DEF fold
<1>4. \A k \in Nat : fold[k] = Folded(k)
  <2> DEFINE T == {k \in Nat : fold[k] # Folded(k)}
  <2> SUFFICES ASSUME T # {} PROVE FALSE
    OBVIOUS
  <2>1. PICK k \in T : \A m \in T : k <= m
    BY Least
  <2>2. k \in Nat /\ fold[k] # Folded(k)
    OBVIOUS
  <2>3. ~(k < Word)
    BY <1>3, <2>2, FoldedStep
  <2>4. (k \div Word) + (k % Word) \in Nat /\ (k \div Word) + (k % Word) < k
    BY <2>2, <2>3 DEF Word
  <2>5. fold[(k \div Word) + (k % Word)] = Folded((k \div Word) + (k % Word))
    BY <2>1, <2>4
  <2> QED
    BY <1>3, <2>2, <2>3, <2>5, FoldedStep
<1> QED
  BY <1>4 DEF FoldCarry, fold

\* The partial sums of words exist, so SumOf is what its recursion says.
LEMMA PartialSums ==
  ASSUME NEW w \in Seq(Nat)
  PROVE  \E s \in [0..Len(w) -> Nat] :
           s = [i \in 0..Len(w) |-> IF i = 0 THEN 0 ELSE s[i - 1] + w[i]]
<1> DEFINE Has(n) == \E s \in [0..n -> Nat] : s[0] = 0 /\ \A i \in 1..n : s[i] = s[i - 1] + w[i]
           T == {n \in Nat : n <= Len(w) /\ ~Has(n)}
<1>1. T = {}
  <2> SUFFICES ASSUME T # {} PROVE FALSE
    OBVIOUS
  <2>1. PICK n \in T : \A m \in T : n <= m
    BY Least
  <2>2. n \in Nat /\ n <= Len(w) /\ ~Has(n)
    OBVIOUS
  <2>3. n # 0
    <3>1. Has(0)
      <4> WITNESS [i \in 0..0 |-> 0] \in [0..0 -> Nat]
      <4> QED
        OBVIOUS
    <3> QED
      BY <2>2, <3>1
  <2>4. Has(n - 1)
    <3>1. n - 1 \in Nat /\ n - 1 <= Len(w) /\ ~(n <= n - 1)
      BY <2>2, <2>3
    <3>2. n - 1 \notin T
      BY <2>1, <3>1
    <3> HIDE DEF Has
    <3> QED
      BY <3>1, <3>2
  <2>5. PICK s \in [0..(n - 1) -> Nat] : s[0] = 0 /\ \A i \in 1..(n - 1) : s[i] = s[i - 1] + w[i]
    BY <2>4
  <2>6. w[n] \in Nat
    BY <2>2, <2>3
  <2> DEFINE t == [i \in 0..n |-> IF i = n THEN s[n - 1] + w[n] ELSE s[i]]
  <2>7. t \in [0..n -> Nat]
    BY <2>2, <2>3, <2>5, <2>6
  <2>8. t[0] = 0 /\ \A i \in 1..n : t[i] = t[i - 1] + w[i]
    BY <2>2, <2>3, <2>5
  <2> QED
    BY <2>2, <2>7, <2>8
<1>2. Len(w) \in Nat
  OBVIOUS
<1>3. Has(Len(w))
  <2> HIDE DEF Has
  <2> QED
    BY <1>1, <1>2
<1>4. PICK s \in [0..Len(w) -> Nat] : s[0] = 0 /\ \A i \in 1..Len(w) : s[i] = s[i - 1] + w[i]
  BY <1>3
<1>5. \A i \in 0..Len(w) : s[i] = IF i = 0 THEN 0 ELSE s[i - 1] + w[i]
  BY <1>2, <1>4
<1> QED
  BY <1>4, <1>5

LEMMA SumOfIs ==
  ASSUME NEW w \in Seq(Nat)
  PROVE  /\ SumOf(w, 0) = 0
         /\ \A n \in 1..Len(w) : SumOf(w, n) = SumOf(w, n - 1) + w[n]
         /\ \A n \in 0..Len(w) : SumOf(w, n) \in Nat
<1> DEFINE Is(s) == s = [i \in 0..Len(w) |-> IF i = 0 THEN 0 ELSE s[i - 1] + w[i]]
           sum == CHOOSE s : Is(s)
<1>1. Is(sum)
  BY PartialSums
<1>2. \A n : SumOf(w, n) = sum[n]
  BY DEF SumOf
<1> HIDE DEF sum
<1>3. Len(w) \in Nat
  OBVIOUS
<1>4. \A i \in 0..Len(w) : sum[i] = IF i = 0 THEN 0 ELSE sum[i - 1] + w[i]
  BY <1>1
<1>5. sum[0] = 0 /\ \A n \in 1..Len(w) : sum[n] = sum[n - 1] + w[n]
  BY <1>3, <1>4
<1>6. \A n \in 0..Len(w) : sum[n] \in Nat
  <2> DEFINE T == {n \in Nat : n <= Len(w) /\ ~(sum[n] \in Nat)}
  <2> SUFFICES ASSUME T # {} PROVE FALSE
    BY <1>3
  <2>1. PICK n \in T : \A m \in T : n <= m
    BY Least
  <2>2. n # 0 /\ n \in 1..Len(w)
    BY <1>3, <1>5
  <2>3. sum[n - 1] \in Nat
    BY <2>1, <2>2
  <2>4. w[n] \in Nat
    BY <2>2
  <2> QED
    BY <1>5, <2>2, <2>3, <2>4
<1> QED
  BY <1>2, <1>5, <1>6

\* Two sums of words that differ in one word only differ by as much as that word does.
LEMMA SumDiffers ==
  ASSUME NEW w \in Seq(Nat), NEW v \in Seq(Nat), Len(v) = Len(w), NEW k \in 1..Len(w),
         \A i \in 1..Len(w) : i # k => v[i] = w[i]
  PROVE  SumOf(v, Len(v)) + w[k] = SumOf(w, Len(w)) + v[k]
<1> DEFINE Agrees(n) == IF n < k THEN SumOf(v, n) = SumOf(w, n)
                        ELSE SumOf(v, n) + w[k] = SumOf(w, n) + v[k]
           T == {n \in Nat : n <= Len(w) /\ ~Agrees(n)}
<1>1. Len(w) \in Nat /\ k \in Nat /\ 0 < k /\ k <= Len(w) /\ w[k] \in Nat /\ v[k] \in Nat
  OBVIOUS
<1>2. T = {}
  <2> SUFFICES ASSUME T # {} PROVE FALSE
    OBVIOUS
  <2>1. PICK n \in T : \A m \in T : n <= m
    BY Least
  <2>2. n \in Nat /\ n <= Len(w) /\ ~Agrees(n)
    OBVIOUS
  <2>3. n # 0
    BY <1>1, <2>2, SumOfIs
  <2>4. n \in 1..Len(w) /\ n - 1 \in 0..Len(w) /\ n \in 0..Len(w)
    BY <1>1, <2>2, <2>3
  <2>5. Agrees(n - 1)
    <3>1. n - 1 \in Nat /\ n - 1 <= Len(w) /\ ~(n <= n - 1)
      BY <1>1, <2>2, <2>3
    <3>2. n - 1 \notin T
      BY <2>1, <3>1
    <3> HIDE DEF Agrees
    <3> QED
      BY <3>1, <3>2
  <2>6. w[n] \in Nat /\ v[n] \in Nat
    BY <2>4, SMTT(30)
  <2>7. /\ SumOf(w, n) = SumOf(w, n - 1) + w[n] /\ SumOf(v, n) = SumOf(v, n - 1) + v[n]
        /\ SumOf(w, n - 1) \in Nat /\ SumOf(v, n - 1) \in Nat
    BY <2>4, SumOfIs
  <2>8. n # k => v[n] = w[n]
    BY <2>4
  <2>9. CASE n < k
    <3>1. n - 1 < k /\ n # k
      BY <1>1, <2>2, <2>9
    <3> QED
      BY <2>2, <2>5, <2>7, <2>8, <2>9, <3>1
  <2>10. CASE n = k
    <3>1. n - 1 < k /\ ~(n < k)
      BY <1>1, <2>2, <2>10
    <3>2. SumOf(v, n - 1) = SumOf(w, n - 1)
      BY <2>5, <3>1
    <3> QED
      BY <2>2, <2>6, <2>7, <2>10, <3>1, <3>2
  <2>11. CASE n > k
    <3>1. ~(n - 1 < k) /\ ~(n < k) /\ n # k
      BY <1>1, <2>2, <2>11
    <3>2. SumOf(v, n - 1) + w[k] = SumOf(w, n - 1) + v[k]
      BY <2>5, <3>1
    <3>3. v[n] = w[n]
      BY <2>8, <3>1
    <3>4. PICK a \in Nat, b \in Nat, c \in Nat, x \in Nat, y \in Nat :
            /\ a = SumOf(v, n - 1) /\ b = SumOf(w, n - 1) /\ c = w[n] /\ x = w[k] /\ y = v[k]
      BY <1>1, <2>6, <2>7
    <3>5. a + x = b + y
      BY <3>2, <3>4
    <3>6. (a + c) + x = (b + c) + y
      BY <3>5
    <3>7. SumOf(v, n) + w[k] = SumOf(w, n) + v[k]
      BY <2>7, <3>3, <3>4, <3>6
    <3> QED
      BY <2>2, <3>1, <3>7
  <2>12. n < k \/ n = k \/ n > k
    BY <1>1, <2>2
  <2> QED
    BY <2>9, <2>10, <2>11, <2>12
<1>3. Agrees(Len(w))
  <2>1. Len(w) <= Len(w) /\ Len(w) \notin T
    BY <1>1, <1>2, SMTT(30)
  <2> HIDE DEF Agrees
  <2> QED
    BY <1>1, <2>1
<1> QED
  BY <1>1, <1>3

-----------------------------------------------------------------------------
(* The words of a frame *)

\* The frames that compute_checksum is about have whole bytes.
Bytes == {f \in Seq(Digit) : Len(f) % 2 = 0}

\* Where a frame has no digits left, its last word is filled up.
Padded(f, i) == IF i <= Len(f) THEN f[i] ELSE 0

LEMMA PaddedIs ==
  ASSUME NEW f \in Bytes, NEW i \in Nat, i > 0
  PROVE  Padded(f, i) \in Digit
BY DEF Padded, Bytes, Digit

LEMMA WordSequences == Seq(0..(Word - 1)) \subseteq Seq(Nat)
<1>1. 0..(Word - 1) \subseteq Nat
  OBVIOUS
<1> QED
  BY <1>1, SeqMonotonic

\* Four digits are a number of 16 bits.
LEMMA FourDigits ==
  ASSUME NEW a \in Digit, NEW b \in Digit, NEW c \in Digit, NEW d \in Digit
  PROVE  4096 * a + 256 * b + 16 * c + d \in 0..(Word - 1)
<1>1. /\ a \in Nat /\ b \in Nat /\ c \in Nat /\ d \in Nat
      /\ a <= 15 /\ b <= 15 /\ c <= 15 /\ d <= 15
  BY DEF Digit
<1>2. 4096 * a + 256 * b + 16 * c + d <= 65535
  BY <1>1
<1>3. 4096 * a + 256 * b + 16 * c + d \in Nat
  BY <1>1
<1>4. Word \in Nat /\ Word - 1 \in Nat /\ 65535 <= Word - 1
  BY DEF Word
<1>5. \A n \in Nat : n <= 65535 => n \in 0..(Word - 1)
  BY <1>4
<1> QED
  BY <1>2, <1>3, <1>5

LEMMA WordsOf ==
  ASSUME NEW f \in Bytes
  PROVE  /\ Words(f) \in Seq(0..(Word - 1))
         /\ Len(Words(f)) = (Len(f) + 2) \div 4
         /\ \A i \in 1..Len(Words(f)) :
              Words(f)[i] = 4096 * Padded(f, 4 * i - 3) + 256 * Padded(f, 4 * i - 2)
                              + 16 * Padded(f, 4 * i - 1) + Padded(f, 4 * i)
<1> DEFINE p == f \o (IF Len(f) % 4 = 0 THEN <<>> ELSE <<0, 0>>)
           n == (Len(f) + 2) \div 4
<1>1. f \in Seq(Digit) /\ Len(f) \in Nat /\ Len(f) % 2 = 0
  BY DEF Bytes
<1>2. p \in Seq(Digit) /\ Len(p) \in Nat /\ Len(p) = 4 * n /\ n \in Nat
  <2>1. CASE Len(f) % 4 = 0
    <3>1. p = f
      BY <1>1, <2>1
    <3> QED
      BY <1>1, <2>1, <3>1
  <2>2. CASE Len(f) % 4 # 0
    <3>1. <<0, 0>> \in Seq(Digit) /\ Len(<<0, 0>>) = 2
      BY DEF Digit
    <3>2. p = f \o <<0, 0>>
      BY <2>2
    <3>3. p \in Seq(Digit) /\ Len(p) = Len(f) + 2
      BY <1>1, <3>1, <3>2
    <3> QED
      BY <1>1, <2>2, <3>3
  <2> QED
    BY <2>1, <2>2
<1>3. \A i \in 1..Len(p) : p[i] = Padded(f, i) /\ p[i] \in Digit
  <2>1. CASE Len(f) % 4 = 0
    <3>1. p = f
      BY <1>1, <2>1
    <3> QED
      BY <1>1, <3>1 DEF Padded
  <2>2. CASE Len(f) % 4 # 0
    <3>1. <<0, 0>> \in Seq(Digit) /\ Len(<<0, 0>>) = 2 /\ <<0, 0>>[1] = 0 /\ <<0, 0>>[2] = 0
      BY DEF Digit
    <3>2. p = f \o <<0, 0>>
      BY <2>2
    <3>3. \A i \in 1..Len(p) : p[i] = IF i <= Len(f) THEN f[i] ELSE <<0, 0>>[i - Len(f)]
      BY <1>1, <3>1, <3>2
    <3>4. \A i \in 1..Len(p) : p[i] = Padded(f, i)
      BY <1>1, <3>1, <3>2, <3>3 DEF Padded
    <3>5. p \in Seq(Digit)
      BY <1>2
    <3>6. \A i \in 1..Len(p) : p[i] \in Digit
      BY <3>5, ElementOfSeq
    <3> QED
      BY <3>4, <3>6
  <2> QED
    BY <2>1, <2>2
<1> HIDE DEF p
<1>4. Len(p) \div 4 = n
  BY <1>2
<1>5. Words(f) = [i \in 1..n |-> UnpackH(p, 4 * i - 3)]
  BY <1>4 DEF Words, p
<1> HIDE DEF n
<1>6. \A i \in 1..n : UnpackH(p, 4 * i - 3) = 4096 * Padded(f, 4 * i - 3)
              + 256 * Padded(f, 4 * i - 2) + 16 * Padded(f, 4 * i - 1) + Padded(f, 4 * i)
  BY <1>2, <1>3 DEF UnpackH
<1>7. \A i \in 1..n : UnpackH(p, 4 * i - 3) \in 0..(Word - 1)
  <2> SUFFICES ASSUME NEW i \in 1..n PROVE UnpackH(p, 4 * i - 3) \in 0..(Word - 1)
    OBVIOUS
  <2>1. p[4 * i - 3] \in Digit /\ p[4 * i - 3 + 1] \in Digit /\ p[4 * i - 3 + 2] \in Digit
        /\ p[4 * i - 3 + 3] \in Digit
    BY <1>2, <1>3
  <2> QED
    BY <2>1, FourDigits DEF UnpackH
<1>8. Words(f) \in Seq(0..(Word - 1)) /\ Len(Words(f)) = n
  BY <1>2, <1>5, <1>7
<1> QED
  BY <1>5, <1>6, <1>8 DEF n

\* What compute_checksum adds up.
Total(f) == SumOf(Words(f), Len(Words(f)))

\* Frames that differ in one word only.
LEMMA OneWord ==
  ASSUME NEW f \in Bytes, NEW g \in Bytes, Len(g) = Len(f), NEW k \in 1..Len(Words(f)),
         \A i \in 1..Len(f) : i \notin (4 * k - 3)..(4 * k) => g[i] = f[i]
  PROVE  /\ Total(f) \in Nat /\ Total(g) \in Nat
         /\ Words(f)[k] \in 0..(Word - 1) /\ Words(g)[k] \in 0..(Word - 1)
         /\ Total(g) + Words(f)[k] = Total(f) + Words(g)[k]
<1>1. Len(f) \in Nat
  BY DEF Bytes
<1>2. /\ Words(f) \in Seq(Nat) /\ Words(g) \in Seq(Nat) /\ Len(Words(g)) = Len(Words(f))
      /\ Words(f) \in Seq(0..(Word - 1)) /\ Words(g) \in Seq(0..(Word - 1))
  <2>1. /\ Words(f) \in Seq(0..(Word - 1)) /\ Len(Words(f)) = (Len(f) + 2) \div 4
        /\ Words(g) \in Seq(0..(Word - 1)) /\ Len(Words(g)) = (Len(g) + 2) \div 4
    BY WordsOf
  <2> QED
    BY <2>1, WordSequences
<1>3. ASSUME NEW i \in 1..Len(Words(f)), i # k
      PROVE  Words(g)[i] = Words(f)[i]
  <2>1. \A m \in (4 * i - 3)..(4 * i) : Padded(g, m) = Padded(f, m)
    BY <1>1, <1>2, <1>3 DEF Padded
  <2>2. /\ Padded(g, 4 * i - 3) = Padded(f, 4 * i - 3) /\ Padded(g, 4 * i - 2) = Padded(f, 4 * i - 2)
        /\ Padded(g, 4 * i - 1) = Padded(f, 4 * i - 1) /\ Padded(g, 4 * i) = Padded(f, 4 * i)
    BY <1>2, <2>1
  <2>3. i \in 1..Len(Words(g))
    BY <1>2
  <2> QED
    BY <2>2, <2>3, WordsOf
<1>4. Total(f) \in Nat /\ Total(g) \in Nat
  BY <1>2, SumOfIs DEF Total
<1>5. Words(f)[k] \in 0..(Word - 1) /\ Words(g)[k] \in 0..(Word - 1)
  <2>1. k \in 1..Len(Words(g))
    BY <1>2
  <2> QED
    BY <1>2, <2>1, ElementOfSeq
<1> QED
  BY <1>2, <1>3, <1>4, <1>5, SumDiffers DEF Total

LEMMA TotalPositive ==
  ASSUME NEW f \in Bytes, Len(f) >= 4, f[1] # 0
  PROVE  Total(f) \in Nat /\ Total(f) > 0
<1> DEFINE w == Words(f)
           v == [w EXCEPT ![1] = 0]
<1>1. f \in Seq(Digit) /\ Len(f) \in Nat
  BY DEF Bytes
<1>2. w \in Seq(Nat) /\ Len(w) \in Nat /\ Len(w) >= 1
  <2>1. w \in Seq(Nat) /\ Len(w) = (Len(f) + 2) \div 4
    BY WordsOf, WordSequences
  <2>2. (Len(f) + 2) \div 4 >= 1
    BY <1>1
  <2> QED
    BY <2>1, <2>2
<1>3. w[1] > 0 /\ w[1] \in Nat
  <2>1. w[1] = 4096 * Padded(f, 1) + 256 * Padded(f, 2) + 16 * Padded(f, 3) + Padded(f, 4)
    <3>1. w[1] = 4096 * Padded(f, 4 * 1 - 3) + 256 * Padded(f, 4 * 1 - 2)
                              + 16 * Padded(f, 4 * 1 - 1) + Padded(f, 4 * 1)
      BY <1>2, WordsOf
    <3> QED
      BY <3>1
  <2>2. Padded(f, 1) \in 1..15 /\ Padded(f, 2) \in 0..15 /\ Padded(f, 3) \in 0..15
        /\ Padded(f, 4) \in 0..15
    BY <1>1 DEF Padded, Digit
  <2>3. 4096 * Padded(f, 1) + 256 * Padded(f, 2) + 16 * Padded(f, 3) + Padded(f, 4) > 0
    <3>1. \A a, b, c, d \in Nat : a > 0 => 4096 * a + 256 * b + 16 * c + d > 0
      OBVIOUS
    <3>2. /\ Padded(f, 1) \in Nat /\ Padded(f, 2) \in Nat /\ Padded(f, 3) \in Nat
          /\ Padded(f, 4) \in Nat /\ Padded(f, 1) > 0
      BY <2>2
    <3> QED
      BY <3>1, <3>2
  <2>4. w[1] \in Nat
    BY <1>2
  <2> QED
    BY <2>1, <2>3, <2>4
<1>4. v \in Seq(Nat) /\ Len(v) = Len(w) /\ v[1] = 0 /\ \A i \in 1..Len(w) : i # 1 => v[i] = w[i]
  BY <1>2
<1> HIDE DEF v, w
<1>5. SumOf(v, Len(v)) + w[1] = SumOf(w, Len(w)) + v[1]
  BY <1>2, <1>4, SumDiffers
<1>6. SumOf(v, Len(v)) \in Nat /\ SumOf(w, Len(w)) \in Nat
  BY <1>2, <1>4, SumOfIs
<1> QED
  BY <1>3, <1>4, <1>5, <1>6 DEF Total, w

-----------------------------------------------------------------------------
(* The checksum *)

\* A frame is verified when its words add up to a multiple of 2^16 - 1 that is not 0.
LEMMA ChecksumIs ==
  ASSUME NEW f \in Bytes, Total(f) \in Nat
  PROVE  /\ compute_checksum(f) = Word - 1 - Folded(Total(f))
         /\ compute_checksum(f) \in Nat /\ compute_checksum(f) <= Word - 1
         /\ verify_frame_integrity(f) <=> Total(f) > 0 /\ Total(f) % (Word - 1) = 0
<1>1. compute_checksum(f) = Word - 1 - Folded(Total(f))
  BY FoldCarryIs DEF compute_checksum, Total
<1>2. PICK t \in Nat : t = Total(f)
  OBVIOUS
<1>3. Folded(t) \in Nat /\ Folded(t) <= Word - 1
  BY DEF Folded, Word
<1>4. Folded(t) = Word - 1 <=> t > 0 /\ t % (Word - 1) = 0
  <2>1. CASE t = 0
    BY <2>1 DEF Folded, Word
  <2>2. CASE t # 0
    BY <2>2 DEF Folded, Word
  <2> QED
    BY <2>1, <2>2
<1>5. Word \in Nat
  BY DEF Word
<1>6. compute_checksum(f) = Word - 1 - Folded(t)
  BY <1>1, <1>2
<1>7. compute_checksum(f) = 0 <=> Folded(t) = Word - 1
  BY <1>3, <1>5, <1>6
<1>8. compute_checksum(f) \in Nat /\ compute_checksum(f) <= Word - 1
  BY <1>3, <1>5, <1>6
<1> QED
  BY <1>1, <1>2, <1>4, <1>7, <1>8 DEF verify_frame_integrity

\* The two directions of struct: a number put into a field is read from it again.
LEMMA FieldH ==
  ASSUME NEW n \in Nat, n < Word
  PROVE  /\ PackH(n) \in Seq(Digit) /\ Len(PackH(n)) = 4
         /\ UnpackH(PackH(n), 1) = n
<1>1. n \div 4096 \in Nat /\ n \div 256 \in Nat /\ n \div 16 \in Nat
  OBVIOUS
<1>2. /\ (n \div 4096) % 16 \in Digit /\ (n \div 256) % 16 \in Digit
      /\ (n \div 16) % 16 \in Digit /\ n % 16 \in Digit
  BY <1>1 DEF Digit
<1>3. n \div 4096 < 16
  BY DEF Word
<1>4. 4096 * ((n \div 4096) % 16) + 256 * ((n \div 256) % 16) + 16 * ((n \div 16) % 16) + (n % 16) = n
  <2>1. n = 16 * (n \div 16) + (n % 16)
    OBVIOUS
  <2>2. n \div 16 = 16 * (n \div 256) + ((n \div 16) % 16)
    OBVIOUS
  <2>3. n \div 256 = 16 * (n \div 4096) + ((n \div 256) % 16)
    OBVIOUS
  <2>4. (n \div 4096) % 16 = n \div 4096
    BY <1>1, <1>3
  <2> QED
    BY <1>1, <2>1, <2>2, <2>3, <2>4
<1> QED
  BY <1>2, <1>4 DEF PackH, UnpackH

LEMMA FieldB ==
  ASSUME NEW n \in Nat, n < 256
  PROVE  /\ PackB(n) \in Seq(Digit) /\ Len(PackB(n)) = 2
         /\ UnpackB(PackB(n), 1) = n
<1>1. n \div 16 \in Nat /\ n \div 16 < 16
  OBVIOUS
<1>2. (n \div 16) % 16 \in Digit /\ n % 16 \in Digit
  BY <1>1 DEF Digit
<1>3. 16 * ((n \div 16) % 16) + (n % 16) = n
  BY <1>1
<1> QED
  BY <1>2, <1>3 DEF PackB, UnpackB

\* When four digits are the least number, and when the greatest.
LEMMA FourDigitsEnds ==
  ASSUME NEW a \in Digit, NEW b \in Digit, NEW c \in Digit, NEW d \in Digit
  PROVE  /\ 4096 * a + 256 * b + 16 * c + d = 0 => a = 0 /\ b = 0
         /\ 4096 * a + 256 * b + 16 * c + d = 65535 => a = 15 /\ b = 15
<1>1. /\ a \in Nat /\ b \in Nat /\ c \in Nat /\ d \in Nat
      /\ a <= 15 /\ b <= 15 /\ c <= 15 /\ d <= 15
  BY DEF Digit
<1>2. 4096 * a + 256 * b + 16 * c + d = 0 => a = 0 /\ b = 0
  BY <1>1
<1>3. 4096 * a + 256 * b + 16 * c + d = 65535 => a = 15 /\ b = 15
  BY <1>1
<1> QED
  BY <1>2, <1>3

\* A change confined to one word is noticed, unless it puts 0 for 2^16 - 1 or the reverse.
LEMMA OneWordNoticed ==
  ASSUME NEW f \in Bytes, NEW g \in Bytes, Len(g) = Len(f), NEW k \in 1..Len(Words(f)),
         \A i \in 1..Len(f) : i \notin (4 * k - 3)..(4 * k) => g[i] = f[i],
         verify_frame_integrity(f), verify_frame_integrity(g)
  PROVE  \/ Words(f)[k] = Words(g)[k]
         \/ Words(f)[k] = 0 /\ Words(g)[k] = 65535
         \/ Words(f)[k] = 65535 /\ Words(g)[k] = 0
<1>1. /\ Total(f) \in Nat /\ Total(g) \in Nat
      /\ Words(f)[k] \in 0..(Word - 1) /\ Words(g)[k] \in 0..(Word - 1)
      /\ Total(g) + Words(f)[k] = Total(f) + Words(g)[k]
  BY OneWord
<1>2. Total(f) % (Word - 1) = 0 /\ Total(g) % (Word - 1) = 0
  BY <1>1, ChecksumIs
<1>3. PICK t \in Nat, u \in Nat, a \in Nat, b \in Nat :
        t = Total(f) /\ u = Total(g) /\ a = Words(f)[k] /\ b = Words(g)[k]
  BY <1>1
<1>4. Word - 1 = 65535
  BY DEF Word
<1>5. u + a = t + b /\ t % 65535 = 0 /\ u % 65535 = 0 /\ a <= 65535 /\ b <= 65535
  BY <1>1, <1>2, <1>3, <1>4
<1>6. a = b \/ (a = 0 /\ b = 65535) \/ (a = 65535 /\ b = 0)
  BY <1>5
<1> QED
  BY <1>3, <1>6

\* One damaged digit never goes unnoticed: changing one digit of a frame that
\* verify_frame_integrity takes, its checksum field and its header included, makes one that
\* it refuses.
THEOREM OneDigitNoticed ==
  ASSUME NEW f \in Seq(Digit), Len(f) % 2 = 0, NEW i \in 1..Len(f), NEW d \in Digit \ {f[i]},
         verify_frame_integrity(f)
  PROVE  ~verify_frame_integrity([f EXCEPT ![i] = d])
<1> DEFINE g == [f EXCEPT ![i] = d]
           k == (i + 3) \div 4
<1> SUFFICES ASSUME verify_frame_integrity(g) PROVE FALSE
  OBVIOUS
<1>1. f \in Bytes /\ Len(f) \in Nat
  BY DEF Bytes
<1>2. g \in Seq(Digit) /\ Len(g) = Len(f) /\ \A j \in 1..Len(f) : g[j] = IF j = i THEN d ELSE f[j]
  OBVIOUS
<1> HIDE DEF g
<1>3. g \in Bytes
  BY <1>1, <1>2 DEF Bytes
<1>4. k \in Nat /\ k >= 1 /\ 4 * k - 3 <= i /\ i <= 4 * k /\ k <= (Len(f) + 2) \div 4
  BY <1>1 DEF Bytes
<1> HIDE DEF k
<1>5. Len(Words(f)) = (Len(f) + 2) \div 4 /\ Len(Words(g)) = (Len(f) + 2) \div 4
  BY <1>1, <1>2, <1>3, WordsOf
<1>6. k \in 1..Len(Words(f)) /\ k \in 1..Len(Words(g))
  BY <1>1, <1>4, <1>5
<1>7. \A j \in 1..Len(f) : j \notin (4 * k - 3)..(4 * k) => g[j] = f[j]
  BY <1>1, <1>2, <1>4
<1>8. \/ Words(f)[k] = Words(g)[k]
      \/ Words(f)[k] = 0 /\ Words(g)[k] = 65535
      \/ Words(f)[k] = 65535 /\ Words(g)[k] = 0
  BY <1>1, <1>2, <1>3, <1>6, <1>7, OneWordNoticed
<1>9. PICK m1 \in Nat, m2 \in Nat, m3 \in Nat, m4 \in Nat :
        /\ m1 = 4 * k - 3 /\ m2 = 4 * k - 2 /\ m3 = 4 * k - 1 /\ m4 = 4 * k
        /\ m1 > 0 /\ m2 > 0 /\ m3 > 0 /\ m4 > 0 /\ i \in {m1, m2, m3, m4}
        /\ m1 # m2
  BY <1>1, <1>4
<1>10. PICK f1 \in Digit, f2 \in Digit, f3 \in Digit, f4 \in Digit :
         /\ f1 = Padded(f, m1) /\ f2 = Padded(f, m2) /\ f3 = Padded(f, m3) /\ f4 = Padded(f, m4)
  BY <1>1, <1>9, PaddedIs
<1>11. PICK g1 \in Digit, g2 \in Digit, g3 \in Digit, g4 \in Digit :
         /\ g1 = Padded(g, m1) /\ g2 = Padded(g, m2) /\ g3 = Padded(g, m3) /\ g4 = Padded(g, m4)
  BY <1>3, <1>9, PaddedIs
<1>12. PICK x \in Nat, y \in Nat : x = Words(f)[k] /\ y = Words(g)[k]
  <2>1. Words(f)[k] \in Nat /\ Words(g)[k] \in Nat
    BY <1>1, <1>2, <1>3, <1>6, <1>7, OneWord
  <2> QED
    BY <2>1
<1>13. x = 4096 * f1 + 256 * f2 + 16 * f3 + f4
  BY <1>1, <1>6, <1>9, <1>10, <1>12, WordsOf
<1>14. y = 4096 * g1 + 256 * g2 + 16 * g3 + g4
  BY <1>3, <1>6, <1>9, <1>11, <1>12, WordsOf
<1>15. Padded(f, i) # Padded(g, i)
  BY <1>1, <1>2 DEF Padded
<1>16. ASSUME NEW m \in Nat, m > 0, m # i
       PROVE  Padded(f, m) = Padded(g, m)
  BY <1>1, <1>2, <1>16 DEF Padded
<1>17. ~(f1 = g1 /\ f2 = g2 /\ f3 = g3 /\ f4 = g4)
  BY <1>9, <1>10, <1>11, <1>15
<1>18. f1 = g1 \/ f2 = g2
  BY <1>9, <1>10, <1>11, <1>16
<1>19. x # y
  <2>1. /\ f1 \in Nat /\ f2 \in Nat /\ f3 \in Nat /\ f4 \in Nat
        /\ f1 <= 15 /\ f2 <= 15 /\ f3 <= 15 /\ f4 <= 15
        /\ g1 \in Nat /\ g2 \in Nat /\ g3 \in Nat /\ g4 \in Nat
        /\ g1 <= 15 /\ g2 <= 15 /\ g3 <= 15 /\ g4 <= 15
    BY DEF Digit
  <2> QED
    BY <1>13, <1>14, <1>17, <2>1
<1>20. (x = 0 => f1 = 0 /\ f2 = 0) /\ (x = 65535 => f1 = 15 /\ f2 = 15)
  BY <1>13, FourDigitsEnds
<1>21. (y = 0 => g1 = 0 /\ g2 = 0) /\ (y = 65535 => g1 = 15 /\ g2 = 15)
  BY <1>14, FourDigitsEnds
<1> QED
  BY <1>8, <1>12, <1>18, <1>19, <1>20, <1>21

\* What fill_checksum_field does to a frame whose checksum field is 0.
LEMMA Filled ==
  ASSUME NEW f \in Bytes, Len(f) >= 28, f[1] # 0,
         f[21] = 0, f[22] = 0, f[23] = 0, f[24] = 0
  PROVE  /\ fill_checksum_field(f) \in Bytes
         /\ Len(fill_checksum_field(f)) = Len(f)
         /\ \A i \in 1..Len(f) : i <= 20 \/ i > 24 => fill_checksum_field(f)[i] = f[i]
         /\ verify_frame_integrity(fill_checksum_field(f))
<1> DEFINE c == compute_checksum(f)
           g == fill_checksum_field(f)
<1>1. f \in Seq(Digit) /\ Len(f) \in Nat /\ Len(f) % 2 = 0
  BY DEF Bytes
<1>2. Total(f) \in Nat /\ Total(f) > 0
  BY TotalPositive
<1>3. c = Word - 1 - Folded(Total(f)) /\ c \in Nat /\ c <= Word - 1
  BY <1>2, ChecksumIs
<1>4. PackH(c) \in Seq(Digit) /\ Len(PackH(c)) = 4 /\ UnpackH(PackH(c), 1) = c
  <2>1. Word \in Nat
    BY DEF Word
  <2>2. c < Word
    BY <1>3, <2>1
  <2> QED
    BY <1>3, <2>2, FieldH
<1>5. g = (SubSeq(f, 1, 20) \o PackH(c)) \o SubSeq(f, 25, Len(f))
  BY DEF fill_checksum_field
<1> HIDE DEF c, g
<1>6. PICK m \in Nat : m = 20
  OBVIOUS
<1>7. PICK n \in Nat : n = 24
  OBVIOUS
<1>8. PICK p \in Seq(Digit) : p = PackH(c)
  BY <1>4
<1>9. m <= n /\ n <= Len(f) /\ Len(p) = n - m /\ n + 1 = 25
  BY <1>1, <1>4, <1>6, <1>7, <1>8
<1>10. g = Put(f, p, m, n)
  BY <1>5, <1>6, <1>8, <1>9 DEF Put
<1>11. /\ g \in Seq(Digit) /\ Len(g) = Len(f)
       /\ \A i \in Nat : 1 <= i /\ i <= m => g[i] = f[i]
       /\ \A i \in Nat : 1 <= i /\ i <= n - m => g[m + i] = p[i]
       /\ \A i \in Nat : n < i /\ i <= Len(f) => g[i] = f[i]
  BY <1>1, <1>9, <1>10, Replaced
<1>12. g \in Seq(Digit) /\ Len(g) = Len(f)
  BY <1>11
<1>13. g \in Bytes
  BY <1>1, <1>12 DEF Bytes
<1>14. \A i \in 1..Len(f) : i <= 20 \/ i > 24 => g[i] = f[i]
  BY <1>1, <1>6, <1>7, <1>11
<1>15. /\ g[21] = PackH(c)[1] /\ g[22] = PackH(c)[2]
       /\ g[23] = PackH(c)[3] /\ g[24] = PackH(c)[4]
  <2>1. g[m + 1] = p[1] /\ g[m + 2] = p[2] /\ g[m + 3] = p[3] /\ g[m + 4] = p[4]
    BY <1>6, <1>7, <1>11
  <2>2. m + 1 = 21 /\ m + 2 = 22 /\ m + 3 = 23 /\ m + 4 = 24
    BY <1>6
  <2> QED
    BY <1>8, <2>1, <2>2
<1>16. 6 \in 1..Len(Words(f)) /\ 6 \in 1..Len(Words(g))
  <2>1. Len(Words(f)) = (Len(f) + 2) \div 4 /\ Len(Words(g)) = (Len(f) + 2) \div 4
    BY <1>12, <1>13, WordsOf
  <2>2. (Len(f) + 2) \div 4 \in Nat /\ (Len(f) + 2) \div 4 >= 6
    BY <1>1
  <2> QED
    BY <2>1, <2>2
<1>17. Words(f)[6] = 0
  <2>1. Words(f)[6] = 4096 * Padded(f, 4 * 6 - 3) + 256 * Padded(f, 4 * 6 - 2)
                        + 16 * Padded(f, 4 * 6 - 1) + Padded(f, 4 * 6)
    BY <1>16, WordsOf
  <2>2. Padded(f, 21) = 0 /\ Padded(f, 22) = 0 /\ Padded(f, 23) = 0 /\ Padded(f, 24) = 0
    BY <1>1 DEF Padded
  <2> QED
    BY <2>1, <2>2
<1>18. Words(g)[6] = c
  <2>1. Words(g)[6] = 4096 * Padded(g, 4 * 6 - 3) + 256 * Padded(g, 4 * 6 - 2)
                        + 16 * Padded(g, 4 * 6 - 1) + Padded(g, 4 * 6)
    BY <1>13, <1>16, WordsOf
  <2>2. 4 * 6 - 3 = 21 /\ 4 * 6 - 2 = 22 /\ 4 * 6 - 1 = 23 /\ 4 * 6 = 24
    OBVIOUS
  <2>3. Words(g)[6] = 4096 * Padded(g, 21) + 256 * Padded(g, 22) + 16 * Padded(g, 23) + Padded(g, 24)
    BY <2>1, <2>2
  <2>4. /\ Padded(g, 21) = PackH(c)[1] /\ Padded(g, 22) = PackH(c)[2]
        /\ Padded(g, 23) = PackH(c)[3] /\ Padded(g, 24) = PackH(c)[4]
    <3>1. 21 <= Len(g) /\ 22 <= Len(g) /\ 23 <= Len(g) /\ 24 <= Len(g)
      BY <1>1, <1>12
    <3> QED
      BY <1>15, <3>1 DEF Padded
  <2>5. 4096 * PackH(c)[1] + 256 * PackH(c)[1 + 1] + 16 * PackH(c)[1 + 2] + PackH(c)[1 + 3] = c
    BY <1>4 DEF UnpackH
  <2>6. 1 + 1 = 2 /\ 1 + 2 = 3 /\ 1 + 3 = 4
    OBVIOUS
  <2> QED
    BY <2>3, <2>4, <2>5, <2>6
<1>19. Total(g) \in Nat /\ Total(g) + 0 = Total(f) + c
  <2>1. \A i \in 1..Len(f) : i \notin (4 * 6 - 3)..(4 * 6) => g[i] = f[i]
    BY <1>14
  <2>2. Total(g) \in Nat /\ Total(g) + Words(f)[6] = Total(f) + Words(g)[6]
    BY <1>12, <1>13, <1>16, <2>1, OneWord
  <2> QED
    BY <1>17, <1>18, <2>2
<1>20. Total(g) > 0 /\ Total(g) % (Word - 1) = 0
  <2>1. PICK x \in Nat : x = Total(f)
    BY <1>2
  <2>2. Total(g) = x + (Word - 1 - Folded(x))
    BY <1>3, <1>19, <2>1
  <2>3. x > 0
    BY <1>2, <2>1
  <2>4. (x + (Word - 1 - Folded(x))) % (Word - 1) = 0 /\ x + (Word - 1 - Folded(x)) > 0
    BY <2>3, FoldedLeft
  <2> QED
    BY <2>2, <2>4
<1>21. verify_frame_integrity(g)
  BY <1>13, <1>19, <1>20, ChecksumIs
<1> QED
  BY <1>12, <1>13, <1>14, <1>21 DEF g

-----------------------------------------------------------------------------
(* The frames that are sent *)

\* A frame before its checksum is filled in.
Unfilled(id, flags, data) ==
  Cat(Cat(Cat(Cat(Cat(SYNC_BYTES, PackH(Len(data) \div 2)), PackH(0)), PackB(id)), PackB(flags)), data)

LEMMA SyncIs ==
  /\ SYNC_BYTES \in Seq(Digit) /\ Len(SYNC_BYTES) = 16 /\ SYNC_BYTES[1] = 13
BY DEF SYNC_BYTES, Digit

LEMMA UnfilledIs ==
  ASSUME NEW id \in Nat, id < 256, NEW flags \in Nat, flags < 256,
         NEW data \in Bytes, Len(data) <= 2 * MAX_LENGTH
  PROVE  LET u == Unfilled(id, flags, data) IN
         /\ u \in Bytes /\ Len(u) = 28 + Len(data)
         /\ \A i \in Nat : 1 <= i /\ i <= 16 => u[i] = SYNC_BYTES[i]
         /\ UnpackH(u, 17) = Len(data) \div 2
         /\ u[21] = 0 /\ u[22] = 0 /\ u[23] = 0 /\ u[24] = 0
         /\ UnpackB(u, 25) = id /\ UnpackB(u, 27) = flags
<1>1. data \in Seq(Digit) /\ Len(data) \in Nat /\ Len(data) % 2 = 0
  BY DEF Bytes
<1>2. PICK n \in Nat : n = Len(data) \div 2 /\ n < Word
  <2>1. Len(data) \div 2 \in Nat /\ Len(data) \div 2 < 65536
    BY <1>1 DEF MAX_LENGTH
  <2> QED
    BY <2>1 DEF Word
<1>3. PICK l \in Seq(Digit) : l = PackH(n) /\ Len(l) = 4 /\ UnpackH(l, 1) = n
  BY <1>2, FieldH
<1>4. PICK z \in Seq(Digit) : /\ z = PackH(0) /\ Len(z) = 4
                              /\ z[1] = 0 /\ z[2] = 0 /\ z[3] = 0 /\ z[4] = 0
  <2>1. PackH(0) \in Seq(Digit) /\ Len(PackH(0)) = 4
    BY FieldH DEF Word
  <2>2. 0 \div 4096 = 0 /\ 0 \div 256 = 0 /\ 0 \div 16 = 0 /\ 0 % 16 = 0
    OBVIOUS
  <2>3. PackH(0) = <<0, 0, 0, 0>>
    BY <2>2 DEF PackH
  <2> QED
    BY <2>1, <2>3
<1>5. PICK b \in Seq(Digit) : b = PackB(id) /\ Len(b) = 2 /\ UnpackB(b, 1) = id
  BY FieldB
<1>6. PICK c \in Seq(Digit) : c = PackB(flags) /\ Len(c) = 2 /\ UnpackB(c, 1) = flags
  BY FieldB
<1>7. PICK a1 : a1 = Cat(SYNC_BYTES, l)
  OBVIOUS
<1>8. /\ a1 \in Seq(Digit) /\ Len(a1) = 20
      /\ \A i \in Nat : 1 <= i /\ i <= 16 => a1[i] = SYNC_BYTES[i]
      /\ \A i \in Nat : 1 <= i /\ i <= 4 => a1[16 + i] = l[i]
  <2>1. /\ Cat(SYNC_BYTES, l) \in Seq(Digit) /\ Len(Cat(SYNC_BYTES, l)) = Len(SYNC_BYTES) + Len(l)
        /\ \A i \in Nat : 1 <= i /\ i <= Len(SYNC_BYTES) => Cat(SYNC_BYTES, l)[i] = SYNC_BYTES[i]
        /\ \A i \in Nat : 1 <= i /\ i <= Len(l) => Cat(SYNC_BYTES, l)[Len(SYNC_BYTES) + i] = l[i]
    BY <1>3, SyncIs, Joined
  <2> QED
    BY <1>3, <1>7, SyncIs, <2>1
<1>9. PICK a2 : a2 = Cat(a1, z)
  OBVIOUS
<1>10. /\ a2 \in Seq(Digit) /\ Len(a2) = 24
       /\ \A i \in Nat : 1 <= i /\ i <= 20 => a2[i] = a1[i]
       /\ \A i \in Nat : 1 <= i /\ i <= 4 => a2[20 + i] = z[i]
  <2>0. a1 \in Seq(Digit) /\ z \in Seq(Digit)
    BY <1>4, <1>8
  <2>1. /\ Cat(a1, z) \in Seq(Digit) /\ Len(Cat(a1, z)) = Len(a1) + Len(z)
        /\ \A i \in Nat : 1 <= i /\ i <= Len(a1) => Cat(a1, z)[i] = a1[i]
        /\ \A i \in Nat : 1 <= i /\ i <= Len(z) => Cat(a1, z)[Len(a1) + i] = z[i]
    BY <2>0, Joined
  <2>2. Len(a1) = 20 /\ Len(z) = 4
    BY <1>4, <1>8
  <2> QED
    BY <1>9, <2>1, <2>2
<1>11. PICK a3 : a3 = Cat(a2, b)
  OBVIOUS
<1>12. /\ a3 \in Seq(Digit) /\ Len(a3) = 26
       /\ \A i \in Nat : 1 <= i /\ i <= 24 => a3[i] = a2[i]
       /\ \A i \in Nat : 1 <= i /\ i <= 2 => a3[24 + i] = b[i]
  <2>0. a2 \in Seq(Digit) /\ b \in Seq(Digit)
    BY <1>5, <1>10
  <2>1. /\ Cat(a2, b) \in Seq(Digit) /\ Len(Cat(a2, b)) = Len(a2) + Len(b)
        /\ \A i \in Nat : 1 <= i /\ i <= Len(a2) => Cat(a2, b)[i] = a2[i]
        /\ \A i \in Nat : 1 <= i /\ i <= Len(b) => Cat(a2, b)[Len(a2) + i] = b[i]
    BY <2>0, Joined
  <2>2. Len(a2) = 24 /\ Len(b) = 2
    BY <1>5, <1>10
  <2> QED
    BY <1>11, <2>1, <2>2
<1>13. PICK a4 : a4 = Cat(a3, c)
  OBVIOUS
<1>14. /\ a4 \in Seq(Digit) /\ Len(a4) = 28
       /\ \A i \in Nat : 1 <= i /\ i <= 26 => a4[i] = a3[i]
       /\ \A i \in Nat : 1 <= i /\ i <= 2 => a4[26 + i] = c[i]
  <2>0. a3 \in Seq(Digit) /\ c \in Seq(Digit)
    BY <1>6, <1>12
  <2>1. /\ Cat(a3, c) \in Seq(Digit) /\ Len(Cat(a3, c)) = Len(a3) + Len(c)
        /\ \A i \in Nat : 1 <= i /\ i <= Len(a3) => Cat(a3, c)[i] = a3[i]
        /\ \A i \in Nat : 1 <= i /\ i <= Len(c) => Cat(a3, c)[Len(a3) + i] = c[i]
    BY <2>0, Joined
  <2>2. Len(a3) = 26 /\ Len(c) = 2
    BY <1>6, <1>12
  <2> QED
    BY <1>13, <2>1, <2>2
<1>15. PICK u : u = Cat(a4, data)
  OBVIOUS
<1>16. /\ u \in Seq(Digit) /\ Len(u) = 28 + Len(data)
       /\ \A i \in Nat : 1 <= i /\ i <= 28 => u[i] = a4[i]
  <2>0. a4 \in Seq(Digit) /\ data \in Seq(Digit)
    BY <1>1, <1>14
  <2>1. /\ Cat(a4, data) \in Seq(Digit) /\ Len(Cat(a4, data)) = Len(a4) + Len(data)
        /\ \A i \in Nat : 1 <= i /\ i <= Len(a4) => Cat(a4, data)[i] = a4[i]
        /\ \A i \in Nat : 1 <= i /\ i <= Len(data) => Cat(a4, data)[Len(a4) + i] = data[i]
    BY <2>0, Joined
  <2> QED
    BY <1>1, <1>14, <1>15, <2>1
<1>17. u = Unfilled(id, flags, data)
  BY <1>2, <1>3, <1>4, <1>5, <1>6, <1>7, <1>9, <1>11, <1>13, <1>15 DEF Unfilled
<1>18. u \in Bytes
  <2>1. (28 + Len(data)) % 2 = 0
    BY <1>1
  <2>2. u \in Seq(Digit) /\ Len(u) % 2 = 0
    BY <1>16, <2>1
  <2> QED
    BY <2>2 DEF Bytes
<1>19. \A i \in Nat : 1 <= i /\ i <= 20 => u[i] = a1[i]
  BY <1>10, <1>12, <1>14, <1>16
<1>20. \A i \in Nat : 1 <= i /\ i <= 16 => u[i] = SYNC_BYTES[i]
  <2>1. \A i \in Nat : 1 <= i /\ i <= 16 => u[i] = a1[i]
    BY <1>19
  <2> QED
    BY <1>8, <2>1
<1>21. UnpackH(u, 17) = n
  <2>1. a1[17] = l[1] /\ a1[18] = l[2] /\ a1[19] = l[3] /\ a1[20] = l[4]
    <3>1. a1[16 + 1] = l[1] /\ a1[16 + 2] = l[2] /\ a1[16 + 3] = l[3] /\ a1[16 + 4] = l[4]
      BY <1>8
    <3> QED
      BY <3>1
  <2>2. u[17] = l[1] /\ u[18] = l[2] /\ u[19] = l[3] /\ u[20] = l[4]
    BY <1>19, <2>1
  <2>3. 17 + 1 = 18 /\ 17 + 2 = 19 /\ 17 + 3 = 20 /\ 1 + 1 = 2 /\ 1 + 2 = 3 /\ 1 + 3 = 4
    OBVIOUS
  <2>4. UnpackH(u, 17) = UnpackH(l, 1)
    BY <2>2, <2>3 DEF UnpackH
  <2> QED
    BY <1>3, <2>4
<1>22. u[21] = 0 /\ u[22] = 0 /\ u[23] = 0 /\ u[24] = 0
  <2>1. a2[20 + 1] = 0 /\ a2[20 + 2] = 0 /\ a2[20 + 3] = 0 /\ a2[20 + 4] = 0
    BY <1>4, <1>10
  <2>2. a2[21] = 0 /\ a2[22] = 0 /\ a2[23] = 0 /\ a2[24] = 0
    BY <2>1
  <2>3. \A i \in Nat : 1 <= i /\ i <= 24 => u[i] = a2[i]
    BY <1>12, <1>14, <1>16
  <2> QED
    BY <2>2, <2>3
<1>23. UnpackB(u, 25) = id
  <2>1. a3[24 + 1] = b[1] /\ a3[24 + 2] = b[2]
    BY <1>12
  <2>2. a3[25] = b[1] /\ a3[26] = b[2]
    BY <2>1
  <2>3. \A i \in Nat : 1 <= i /\ i <= 26 => u[i] = a3[i]
    BY <1>14, <1>16
  <2>4. u[25] = b[1] /\ u[26] = b[2]
    BY <2>2, <2>3
  <2>5. 25 + 1 = 26 /\ 1 + 1 = 2
    OBVIOUS
  <2>6. UnpackB(u, 25) = UnpackB(b, 1)
    BY <2>4, <2>5 DEF UnpackB
  <2> QED
    BY <1>5, <2>6
<1>24. UnpackB(u, 27) = flags
  <2>1. a4[26 + 1] = c[1] /\ a4[26 + 2] = c[2]
    BY <1>14
  <2>2. a4[27] = c[1] /\ a4[28] = c[2]
    BY <2>1
  <2>3. u[27] = c[1] /\ u[28] = c[2]
    BY <1>16, <2>2
  <2>4. 27 + 1 = 28 /\ 1 + 1 = 2
    OBVIOUS
  <2>5. UnpackB(u, 27) = UnpackB(c, 1)
    BY <2>3, <2>4 DEF UnpackB
  <2> QED
    BY <1>6, <2>5
<1> QED
  BY <1>2, <1>16, <1>17, <1>18, <1>20, <1>21, <1>22, <1>23, <1>24

\* Its header is read as it was written, and its checksum is one that is accepted.
LEMMA FrameIs ==
  ASSUME NEW id \in Nat, id < 256, NEW flags \in Nat, flags < 256,
         NEW data \in Bytes, Len(data) <= 2 * MAX_LENGTH
  PROVE  LET f == Frame(id, flags, data) IN
         /\ f \in Bytes /\ Len(f) = 28 + Len(data) /\ SubSeq(f, 1, 16) = SYNC_BYTES
         /\ LengthOf(f) = Len(data) \div 2 /\ IdOf(f) = id /\ FlagsOf(f) = flags
         /\ verify_frame_integrity(f)
<1>1. PICK u : u = Unfilled(id, flags, data)
  OBVIOUS
<1>2. PICK f : f = Frame(id, flags, data)
  OBVIOUS
<1>3. f = fill_checksum_field(u)
  BY <1>1, <1>2 DEF Frame, Unfilled, Cat
<1>4. /\ u \in Bytes /\ Len(u) = 28 + Len(data) /\ Len(data) \in Nat
      /\ \A i \in Nat : 1 <= i /\ i <= 16 => u[i] = SYNC_BYTES[i]
      /\ UnpackH(u, 17) = Len(data) \div 2
      /\ u[21] = 0 /\ u[22] = 0 /\ u[23] = 0 /\ u[24] = 0
      /\ UnpackB(u, 25) = id /\ UnpackB(u, 27) = flags
  <2>1. Len(data) \in Nat
    BY DEF Bytes
  <2>2. /\ Unfilled(id, flags, data) \in Bytes /\ Len(Unfilled(id, flags, data)) = 28 + Len(data)
        /\ \A i \in Nat : 1 <= i /\ i <= 16 => Unfilled(id, flags, data)[i] = SYNC_BYTES[i]
        /\ UnpackH(Unfilled(id, flags, data), 17) = Len(data) \div 2
        /\ Unfilled(id, flags, data)[21] = 0 /\ Unfilled(id, flags, data)[22] = 0
        /\ Unfilled(id, flags, data)[23] = 0 /\ Unfilled(id, flags, data)[24] = 0
        /\ UnpackB(Unfilled(id, flags, data), 25) = id /\ UnpackB(Unfilled(id, flags, data), 27) = flags
    BY UnfilledIs, SMTT(30)
  <2> QED
    BY <1>1, <2>1, <2>2
<1>5. Len(u) >= 28 /\ u[1] # 0
  <2>1. u[1] = SYNC_BYTES[1]
    BY <1>4
  <2>2. u[1] # 0
    BY <2>1, SyncIs
  <2> QED
    BY <1>4, <2>2
<1>6. /\ f \in Bytes /\ Len(f) = Len(u)
      /\ \A i \in 1..Len(u) : i <= 20 \/ i > 24 => f[i] = u[i]
      /\ verify_frame_integrity(f)
  BY <1>3, <1>4, <1>5, Filled
<1>7. \A i \in Nat : 1 <= i /\ i <= 20 => f[i] = u[i]
  BY <1>4, <1>6
<1>8. f[17] = u[17] /\ f[18] = u[18] /\ f[19] = u[19] /\ f[20] = u[20]
  BY <1>7
<1>9. f[25] = u[25] /\ f[26] = u[26] /\ f[27] = u[27] /\ f[28] = u[28]
  <2>1. 25 \in 1..Len(u) /\ 26 \in 1..Len(u) /\ 27 \in 1..Len(u) /\ 28 \in 1..Len(u)
    BY <1>4, <1>5
  <2> QED
    BY <1>6, <2>1
<1>10. /\ 17 + 1 = 18 /\ 17 + 2 = 19 /\ 17 + 3 = 20
       /\ 25 + 1 = 26 /\ 27 + 1 = 28
  OBVIOUS
<1>11. UnpackH(f, 17) = UnpackH(u, 17)
  BY <1>8, <1>10 DEF UnpackH
<1>12. UnpackB(f, 25) = UnpackB(u, 25) /\ UnpackB(f, 27) = UnpackB(u, 27)
  BY <1>9, <1>10 DEF UnpackB
<1>13. SubSeq(f, 1, 16) = SYNC_BYTES
  <2>1. f \in Seq(Digit) /\ SYNC_BYTES \in Seq(Digit)
    BY <1>6, SyncIs DEF Bytes
  <2>2. Len(SYNC_BYTES) <= Len(f)
    BY <1>4, <1>5, <1>6, SyncIs
  <2>3. \A i \in Nat : 1 <= i /\ i <= Len(SYNC_BYTES) => f[i] = SYNC_BYTES[i]
    BY <1>4, <1>7, SyncIs
  <2>4. Part(f, 1, Len(SYNC_BYTES)) = SYNC_BYTES
    BY <2>1, <2>2, <2>3, Begins
  <2> QED
    BY <2>4, SyncIs DEF Part
<1> QED
  BY <1>2, <1>4, <1>6, <1>11, <1>12, <1>13 DEF LengthOf, IdOf, FlagsOf

\* A frame as search_frame takes it: it begins with SYNC twice, its header is plausible, it
\* is as long as its header says, and its checksum is right.
GoodFrame(f) ==
  /\ f \in Seq(Digit) /\ Len(f) = 28 + 2 * LengthOf(f) /\ LengthOf(f) \in Nat
  /\ SubSeq(f, 1, 16) = SYNC_BYTES
  /\ Plausible(f)
  /\ verify_frame_integrity(f)

\* Every frame that a sender builds is one that search_frame takes: fill_checksum_field
\* leaves a checksum that verify_frame_integrity accepts, for every payload that
\* create_frames can cut and whatever carries the sum of its words has, and an empty payload
\* comes with END or ACK only.
THEOREM FramesAreGood ==
  /\ \A i \in 0..MaxFrames : GoodFrame(CreateFrame(i))
  /\ \A id \in 0..1 : GoodFrame(Frame(id, ACK, <<>>))
<1>1. ASSUME NEW id \in {0, 1}, NEW flags \in {0, END, ACK},
             NEW data \in Bytes, Len(data) <= 2 * MAX_LENGTH, Len(data) = 0 <=> flags # 0
      PROVE  GoodFrame(Frame(id, flags, data))
  <2>1. id \in Nat /\ id < 256 /\ flags \in Nat /\ flags < 256
    BY DEF END, ACK
  <2>2. PICK f : f = Frame(id, flags, data)
    OBVIOUS
  <2>3. /\ f \in Bytes /\ Len(f) = 28 + Len(data) /\ SubSeq(f, 1, 16) = SYNC_BYTES
        /\ LengthOf(f) = Len(data) \div 2 /\ IdOf(f) = id /\ FlagsOf(f) = flags
        /\ verify_frame_integrity(f)
    BY <1>1, <2>1, <2>2, FrameIs
  <2>4. f \in Seq(Digit)
    BY <2>3 DEF Bytes
  <2>5. Len(data) \in Nat /\ Len(data) = 2 * (Len(data) \div 2) /\ Len(data) \div 2 \in Nat
    BY DEF Bytes
  <2>6. LengthOf(f) = 0 <=> FlagsOf(f) # 0
    BY <1>1, <2>3, <2>5, SMTT(30)
  <2>7. Plausible(f)
    BY <2>3, <2>6 DEF Plausible
  <2> QED
    BY <2>2, <2>3, <2>4, <2>5, <2>7 DEF GoodFrame
<1>2. <<>> \in Bytes /\ Len(<<>>) = 0 /\ Len(<<>>) <= 2 * MAX_LENGTH
  BY DEF Bytes, MAX_LENGTH
<1>3. END # 0 /\ ACK # 0
  BY DEF END, ACK
<1>4. \A id \in 0..1 : GoodFrame(Frame(id, ACK, <<>>))
  <2> TAKE id \in 0..1
  <2>1. id \in {0, 1} /\ ACK \in {0, END, ACK} /\ (Len(<<>>) = 0 <=> ACK # 0)
    BY <1>2, <1>3
  <2> QED
    BY <1>1, <1>2, <2>1
<1>5. ASSUME NEW i \in 0..MaxFrames
      PROVE  GoodFrame(CreateFrame(i))
  <2>1. i % 2 \in {0, 1}
    BY StreamAssumption
  <2>2. CASE i = MaxFrames
    <3>1. END \in {0, END, ACK} /\ (Len(<<>>) = 0 <=> END # 0)
      BY <1>2, <1>3
    <3>2. GoodFrame(Frame(i % 2, END, <<>>))
      BY <1>1, <1>2, <2>1, <3>1
    <3> QED
      BY <2>2, <3>2 DEF CreateFrame
  <2>3. CASE i # MaxFrames
    <3>1. PICK k : k = (i % Len(Payload)) + 1
      OBVIOUS
    <3>2. Len(Payload) \in Nat /\ Len(Payload) > 0 /\ i \in Nat
      BY StreamAssumption
    <3>3. k \in 1..Len(Payload)
      BY <3>1, <3>2
    <3>4. /\ Payload[k] \in Seq(Digit) /\ Len(Payload[k]) % 2 = 0 /\ Payload[k] # <<>>
          /\ Len(Payload[k]) <= 2 * MAX_LENGTH
      <4>1. Payload[k] \in Seq(Digit)
        BY <3>3, StreamAssumption
      <4>2. /\ Len(Payload[k]) % 2 = 0 /\ Payload[k] # <<>>
            /\ Len(Payload[k]) <= 2 * MAX_LENGTH
        BY <3>3, StreamAssumption, Zenon
      <4> QED
        BY <4>1, <4>2
    <3>5. Payload[k] \in Bytes /\ Len(Payload[k]) # 0
      <4>1. Payload[k] \in Bytes
        BY <3>4 DEF Bytes
      <4>2. Len(Payload[k]) # 0
        BY <3>4
      <4> QED
        BY <4>1, <4>2
    <3>6. 0 \in {0, END, ACK} /\ (Len(Payload[k]) = 0 <=> 0 # 0)
      BY <3>5
    <3>7. GoodFrame(Frame(i % 2, 0, Payload[k]))
      BY <1>1, <2>1, <3>4, <3>5, <3>6
    <3> QED
      BY <2>3, <3>1, <3>7 DEF CreateFrame
  <2> QED
    BY <2>2, <2>3
<1> QED
  BY <1>4, <1>5

-----------------------------------------------------------------------------
(* The inductive invariant *)

\* The digits l under way after position p hold what is left there of a frame f that
\* begins after position q, but for those at the damaged positions D.
Carries(l, p, D, q, f) ==
  \A j \in Nat : 1 <= j /\ j <= Len(f) /\ q + j > p /\ q + j \notin D => l[q + j - p] = f[j]

\* None of the n digits after position p is damaged.
Intact(D, p, n) == \A i \in Nat : 1 <= i /\ i <= n => p + i \notin D

\* Frames are sent one behind the other, and are good ones.
SentInv ==
  /\ sent \in Seq(Nat \X Seq(Digit))
  /\ \A k \in 1..Len(sent) :
       /\ GoodFrame(sent[k][2])
       /\ sent[k][1] = IF k = 1 THEN 0 ELSE sent[k - 1][1] + Len(sent[k - 1][2])
       /\ sent[k][1] + Len(sent[k][2]) <= pos + Len(line)
  /\ pos + Len(line) = IF sent = <<>> THEN 0
                       ELSE sent[Len(sent)][1] + Len(sent[Len(sent)][2])

TypeInv ==
  /\ line \in Seq(Digit) /\ pos \in Nat
  /\ damaged \subseteq 1..(pos + Len(line)) /\ timeouts \in 0..MaxFaults
  /\ pc \in {"sync", "input", "rest", "data"}
  /\ pc = "rest" => header = SYNC_BYTES
  /\ pc = "data" => header \in Seq(Digit) /\ Len(header) = 28 /\ Plausible(header)

\* The frame that the reader is to return next.
Due == Len(returned) + 1

\* What is under way is what was sent, but for what is damaged.
Under == \A k \in 1..Len(sent) : Carries(line, pos, damaged, sent[k][1], sent[k][2])

\* Nothing read was damaged or late.
Undisturbed == timeouts = 0 /\ damaged \cap 1..pos = {}

\* Then the reader is at the beginning of the frame that it is to return next, or after the
\* part of it that it has read.
StepInv ==
  Undisturbed =>
    /\ returned \in Seq(Nat \X Seq(Digit)) /\ Len(returned) <= Len(sent)
    /\ \A k \in 1..Len(returned) : returned[k] = sent[k]
    /\ pc # "input"
    /\ pc = "sync" => IF Due > Len(sent) THEN line = <<>> ELSE pos = sent[Due][1]
    /\ pc = "rest" => Due <= Len(sent) /\ pos = sent[Due][1] + 16
    /\ pc = "data" => /\ Due <= Len(sent) /\ pos = sent[Due][1] + 28
                      /\ header = SubSeq(sent[Due][2], 1, 28)

IInv == SentInv /\ TypeInv /\ Under /\ StepInv

-----------------------------------------------------------------------------
(* What is under way *)

LEMMA Shortened ==
  ASSUME NEW l \in Seq(Digit), NEW n \in Nat, n <= Len(l)
  PROVE  /\ Part(l, n + 1, Len(l)) \in Seq(Digit)
         /\ Len(Part(l, n + 1, Len(l))) = Len(l) - n
         /\ \A i \in Nat : 1 <= i /\ i <= Len(l) - n => Part(l, n + 1, Len(l))[i] = l[n + i]
<1>1. PICK k \in Nat : k = n + 1
  OBVIOUS
<1>2. PICK m \in Nat : m = Len(l)
  OBVIOUS
<1>3. 1 <= k /\ k <= m + 1 /\ m <= Len(l) /\ m + 1 - k = m - n /\ k - 1 = n
  BY <1>1, <1>2
<1>4. /\ Part(l, k, m) \in Seq(Digit) /\ Len(Part(l, k, m)) = m + 1 - k
      /\ \A i \in Nat : 1 <= i /\ i <= m + 1 - k => Part(l, k, m)[i] = l[k - 1 + i]
  BY <1>3, Cut
<1> QED
  BY <1>1, <1>2, <1>3, <1>4

\* Taking digits off the line leaves the others in their places.
LEMMA Taken ==
  ASSUME NEW l \in Seq(Digit), NEW p \in Nat, NEW n \in Nat, n <= Len(l),
         NEW q \in Nat, NEW f \in Seq(Digit), q + Len(f) <= p + Len(l), NEW D, Carries(l, p, D, q, f)
  PROVE  Carries(Part(l, n + 1, Len(l)), p + n, D, q, f)
<1>1. PICK r : r = Part(l, n + 1, Len(l))
  OBVIOUS
<1>2. \A i \in Nat : 1 <= i /\ i <= Len(l) - n => r[i] = l[n + i]
  BY <1>1, Shortened
<1>3. Len(l) \in Nat /\ Len(f) \in Nat
  OBVIOUS
<1>4. ASSUME NEW j \in Nat, 1 <= j, j <= Len(f), q + j > p + n, q + j \notin D
      PROVE  r[q + j - (p + n)] = f[j]
  <2>1. PICK i \in Nat : i = q + j - (p + n)
    BY <1>4
  <2>2. 1 <= i /\ i <= Len(l) - n /\ n + i = q + j - p /\ q + j > p
    BY <1>3, <1>4, <2>1
  <2>3. r[i] = l[n + i]
    BY <1>2, <2>2
  <2>4. l[q + j - p] = f[j]
    BY <1>4, <2>2 DEF Carries
  <2> QED
    BY <2>1, <2>2, <2>3, <2>4
<1> QED
  BY <1>1, <1>4 DEF Carries

\* Digits sent come behind those under way.
LEMMA Extended ==
  ASSUME NEW l \in Seq(Digit), NEW p \in Nat, NEW g \in Seq(Digit),
         NEW q \in Nat, NEW f \in Seq(Digit), q + Len(f) <= p + Len(l), NEW D, Carries(l, p, D, q, f)
  PROVE  Carries(Cat(l, g), p, D, q, f)
<1>1. \A i \in Nat : 1 <= i /\ i <= Len(l) => Cat(l, g)[i] = l[i]
  BY Joined
<1>2. Len(l) \in Nat /\ Len(f) \in Nat
  OBVIOUS
<1>3. ASSUME NEW j \in Nat, 1 <= j, j <= Len(f), q + j > p, q + j \notin D
      PROVE  Cat(l, g)[q + j - p] = f[j]
  <2>1. PICK i \in Nat : i = q + j - p
    BY <1>3
  <2>2. 1 <= i /\ i <= Len(l)
    BY <1>2, <1>3, <2>1
  <2>3. Cat(l, g)[i] = l[i]
    BY <1>1, <2>2
  <2>4. l[q + j - p] = f[j]
    BY <1>3 DEF Carries
  <2> QED
    BY <2>1, <2>3, <2>4
<1> QED
  BY <1>3 DEF Carries

LEMMA Added ==
  ASSUME NEW l \in Seq(Digit), NEW p \in Nat, NEW g \in Seq(Digit), NEW D
  PROVE  Carries(Cat(l, g), p, D, p + Len(l), g)
<1>1. \A i \in Nat : 1 <= i /\ i <= Len(g) => Cat(l, g)[Len(l) + i] = g[i]
  BY Joined
<1>2. Len(l) \in Nat
  OBVIOUS
<1>3. ASSUME NEW j \in Nat, 1 <= j, j <= Len(g)
      PROVE  Cat(l, g)[p + Len(l) + j - p] = g[j]
  <2>1. p + Len(l) + j - p = Len(l) + j
    BY <1>2
  <2> QED
    BY <1>1, <1>3, <2>1
<1> QED
  BY <1>3 DEF Carries

\* What is read from the line is that part of the frame that is there.
LEMMA ReadOff ==
  ASSUME NEW l \in Seq(Digit), NEW p \in Nat, NEW q \in Nat, NEW f \in Seq(Digit),
         NEW m \in Nat, p = q + m, NEW n \in Nat, n <= Len(l), m + n <= Len(f),
         NEW D, Carries(l, p, D, q, f), Intact(D, p, n)
  PROVE  Part(l, 1, n) = Part(f, m + 1, m + n)
<1>1. PICK a : a = Part(l, 1, n)
  OBVIOUS
<1>2. PICK b : b = Part(f, m + 1, m + n)
  OBVIOUS
<1>3. Len(l) \in Nat /\ Len(f) \in Nat
  OBVIOUS
<1>4. a \in Seq(Digit) /\ Len(a) = n /\ \A i \in Nat : 1 <= i /\ i <= n => a[i] = l[i]
  <2>1. /\ Part(l, 1, n) \in Seq(Digit) /\ Len(Part(l, 1, n)) = n
        /\ \A i \in Nat : 1 <= i /\ i <= n => Part(l, 1, n)[i] = l[i]
    BY First
  <2> QED
    BY <1>1, <2>1
<1>5. b \in Seq(Digit) /\ Len(b) = n /\ \A i \in Nat : 1 <= i /\ i <= n => b[i] = f[m + i]
  <2>1. /\ Part(f, m + 1, m + n) \in Seq(Digit) /\ Len(Part(f, m + 1, m + n)) = n
        /\ \A i \in Nat : 1 <= i /\ i <= n => Part(f, m + 1, m + n)[i] = f[m + i]
    BY Behind
  <2> QED
    BY <1>2, <2>1
<1>6. ASSUME NEW i \in 1..Len(a)
      PROVE  a[i] = b[i]
  <2>1. i \in Nat /\ 1 <= i /\ i <= n
    BY <1>4
  <2>2. m + i \in Nat /\ 1 <= m + i /\ m + i <= Len(f) /\ q + (m + i) > p /\ q + (m + i) - p = i
    BY <1>3, <2>1
  <2>3. q + (m + i) \notin D
    <3>1. q + (m + i) = p + i
      BY <2>1
    <3> QED
      BY <2>1, <3>1 DEF Intact
  <2>4. l[q + (m + i) - p] = f[m + i]
    BY <2>2, <2>3 DEF Carries
  <2> QED
    BY <1>4, <1>5, <2>1, <2>2, <2>4
<1>7. a = b
  BY <1>4, <1>5, <1>6, SeqEqual
<1> QED
  BY <1>1, <1>2, <1>7

\* Two parts that meet.
LEMMA Met ==
  ASSUME NEW f \in Seq(Digit), NEW m \in Nat, NEW n \in Nat, m + n <= Len(f)
  PROVE  Cat(Part(f, 1, m), Part(f, m + 1, m + n)) = Part(f, 1, m + n)
<1>1. PICK e \in Nat : e = m + n
  OBVIOUS
<1>2. Len(f) \in Nat /\ m <= Len(f) /\ e <= Len(f)
  BY <1>1
<1>3. PICK a : a = Part(f, 1, m)
  OBVIOUS
<1>4. PICK b : b = Part(f, m + 1, m + n)
  OBVIOUS
<1>5. PICK c : c = Part(f, 1, e)
  OBVIOUS
<1>6. a \in Seq(Digit) /\ Len(a) = m /\ \A i \in Nat : 1 <= i /\ i <= m => a[i] = f[i]
  <2>1. /\ Part(f, 1, m) \in Seq(Digit) /\ Len(Part(f, 1, m)) = m
        /\ \A i \in Nat : 1 <= i /\ i <= m => Part(f, 1, m)[i] = f[i]
    BY <1>2, First
  <2> QED
    BY <1>3, <2>1
<1>7. b \in Seq(Digit) /\ Len(b) = n /\ \A i \in Nat : 1 <= i /\ i <= n => b[i] = f[m + i]
  <2>1. /\ Part(f, m + 1, m + n) \in Seq(Digit) /\ Len(Part(f, m + 1, m + n)) = n
        /\ \A i \in Nat : 1 <= i /\ i <= n => Part(f, m + 1, m + n)[i] = f[m + i]
    BY Behind
  <2> QED
    BY <1>4, <2>1
<1>8. c \in Seq(Digit) /\ Len(c) = e /\ \A i \in Nat : 1 <= i /\ i <= e => c[i] = f[i]
  <2>1. /\ Part(f, 1, e) \in Seq(Digit) /\ Len(Part(f, 1, e)) = e
        /\ \A i \in Nat : 1 <= i /\ i <= e => Part(f, 1, e)[i] = f[i]
    BY <1>2, First
  <2> QED
    BY <1>5, <2>1
<1>9. PICK d : d = Cat(a, b)
  OBVIOUS
<1>10. /\ d \in Seq(Digit) /\ Len(d) = e
       /\ \A i \in Nat : 1 <= i /\ i <= m => d[i] = a[i]
       /\ \A i \in Nat : 1 <= i /\ i <= n => d[m + i] = b[i]
  <2>1. /\ Cat(a, b) \in Seq(Digit) /\ Len(Cat(a, b)) = Len(a) + Len(b)
        /\ \A i \in Nat : 1 <= i /\ i <= Len(a) => Cat(a, b)[i] = a[i]
        /\ \A i \in Nat : 1 <= i /\ i <= Len(b) => Cat(a, b)[Len(a) + i] = b[i]
    BY <1>6, <1>7, Joined
  <2>2. Len(a) = m /\ Len(b) = n /\ m + n = e
    BY <1>1, <1>6, <1>7
  <2> QED
    BY <1>9, <2>1, <2>2
<1>11. ASSUME NEW i \in 1..Len(d)
       PROVE  d[i] = c[i]
  <2>1. i \in Nat /\ 1 <= i /\ i <= e
    BY <1>10
  <2>2. CASE i <= m
    BY <1>6, <1>8, <1>10, <2>1, <2>2
  <2>3. CASE ~(i <= m)
    <3>1. PICK j \in Nat : i = m + j /\ 1 <= j /\ j <= n
      BY <1>1, <2>1, <2>3
    <3>2. d[m + j] = b[j] /\ b[j] = f[m + j]
      BY <1>7, <1>10, <3>1
    <3> QED
      BY <1>8, <2>1, <3>1, <3>2
  <2> QED
    BY <2>2, <2>3
<1>12. d = c
  BY <1>8, <1>10, <1>11, SeqEqual
<1> QED
  BY <1>1, <1>3, <1>4, <1>5, <1>9, <1>12

\* The digits of a header say the same wherever they stand.
LEMMA SameHeader ==
  ASSUME NEW h, NEW f, \A i \in Nat : 1 <= i /\ i <= 28 => h[i] = f[i]
  PROVE  /\ LengthOf(h) = LengthOf(f) /\ Plausible(h) = Plausible(f)
<1>1. /\ h[17] = f[17] /\ h[17 + 1] = f[17 + 1] /\ h[17 + 2] = f[17 + 2] /\ h[17 + 3] = f[17 + 3]
      /\ h[25] = f[25] /\ h[25 + 1] = f[25 + 1] /\ h[27] = f[27] /\ h[27 + 1] = f[27 + 1]
  OBVIOUS
<1>2. UnpackH(h, 17) = UnpackH(f, 17)
  BY <1>1 DEF UnpackH
<1>3. UnpackB(h, 25) = UnpackB(f, 25) /\ UnpackB(h, 27) = UnpackB(f, 27)
  BY <1>1 DEF UnpackB
<1> QED
  BY <1>2, <1>3 DEF LengthOf, IdOf, FlagsOf, Plausible

LEMMA HeaderNumbers ==
  ASSUME NEW h \in Seq(Digit), Len(h) >= 28
  PROVE  LengthOf(h) \in Nat
<1>1. h[17] \in Digit /\ h[17 + 1] \in Digit /\ h[17 + 2] \in Digit /\ h[17 + 3] \in Digit
  <2>1. 17 \in 1..Len(h) /\ 17 + 1 \in 1..Len(h) /\ 17 + 2 \in 1..Len(h) /\ 17 + 3 \in 1..Len(h)
    OBVIOUS
  <2> QED
    BY <2>1, ElementOfSeq
<1>2. \A d \in Digit : d \in Nat
  BY DEF Digit
<1>3. PICK d1 \in Nat, d2 \in Nat, d3 \in Nat, d4 \in Nat :
        d1 = h[17] /\ d2 = h[17 + 1] /\ d3 = h[17 + 2] /\ d4 = h[17 + 3]
  BY <1>1, <1>2
<1>4. LengthOf(h) = 4096 * d1 + 256 * d2 + 16 * d3 + d4
  BY <1>3 DEF LengthOf, UnpackH
<1> QED
  BY <1>4

LEMMA SentFrame ==
  ASSUME SentInv, NEW k \in 1..Len(sent)
  PROVE  /\ sent[k] = <<sent[k][1], sent[k][2]>>
         /\ sent[k][1] \in Nat /\ sent[k][2] \in Seq(Digit) /\ GoodFrame(sent[k][2])
         /\ sent[k][1] + Len(sent[k][2]) <= pos + Len(line)
         /\ IF k = Len(sent) THEN pos + Len(line) = sent[k][1] + Len(sent[k][2])
            ELSE sent[k + 1][1] = sent[k][1] + Len(sent[k][2])
<1>1. sent \in Seq(Nat \X Seq(Digit)) /\ Len(sent) \in Nat
  BY DEF SentInv
<1>2. sent[k] \in Nat \X Seq(Digit)
  BY <1>1
<1>3. GoodFrame(sent[k][2]) /\ sent[k][1] + Len(sent[k][2]) <= pos + Len(line)
  BY DEF SentInv
<1>4. CASE k = Len(sent)
  <2>1. sent # <<>>
    BY <1>1
  <2>2. pos + Len(line) = sent[k][1] + Len(sent[k][2])
    BY <1>4, <2>1 DEF SentInv
  <2> QED
    BY <1>2, <1>3, <1>4, <2>2
<1>5. CASE k # Len(sent)
  <2>1. PICK j : j = k + 1
    OBVIOUS
  <2>2. j \in 1..Len(sent) /\ j # 1 /\ j - 1 = k
    BY <1>1, <1>5, <2>1
  <2>3. sent[j][1] = sent[j - 1][1] + Len(sent[j - 1][2])
    BY <2>2 DEF SentInv
  <2> QED
    BY <1>2, <1>3, <1>5, <2>1, <2>2, <2>3
<1> QED
  BY <1>4, <1>5

\* n digits are taken off the line.
LEMMA Taking ==
  ASSUME SentInv, TypeInv, Under, NEW n \in Nat, n <= Len(line),
         line' = Part(line, n + 1, Len(line)), pos' = pos + n,
         sent' = sent, damaged' = damaged
  PROVE  /\ line' \in Seq(Digit) /\ pos' \in Nat
         /\ pos' + Len(line') = pos + Len(line)
         /\ SentInv' /\ Under'
         /\ Undisturbed' /\ timeouts' = timeouts =>
              Undisturbed /\ Intact(damaged, pos, n)
<1>1. line \in Seq(Digit) /\ pos \in Nat /\ Len(line) \in Nat
  BY DEF TypeInv
<1>2. line' = Part(line, n + 1, Len(line))
  OBVIOUS
<1>3. line' \in Seq(Digit) /\ Len(line') = Len(line) - n
  BY <1>1, <1>2, Shortened
<1>4. pos' \in Nat /\ pos' + Len(line') = pos + Len(line)
  <2>1. pos + n \in Nat /\ (pos + n) + (Len(line) - n) = pos + Len(line)
    BY <1>1
  <2> QED
    BY <1>3, <2>1
<1>5. SentInv'
  BY <1>4 DEF SentInv
<1>6. Under'
  <2> SUFFICES ASSUME NEW k \in 1..Len(sent)
               PROVE  Carries(line', pos', damaged, sent[k][1], sent[k][2])
    BY DEF Under
  <2>1. /\ sent[k][1] \in Nat /\ sent[k][2] \in Seq(Digit)
        /\ sent[k][1] + Len(sent[k][2]) <= pos + Len(line)
    BY SentFrame
  <2>2. Carries(line, pos, damaged, sent[k][1], sent[k][2])
    BY DEF Under
  <2>3. Carries(Part(line, n + 1, Len(line)), pos + n, damaged, sent[k][1], sent[k][2])
    BY <1>1, <2>1, <2>2, Taken
  <2> QED
    BY <1>2, <2>3
<1>7. ASSUME Undisturbed', timeouts' = timeouts
      PROVE  Undisturbed /\ Intact(damaged, pos, n)
  <2>1. timeouts = 0 /\ damaged \cap 1..(pos + n) = {}
    BY <1>7 DEF Undisturbed
  <2>2. \A i \in 1..pos : i \in 1..(pos + n)
    BY <1>1
  <2>3. damaged \cap 1..pos = {}
    BY <2>1, <2>2
  <2>4. \A i \in Nat : 1 <= i /\ i <= n => pos + i \in 1..(pos + n)
    BY <1>1
  <2> QED
    BY <2>1, <2>3, <2>4 DEF Undisturbed, Intact
<1> QED
  BY <1>3, <1>4, <1>5, <1>6, <1>7

-----------------------------------------------------------------------------
(* The steps *)

LEMMA InitInv ==
  ASSUME Init
  PROVE  IInv
<1>1. sent = <<>> /\ line = <<>> /\ pos = 0 /\ returned = <<>> /\ damaged = {} /\ pc = "sync"
      /\ timeouts = 0
  BY DEF Init
<1>2. Len(sent) = 0 /\ Len(line) = 0 /\ Len(returned) = 0
  BY <1>1
<1>3. SentInv
  <2>1. \A k \in 1..Len(sent) : FALSE
    BY <1>2
  <2>2. sent \in Seq(Nat \X Seq(Digit))
    BY <1>1
  <2> QED
    BY <1>1, <1>2, <2>1, <2>2 DEF SentInv
<1>4. TypeInv
  BY <1>1, <1>2, StreamAssumption DEF TypeInv
<1>5. StepInv
  <2>1. \A k \in 1..Len(sent) : FALSE
    BY <1>2
  <2>2. \A k \in 1..Len(returned) : FALSE
    BY <1>2
  <2>3. returned \in Seq(Nat \X Seq(Digit)) /\ Len(returned) <= Len(sent) /\ Due > Len(sent)
    BY <1>1, <1>2 DEF Due
  <2> QED
    BY <1>1, <2>1, <2>2, <2>3 DEF StepInv
<1>6. Under
  <2>1. \A k \in 1..Len(sent) : FALSE
    BY <1>2
  <2> QED
    BY <2>1 DEF Under
<1> QED
  BY <1>3, <1>4, <1>5, <1>6 DEF IInv

\* The frame that is due, while there is one.
LEMMA DueIs ==
  ASSUME SentInv, Due <= Len(sent), returned \in Seq(Nat \X Seq(Digit))
  PROVE  Due \in 1..Len(sent)
<1>1. Len(returned) \in Nat /\ Len(sent) \in Nat
  BY DEF SentInv
<1> QED
  BY <1>1 DEF Due

LEMMA ReadSyncInv ==
  ASSUME IInv, ReadSync
  PROVE  IInv'
<1> USE DEF IInv
<1>1. PICK n \in Nat : n = 16
  OBVIOUS
<1>2. /\ pc = "sync" /\ n <= Len(line)
      /\ line' = Part(line, n + 1, Len(line)) /\ pos' = pos + n
      /\ UNCHANGED <<sent, damaged, timeouts, returned>>
      /\ IF Part(line, 1, n) = SYNC_BYTES THEN pc' = "rest" /\ header' = SYNC_BYTES
         ELSE pc' = "input"
  <2>1. pc = "sync" /\ Wanted = 16
    BY DEF ReadSync, Recv, Wanted
  <2>2. Len(line) >= 16
    BY <2>1 DEF ReadSync, Recv
  <2>3. Len(line) \in Nat
    BY DEF TypeInv
  <2> QED
    BY <1>1, <2>1, <2>2, <2>3 DEF ReadSync, Recv, Take, Read, Part
<1>3. /\ line' \in Seq(Digit) /\ pos' \in Nat /\ pos' + Len(line') = pos + Len(line)
      /\ SentInv' /\ Under'
      /\ Undisturbed' => Undisturbed /\ Intact(damaged, pos, n)
  BY <1>2, Taking
<1>4. TypeInv'
  BY <1>2, <1>3 DEF TypeInv
<1>5. ASSUME Undisturbed'
      PROVE  /\ pc' = "rest" /\ Due <= Len(sent) /\ pos' = sent[Due][1] + 16
             /\ returned \in Seq(Nat \X Seq(Digit)) /\ Len(returned) <= Len(sent)
             /\ \A k \in 1..Len(returned) : returned[k] = sent[k]
  <2>1. /\ returned \in Seq(Nat \X Seq(Digit)) /\ Len(returned) <= Len(sent)
        /\ \A k \in 1..Len(returned) : returned[k] = sent[k]
        /\ IF Due > Len(sent) THEN line = <<>> ELSE pos = sent[Due][1]
    BY <1>2, <1>3, <1>5 DEF StepInv
  <2>2. ~(Due > Len(sent))
    <3>1. line # <<>>
      BY <1>1, <1>2
    <3> QED
      BY <2>1, <3>1
  <2>3. Due <= Len(sent) /\ pos = sent[Due][1]
    <3>1. Len(returned) \in Nat /\ Len(sent) \in Nat
      BY <2>1 DEF SentInv
    <3> QED
      BY <2>1, <2>2, <3>1 DEF Due
  <2>4. Due \in 1..Len(sent)
    BY <2>1, <2>3, DueIs
  <2>5. PICK f : f = sent[Due][2]
    OBVIOUS
  <2>6. f \in Seq(Digit) /\ GoodFrame(f) /\ Carries(line, pos, damaged, pos, f)
    BY <2>1, <2>3, <2>4, <2>5, SentFrame DEF Under
  <2>7. Part(f, 1, n) = SYNC_BYTES /\ 0 + n <= Len(f)
    BY <1>1, <2>6 DEF GoodFrame, Part
  <2>8. Part(line, 1, n) = Part(f, 1, n)
    <3>1. line \in Seq(Digit) /\ pos \in Nat /\ 0 \in Nat /\ pos = pos + 0
      BY DEF TypeInv
    <3>2. Part(line, 1, n) = Part(f, 0 + 1, 0 + n)
      <4>1. Intact(damaged, pos, n)
        BY <1>3, <1>5
      <4>2. n <= Len(line) /\ 0 + n <= Len(f) /\ f \in Seq(Digit) /\ Carries(line, pos, damaged, pos, f)
        BY <1>2, <2>6, <2>7
      <4> QED
        BY <3>1, <4>1, <4>2, ReadOff
    <3>3. 0 + 1 = 1 /\ 0 + n = n
      OBVIOUS
    <3> QED
      BY <3>2, <3>3
  <2> QED
    BY <1>1, <1>2, <1>3, <2>1, <2>3, <2>7, <2>8
<1>6. StepInv'
  BY <1>2, <1>5 DEF StepInv, Due
<1> QED
  BY <1>3, <1>4, <1>6

LEMMA KeyInv ==
  ASSUME IInv, Key
  PROVE  IInv'
<1> USE DEF IInv
<1>1. pc = "input" /\ pc' = "sync" /\ UNCHANGED <<line, pos, sent, damaged, timeouts, header, returned>>
  BY DEF Key
<1>2. SentInv'
  BY <1>1 DEF SentInv
<1>3. TypeInv'
  BY <1>1 DEF TypeInv
<1>4. StepInv'
  <2>1. ~Undisturbed'
    BY <1>1 DEF StepInv, Undisturbed
  <2> QED
    BY <2>1 DEF StepInv
<1>5. Under'
  BY <1>1 DEF Under
<1> QED
  BY <1>2, <1>3, <1>4, <1>5

LEMMA ReadRestInv ==
  ASSUME IInv, ReadRest
  PROVE  IInv'
<1> USE DEF IInv
<1>1. PICK n \in Nat : n = 12
  OBVIOUS
<1>2. PICK m \in Nat : m = 16
  OBVIOUS
<1>3. /\ pc = "rest" /\ n <= Len(line)
      /\ line' = Part(line, n + 1, Len(line)) /\ pos' = pos + n
      /\ UNCHANGED <<sent, damaged, timeouts, returned>>
      /\ header' = Cat(header, Part(line, 1, n))
      /\ pc' = IF Plausible(header') THEN "data" ELSE "sync"
  <2>1. pc = "rest" /\ Wanted = 12
    BY DEF ReadRest, Recv, Wanted
  <2>2. Len(line) >= 12
    BY <2>1 DEF ReadRest, Recv
  <2>3. Len(line) \in Nat
    BY DEF TypeInv
  <2> QED
    BY <1>1, <2>1, <2>2, <2>3 DEF ReadRest, Recv, Take, Read, Part, Cat
<1>4. /\ line' \in Seq(Digit) /\ pos' \in Nat /\ pos' + Len(line') = pos + Len(line)
      /\ SentInv' /\ Under'
      /\ Undisturbed' => Undisturbed /\ Intact(damaged, pos, n)
  BY <1>3, Taking
<1>5. header = SYNC_BYTES /\ header \in Seq(Digit) /\ Len(header) = m
  BY <1>2, <1>3, SyncIs DEF TypeInv
<1>6. header' \in Seq(Digit) /\ Len(header') = 28
  <2>1. Part(line, 1, n) \in Seq(Digit) /\ Len(Part(line, 1, n)) = n
    BY <1>3, First DEF TypeInv
  <2>2. /\ Cat(header, Part(line, 1, n)) \in Seq(Digit)
        /\ Len(Cat(header, Part(line, 1, n))) = Len(header) + Len(Part(line, 1, n))
    BY <1>5, <2>1, Joined
  <2>3. m + n = 28
    BY <1>1, <1>2
  <2> QED
    BY <1>3, <1>5, <2>1, <2>2, <2>3
<1>7. TypeInv'
  <2>1. pc' \in {"data", "sync"} /\ (pc' = "data" => Plausible(header'))
    BY <1>3
  <2> QED
    BY <1>3, <1>4, <1>6, <2>1 DEF TypeInv
<1>8. ASSUME Undisturbed'
      PROVE  /\ pc' = "data" /\ Due <= Len(sent) /\ pos' = sent[Due][1] + 28
             /\ header' = SubSeq(sent[Due][2], 1, 28)
             /\ returned \in Seq(Nat \X Seq(Digit)) /\ Len(returned) <= Len(sent)
             /\ \A k \in 1..Len(returned) : returned[k] = sent[k]
  <2>1. /\ returned \in Seq(Nat \X Seq(Digit)) /\ Len(returned) <= Len(sent)
        /\ \A k \in 1..Len(returned) : returned[k] = sent[k]
        /\ Due <= Len(sent) /\ pos = sent[Due][1] + m
    BY <1>2, <1>3, <1>4, <1>8 DEF StepInv
  <2>2. Due \in 1..Len(sent)
    BY <2>1, DueIs
  <2>3. PICK f : f = sent[Due][2]
    OBVIOUS
  <2>4. PICK q : q = sent[Due][1]
    OBVIOUS
  <2>5. f \in Seq(Digit) /\ q \in Nat /\ GoodFrame(f) /\ Carries(line, pos, damaged, q, f) /\ pos = q + m
    BY <2>1, <2>2, <2>3, <2>4, SentFrame DEF Under
  <2>6. Part(f, 1, m) = SYNC_BYTES /\ m + n <= Len(f) /\ Plausible(f)
    BY <1>1, <1>2, <2>5 DEF GoodFrame, Part
  <2>7. Part(line, 1, n) = Part(f, m + 1, m + n)
    <3>1. line \in Seq(Digit) /\ pos \in Nat
      BY DEF TypeInv
    <3> QED
      <4>1. Intact(damaged, pos, n)
        BY <1>4, <1>8
      <4>2. /\ n <= Len(line) /\ n \in Nat /\ m + n <= Len(f) /\ f \in Seq(Digit) /\ q \in Nat
            /\ pos = q + m /\ Carries(line, pos, damaged, q, f)
        BY <1>3, <2>5, <2>6
      <4>3. line \in Seq(Digit) /\ pos \in Nat
        BY <3>1
      <4> QED
        BY <4>1, <4>2, <4>3, ReadOff
  <2>8. header' = Part(f, 1, m + n)
    <3>1. Cat(Part(f, 1, m), Part(f, m + 1, m + n)) = Part(f, 1, m + n)
      BY <2>5, <2>6, Met
    <3> QED
      BY <1>3, <1>5, <2>6, <2>7, <3>1
  <2>9. Plausible(header')
    <3>1. PICK e \in Nat : e = m + n
      OBVIOUS
    <3>2. \A i \in Nat : 1 <= i /\ i <= e => Part(f, 1, e)[i] = f[i]
      BY <2>5, <2>6, <3>1, First
    <3>3. \A i \in Nat : 1 <= i /\ i <= 28 => header'[i] = f[i]
      BY <1>1, <1>2, <2>8, <3>1, <3>2
    <3> QED
      BY <2>6, <3>3, SameHeader
  <2>10. m + n = 28 /\ (q + m) + n = q + 28
    BY <1>1, <1>2, <2>5
  <2>11. header' = SubSeq(f, 1, 28)
    BY <2>8, <2>10 DEF Part
  <2>12. pos' = q + 28
    BY <1>3, <2>5, <2>10
  <2> QED
    BY <1>3, <1>4, <2>1, <2>3, <2>4, <2>9, <2>11, <2>12
<1>9. StepInv'
  BY <1>3, <1>8 DEF StepInv, Due
<1> QED
  BY <1>4, <1>7, <1>9

LEMMA ReadDataInv ==
  ASSUME IInv, ReadData
  PROVE  IInv'
<1> USE DEF IInv
<1>1. PICK m \in Nat : m = 28
  OBVIOUS
<1>2. PICK n : n = 2 * LengthOf(header)
  OBVIOUS
<1>3. pc = "data" /\ header \in Seq(Digit) /\ Len(header) = 28
  BY DEF ReadData, Recv, TypeInv
<1>4. LengthOf(header) \in Nat /\ n \in Nat
  <2>1. Len(header) >= 28
    BY <1>3
  <2>2. LengthOf(header) \in Nat
    BY <1>3, <2>1, HeaderNumbers
  <2> QED
    BY <1>2, <2>2
<1>5. PICK frame : frame = Cat(header, Part(line, 1, n))
  OBVIOUS
<1>6. /\ n <= Len(line)
      /\ line' = Part(line, n + 1, Len(line)) /\ pos' = pos + n
      /\ UNCHANGED <<sent, damaged, timeouts, header>>
      /\ IF verify_frame_integrity(frame) THEN returned' = Append(returned, <<pos - 28, frame>>)
         ELSE returned' = returned
      /\ pc' = "sync"
  <2>1. Wanted = n
    BY <1>2, <1>3 DEF Wanted
  <2>2. Len(line) >= n /\ Len(line) \in Nat
    BY <2>1 DEF ReadData, Recv, TypeInv
  <2>3. n <= Len(line)
    BY <1>4, <2>2
  <2> QED
    BY <1>5, <2>1, <2>3 DEF ReadData, Recv, Read, Part, Cat
<1>7. /\ line' \in Seq(Digit) /\ pos' \in Nat /\ pos' + Len(line') = pos + Len(line)
      /\ SentInv' /\ Under'
      /\ Undisturbed' => Undisturbed /\ Intact(damaged, pos, n)
  BY <1>4, <1>6, Taking
<1>8. TypeInv'
  BY <1>6, <1>7 DEF TypeInv
<1>9. ASSUME Undisturbed'
      PROVE  /\ returned' \in Seq(Nat \X Seq(Digit)) /\ Len(returned') <= Len(sent)
             /\ \A k \in 1..Len(returned') : returned'[k] = sent[k]
             /\ IF Due' > Len(sent) THEN line' = <<>> ELSE pos' = sent[Due'][1]
  <2>1. /\ returned \in Seq(Nat \X Seq(Digit)) /\ Len(returned) <= Len(sent)
        /\ \A k \in 1..Len(returned) : returned[k] = sent[k]
        /\ Due <= Len(sent) /\ pos = sent[Due][1] + m /\ header = SubSeq(sent[Due][2], 1, m)
    BY <1>1, <1>3, <1>6, <1>7, <1>9 DEF StepInv
  <2>2. Due \in 1..Len(sent)
    BY <2>1, DueIs
  <2>3. PICK f : f = sent[Due][2]
    OBVIOUS
  <2>4. PICK q : q = sent[Due][1]
    OBVIOUS
  <2>5. /\ f \in Seq(Digit) /\ q \in Nat /\ GoodFrame(f) /\ Carries(line, pos, damaged, q, f)
        /\ sent[Due] = <<q, f>> /\ pos = q + m /\ header = Part(f, 1, m)
    BY <2>1, <2>2, <2>3, <2>4, SentFrame DEF Under, Part
  <2>6. LengthOf(header) = LengthOf(f)
    <3>1. m <= Len(f) /\ f \in Seq(Digit)
      BY <1>1, <2>5 DEF GoodFrame
    <3>2. \A i \in Nat : 1 <= i /\ i <= m => Part(f, 1, m)[i] = f[i]
      BY <3>1, First
    <3>3. \A i \in Nat : 1 <= i /\ i <= 28 => header[i] = f[i]
      BY <1>1, <2>5, <3>2
    <3> QED
      BY <3>3, SameHeader
  <2>7. m + n = Len(f)
    BY <1>1, <1>2, <2>5, <2>6 DEF GoodFrame
  <2>8. frame = f
    <3>1. line \in Seq(Digit) /\ pos \in Nat /\ m + n <= Len(f)
      BY <2>5, <2>7 DEF TypeInv
    <3>2. Part(line, 1, n) = Part(f, m + 1, m + n)
      <4>1. Intact(damaged, pos, n)
        BY <1>7, <1>9
      <4>2. /\ n <= Len(line) /\ n \in Nat /\ m + n <= Len(f) /\ f \in Seq(Digit) /\ q \in Nat
            /\ pos = q + m /\ Carries(line, pos, damaged, q, f)
        BY <1>4, <1>6, <2>5, <3>1
      <4>3. line \in Seq(Digit) /\ pos \in Nat
        BY <3>1
      <4> QED
        BY <4>1, <4>2, <4>3, ReadOff
    <3>3. Cat(Part(f, 1, m), Part(f, m + 1, m + n)) = Part(f, 1, m + n)
      BY <1>4, <2>5, <3>1, Met
    <3>4. frame = Part(f, 1, Len(f))
      BY <1>5, <2>5, <2>7, <3>2, <3>3
    <3>5. Part(f, 1, Len(f)) = f
      BY <2>5, Begins
    <3> QED
      BY <3>4, <3>5
  <2>9. returned' = Append(returned, sent[Due])
    <3>1. pos - 28 = q
      BY <1>1, <2>5
    <3>2. verify_frame_integrity(frame)
      BY <2>5, <2>8 DEF GoodFrame
    <3> QED
      BY <1>6, <2>5, <2>8, <3>1, <3>2
  <2>10. sent[Due] \in Nat \X Seq(Digit)
    BY <2>5
  <2>11. PICK l \in Nat : l = Len(returned)
    <3>1. returned \in Seq(Nat \X Seq(Digit))
      BY <2>1
    <3>2. Len(returned) \in Nat
      BY <3>1
    <3> QED
      BY <3>2
  <2>12. Due = l + 1 /\ Due \in Nat
    BY <2>11 DEF Due
  <2>13. /\ returned' \in Seq(Nat \X Seq(Digit)) /\ Len(returned') = l + 1
         /\ \A k \in 1..l : returned'[k] = returned[k]
         /\ returned'[l + 1] = sent[Due]
    BY <2>1, <2>9, <2>10, <2>11, AppendProperties
  <2>14. \A k \in 1..Len(returned') : returned'[k] = sent[k]
    <3> SUFFICES ASSUME NEW k \in 1..(l + 1)
                 PROVE  returned'[k] = sent[k]
      BY <2>13
    <3>1. CASE k = l + 1
      BY <2>12, <2>13, <3>1
    <3>2. CASE k # l + 1
      <4>1. k \in 1..l
        BY <3>2
      <4> QED
        BY <2>1, <2>11, <2>13, <4>1
    <3> QED
      BY <3>1, <3>2
  <2>15. pos' = q + Len(f)
    <3>1. (q + m) + n = q + (m + n)
      BY <1>4, <2>5
    <3> QED
      BY <1>6, <2>5, <2>7, <3>1
  <2>16. IF Due' > Len(sent) THEN line' = <<>> ELSE pos' = sent[Due'][1]
    <3>1. Due' = Due + 1 /\ Len(sent) \in Nat
      BY <2>12, <2>13 DEF Due, SentInv
    <3>2. CASE Due = Len(sent)
      <4>1. pos + Len(line) = q + Len(f)
        BY <2>2, <2>3, <2>4, <3>2, SentFrame
      <4>2. Len(line') = 0
        BY <1>7, <2>15, <4>1
      <4>3. line' = <<>>
        BY <1>7, <4>2
      <4> QED
        BY <2>12, <3>1, <3>2, <4>3
    <3>3. CASE Due # Len(sent)
      <4>1. sent[Due + 1][1] = q + Len(f)
        BY <2>2, <2>3, <2>4, <3>3, SentFrame
      <4>2. ~(Due + 1 > Len(sent))
        BY <2>2, <3>1, <3>3
      <4> QED
        BY <2>15, <3>1, <4>1, <4>2
    <3> QED
      BY <3>2, <3>3
  <2> QED
    BY <1>7, <2>1, <2>2, <2>12, <2>13, <2>14, <2>16
<1>10. StepInv'
  BY <1>6, <1>9 DEF StepInv, Due
<1> QED
  BY <1>7, <1>8, <1>10

LEMMA SendInv ==
  ASSUME IInv, Send
  PROVE  IInv'
<1> USE DEF IInv
<1>1. PICK frame :
        /\ GoodFrame(frame) /\ line' = Cat(line, frame)
        /\ sent' = Append(sent, <<pos + Len(line), frame>>)
        /\ UNCHANGED <<pos, damaged, timeouts, pc, header, returned>>
  <2>1. PICK f \in {CreateFrame(i) : i \in {Len(sent) - Acks} \cap 0..MaxFrames}
                     \cup {Frame(id, ACK, <<>>) : id \in {n \in 0..1 : Acks < MaxAcks}} :
          sent' = Append(sent, <<pos + Len(line), f>>) /\ line' = line \o f
    BY DEF Send
  <2>2. GoodFrame(f)
    BY FramesAreGood
  <2>3. UNCHANGED <<pos, damaged, timeouts, pc, header, returned>>
    BY DEF Send
  <2> QED
    BY <2>1, <2>2, <2>3 DEF Cat
<1>2. PICK e : e = <<pos + Len(line), frame>>
  OBVIOUS
<1>3. /\ line \in Seq(Digit) /\ pos \in Nat /\ Len(line) \in Nat
      /\ frame \in Seq(Digit) /\ Len(frame) \in Nat
  BY <1>1 DEF TypeInv, GoodFrame
<1>4. e \in Nat \X Seq(Digit) /\ e[1] = pos + Len(line) /\ e[2] = frame
  BY <1>2, <1>3
<1>5. PICK l \in Nat : l = Len(sent)
  BY DEF SentInv
<1>6. /\ sent' \in Seq(Nat \X Seq(Digit)) /\ Len(sent') = l + 1
      /\ \A k \in 1..l : sent'[k] = sent[k]
      /\ sent'[l + 1] = e
  <2>1. sent \in Seq(Nat \X Seq(Digit)) /\ sent' = Append(sent, e)
    BY <1>1, <1>2 DEF SentInv
  <2> QED
    BY <1>4, <1>5, <2>1, AppendProperties
<1>7. line' \in Seq(Digit) /\ Len(line') = Len(line) + Len(frame)
  BY <1>1, <1>3, Joined
<1>8. pos' = pos /\ pos' + Len(line') = (pos + Len(line)) + Len(frame)
  BY <1>1, <1>3, <1>7
<1>9. SentInv'
  <2>1. ASSUME NEW k \in 1..l
        PROVE  /\ GoodFrame(sent'[k][2])
               /\ sent'[k][1] = IF k = 1 THEN 0 ELSE sent'[k - 1][1] + Len(sent'[k - 1][2])
               /\ sent'[k][1] + Len(sent'[k][2]) <= pos' + Len(line')
    <3>1. k \in 1..Len(sent) /\ sent'[k] = sent[k]
      BY <1>5, <1>6
    <3>2. /\ GoodFrame(sent[k][2])
          /\ sent[k][1] = IF k = 1 THEN 0 ELSE sent[k - 1][1] + Len(sent[k - 1][2])
      BY <3>1 DEF SentInv
    <3>3. ASSUME k # 1
          PROVE  sent'[k - 1] = sent[k - 1]
      <4>1. k - 1 \in 1..l
        BY <3>3
      <4> QED
        BY <1>6, <4>1
    <3>4. /\ sent[k][1] \in Nat /\ Len(sent[k][2]) \in Nat
          /\ sent[k][1] + Len(sent[k][2]) <= pos + Len(line)
      <4>1. /\ sent[k][1] \in Nat /\ sent[k][2] \in Seq(Digit)
            /\ sent[k][1] + Len(sent[k][2]) <= pos + Len(line)
        BY <3>1, SentFrame
      <4> QED
        BY <4>1
    <3>5. sent[k][1] + Len(sent[k][2]) <= pos' + Len(line')
      BY <1>3, <1>8, <3>4
    <3> QED
      BY <3>1, <3>2, <3>3, <3>5
  <2>2. sent'[l + 1][1] = IF l + 1 = 1 THEN 0 ELSE sent'[l + 1 - 1][1] + Len(sent'[l + 1 - 1][2])
    <3>1. CASE l = 0
      <4>1. sent = <<>>
        <5>1. sent \in Seq(Nat \X Seq(Digit)) /\ Len(sent) = 0
          BY <1>5, <3>1 DEF SentInv
        <5> QED
          BY <5>1
      <4>2. pos + Len(line) = 0
        BY <4>1 DEF SentInv
      <4> QED
        BY <1>4, <1>6, <3>1, <4>2
    <3>2. CASE l # 0
      <4>1. l \in 1..Len(sent) /\ l + 1 - 1 = l /\ l + 1 # 1 /\ sent # <<>>
        BY <1>5, <3>2
      <4>2. pos + Len(line) = sent[l][1] + Len(sent[l][2])
        BY <1>5, <4>1, SentFrame
      <4>3. sent'[l] = sent[l]
        BY <1>5, <1>6, <4>1
      <4> QED
        BY <1>4, <1>6, <4>1, <4>2, <4>3
    <3> QED
      BY <3>1, <3>2
  <2>3. /\ GoodFrame(sent'[l + 1][2])
        /\ sent'[l + 1][1] + Len(sent'[l + 1][2]) = pos' + Len(line')
    BY <1>1, <1>4, <1>6, <1>8
  <2>4. pos' + Len(line') \in Nat
    BY <1>3, <1>8
  <2>5. \A k \in 1..Len(sent') :
          /\ GoodFrame(sent'[k][2])
          /\ sent'[k][1] = IF k = 1 THEN 0 ELSE sent'[k - 1][1] + Len(sent'[k - 1][2])
          /\ sent'[k][1] + Len(sent'[k][2]) <= pos' + Len(line')
    <3> SUFFICES ASSUME NEW k \in 1..(l + 1)
                 PROVE  /\ GoodFrame(sent'[k][2])
                        /\ sent'[k][1] = IF k = 1 THEN 0 ELSE sent'[k - 1][1] + Len(sent'[k - 1][2])
                        /\ sent'[k][1] + Len(sent'[k][2]) <= pos' + Len(line')
      BY <1>6
    <3>1. CASE k = l + 1
      <4>1. sent'[k][1] = IF k = 1 THEN 0 ELSE sent'[k - 1][1] + Len(sent'[k - 1][2])
        BY <2>2, <3>1
      <4>2. sent'[k][1] + Len(sent'[k][2]) = pos' + Len(line')
        BY <2>3, <3>1
      <4>3. sent'[k][1] + Len(sent'[k][2]) <= pos' + Len(line')
        BY <2>4, <4>2
      <4> QED
        BY <2>3, <3>1, <4>1, <4>3
    <3>2. CASE k # l + 1
      <4>1. k \in 1..l
        BY <3>2
      <4> QED
        BY <2>1, <4>1
    <3> QED
      BY <3>1, <3>2
  <2>6. sent' # <<>>
    BY <1>6
  <2> QED
    BY <1>6, <2>3, <2>5, <2>6 DEF SentInv
<1>10. TypeInv'
  <2>1. damaged' \subseteq 1..(pos' + Len(line'))
    <3>1. damaged \subseteq 1..(pos + Len(line))
      BY DEF TypeInv
    <3>2. \A i \in 1..(pos + Len(line)) : i \in 1..((pos + Len(line)) + Len(frame))
      BY <1>3
    <3> QED
      BY <1>1, <1>8, <3>1, <3>2
  <2> QED
    BY <1>1, <1>3, <1>7, <2>1 DEF TypeInv
<1>11. Under'
  <2> SUFFICES ASSUME NEW k \in 1..Len(sent')
               PROVE  Carries(line', pos, damaged, sent'[k][1], sent'[k][2])
    BY <1>1 DEF Under
  <2>1. CASE k = l + 1
    <3>1. Carries(Cat(line, frame), pos, damaged, pos + Len(line), frame)
      BY <1>3, Added
    <3> QED
      BY <1>1, <1>4, <1>6, <2>1, <3>1
  <2>2. CASE k # l + 1
    <3>1. k \in 1..l /\ k \in 1..Len(sent)
      BY <1>5, <1>6, <2>2
    <3>2. /\ sent[k][1] \in Nat /\ sent[k][2] \in Seq(Digit)
          /\ sent[k][1] + Len(sent[k][2]) <= pos + Len(line)
      BY <3>1, SentFrame
    <3>3. Carries(line, pos, damaged, sent[k][1], sent[k][2])
      BY <3>1 DEF Under
    <3>4. Carries(Cat(line, frame), pos, damaged, sent[k][1], sent[k][2])
      BY <1>3, <3>2, <3>3, Extended
    <3> QED
      BY <1>1, <1>6, <3>1, <3>4
  <2> QED
    BY <2>1, <2>2
<1>12. ASSUME Undisturbed'
       PROVE  /\ returned \in Seq(Nat \X Seq(Digit)) /\ Len(returned) <= Len(sent')
              /\ \A k \in 1..Len(returned) : returned[k] = sent'[k]
              /\ pc # "input"
              /\ pc = "sync" => IF Due > Len(sent') THEN line' = <<>> ELSE pos' = sent'[Due][1]
              /\ pc = "rest" => Due <= Len(sent') /\ pos' = sent'[Due][1] + 16
              /\ pc = "data" => /\ Due <= Len(sent') /\ pos' = sent'[Due][1] + 28
                                /\ header = SubSeq(sent'[Due][2], 1, 28)
  <2>1. /\ returned \in Seq(Nat \X Seq(Digit)) /\ Len(returned) <= l
        /\ \A k \in 1..Len(returned) : returned[k] = sent[k]
        /\ pc # "input"
        /\ pc = "sync" => IF Due > l THEN line = <<>> ELSE pos = sent[Due][1]
        /\ pc = "rest" => Due <= l /\ pos = sent[Due][1] + 16
        /\ pc = "data" => /\ Due <= l /\ pos = sent[Due][1] + 28
                          /\ header = SubSeq(sent[Due][2], 1, 28)
    BY <1>1, <1>5, <1>12 DEF StepInv, Undisturbed
  <2>2. PICK d \in Nat : d = Due /\ d > 0 /\ Len(returned) \in Nat /\ d = Len(returned) + 1
    <3>1. Len(returned) \in Nat
      BY <2>1
    <3> QED
      BY <3>1 DEF Due
  <2>3. d <= l => sent'[d] = sent[d]
    BY <1>6, <2>2
  <2>5. Len(returned) <= Len(sent')
    BY <1>6, <2>1, <2>2
  <2>6. \A k \in 1..Len(returned) : returned[k] = sent'[k]
    <3> TAKE k \in 1..Len(returned)
    <3>1. k \in 1..l
      BY <2>1, <2>2
    <3> QED
      BY <1>6, <2>1, <3>1
  <2>7. pc = "sync" => IF d > l + 1 THEN line' = <<>> ELSE pos = sent'[d][1]
    <3>1. CASE d <= l
      <4>1. ~(d > l) /\ ~(d > l + 1)
        BY <3>1
      <4> QED
        BY <2>1, <2>2, <2>3, <3>1, <4>1
    <3>2. CASE ~(d <= l)
      <4>1. d = l + 1 /\ d > l /\ ~(d > l + 1)
        BY <2>1, <2>2, <3>2
      <4>2. pc = "sync" => line = <<>>
        BY <2>1, <2>2, <4>1
      <4>3. pc = "sync" => pos + Len(line) = pos
        BY <1>3, <4>2
      <4> QED
        BY <1>4, <1>6, <4>1, <4>3
    <3> QED
      BY <3>1, <3>2
  <2>8. d <= l => d <= l + 1
    OBVIOUS
  <2> QED
    BY <1>6, <1>8, <2>1, <2>2, <2>3, <2>5, <2>6, <2>7, <2>8
<1>13. StepInv'
  BY <1>1, <1>12 DEF StepInv, Due
<1> QED
  BY <1>9, <1>10, <1>13, <1>11

\* The faults are counted.
LEMMA FaultsAre ==
  ASSUME TypeInv
  PROVE  Cardinality(damaged) \in Nat /\ timeouts \in Nat
<1>1. pos + Len(line) \in Nat /\ damaged \subseteq 1..(pos + Len(line)) /\ timeouts \in 0..MaxFaults
  BY DEF TypeInv
<1>2. IsFiniteSet(1..(pos + Len(line)))
  BY <1>1, FS_Interval
<1>3. IsFiniteSet(damaged)
  BY <1>1, <1>2, FS_Subset
<1> QED
  BY <1>1, <1>3, FS_CardinalityType, StreamAssumption

LEMMA PlaceOnLine ==
  ASSUME NEW q \in Nat, NEW j \in Nat, NEW m \in Nat, NEW p \in Nat, NEW l \in Nat,
         j <= m, q + j > p, q + m <= p + l
  PROVE  q + j - p \in 1..l /\ p + (q + j - p) = q + j
OBVIOUS

LEMMA DamageInv ==
  ASSUME IInv, Damage
  PROVE  IInv'
<1> USE DEF IInv
<1>1. PICK i \in 1..Len(line) :
        /\ \E d \in Noise \ {line[i]} : line' = [line EXCEPT ![i] = d]
        /\ damaged' = damaged \cup {pos + i}
  BY DEF Damage
<1>2. PICK d \in Noise : line' = [line EXCEPT ![i] = d]
  BY <1>1
<1>3. UNCHANGED <<pos, sent, timeouts, pc, header, returned>>
  BY DEF Damage
<1>4. line \in Seq(Digit) /\ Len(line) \in Nat /\ pos \in Nat
  BY DEF TypeInv
<1>5. line' \in Seq(Digit) /\ Len(line') = Len(line)
  <2>1. d \in Digit
    BY StreamAssumption
  <2> QED
    BY <1>2, <1>4, <2>1
<1>6. pos' + Len(line') = pos + Len(line)
  BY <1>3, <1>5
<1>7. SentInv'
  BY <1>3, <1>6 DEF SentInv
<1>8. TypeInv'
  <2>1. pos + i \in 1..(pos + Len(line))
    BY <1>4
  <2>2. damaged' \subseteq 1..(pos' + Len(line'))
    BY <1>1, <1>6, <2>1 DEF TypeInv
  <2> QED
    BY <1>3, <1>5, <2>2 DEF TypeInv
<1>9. Under'
  <2> SUFFICES ASSUME NEW k \in 1..Len(sent),
                      NEW j \in Nat, 1 <= j, j <= Len(sent[k][2]), sent[k][1] + j > pos,
                      sent[k][1] + j \notin damaged'
               PROVE  line'[sent[k][1] + j - pos] = sent[k][2][j]
    BY <1>3 DEF Under, Carries
  <2>1. /\ sent[k][1] \in Nat /\ Len(sent[k][2]) \in Nat
        /\ sent[k][1] + Len(sent[k][2]) <= pos + Len(line)
    <3>1. /\ sent[k][1] \in Nat /\ sent[k][2] \in Seq(Digit)
          /\ sent[k][1] + Len(sent[k][2]) <= pos + Len(line)
      BY SentFrame
    <3> QED
      BY <3>1
  <2>2. PICK x : x = sent[k][1] + j - pos
    OBVIOUS
  <2>3. x \in 1..Len(line) /\ pos + x = sent[k][1] + j
    <3>1. PICK q \in Nat : q = sent[k][1]
      BY <2>1
    <3>2. PICK m \in Nat : m = Len(sent[k][2])
      BY <2>1
    <3>3. PICK l \in Nat : l = Len(line)
      BY <1>4
    <3>4. pos \in Nat /\ j \in Nat /\ j <= m /\ q + j > pos /\ q + m <= pos + l
      BY <1>4, <2>1, <3>1, <3>2, <3>3
    <3>5. q + j - pos \in 1..l /\ pos + (q + j - pos) = q + j
      BY <3>4, PlaceOnLine
    <3> QED
      BY <2>2, <3>1, <3>3, <3>5
  <2>4. x # i /\ sent[k][1] + j \notin damaged
    BY <1>1, <2>3
  <2>5. line[x] = sent[k][2][j]
    BY <2>2, <2>4 DEF Under, Carries
  <2>6. line'[x] = line[x]
    BY <1>2, <1>4, <2>3, <2>4
  <2> QED
    BY <2>2, <2>5, <2>6
<1>10. ASSUME Undisturbed'
       PROVE  Undisturbed
  BY <1>1, <1>3, <1>10 DEF Undisturbed
<1>11. line # <<>>
  BY <1>4
<1>12. StepInv'
  BY <1>3, <1>10, <1>11 DEF StepInv, Due
<1> QED
  BY <1>7, <1>8, <1>9, <1>12

LEMMA TimeoutInv ==
  ASSUME IInv, Timeout
  PROVE  IInv'
<1> USE DEF IInv
<1>1. PICK n \in 0..Len(line) : line' = SubSeq(line, n + 1, Len(line)) /\ pos' = pos + n
  BY DEF Timeout
<1>2. n \in Nat /\ n <= Len(line) /\ line' = Part(line, n + 1, Len(line))
  <2>1. Len(line) \in Nat
    BY DEF TypeInv
  <2> QED
    BY <1>1, <2>1 DEF Part
<1>3. UNCHANGED <<sent, damaged>> /\ timeouts' = timeouts + 1 /\ pc' = "sync" /\ Faults < MaxFaults
  BY DEF Timeout
<1>4. /\ line' \in Seq(Digit) /\ pos' \in Nat /\ pos' + Len(line') = pos + Len(line)
      /\ SentInv' /\ Under'
  BY <1>1, <1>2, <1>3, Taking
<1>5. timeouts \in Nat /\ timeouts' \in 0..MaxFaults
  <2>1. /\ Cardinality(damaged) \in Nat /\ timeouts \in Nat /\ MaxFaults \in Nat
        /\ Cardinality(damaged) + timeouts < MaxFaults
    BY <1>3, FaultsAre, StreamAssumption DEF Faults
  <2> QED
    BY <1>3, <2>1
<1>6. TypeInv'
  BY <1>3, <1>4, <1>5 DEF TypeInv
<1>7. StepInv'
  <2>1. timeouts' # 0
    BY <1>3, <1>5
  <2> QED
    BY <2>1 DEF StepInv, Undisturbed
<1> QED
  BY <1>4, <1>6, <1>7

LEMMA StutterInv ==
  ASSUME IInv, UNCHANGED vars
  PROVE  IInv'
BY DEF IInv, SentInv, TypeInv, Under, StepInv, Undisturbed, Due, vars

\* IInv holds in every state: the reader's place, what is under way and what was sent agree,
\* after any sends, reads, damaged digits and timeouts.
THEOREM Inductive == Spec => []IInv
<1>1. Init => IInv
  BY InitInv
<1>2. IInv /\ [Next]_vars => IInv'
  BY SendInv, DamageInv, ReadSyncInv, KeyInv, ReadRestInv, ReadDataInv, TimeoutInv, StutterInv
     DEF Next
<1> QED
  BY <1>1, <1>2, PTL DEF Spec

\* The digits under way are those sent and not taken, and the reader waits for a payload
\* only with a header that can be that of a frame.
THEOREM TypeCorrect == Spec => []TypeOK
<1>1. IInv => TypeOK
  <2> SUFFICES ASSUME IInv PROVE TypeOK
    OBVIOUS
  <2>1. SentInv /\ TypeInv
    BY DEF IInv
  <2>2. sent # <<>> => pos + Len(line) = Last(sent)[1] + Len(Last(sent)[2])
    BY <2>1 DEF SentInv, Last
  <2>3. ASSUME pc = "data"
        PROVE  <<LengthOf(header) > 0, FlagsOf(header)>>
                 \in {<<TRUE, 0>>, <<FALSE, END>>, <<FALSE, ACK>>}
    <3>1. header \in Seq(Digit) /\ Len(header) >= 28 /\ Plausible(header)
      <4>1. header \in Seq(Digit) /\ Len(header) = 28 /\ Plausible(header)
        BY <2>1, <2>3 DEF TypeInv
      <4> QED
        BY <4>1
    <3>2. LengthOf(header) \in Nat
      BY <3>1, HeaderNumbers
    <3>3. FlagsOf(header) \in {0, END, ACK} /\ (LengthOf(header) = 0 <=> FlagsOf(header) # 0)
      BY <3>1 DEF Plausible
    <3>4. (LengthOf(header) > 0) = (FlagsOf(header) = 0)
      BY <3>2, <3>3
    <3> QED
      BY <3>3, <3>4 DEF END, ACK
  <2> QED
    BY <2>1, <2>2, <2>3 DEF TypeInv, TypeOK
<1> QED
  BY <1>1, Inductive, PTL

\* As long as no digit read was damaged and no read was late, search_frame returns every
\* frame sent, END and ACKs included, each once and in order, never stops at its input(), and
\* begins each search at the beginning of a frame, whatever is damaged further on.
THEOREM KeepsInStep == Spec => []InStep
<1>1. IInv => InStep
  <2> SUFFICES ASSUME IInv, timeouts = 0, damaged \cap 1..pos = {}
               PROVE  /\ pc # "input"
                      /\ IsPrefix(returned, sent)
                      /\ pc = "sync" => IF returned = sent THEN line = <<>>
                                        ELSE pos = sent[Len(returned) + 1][1]
    BY DEF InStep
  <2>1. SentInv /\ StepInv /\ Undisturbed
    BY DEF IInv, Undisturbed
  <2>2. /\ returned \in Seq(Nat \X Seq(Digit)) /\ Len(returned) <= Len(sent)
        /\ \A k \in 1..Len(returned) : returned[k] = sent[k]
        /\ pc # "input"
        /\ pc = "sync" => IF Due > Len(sent) THEN line = <<>> ELSE pos = sent[Due][1]
    BY <2>1 DEF StepInv
  <2>3. sent \in Seq(Nat \X Seq(Digit)) /\ Len(sent) \in Nat /\ Len(returned) \in Nat
    BY <2>1, <2>2 DEF SentInv
  <2>4. IsPrefix(returned, sent)
    <3>1. PICK n \in Nat : n = Len(returned) /\ n <= Len(sent)
      BY <2>2, <2>3
    <3>2. PICK a : a = SubSeq(returned, 1, n)
      OBVIOUS
    <3>3. PICK b : b = SubSeq(sent, 1, n)
      OBVIOUS
    <3>4. /\ a \in Seq(Nat \X Seq(Digit)) /\ Len(a) = n
          /\ \A i \in 1..n : a[i] = returned[i]
      BY <2>2, <3>1, <3>2
    <3>5. /\ b \in Seq(Nat \X Seq(Digit)) /\ Len(b) = n
          /\ \A i \in 1..n : b[i] = sent[i]
      BY <2>3, <3>1, <3>3
    <3>6. \A i \in 1..Len(a) : a[i] = b[i]
      BY <2>2, <3>1, <3>4, <3>5
    <3>7. a = b
      BY <3>4, <3>5, <3>6, SeqEqual
    <3> QED
      BY <3>1, <3>2, <3>3, <3>7 DEF IsPrefix
  <2>5. returned = sent <=> Due > Len(sent)
    <3>1. CASE Len(returned) = Len(sent)
      <4>1. returned = sent
        BY <2>2, <2>3, <3>1, SeqEqual
      <4> QED
        BY <2>3, <3>1, <4>1 DEF Due
    <3>2. CASE Len(returned) # Len(sent)
      BY <2>2, <2>3, <3>2 DEF Due
    <3> QED
      BY <3>1, <3>2
  <2> QED
    BY <2>2, <2>4, <2>5 DEF Due
<1> QED
  BY <1>1, Inductive, PTL

\* When the frame that a payload completes differs in one digit from a frame that was sent,
\* whichever digit of its header, checksum or payload it is, search_frame returns nothing.
THEOREM OneDigitIsRefused == Spec => OneDigitRefused
<1> DEFINE Refused ==
      \A k \in DOMAIN sent :
        LET f == sent[k][2]
            frame == header \o Read
        IN  /\ pc = "data" /\ Len(line) >= Wanted /\ Len(frame) = Len(f)
            /\ \E i \in DOMAIN f : frame[i] # f[i] /\ frame = [f EXCEPT ![i] = frame[i]]
            => returned' = returned
<1>1. ASSUME IInv, [Next]_vars
      PROVE  Refused
  <2> SUFFICES ASSUME NEW k \in DOMAIN sent, pc = "data", Len(line) >= Wanted,
                      NEW i \in DOMAIN sent[k][2],
                      (header \o Read)[i] # sent[k][2][i],
                      header \o Read = [sent[k][2] EXCEPT ![i] = (header \o Read)[i]]
               PROVE  returned' = returned
    OBVIOUS
  <2>1. CASE ReadData
    <3>1. PICK f : f = sent[k][2]
      OBVIOUS
    <3>2. PICK frame : frame = header \o Read
      OBVIOUS
    <3>3. k \in 1..Len(sent)
      <4>1. sent \in Seq(Nat \X Seq(Digit))
        BY <1>1 DEF IInv, SentInv
      <4> QED
        BY <4>1
    <3>4. f \in Seq(Digit) /\ GoodFrame(f)
      BY <1>1, <3>1, <3>3, SentFrame DEF IInv
    <3>5. i \in 1..Len(f)
      BY <3>1, <3>4
    <3>6. frame \in Seq(Digit)
      <4>1. header \in Seq(Digit) /\ Len(header) = 28 /\ line \in Seq(Digit)
        BY <1>1 DEF IInv, TypeInv
      <4>2. Len(header) >= 28
        BY <4>1
      <4>3. LengthOf(header) \in Nat
        BY <4>1, <4>2, HeaderNumbers
      <4>4. PICK n \in Nat : n = Wanted /\ n <= Len(line)
        <5>1. Wanted = 2 * LengthOf(header)
          BY DEF Wanted
        <5>2. Wanted \in Nat /\ Len(line) \in Nat
          BY <4>1, <4>3, <5>1
        <5> QED
          BY <5>2
      <4>5. Read = Part(line, 1, n)
        BY <4>4 DEF Read, Part
      <4>6. Read \in Seq(Digit)
        BY <4>1, <4>4, <4>5, First
      <4> QED
        BY <3>2, <4>1, <4>6
    <3>7. PICK d \in Digit \ {f[i]} : frame = [f EXCEPT ![i] = d]
      <4>1. frame[i] # f[i] /\ frame = [f EXCEPT ![i] = frame[i]]
        BY <3>1, <3>2
      <4>2. i \in 1..Len(frame)
        <5>1. DOMAIN frame = DOMAIN f
          BY <4>1
        <5> QED
          BY <3>4, <3>5, <3>6, <5>1
      <4>3. frame[i] \in Digit
        BY <3>6, <4>2
      <4> QED
        BY <4>1, <4>3
    <3>8. Len(f) % 2 = 0 /\ verify_frame_integrity(f)
      BY <3>4 DEF GoodFrame
    <3>9. ~verify_frame_integrity(frame)
      BY <3>4, <3>5, <3>7, <3>8, OneDigitNoticed
    <3> QED
      BY <2>1, <3>2, <3>9 DEF ReadData
  <2>2. CASE ~ReadData
    BY <1>1, <2>2 DEF Next, Send, Damage, ReadSync, Key, ReadRest, Timeout, vars
  <2> QED
    BY <2>1, <2>2
<1>2. Spec => [][Refused]_vars
  BY <1>1, Inductive, PTL DEF Spec
<1> QED
  BY <1>2 DEF OneDigitRefused

-----------------------------------------------------------------------------
(* Damage to checksums and payloads *)

\* No digit read that a reader finds its way by was damaged, and no read was late.
Sound == timeouts = 0 /\ damaged \cap Vital \cap 1..pos = {}

\* The search under way began at b, where the frame number next begins, and has read that
\* frame's header but for what is damaged of it.
Search(b, next) ==
  /\ IF next > Len(sent) THEN pc = "sync" /\ line = <<>> ELSE b = sent[next][1]
  /\ pos = b + (IF pc = "rest" THEN 16 ELSE IF pc = "data" THEN 28 ELSE 0)
  /\ pc = "data" => \A i \in 1..28 : b + i \notin damaged => header[i] = sent[next][2][i]

\* What was returned so far: the frames before that one that were not damaged, in order.
Passed(b, next) ==
  /\ returned \in Seq(Nat \X Seq(Digit))
  /\ \A k \in 1..(next - 1) : Whole(k) => \E i \in 1..Len(returned) : returned[i] = sent[k]
  /\ \A i \in 1..Len(returned) : returned[i][1] < b
  /\ \A i, j \in 1..Len(returned) : i < j => returned[i][1] < returned[j][1]

AlignInv ==
  Sound =>
    /\ pc # "input"
    /\ \E next \in 1..(Len(sent) + 1), b \in 0..pos : Search(b, next) /\ Passed(b, next)

LEMMA PlaceInHeader ==
  ASSUME NEW i \in (1..20) \cup (25..28)
  PROVE  i \in Nat /\ 1 <= i /\ i <= 28 /\ i \in 1..28
OBVIOUS

LEMMA Unharmed ==
  ASSUME SentInv, NEW p \in Nat, damaged \cap Vital \cap 1..p = {},
         NEW k \in 1..Len(sent), NEW i \in (1..20) \cup (25..28), sent[k][1] + i <= p
  PROVE  sent[k][1] + i \notin damaged
<1>1. sent[k][1] \in Nat
  BY SentFrame
<1>2. sent[k][1] + i \in 1..p
  <2>1. i \in Nat /\ 1 <= i
    BY PlaceInHeader
  <2> QED
    BY <1>1, <2>1
<1>3. k \in DOMAIN sent
  BY DEF SentInv
<1>4. sent[k][1] + i \in Vital
  <2>1. PICK v : v = {sent[k][1] + j : j \in (1..20) \cup (25..28)}
    OBVIOUS
  <2>2. v \in {{sent[m][1] + j : j \in (1..20) \cup (25..28)} : m \in DOMAIN sent}
    BY <1>3, <2>1
  <2>3. sent[k][1] + i \in v
    BY <2>1
  <2> QED
    BY <2>2, <2>3 DEF Vital
<1> QED
  BY <1>2, <1>4

\* What disturbs a reader is not undone by reading on.
LEMMA SoundBefore ==
  ASSUME TypeInv, NEW n \in Nat, pos' = pos + n, UNCHANGED <<sent, damaged, timeouts>>, Sound'
  PROVE  /\ Sound /\ damaged \cap Vital \cap 1..(pos + n) = {}
         /\ \A k : Whole(k)' = Whole(k)
<1>1. Vital' = Vital
  BY DEF Vital
<1>2. timeouts = 0 /\ damaged \cap Vital \cap 1..(pos + n) = {}
  BY <1>1 DEF Sound
<1>3. \A i \in 1..pos : i \in 1..(pos + n)
  BY DEF TypeInv
<1>4. \A k : Whole(k)' = Whole(k)
  BY DEF Whole
<1> QED
  BY <1>2, <1>3, <1>4 DEF Sound

\* The header of a frame of which only the checksum may be damaged.
LEMMA SameButChecksum ==
  ASSUME NEW h, NEW f, \A i \in (1..20) \cup (25..28) : h[i] = f[i]
  PROVE  LengthOf(h) = LengthOf(f) /\ Plausible(h) = Plausible(f)
<1>1. /\ h[17] = f[17] /\ h[17 + 1] = f[17 + 1] /\ h[17 + 2] = f[17 + 2] /\ h[17 + 3] = f[17 + 3]
      /\ h[25] = f[25] /\ h[25 + 1] = f[25 + 1] /\ h[27] = f[27] /\ h[27 + 1] = f[27 + 1]
  OBVIOUS
<1>2. UnpackH(h, 17) = UnpackH(f, 17)
  BY <1>1 DEF UnpackH
<1>3. UnpackB(h, 25) = UnpackB(f, 25) /\ UnpackB(h, 27) = UnpackB(f, 27)
  BY <1>1 DEF UnpackB
<1> QED
  BY <1>2, <1>3 DEF LengthOf, IdOf, FlagsOf, Plausible

LEMMA InitAlign ==
  ASSUME Init
  PROVE  AlignInv
<1>1. sent = <<>> /\ line = <<>> /\ pos = 0 /\ returned = <<>> /\ pc = "sync"
  BY DEF Init
<1>2. Len(sent) = 0 /\ Len(returned) = 0 /\ 1 \in 1..(Len(sent) + 1) /\ 0 \in 0..pos
  BY <1>1
<1>3. Search(0, 1)
  BY <1>1, <1>2 DEF Search
<1>4. Passed(0, 1)
  BY <1>1, <1>2 DEF Passed
<1> QED
  BY <1>1, <1>2, <1>3, <1>4 DEF AlignInv

LEMMA ReadSyncAlign ==
  ASSUME IInv, AlignInv, ReadSync
  PROVE  AlignInv'
<1> USE DEF IInv
<1> SUFFICES ASSUME Sound'
             PROVE  /\ pc' # "input"
                    /\ \E next \in 1..(Len(sent') + 1), b \in 0..pos' : Search(b, next)' /\ Passed(b, next)'
  BY DEF AlignInv
<1>1. PICK n \in Nat : n = 16
  OBVIOUS
<1>2. /\ pc = "sync" /\ n <= Len(line) /\ pos' = pos + n
      /\ UNCHANGED <<sent, damaged, timeouts, returned>>
      /\ IF Part(line, 1, n) = SYNC_BYTES THEN pc' = "rest" /\ header' = SYNC_BYTES
         ELSE pc' = "input"
  <2>1. pc = "sync" /\ Wanted = 16
    BY DEF ReadSync, Recv, Wanted
  <2>2. Len(line) >= 16
    BY <2>1 DEF ReadSync, Recv
  <2>3. Len(line) \in Nat
    BY DEF TypeInv
  <2> QED
    BY <1>1, <2>1, <2>2, <2>3 DEF ReadSync, Recv, Take, Read, Part
<1>3. /\ Sound /\ damaged \cap Vital \cap 1..(pos + n) = {}
      /\ \A k : Whole(k)' = Whole(k)
  BY <1>2, SoundBefore
<1>4. PICK next \in 1..(Len(sent) + 1), b \in 0..pos : Search(b, next) /\ Passed(b, next)
  BY <1>3 DEF AlignInv
<1>5. Len(sent) \in Nat /\ line \in Seq(Digit) /\ Len(line) \in Nat /\ pos \in Nat
  BY DEF SentInv, TypeInv
<1>6. line # <<>>
  BY <1>1, <1>2
<1>7. next \in 1..Len(sent) /\ b = sent[next][1] /\ pos = b
  <2>1. ~(next > Len(sent)) /\ pos = b + 0
    BY <1>2, <1>4, <1>6 DEF Search
  <2>2. b = sent[next][1]
    BY <1>4, <2>1 DEF Search
  <2> QED
    BY <1>5, <2>1, <2>2
<1>8. PICK f : f = sent[next][2]
  OBVIOUS
<1>9. f \in Seq(Digit) /\ GoodFrame(f) /\ Carries(line, pos, damaged, pos, f)
  BY <1>7, <1>8, SentFrame DEF Under
<1>10. Part(f, 1, n) = SYNC_BYTES /\ 0 + n <= Len(f)
  BY <1>1, <1>9 DEF GoodFrame, Part
<1>11. Intact(damaged, pos, n)
  <2> SUFFICES ASSUME NEW i \in Nat, 1 <= i, i <= n
               PROVE  pos + i \notin damaged
    BY DEF Intact
  <2>1. i \in (1..20) \cup (25..28) /\ pos + i <= pos + n /\ pos + n \in Nat
    BY <1>1, <1>5
  <2> QED
    BY <1>3, <1>7, <2>1, Unharmed
<1>12. Part(line, 1, n) = Part(f, 1, n)
  <2>1. 0 \in Nat /\ pos = pos + 0 /\ 0 + 1 = 1 /\ 0 + n = n
    BY <1>5
  <2>2. Part(line, 1, n) = Part(f, 0 + 1, 0 + n)
    BY <1>2, <1>5, <1>9, <1>10, <1>11, <2>1, ReadOff
  <2> QED
    BY <2>1, <2>2
<1>13. pc' = "rest"
  BY <1>2, <1>10, <1>12
<1>14. Search(b, next)'
  <2>1. ~(next > Len(sent')) /\ b = sent'[next][1] /\ pos' = b + 16
    BY <1>1, <1>2, <1>5, <1>7
  <2> QED
    BY <1>13, <2>1 DEF Search
<1>15. Passed(b, next)'
  BY <1>2, <1>3, <1>4 DEF Passed
<1>16. b \in 0..pos' /\ next \in 1..(Len(sent') + 1)
  BY <1>2, <1>5
<1> QED
  BY <1>13, <1>14, <1>15, <1>16

LEMMA KeyAlign ==
  ASSUME IInv, AlignInv, Key
  PROVE  AlignInv'
<1>1. pc = "input" /\ UNCHANGED <<pos, sent, damaged, timeouts>>
  BY DEF Key
<1>2. Sound' = Sound
  BY <1>1 DEF Sound, Vital
<1>3. ~Sound
  BY <1>1 DEF AlignInv
<1> QED
  BY <1>2, <1>3 DEF AlignInv

LEMMA ReadRestAlign ==
  ASSUME IInv, AlignInv, ReadRest
  PROVE  AlignInv'
<1> USE DEF IInv
<1> SUFFICES ASSUME Sound'
             PROVE  /\ pc' # "input"
                    /\ \E next \in 1..(Len(sent') + 1), b \in 0..pos' : Search(b, next)' /\ Passed(b, next)'
  BY DEF AlignInv
<1>1. PICK n \in Nat : n = 12
  OBVIOUS
<1>2. PICK h : h = Cat(header, Part(line, 1, n))
  OBVIOUS
<1>3. /\ pc = "rest" /\ n <= Len(line) /\ pos' = pos + n
      /\ UNCHANGED <<sent, damaged, timeouts, returned>>
      /\ header' = h /\ pc' = IF Plausible(h) THEN "data" ELSE "sync"
  <2>1. pc = "rest" /\ Wanted = 12
    BY DEF ReadRest, Recv, Wanted
  <2>2. Len(line) >= 12
    BY <2>1 DEF ReadRest, Recv
  <2>3. Len(line) \in Nat
    BY DEF TypeInv
  <2> QED
    BY <1>1, <1>2, <2>1, <2>2, <2>3 DEF ReadRest, Recv, Take, Read, Part, Cat
<1>4. /\ Sound /\ damaged \cap Vital \cap 1..(pos + n) = {}
      /\ \A k : Whole(k)' = Whole(k)
  BY <1>3, SoundBefore
<1>5. PICK next \in 1..(Len(sent) + 1), b \in 0..pos : Search(b, next) /\ Passed(b, next)
  BY <1>4 DEF AlignInv
<1>6. Len(sent) \in Nat /\ line \in Seq(Digit) /\ Len(line) \in Nat /\ pos \in Nat
  BY DEF SentInv, TypeInv
<1>7. next \in 1..Len(sent) /\ b = sent[next][1] /\ pos = b + 16 /\ b \in Nat
  <2>1. ~(next > Len(sent)) /\ pos = b + 16
    BY <1>3, <1>5 DEF Search
  <2>2. b = sent[next][1]
    BY <1>5, <2>1 DEF Search
  <2> QED
    BY <1>6, <2>1, <2>2
<1>8. PICK f : f = sent[next][2]
  OBVIOUS
<1>9. f \in Seq(Digit) /\ GoodFrame(f) /\ Carries(line, pos, damaged, b, f)
  BY <1>7, <1>8, SentFrame DEF Under
<1>10. Part(f, 1, 16) = SYNC_BYTES /\ 28 <= Len(f) /\ Plausible(f)
  BY <1>9 DEF GoodFrame, Part
<1>11. ASSUME NEW i \in 1..28, b + i \notin damaged
       PROVE  h[i] = f[i]
  <2>1. header = SYNC_BYTES /\ header \in Seq(Digit) /\ Len(header) = 16
    BY <1>3, SyncIs DEF TypeInv
  <2>2. PICK r : r = Part(line, 1, n)
    OBVIOUS
  <2>3. /\ r \in Seq(Digit) /\ Len(r) = n
        /\ \A j \in Nat : 1 <= j /\ j <= n => r[j] = line[j]
    BY <1>3, <1>6, <2>2, First
  <2>4. /\ \A j \in Nat : 1 <= j /\ j <= 16 => h[j] = header[j]
        /\ \A j \in Nat : 1 <= j /\ j <= n => h[16 + j] = r[j]
    <3>1. /\ \A j \in Nat : 1 <= j /\ j <= Len(header) => Cat(header, r)[j] = header[j]
          /\ \A j \in Nat : 1 <= j /\ j <= Len(r) => Cat(header, r)[Len(header) + j] = r[j]
      BY <2>1, <2>3, Joined
    <3> QED
      BY <1>2, <2>1, <2>2, <2>3, <3>1
  <2>5. CASE i <= 16
    <3>1. i \in Nat /\ 1 <= i /\ h[i] = header[i]
      BY <2>4, <2>5
    <3>2. \A j \in Nat : 1 <= j /\ j <= 16 => Part(f, 1, 16)[j] = f[j]
      BY <1>9, <1>10, First
    <3> QED
      BY <1>10, <2>1, <2>5, <3>1, <3>2
  <2>6. CASE ~(i <= 16)
    <3>1. PICK j \in Nat : i = 16 + j /\ 1 <= j /\ j <= n
      BY <1>1, <2>6
    <3>2. h[i] = line[j]
      BY <2>3, <2>4, <3>1
    <3>3. i \in Nat /\ 1 <= i /\ i <= Len(f) /\ b + i > pos /\ b + i - pos = j
      <4>1. i \in Nat /\ 1 <= i /\ i <= 28 /\ Len(f) \in Nat
        BY <1>9
      <4>2. i <= Len(f)
        BY <1>10, <4>1
      <4>3. b + i > pos /\ b + i - pos = j
        BY <1>7, <3>1
      <4> QED
        BY <4>1, <4>2, <4>3
    <3>4. line[b + i - pos] = f[i]
      BY <1>9, <1>11, <3>3 DEF Carries
    <3> QED
      BY <3>2, <3>3, <3>4
  <2> QED
    BY <2>5, <2>6
<1>12. pc' = "data"
  <2>1. \A i \in (1..20) \cup (25..28) : h[i] = f[i]
    <3> TAKE i \in (1..20) \cup (25..28)
    <3>1. i \in 1..28 /\ sent[next][1] + i <= pos + n /\ pos + n \in Nat
      <4>1. i \in 1..28
        OBVIOUS
      <4>2. sent[next][1] = b /\ pos = b + 16 /\ b \in Nat /\ n = 12
        BY <1>1, <1>7
      <4> QED
        BY <4>1, <4>2
    <3>2. b + i \notin damaged
      BY <1>4, <1>7, <3>1, Unharmed
    <3> QED
      BY <1>11, <3>1, <3>2
  <2> QED
    BY <1>3, <1>10, <2>1, SameButChecksum
<1>13. Search(b, next)'
  <2>1. ~(next > Len(sent')) /\ b = sent'[next][1] /\ pos' = b + 28
    <3>1. sent' = sent
      BY <1>3
    <3>2. ~(next > Len(sent)) /\ b = sent[next][1]
      BY <1>6, <1>7
    <3>3. pos' = b + 28
      BY <1>1, <1>3, <1>7
    <3> QED
      BY <3>1, <3>2, <3>3
  <2>2. \A i \in 1..28 : b + i \notin damaged' => header'[i] = sent'[next][2][i]
    BY <1>3, <1>8, <1>11
  <2> QED
    BY <1>12, <2>1, <2>2 DEF Search
<1>14. Passed(b, next)'
  BY <1>3, <1>4, <1>5 DEF Passed
<1>15. b \in 0..pos' /\ next \in 1..(Len(sent') + 1)
  BY <1>3, <1>6
<1> QED
  BY <1>12, <1>13, <1>14, <1>15

LEMMA ReadDataAlign ==
  ASSUME IInv, AlignInv, ReadData
  PROVE  AlignInv'
<1> USE DEF IInv
<1> SUFFICES ASSUME Sound'
             PROVE  /\ pc' # "input"
                    /\ \E next \in 1..(Len(sent') + 1), b \in 0..pos' : Search(b, next)' /\ Passed(b, next)'
  BY DEF AlignInv
<1>1. PICK n : n = 2 * LengthOf(header)
  OBVIOUS
<1>2. pc = "data" /\ header \in Seq(Digit) /\ Len(header) = 28
  BY DEF ReadData, Recv, TypeInv
<1>3. n \in Nat
  <2>1. Len(header) >= 28
    BY <1>2
  <2>2. LengthOf(header) \in Nat
    BY <1>2, <2>1, HeaderNumbers
  <2> QED
    BY <1>1, <2>2
<1>4. PICK frame : frame = Cat(header, Part(line, 1, n))
  OBVIOUS
<1>5. /\ n <= Len(line)
      /\ line' = Part(line, n + 1, Len(line)) /\ pos' = pos + n
      /\ UNCHANGED <<sent, damaged, timeouts, header>>
      /\ IF verify_frame_integrity(frame) THEN returned' = Append(returned, <<pos - 28, frame>>)
         ELSE returned' = returned
      /\ pc' = "sync"
  <2>1. Wanted = n
    BY <1>1, <1>2 DEF Wanted
  <2>2. Len(line) >= n /\ Len(line) \in Nat
    BY <2>1 DEF ReadData, Recv, TypeInv
  <2>3. n <= Len(line)
    BY <1>3, <2>2
  <2> QED
    BY <1>4, <2>1, <2>3 DEF ReadData, Recv, Read, Part, Cat
<1>6. /\ Sound /\ damaged \cap Vital \cap 1..(pos + n) = {}
      /\ \A k : Whole(k)' = Whole(k)
  BY <1>3, <1>5, SoundBefore
<1>7. PICK next \in 1..(Len(sent) + 1), b \in 0..pos : Search(b, next) /\ Passed(b, next)
  BY <1>6 DEF AlignInv
<1>8. Len(sent) \in Nat /\ line \in Seq(Digit) /\ Len(line) \in Nat /\ pos \in Nat
  BY DEF SentInv, TypeInv
<1>9. next \in 1..Len(sent) /\ b = sent[next][1] /\ pos = b + 28 /\ b \in Nat
  <2>1. ~(next > Len(sent)) /\ pos = b + 28
    BY <1>2, <1>7 DEF Search
  <2>2. b = sent[next][1]
    BY <1>7, <2>1 DEF Search
  <2> QED
    BY <1>8, <2>1, <2>2
<1>10. PICK f : f = sent[next][2]
  OBVIOUS
<1>11. /\ f \in Seq(Digit) /\ GoodFrame(f) /\ Carries(line, pos, damaged, b, f)
       /\ sent[next] = <<b, f>>
  BY <1>9, <1>10, SentFrame DEF Under
<1>12. \A i \in 1..28 : b + i \notin damaged => header[i] = f[i]
  BY <1>2, <1>7, <1>10 DEF Search
<1>13. LengthOf(header) = LengthOf(f)
  <2>1. \A i \in (1..20) \cup (25..28) : header[i] = f[i]
    <3> TAKE i \in (1..20) \cup (25..28)
    <3>1. i \in 1..28 /\ sent[next][1] + i <= pos + n /\ pos + n \in Nat
      <4>1. i \in 1..28
        OBVIOUS
      <4>2. sent[next][1] = b /\ pos = b + 28 /\ b \in Nat /\ n \in Nat
        BY <1>3, <1>9
      <4> QED
        BY <4>1, <4>2
    <3>2. b + i \notin damaged
      BY <1>6, <1>9, <3>1, Unharmed
    <3> QED
      BY <1>12, <3>1, <3>2
  <2> QED
    BY <2>1, SameButChecksum
<1>14. Len(f) = 28 + n /\ pos' = b + Len(f)
  <2>1. Len(f) = 28 + n
    BY <1>1, <1>11, <1>13 DEF GoodFrame
  <2>2. (b + 28) + n = b + (28 + n)
    <3>1. b \in Nat
      BY <1>9
    <3>2. \A x, y \in Nat : (x + 28) + y = x + (28 + y)
      OBVIOUS
    <3> QED
      BY <1>3, <3>1, <3>2
  <2> QED
    BY <1>5, <1>9, <2>1, <2>2
<1>15. ASSUME Whole(next)
       PROVE  frame = f
  <2>1. \A i \in 1..Len(f) : b + i \notin damaged
    <3> TAKE i \in 1..Len(f)
    <3>1. b + i \in (b + 1)..(b + Len(f)) /\ Len(f) \in Nat
      BY <1>9, <1>11, SMTT(30)
    <3> QED
      BY <1>9, <1>10, <1>15, <3>1 DEF Whole
  <2>2. PICK r : r = Part(line, 1, n)
    OBVIOUS
  <2>3. /\ r \in Seq(Digit) /\ Len(r) = n
        /\ \A j \in Nat : 1 <= j /\ j <= n => r[j] = line[j]
    BY <1>3, <1>5, <1>8, <2>2, First
  <2>4. /\ frame \in Seq(Digit) /\ Len(frame) = 28 + n
        /\ \A j \in Nat : 1 <= j /\ j <= 28 => frame[j] = header[j]
        /\ \A j \in Nat : 1 <= j /\ j <= n => frame[28 + j] = r[j]
    <3>0. header \in Seq(Digit) /\ r \in Seq(Digit)
      BY <1>2, <2>3
    <3>1. /\ Cat(header, r) \in Seq(Digit) /\ Len(Cat(header, r)) = Len(header) + Len(r)
          /\ \A j \in Nat : 1 <= j /\ j <= Len(header) => Cat(header, r)[j] = header[j]
          /\ \A j \in Nat : 1 <= j /\ j <= Len(r) => Cat(header, r)[Len(header) + j] = r[j]
      BY <3>0, Joined
    <3> QED
      BY <1>2, <1>4, <2>2, <2>3, <3>1
  <2>5. ASSUME NEW i \in 1..Len(frame)
        PROVE  frame[i] = f[i]
    <3>1. i \in 1..Len(f) /\ b + i \notin damaged
      BY <1>3, <1>14, <2>1, <2>4
    <3>2. CASE i <= 28
      <4>1. i \in 1..28 /\ i \in Nat /\ 1 <= i
        BY <3>1, <3>2
      <4>2. frame[i] = header[i]
        BY <2>4, <3>2, <4>1
      <4> QED
        BY <1>12, <3>1, <4>1, <4>2
    <3>3. CASE ~(i <= 28)
      <4>1. PICK j \in Nat : i = 28 + j /\ 1 <= j /\ j <= n
        BY <1>3, <2>4, <3>3
      <4>2. frame[i] = line[j]
        BY <2>3, <2>4, <4>1
      <4>3. i \in Nat /\ 1 <= i /\ i <= Len(f) /\ b + i > pos /\ b + i - pos = j
        <5>1. i \in Nat /\ 1 <= i /\ i <= Len(f)
          BY <3>1
        <5>2. pos = b + 28 /\ b \in Nat
          BY <1>9
        <5>3. \A x, y \in Nat : 1 <= y => x + (28 + y) > x + 28 /\ x + (28 + y) - (x + 28) = y
          OBVIOUS
        <5> QED
          BY <4>1, <5>1, <5>2, <5>3
      <4>4. line[b + i - pos] = f[i]
        BY <1>11, <3>1, <4>3 DEF Carries
      <4> QED
        BY <4>2, <4>3, <4>4
    <3> QED
      BY <3>2, <3>3
  <2>6. Len(frame) = Len(f)
    BY <1>14, <2>4
  <2> QED
    BY <1>11, <2>4, <2>5, <2>6, SeqEqual
<1>16. PICK l \in Nat : l = Len(returned)
  <2>1. returned \in Seq(Nat \X Seq(Digit))
    BY <1>7 DEF Passed
  <2> QED
    BY <2>1
<1>17. PICK e : e = <<b, frame>>
  OBVIOUS
<1>18. e \in Nat \X Seq(Digit) /\ e[1] = b
  <2>1. Part(line, 1, n) \in Seq(Digit)
    BY <1>3, <1>5, <1>8, First
  <2>2. frame \in Seq(Digit)
    BY <1>2, <1>4, <2>1, Joined
  <2> QED
    BY <1>9, <1>17, <2>2
<1>19. \/ returned' = returned /\ ~Whole(next)
       \/ /\ returned' = Append(returned, e)
          /\ Whole(next) => e = sent[next]
  <2>1. pos - 28 = b
    BY <1>9
  <2>2. Whole(next) => verify_frame_integrity(frame)
    BY <1>11, <1>15 DEF GoodFrame
  <2> QED
    BY <1>5, <1>11, <1>15, <1>17, <2>1, <2>2
<1>20. PICK z \in Nat : z = pos' /\ z = b + Len(f) /\ b < z
  <2>1. b \in Nat
    BY <1>9
  <2>2. Len(f) = 28 + n /\ pos' = b + Len(f)
    BY <1>14
  <2>3. b + (28 + n) \in Nat /\ b < b + (28 + n)
    BY <1>3, <2>1
  <2> QED
    BY <2>2, <2>3
<1>21. Search(z, next + 1)'
  <2>1. CASE next = Len(sent)
    <3>1. pos + Len(line) = b + Len(f)
      BY <1>9, <1>10, <2>1, SentFrame
    <3>2. line' \in Seq(Digit) /\ Len(line') = Len(line) - n
      BY <1>3, <1>5, <1>8, Shortened
    <3>3. Len(line') = 0
      BY <1>3, <1>5, <1>8, <1>14, <3>1, <3>2
    <3>4. line' = <<>> /\ next + 1 > Len(sent')
      BY <1>5, <1>8, <2>1, <3>2, <3>3
    <3> QED
      BY <1>5, <1>20, <3>4 DEF Search
  <2>2. CASE next # Len(sent)
    <3>1. sent[next + 1][1] = b + Len(f)
      BY <1>9, <1>10, <2>2, SentFrame
    <3>2. ~(next + 1 > Len(sent'))
      BY <1>5, <1>8, <1>9, <2>2
    <3>3. z = sent'[next + 1][1]
      BY <1>5, <1>20, <3>1
    <3> QED
      BY <1>5, <1>20, <3>2, <3>3 DEF Search
  <2> QED
    BY <2>1, <2>2
<1>22. ASSUME NEW k \in 1..next, Whole(k)
       PROVE  \E i \in 1..Len(returned') : returned'[i] = sent[k]
  <2>1. CASE k = next
    <3>1. returned' = Append(returned, e) /\ e = sent[next]
      BY <1>19, <1>22, <2>1
    <3>2. Len(returned') = l + 1 /\ returned'[l + 1] = e
      BY <1>7, <1>16, <1>18, <3>1, AppendProperties DEF Passed
    <3> QED
      BY <2>1, <3>1, <3>2
  <2>2. CASE k # next
    <3>1. k \in 1..(next - 1)
      BY <2>2
    <3>2. PICK i \in 1..l : returned[i] = sent[k]
      BY <1>7, <1>16, <1>22, <3>1 DEF Passed
    <3>3. CASE returned' = returned
      BY <1>16, <3>2, <3>3
    <3>4. CASE returned' = Append(returned, e)
      <4>1. Len(returned') = l + 1 /\ returned'[i] = returned[i]
        BY <1>7, <1>16, <1>18, <3>2, <3>4, AppendProperties DEF Passed
      <4>2. i \in 1..Len(returned')
        BY <4>1
      <4> QED
        BY <3>2, <4>1, <4>2
    <3> QED
      BY <1>19, <3>3, <3>4
  <2> QED
    BY <2>1, <2>2
<1>23. /\ returned' \in Seq(Nat \X Seq(Digit))
       /\ \A i \in 1..Len(returned') : returned'[i][1] < z
       /\ \A i, j \in 1..Len(returned') : i < j => returned'[i][1] < returned'[j][1]
  <2>0. \A x \in Nat : x < b => x < z
    <3>1. b \in Nat
      BY <1>9
    <3>2. b < z
      BY <1>20
    <3>3. \A x, y, w \in Nat : x < y /\ y < w => x < w
      OBVIOUS
    <3> QED
      BY <3>1, <3>2, <3>3
  <2>1. /\ returned \in Seq(Nat \X Seq(Digit))
        /\ \A i \in 1..l : returned[i][1] < b
        /\ \A i, j \in 1..l : i < j => returned[i][1] < returned[j][1]
    BY <1>7, <1>16 DEF Passed
  <2>2. \A i \in 1..l : returned[i][1] \in Nat
    BY <1>16, <2>1
  <2>3. CASE returned' = returned
    <3>1. \A i \in 1..l : returned[i][1] < z
      <4> TAKE i \in 1..l
      <4>1. returned[i][1] < b /\ returned[i][1] \in Nat
        BY <2>1, <2>2
      <4> QED
        BY <2>0, <4>1
    <3>2. Len(returned') = l
      BY <1>16, <2>3
    <3> QED
      BY <2>1, <2>3, <3>1, <3>2
  <2>4. CASE returned' = Append(returned, e)
    <3>1. /\ returned' \in Seq(Nat \X Seq(Digit)) /\ Len(returned') = l + 1
          /\ \A i \in 1..l : returned'[i] = returned[i]
          /\ returned'[l + 1] = e
      BY <1>16, <1>18, <2>1, <2>4, AppendProperties
    <3>2. ASSUME NEW i \in 1..(l + 1)
          PROVE  IF i = l + 1 THEN returned'[i][1] = b
                 ELSE i \in 1..l /\ returned'[i][1] = returned[i][1]
      <4>1. CASE i = l + 1
        BY <1>18, <3>1, <4>1
      <4>2. CASE i # l + 1
        <5>1. i \in 1..l
          BY <4>2
        <5> QED
          BY <3>1, <4>2, <5>1
      <4> QED
        BY <4>1, <4>2
    <3>3. \A i \in 1..(l + 1) : returned'[i][1] < z
      <4> TAKE i \in 1..(l + 1)
      <4>1. CASE i = l + 1
        BY <1>20, <3>2, <4>1
      <4>2. CASE i # l + 1
        <5>1. i \in 1..l /\ returned'[i][1] = returned[i][1]
          BY <3>2, <4>2
        <5>2. returned[i][1] < b /\ returned[i][1] \in Nat
          BY <2>1, <2>2, <5>1
        <5> QED
          BY <2>0, <5>1, <5>2
      <4> QED
        BY <4>1, <4>2
    <3>4. ASSUME NEW i \in 1..(l + 1), NEW j \in 1..(l + 1), i < j
          PROVE  returned'[i][1] < returned'[j][1]
      <4>1. i # l + 1
        BY <3>4
      <4>2. i \in 1..l /\ returned'[i][1] = returned[i][1]
        BY <3>2, <4>1
      <4>3. CASE j = l + 1
        <5>1. returned'[j][1] = b
          BY <3>2, <4>3
        <5> QED
          BY <2>1, <4>2, <5>1
      <4>4. CASE j # l + 1
        <5>1. j \in 1..l /\ returned'[j][1] = returned[j][1]
          BY <3>2, <4>4
        <5> QED
          BY <2>1, <3>4, <4>2, <5>1
      <4> QED
        BY <4>3, <4>4
    <3> QED
      BY <3>1, <3>3, <3>4
  <2> QED
    BY <1>19, <2>3, <2>4
<1>24. Passed(z, next + 1)'
  <2>1. (next + 1) - 1 = next
    OBVIOUS
  <2>2. \A k \in 1..next : Whole(k)' => \E i \in 1..Len(returned') : returned'[i] = sent'[k]
    <3> TAKE k \in 1..next
    <3>1. Whole(k)' = Whole(k) /\ sent' = sent
      BY <1>5, <1>6
    <3> QED
      BY <1>22, <3>1
  <2> QED
    BY <1>23, <2>1, <2>2 DEF Passed
<1>25. z \in 0..pos' /\ next + 1 \in 1..(Len(sent') + 1)
  BY <1>5, <1>8, <1>9, <1>20
<1> QED
  BY <1>5, <1>21, <1>24, <1>25

LEMMA SendAlign ==
  ASSUME IInv, AlignInv, Send
  PROVE  AlignInv'
<1> USE DEF IInv
<1> SUFFICES ASSUME Sound'
             PROVE  /\ pc' # "input"
                    /\ \E next \in 1..(Len(sent') + 1), b \in 0..pos' : Search(b, next)' /\ Passed(b, next)'
  BY DEF AlignInv
<1>1. PICK frame :
        /\ GoodFrame(frame) /\ sent' = Append(sent, <<pos + Len(line), frame>>)
        /\ UNCHANGED <<pos, damaged, timeouts, pc, header, returned>>
  <2>1. PICK f \in {CreateFrame(i) : i \in {Len(sent) - Acks} \cap 0..MaxFrames}
                     \cup {Frame(id, ACK, <<>>) : id \in {n \in 0..1 : Acks < MaxAcks}} :
          sent' = Append(sent, <<pos + Len(line), f>>)
    BY DEF Send
  <2>2. GoodFrame(f)
    BY FramesAreGood
  <2>3. UNCHANGED <<pos, damaged, timeouts, pc, header, returned>>
    BY DEF Send
  <2> QED
    BY <2>1, <2>2, <2>3
<1>2. PICK e : e = <<pos + Len(line), frame>>
  OBVIOUS
<1>3. line \in Seq(Digit) /\ pos \in Nat /\ Len(line) \in Nat /\ frame \in Seq(Digit)
  BY <1>1 DEF TypeInv, GoodFrame
<1>4. e \in Nat \X Seq(Digit) /\ e[1] = pos + Len(line)
  BY <1>2, <1>3
<1>5. PICK l \in Nat : l = Len(sent)
  BY DEF SentInv
<1>6. /\ sent' \in Seq(Nat \X Seq(Digit)) /\ Len(sent') = l + 1
      /\ \A k \in 1..l : sent'[k] = sent[k]
      /\ sent'[l + 1] = e
  <2>1. sent \in Seq(Nat \X Seq(Digit)) /\ sent' = Append(sent, e)
    BY <1>1, <1>2 DEF SentInv
  <2> QED
    BY <1>4, <1>5, <2>1, AppendProperties
<1>7. Sound
  <2>1. ASSUME NEW x \in Vital
        PROVE  x \in Vital'
    <3>1. PICK k \in DOMAIN sent : x \in {sent[k][1] + i : i \in (1..20) \cup (25..28)}
      BY DEF Vital
    <3>2. k \in 1..l /\ k \in DOMAIN sent'
      BY <1>5, <1>6 DEF SentInv
    <3>3. x \in {sent'[k][1] + i : i \in (1..20) \cup (25..28)}
      BY <1>6, <3>1, <3>2
    <3>4. PICK v : v = {sent'[k][1] + i : i \in (1..20) \cup (25..28)}
      OBVIOUS
    <3>5. v \in {{sent'[m][1] + i : i \in (1..20) \cup (25..28)} : m \in DOMAIN sent'}
      BY <3>2, <3>4
    <3> QED
      BY <3>3, <3>4, <3>5 DEF Vital
  <2>2. timeouts = 0 /\ damaged \cap Vital' \cap 1..pos = {}
    BY <1>1 DEF Sound
  <2> QED
    BY <2>1, <2>2 DEF Sound
<1>8. PICK next \in 1..(Len(sent) + 1), b \in 0..pos : Search(b, next) /\ Passed(b, next)
  BY <1>7 DEF AlignInv
<1>9. pc # "input"
  BY <1>7 DEF AlignInv
<1>10. \A k \in 1..l : Whole(k)' = Whole(k)
  BY <1>1, <1>6 DEF Whole
<1>11. Search(b, next)'
  <2>1. ~(next > Len(sent'))
    BY <1>5, <1>6
  <2>2. pos' = b + (IF pc' = "rest" THEN 16 ELSE IF pc' = "data" THEN 28 ELSE 0)
    BY <1>1, <1>8 DEF Search
  <2>3. CASE next <= l
    <3>1. next \in 1..l /\ ~(next > Len(sent))
      BY <1>5, <2>3
    <3>2. /\ sent'[next] = sent[next] /\ b = sent[next][1]
          /\ pc = "data" => \A i \in 1..28 : b + i \notin damaged => header[i] = sent[next][2][i]
      BY <1>6, <1>8, <3>1 DEF Search
    <3> QED
      BY <1>1, <2>1, <2>2, <3>2 DEF Search
  <2>4. CASE ~(next <= l)
    <3>1. next = l + 1 /\ next > Len(sent)
      BY <1>5, <2>4
    <3>2. pc = "sync" /\ line = <<>> /\ pos = b + 0
      BY <1>8, <3>1 DEF Search
    <3>3. pos + Len(line) = b
      BY <1>3, <3>2
    <3>4. b = sent'[next][1] /\ pc' = "sync"
      BY <1>1, <1>4, <1>6, <3>1, <3>2, <3>3
    <3> QED
      BY <2>1, <2>2, <3>4 DEF Search
  <2> QED
    BY <2>3, <2>4
<1>12. Passed(b, next)'
  <2>1. /\ returned \in Seq(Nat \X Seq(Digit))
        /\ \A k \in 1..(next - 1) : Whole(k) => \E i \in 1..Len(returned) : returned[i] = sent[k]
        /\ \A i \in 1..Len(returned) : returned[i][1] < b
        /\ \A i, j \in 1..Len(returned) : i < j => returned[i][1] < returned[j][1]
    BY <1>8 DEF Passed
  <2>2. \A k \in 1..(next - 1) : Whole(k)' => \E i \in 1..Len(returned) : returned[i] = sent'[k]
    <3> TAKE k \in 1..(next - 1)
    <3>1. k \in 1..l
      BY <1>5
    <3>2. Whole(k)' = Whole(k) /\ sent'[k] = sent[k]
      BY <1>6, <1>10, <3>1
    <3> QED
      BY <2>1, <3>2
  <2> QED
    BY <1>1, <2>1, <2>2 DEF Passed
<1>13. b \in 0..pos' /\ next \in 1..(Len(sent') + 1)
  BY <1>1, <1>5, <1>6
<1> QED
  BY <1>1, <1>9, <1>11, <1>12, <1>13

LEMMA DamageAlign ==
  ASSUME IInv, AlignInv, Damage
  PROVE  AlignInv'
<1> USE DEF IInv
<1> SUFFICES ASSUME Sound'
             PROVE  /\ pc' # "input"
                    /\ \E next \in 1..(Len(sent') + 1), b \in 0..pos' : Search(b, next)' /\ Passed(b, next)'
  BY DEF AlignInv
<1>1. PICK i \in 1..Len(line) : damaged' = damaged \cup {pos + i}
  BY DEF Damage
<1>2. UNCHANGED <<pos, sent, timeouts, pc, header, returned>>
  BY DEF Damage
<1>3. Sound
  <2>1. Vital' = Vital
    BY <1>2 DEF Vital
  <2> QED
    BY <1>1, <1>2, <2>1 DEF Sound
<1>4. PICK next \in 1..(Len(sent) + 1), b \in 0..pos : Search(b, next) /\ Passed(b, next)
  BY <1>3 DEF AlignInv
<1>5. pc # "input"
  BY <1>3 DEF AlignInv
<1>6. \A k : Whole(k)' => Whole(k)
  BY <1>1, <1>2 DEF Whole
<1>7. Search(b, next)'
  <2>1. line # <<>>
    BY <1>1
  <2>2. /\ ~(next > Len(sent)) /\ b = sent[next][1]
        /\ pos = b + (IF pc = "rest" THEN 16 ELSE IF pc = "data" THEN 28 ELSE 0)
        /\ pc = "data" => \A j \in 1..28 : b + j \notin damaged => header[j] = sent[next][2][j]
    BY <1>4, <2>1 DEF Search
  <2> QED
    BY <1>1, <1>2, <2>2 DEF Search
<1>8. Passed(b, next)'
  BY <1>2, <1>4, <1>6 DEF Passed
<1> QED
  BY <1>2, <1>4, <1>5, <1>7, <1>8

LEMMA TimeoutAlign ==
  ASSUME IInv, Timeout
  PROVE  AlignInv'
<1>1. timeouts \in Nat /\ timeouts' = timeouts + 1
  BY FaultsAre DEF Timeout, IInv
<1>2. timeouts' # 0
  BY <1>1
<1> QED
  BY <1>2 DEF AlignInv, Sound

LEMMA StutterAlign ==
  ASSUME AlignInv, UNCHANGED vars
  PROVE  AlignInv'
<1>1. Sound' = Sound
  BY DEF Sound, Vital, vars
<1>2. \A k : Whole(k)' = Whole(k)
  BY DEF Whole, vars
<1>3. \A b, next : Search(b, next)' = Search(b, next)
  BY DEF Search, vars
<1>4. \A b, next : Passed(b, next)' = Passed(b, next)
  BY <1>2 DEF Passed, vars
<1> QED
  BY <1>1, <1>3, <1>4 DEF AlignInv, vars

\* Damage to checksums and payloads, however much, costs no frame but those that it is in: as
\* long as no other digit read was damaged and no read late, each search begins at the
\* beginning of a frame, every frame before it that was not damaged has been returned, and
\* what was returned came from different places, in their order.
THEOREM DamageStaysLocal == Spec => []DamageIsLocal
<1>1. Init => AlignInv
  BY InitAlign
<1>2. IInv /\ AlignInv /\ [Next]_vars => AlignInv'
  BY SendAlign, DamageAlign, ReadSyncAlign, KeyAlign, ReadRestAlign, ReadDataAlign, TimeoutAlign,
     StutterAlign DEF Next
<1>3. AlignInv => DamageIsLocal
  <2> SUFFICES ASSUME AlignInv, Sound
               PROVE  /\ pc # "input"
                      /\ \A i, j \in DOMAIN returned : i < j => returned[i][1] < returned[j][1]
                      /\ pc = "sync" =>
                           \E next \in 1..(Len(sent) + 1) :
                             /\ IF next > Len(sent) THEN line = <<>> ELSE pos = sent[next][1]
                             /\ \A k \in 1..(next - 1) : Whole(k) => sent[k] \in ToSet(returned)
    BY DEF DamageIsLocal, Sound
  <2>1. PICK next \in 1..(Len(sent) + 1), b \in 0..pos : Search(b, next) /\ Passed(b, next)
    BY DEF AlignInv
  <2>2. DOMAIN returned = 1..Len(returned)
    BY <2>1 DEF Passed
  <2>3. ASSUME pc = "sync"
        PROVE  IF next > Len(sent) THEN line = <<>> ELSE pos = sent[next][1]
    <3>1. b \in Int
      OBVIOUS
    <3>2. pos = b
      BY <2>1, <2>3, <3>1 DEF Search
    <3> QED
      BY <2>1, <3>2 DEF Search
  <2>4. \A k \in 1..(next - 1) : Whole(k) => sent[k] \in ToSet(returned)
    BY <2>1, <2>2 DEF Passed, ToSet
  <2>5. pc # "input" /\ \A i, j \in DOMAIN returned : i < j => returned[i][1] < returned[j][1]
    BY <2>1, <2>2 DEF AlignInv, Passed
  <2> QED
    BY <2>3, <2>4, <2>5
<1> QED
  BY <1>1, <1>2, <1>3, Inductive, PTL DEF Spec
=============================================================================
