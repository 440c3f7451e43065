----------------------------- MODULE NatLemmas ------------------------------
(***************************************************************************)
(* The least-number principle for sets of naturals, and its consequences.  *)
(* The library states it with an operator parameter; here it is about a    *)
(* set, which the provers can instantiate.                                 *)
(***************************************************************************)
EXTENDS Integers, WellFoundedInduction, TLAPS

\* Every non-empty set of naturals has a least element.
LEMMA LeastNat ==
    ASSUME NEW T \in SUBSET Nat, T /= {}
    PROVE  \E x \in T : \A y \in T : x <= y
<1> DEFINE R == OpToRel(<, Nat)
<1>1. IsWellFoundedOn(R, Nat)
  BY NatLessThanWellFounded
<1> HIDE DEF R
<1>2. PICK x \in T : \A y \in T : ~(<<y, x>> \in R)
  BY <1>1, WFMin
<1>3. ASSUME NEW y \in T
      PROVE  x <= y
  <2>1. ~(<<y, x>> \in R)
    BY <1>2
  <2>2. ~(y < x)
    BY <2>1 DEF R, OpToRel
  <2>3. QED
    BY <2>2
<1>4. QED
  BY <1>3

\* Every non-empty bounded set of naturals has a greatest element.
LEMMA GreatestNat ==
    ASSUME NEW T \in SUBSET Nat, T /= {}, NEW b \in Nat, \A x \in T : x <= b
    PROVE  \E x \in T : \A y \in T : y <= x
<1> DEFINE D == {b - x : x \in T}
<1>1. D \in SUBSET Nat /\ D /= {}
  <2>1. PICK z : z \in T
    OBVIOUS
  <2>2. b - z \in D
    BY <2>1
  <2>3. ASSUME NEW x \in T
        PROVE  b - x \in Nat
    OBVIOUS
  <2>4. QED
    BY <2>2, <2>3
<1>2. PICK d \in D : \A e \in D : d <= e
  BY <1>1, LeastNat
<1>3. PICK x \in T : d = b - x
  BY <1>2
<1>4. ASSUME NEW y \in T
      PROVE  y <= x
  <2>1. b - y \in D
    OBVIOUS
  <2>2. d <= b - y
    BY <2>1, <1>2
  <2>3. QED
    BY <2>2, <1>3
<1>5. QED
  BY <1>4

-----------------------------------------------------------------------------
(* Rounding up *)

\* Division by a positive number, and its rest.
LEMMA DivMod ==
    ASSUME NEW a \in Nat, NEW k \in Nat \ {0}
    PROVE  a = k * (a \div k) + (a % k) /\ (a \div k) \in Nat /\ a % k \in 0 .. k - 1
OBVIOUS

\* A multiple of k leaves no rest.
LEMMA MultipleMod ==
    ASSUME NEW q \in Nat, NEW k \in Nat \ {0}
    PROVE  (k * q) % k = 0
OBVIOUS

\* What rounding up to a multiple of k gives.
LEMMA RoundUp ==
    ASSUME NEW a \in Nat, NEW k \in Nat \ {0}
    PROVE  (a + (k - (a % k))) % k = 0
<1> DEFINE q == a \div k
<1>1. a = k * q + (a % k) /\ q \in Nat
  BY DivMod
<1>2. a + (k - (a % k)) = k * (q + 1)
  BY <1>1
<1>3. (k * (q + 1)) % k = 0
  <2>1. q + 1 \in Nat
    BY <1>1
  <2> HIDE DEF q
  <2>2. QED
    BY <2>1, MultipleMod
<1>4. QED
  BY <1>2, <1>3

-----------------------------------------------------------------------------
(* Partial sums *)

\* A sequence of naturals has partial sums.
LEMMA SumExists ==
    ASSUME NEW x \in [Nat -> Nat], NEW n \in Nat
    PROVE  \E f \in [0 .. n -> Nat] :
               \A k \in 0 .. n : f[k] = IF k = 0 THEN 0 ELSE f[k - 1] + x[k]
<1> DEFINE P(m) == \E f \in [0 .. m -> Nat] :
                       \A k \in 0 .. m : f[k] = IF k = 0 THEN 0 ELSE f[k - 1] + x[k]
           T == {m \in Nat : ~P(m)}
<1>1. P(0)
  <2> DEFINE f == [k \in 0 .. 0 |-> 0]
  <2>1. f \in [0 .. 0 -> Nat] /\ \A k \in 0 .. 0 : k = 0 /\ f[k] = 0
    OBVIOUS
  <2> HIDE DEF f
  <2>2. QED
    BY <2>1
<1>2. ASSUME NEW m \in Nat, P(m)
      PROVE  P(m + 1)
  <2>1. PICK f \in [0 .. m -> Nat] : \A k \in 0 .. m : f[k] = IF k = 0 THEN 0 ELSE f[k - 1] + x[k]
    BY <1>2
  <2> DEFINE g == [k \in 0 .. m + 1 |-> IF k = m + 1 THEN f[m] + x[m + 1] ELSE f[k]]
  <2>2. g \in [0 .. m + 1 -> Nat]
    <3>1. f[m] + x[m + 1] \in Nat
      <4>1. f[m] \in Nat /\ m + 1 \in Nat /\ x[m + 1] \in Nat
        OBVIOUS
      <4>2. \A a, b \in Nat : a + b \in Nat
        OBVIOUS
      <4>3. QED
        BY <4>1, <4>2, Zenon
    <3>2. \A k \in 0 .. m + 1 : k # m + 1 => f[k] \in Nat
      OBVIOUS
    <3>3. QED
      BY <3>1, <3>2
  <2>3. \A k \in 0 .. m : g[k] = f[k]
    OBVIOUS
  <2>4. g[m + 1] = g[m] + x[m + 1]
    BY <2>3
  <2> HIDE DEF g
  <2>5. ASSUME NEW k \in 0 .. m + 1
        PROVE  g[k] = IF k = 0 THEN 0 ELSE g[k - 1] + x[k]
    <3>1. CASE k = m + 1
      BY <2>4, <3>1
    <3>2. CASE k \in 0 .. m
      <4>1. k # 0 => k - 1 \in 0 .. m
        BY <3>2
      <4>2. QED
        BY <2>1, <2>3, <3>2, <4>1
    <3>3. QED
      BY <3>1, <3>2
  <2>6. QED
    BY <2>2, <2>5
<1>3. T = {}
  <2> SUFFICES ASSUME T # {}
               PROVE  FALSE
    OBVIOUS
  <2> HIDE DEF P
  <2>1. PICK m \in T : \A y \in T : m <= y
    BY LeastNat
  <2>2. m \in Nat /\ m # 0
    BY <1>1
  <2>3. m - 1 \in Nat /\ P(m - 1)
    BY <2>1, <2>2
  <2>4. P((m - 1) + 1)
    BY <1>2, <2>3
  <2>5. QED
    BY <2>2, <2>4
<1>4. QED
  BY <1>3

\* Partial sums are unique.
LEMMA SumAgrees ==
    ASSUME NEW x \in [Nat -> Nat], NEW n \in Nat, NEW m \in Nat, n <= m,
           NEW f \in [0 .. n -> Nat], NEW g \in [0 .. m -> Nat],
           \A k \in 0 .. n : f[k] = IF k = 0 THEN 0 ELSE f[k - 1] + x[k],
           \A k \in 0 .. m : g[k] = IF k = 0 THEN 0 ELSE g[k - 1] + x[k]
    PROVE  \A k \in 0 .. n : f[k] = g[k]
<1> DEFINE T == {k \in 0 .. n : f[k] # g[k]}
<1> SUFFICES ASSUME T # {}
             PROVE  FALSE
  OBVIOUS
<1>1. T \in SUBSET Nat
  OBVIOUS
<1>2. PICK k \in T : \A y \in T : k <= y
  BY <1>1, LeastNat
<1>3. k \in 0 .. n /\ k \in 0 .. m
  OBVIOUS
<1>4. k # 0
  BY <1>3
<1>5. k - 1 \in 0 .. n /\ k - 1 \notin T
  BY <1>2, <1>3, <1>4
<1>6. f[k] = g[k]
  BY <1>3, <1>4, <1>5
<1>7. QED
  BY <1>6

\* A function that never decreases from one number to the next never decreases.
LEMMA Monotone ==
    ASSUME NEW F \in [Nat -> Nat], \A k \in Nat : F[k] <= F[k + 1]
    PROVE  \A j, k \in Nat : j <= k => F[j] <= F[k]
<1> TAKE j \in Nat
<1> DEFINE T == {k \in Nat : j <= k /\ ~(F[j] <= F[k])}
<1> SUFFICES ASSUME T # {}
             PROVE  FALSE
  OBVIOUS
<1>1. PICK k \in T : \A y \in T : k <= y
  BY LeastNat
<1>2. k \in Nat /\ j <= k /\ ~(F[j] <= F[k]) /\ F[j] \in Nat /\ F[k] \in Nat
  OBVIOUS
<1>3. k # j
  BY <1>2
<1>4. k - 1 \in Nat /\ j <= k - 1 /\ k - 1 \notin T
  BY <1>1, <1>2, <1>3
<1>5. F[j] <= F[k - 1] /\ F[k - 1] \in Nat
  BY <1>4
<1>6. F[k - 1] <= F[(k - 1) + 1] /\ (k - 1) + 1 = k
  BY <1>4
<1>7. QED
  BY <1>2, <1>5, <1>6

\* The partial sums of a sequence of naturals, as one function.
LEMMA PartialSums ==
    ASSUME NEW x \in [Nat -> Nat]
    PROVE  \E F \in [Nat -> Nat] :
               /\ \A k \in Nat : F[k] = IF k = 0 THEN 0 ELSE F[k - 1] + x[k]
               /\ \A j, k \in Nat : j <= k => F[j] <= F[k]
<1> DEFINE Sums(f, n) == \A k \in 0 .. n : f[k] = IF k = 0 THEN 0 ELSE f[k - 1] + x[k]
           S(n) == CHOOSE f : f \in [0 .. n -> Nat] /\ Sums(f, n)
           F == [n \in Nat |-> S(n)[n]]
<1>1. ASSUME NEW n \in Nat
      PROVE  S(n) \in [0 .. n -> Nat] /\ Sums(S(n), n)
  <2>1. \E f : f \in [0 .. n -> Nat] /\ Sums(f, n)
    <3>1. PICK f \in [0 .. n -> Nat] : Sums(f, n)
      BY SumExists
    <3> HIDE DEF Sums
    <3>2. QED
      BY <3>1
  <2> HIDE DEF Sums
  <2>2. QED
    BY <2>1, Zenon
<1> HIDE DEF S
<1>2. F \in [Nat -> Nat]
  BY <1>1
<1>3. ASSUME NEW k \in Nat
      PROVE  F[k] = IF k = 0 THEN 0 ELSE F[k - 1] + x[k]
  <2>1. S(k)[k] = IF k = 0 THEN 0 ELSE S(k)[k - 1] + x[k]
    BY <1>1
  <2>2. k # 0 => S(k)[k - 1] = S(k - 1)[k - 1]
    <3> SUFFICES ASSUME k # 0
                 PROVE  S(k)[k - 1] = S(k - 1)[k - 1]
      OBVIOUS
    <3>1. k - 1 \in Nat /\ k - 1 <= k /\ k - 1 \in 0 .. k - 1
      OBVIOUS
    <3>2. Sums(S(k), k) /\ Sums(S(k - 1), k - 1)
      BY <1>1, <3>1
    <3>3. \A i \in 0 .. k - 1 : S(k - 1)[i] = S(k)[i]
      <4> DEFINE a == S(k - 1)
                 b == S(k)
                 n == k - 1
      <4>1. /\ n \in Nat /\ n <= k /\ a \in [0 .. n -> Nat] /\ b \in [0 .. k -> Nat]
            /\ \A i \in 0 .. n : a[i] = IF i = 0 THEN 0 ELSE a[i - 1] + x[i]
            /\ \A i \in 0 .. k : b[i] = IF i = 0 THEN 0 ELSE b[i - 1] + x[i]
        BY <1>1, <3>1, <3>2
      <4> HIDE DEF a, b, n
      <4>2. \A i \in 0 .. n : a[i] = b[i]
        BY <4>1, SumAgrees
      <4>3. QED
        BY <4>2 DEF a, b, n
    <3>4. QED
      BY <3>1, <3>3
  <2>3. QED
    BY <2>1, <2>2
<1> HIDE DEF F
<1>4. ASSUME NEW k \in Nat
      PROVE  F[k] <= F[k + 1]
  <2>1. F[k + 1] = F[k] + x[k + 1]
    <3>1. k + 1 \in Nat /\ k + 1 # 0 /\ (k + 1) - 1 = k
      OBVIOUS
    <3>2. QED
      BY <1>3, <3>1
  <2>2. F[k] \in Nat /\ x[k + 1] \in Nat
    BY <1>2
  <2>3. QED
    BY <2>1, <2>2
<1>5. \A j, k \in Nat : j <= k => F[j] <= F[k]
  BY <1>2, <1>4, Monotone
<1>6. QED
  BY <1>2, <1>3, <1>5

-----------------------------------------------------------------------------
(* Loops *)

\* A run of a loop that computes its k-th value from k and the value before.
IsRun(f, a, g, n) == \A k \in 0 .. n : f[k] = IF k = 0 THEN a ELSE g[k][f[k - 1]]

\* A loop has a run of any length.
LEMMA RunExists ==
    ASSUME NEW S, NEW a \in S, NEW g \in [Nat -> [S -> S]], NEW n \in Nat
    PROVE  \E f \in [0 .. n -> S] : IsRun(f, a, g, n)
<1> USE DEF IsRun
<1> DEFINE P(m) == \E f \in [0 .. m -> S] : IsRun(f, a, g, m)
           T == {m \in Nat : ~P(m)}
<1>1. P(0)
  <2> DEFINE f == [k \in 0 .. 0 |-> a]
  <2>1. f \in [0 .. 0 -> S] /\ \A k \in 0 .. 0 : k = 0 /\ f[k] = a
    OBVIOUS
  <2> HIDE DEF f
  <2>2. QED
    BY <2>1
<1>2. ASSUME NEW m \in Nat, P(m)
      PROVE  P(m + 1)
  <2>1. PICK f \in [0 .. m -> S] : \A k \in 0 .. m : f[k] = IF k = 0 THEN a ELSE g[k][f[k - 1]]
    BY <1>2
  <2> DEFINE v == g[m + 1][f[m]]
             h == [k \in 0 .. m + 1 |-> IF k = m + 1 THEN v ELSE f[k]]
  <2>2. v \in S
    <3>1. m + 1 \in Nat /\ m \in 0 .. m
      OBVIOUS
    <3>2. g[m + 1] \in [S -> S] /\ f[m] \in S
      BY <3>1
    <3>3. QED
      BY <3>2
  <2> HIDE DEF v
  <2>3. h \in [0 .. m + 1 -> S]
    <3>1. \A k \in 0 .. m + 1 : k # m + 1 => f[k] \in S
      <4>1. \A k \in 0 .. m + 1 : k # m + 1 => k \in 0 .. m
        OBVIOUS
      <4>2. \A k \in 0 .. m : f[k] \in S
        OBVIOUS
      <4>3. QED
        BY <4>1, <4>2
    <3>2. QED
      BY <2>2, <3>1
  <2>4. (\A k \in 0 .. m : h[k] = f[k]) /\ h[m + 1] = v
    OBVIOUS
  <2> HIDE DEF h
  <2>5. ASSUME NEW k \in 0 .. m + 1
        PROVE  h[k] = IF k = 0 THEN a ELSE g[k][h[k - 1]]
    <3>1. CASE k = m + 1
      <4>1. k # 0 /\ k - 1 = m /\ h[k - 1] = f[m]
        BY <2>4, <3>1
      <4>2. QED
        BY <2>4, <3>1, <4>1 DEF v
    <3>2. CASE k \in 0 .. m
      <4>1. k # 0 => k - 1 \in 0 .. m
        BY <3>2
      <4>2. QED
        BY <2>1, <2>4, <3>2, <4>1
    <3>3. QED
      BY <3>1, <3>2
  <2>6. QED
    BY <2>3, <2>5
<1>3. T = {}
  <2> SUFFICES ASSUME T # {}
               PROVE  FALSE
    OBVIOUS
  <2> HIDE DEF P
  <2>1. PICK m \in T : \A y \in T : m <= y
    BY LeastNat
  <2>2. m \in Nat /\ m # 0
    BY <1>1
  <2>3. m - 1 \in Nat /\ P(m - 1)
    BY <2>1, <2>2
  <2>4. P((m - 1) + 1)
    BY <1>2, <2>3
  <2>5. QED
    BY <2>2, <2>4
<1>4. QED
  BY <1>3

\* Two runs of a loop agree as far as both go.
LEMMA RunAgrees ==
    ASSUME NEW a, NEW g, NEW n \in Nat, NEW m \in Nat, n <= m,
           NEW f, NEW h,
           IsRun(f, a, g, n), IsRun(h, a, g, m)
    PROVE  \A k \in 0 .. n : f[k] = h[k]
<1> DEFINE T == {k \in 0 .. n : f[k] # h[k]}
<1> SUFFICES ASSUME T # {}
             PROVE  FALSE
  OBVIOUS
<1>1. T \in SUBSET Nat
  OBVIOUS
<1>2. PICK k \in T : \A y \in T : k <= y
  BY <1>1, LeastNat
<1>3. k \in 0 .. n /\ k \in 0 .. m /\ f[k] # h[k]
  OBVIOUS
<1>4. k # 0
  BY <1>3 DEF IsRun
<1>5. k - 1 \in 0 .. n /\ ~(k <= k - 1)
  BY <1>3, <1>4
<1>6. f[k - 1] = h[k - 1]
  BY <1>2, <1>5
<1>7. QED
  BY <1>3, <1>4, <1>6 DEF IsRun
=============================================================================
