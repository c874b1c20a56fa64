------------------------------ MODULE Numbers ------------------------------
(***************************************************************************)
(* Arithmetic and induction that the proofs about the modules share.       *)
(* Induction is stated for sets of naturals and not for predicates.        *)
(***************************************************************************)
EXTENDS Integers, FiniteSetsExt, WellFoundedInduction, TLAPS

LEMMA MulMono ==
  ASSUME NEW m \in Nat, NEW n \in Nat, NEW k \in Nat, m <= n
  PROVE  m * k <= n * k
<1>1. PICK d \in Nat : n = m + d
  <2>1. n - m \in Nat /\ n = m + (n - m)
    OBVIOUS
  <2>2. QED
    BY <2>1
<1>2. n * k = m * k + d * k
  BY <1>1
<1>3. m * k \in Nat /\ d * k \in Nat
  BY <1>1
<1>4. QED
  BY <1>2, <1>3

LEMMA Positive ==
  ASSUME NEW a \in Nat \ {0}, NEW b \in Nat \ {0}
  PROVE  a * b \in Nat \ {0} /\ b <= a * b
<1>1. 1 * b <= a * b /\ 1 * b = b
  BY MulMono
<1>2. a * b \in Nat
  OBVIOUS
<1>3. QED
  BY <1>1, <1>2

\* Quotient and remainder are unique.
LEMMA DivModUnique ==
  ASSUME NEW n \in Nat \ {0}, NEW q \in Nat, NEW r \in 0 .. (n - 1),
         NEW k, k = q * n + r
  PROVE  k \div n = q /\ k % n = r
OBVIOUS

LEMMA DivModOfSum ==
  \A n \in Nat \ {0} : \A q \in Nat : \A r \in 0 .. (n - 1) :
    (q * n + r) \div n = q /\ (q * n + r) % n = r
OBVIOUS

LEMMA DivModNat ==
  ASSUME NEW n \in Nat \ {0}, NEW k \in Nat
  PROVE  /\ k \div n \in Nat
         /\ k % n \in 0 .. (n - 1)
         /\ k = (k \div n) * n + (k % n)
OBVIOUS

\* Dividing twice is dividing by the product.
LEMMA DivDiv ==
  ASSUME NEW k \in Nat, NEW a \in Nat \ {0}, NEW b \in Nat \ {0}
  PROVE  k \div (a * b) = (k \div a) \div b
<1> DEFINE q == k \div a
           r == k % a
           p == q \div b
           s == q % b
<1>1. q \in Nat /\ r \in 0 .. (a - 1) /\ k = q * a + r
  BY DivModNat
<1>2. p \in Nat /\ s \in 0 .. (b - 1) /\ q = p * b + s
  BY <1>1, DivModNat
<1> HIDE DEF q, r, p, s
<1>3. k = p * (a * b) + (s * a + r)
  BY <1>1, <1>2
<1>4. s * a + r \in 0 .. (a * b - 1)
  <2>1. (s + 1) * a <= b * a
    BY <1>2, MulMono
  <2>2. (s + 1) * a = s * a + a /\ s * a \in Nat /\ b * a = a * b /\ a * b \in Nat
    BY <1>2
  <2>3. QED
    BY <1>1, <2>1, <2>2
<1>5. a * b \in Nat \ {0}
  BY <1>2, <1>4
<1>6. k \div (a * b) = p
  BY <1>2, <1>3, <1>4, <1>5, DivModUnique
<1>7. QED
  BY <1>6 DEF p, q

\* A quotient is small if the dividend is.
LEMMA DivLess ==
  ASSUME NEW k \in Nat, NEW m \in Nat, NEW n \in Nat \ {0}, k < m * n
  PROVE  k \div n < m
<1> DEFINE q == k \div n
           r == k % n
<1>1. q \in Nat /\ r \in Nat /\ k = q * n + r
  BY DivModNat
<1> HIDE DEF q, r
<1>2. CASE m <= q
  <2>1. m * n <= q * n
    BY <1>1, <1>2, MulMono
  <2>2. m * n \in Nat /\ q * n \in Nat
    BY <1>1
  <2>3. QED
    BY <1>1, <2>1, <2>2
<1>3. QED
  BY <1>1, <1>2 DEF q

LEMMA ModSmall ==
  ASSUME NEW M \in Nat \ {0}, NEW x \in 0 .. (M - 1)
  PROVE  x % M = x
OBVIOUS

LEMMA ModNegative ==
  ASSUME NEW M \in Nat \ {0}, NEW x \in (-M) .. (-1)
  PROVE  x % M = x + M
OBVIOUS

LEMMA DivMul ==
  ASSUME NEW k \in Nat, NEW B \in Nat \ {0}
  PROVE  (k * B) % B = 0 /\ (k * B) \div B = k
OBVIOUS

----------------------------------------------------------------------------
(* Least elements and induction.                                           *)

LEMMA MinOfTwo ==
  ASSUME NEW a \in Int, NEW b \in Int
  PROVE  Min({a, b}) = IF a <= b THEN a ELSE b
<1> DEFINE m == IF a <= b THEN a ELSE b
<1>1. m \in {a, b} /\ \A y \in {a, b} : m <= y
  OBVIOUS
<1>2. \A x \in {a, b} : (\A y \in {a, b} : x <= y) => x = m
  OBVIOUS
<1>3. QED
  BY <1>1, <1>2 DEF Min

LEMMA MaxOfTwo ==
  ASSUME NEW a \in Int, NEW b \in Int
  PROVE  Max({a, b}) = IF a >= b THEN a ELSE b
<1> DEFINE m == IF a >= b THEN a ELSE b
<1>1. m \in {a, b} /\ \A y \in {a, b} : m >= y
  OBVIOUS
<1>2. \A x \in {a, b} : (\A y \in {a, b} : x >= y) => x = m
  OBVIOUS
<1>3. QED
  BY <1>1, <1>2 DEF Max

LEMMA LeastNat ==
  ASSUME NEW S \in SUBSET Nat, S # {}
  PROVE  \E x \in S : \A y \in S : x <= y
<1> DEFINE Less == {p \in Nat \X Nat : p[1] < p[2]}
<1>1. IsWellFoundedOn(Less, Nat)
  <2>1. OpToRel(<, Nat) = Less
    BY Zenon DEF OpToRel
  <2>2. QED
    BY <2>1, NatLessThanWellFounded
<1>2. PICK x \in S : \A y \in S : ~(<<y, x>> \in Less)
  <2> HIDE DEF Less
  <2>1. QED
    BY <1>1, WFMin
<1>3. ASSUME NEW y \in S PROVE x <= y
  <2>1. y < x => <<y, x>> \in Less
    OBVIOUS
  <2>2. QED
    BY <1>2, <2>1
<1>4. QED
  BY <1>3

(* A non-empty set of naturals has a least element, and Min picks it.      *)
LEMMA MinOfNats ==
  ASSUME NEW S \in SUBSET Nat, S # {}
  PROVE  Min(S) \in S /\ \A y \in S : Min(S) <= y
<1>1. PICK x \in S : \A y \in S : x <= y
  BY LeastNat
<1>2. QED
  BY <1>1 DEF Min

(* A non-empty set of naturals below a bound has a greatest element.       *)
LEMMA GreatestNat ==
  ASSUME NEW top \in Nat, NEW S \in SUBSET (0 .. top), S # {}
  PROVE  \E x \in S : \A y \in S : y <= x
<1> DEFINE D == {top - x : x \in S}
<1>1. D \in SUBSET Nat /\ D # {}
  OBVIOUS
<1>2. PICK d \in D : \A y \in D : d <= y
  <2> HIDE DEF D
  <2>1. QED
    BY <1>1, LeastNat
<1>3. PICK x \in S : d = top - x
  BY <1>2
<1>4. ASSUME NEW y \in S PROVE y <= x
  <2>1. top - y \in D
    OBVIOUS
  <2>2. d <= top - y
    BY <1>2, <2>1
  <2>3. QED
    BY <1>3, <2>2
<1>5. QED
  BY <1>4

LEMMA SetInduction ==
  ASSUME NEW A \in SUBSET Nat, 0 \in A, \A n \in A : n + 1 \in A
  PROVE  A = Nat
<1> SUFFICES ASSUME A # Nat PROVE FALSE
  OBVIOUS
<1>1. PICK x \in Nat \ A : \A y \in Nat \ A : x <= y
  <2>1. Nat \ A \in SUBSET Nat /\ Nat \ A # {}
    OBVIOUS
  <2>2. QED
    BY <2>1, LeastNat
<1>2. x - 1 \in Nat /\ ~(x <= x - 1)
  BY <1>1
<1>3. x - 1 \in A
  BY <1>1, <1>2
<1>4. (x - 1) + 1 \in A /\ (x - 1) + 1 = x
  BY <1>2, <1>3
<1>5. QED
  BY <1>1, <1>4

(* The steps of an iteration in S, and what it is to iterate them from a.  *)
Steps(S) == [Nat \X S -> S]

IsIteration(f, S, a, g) ==
  /\ f \in [Nat -> S]
  /\ \A j \in Nat : f[j] = IF j = 0 THEN a ELSE g[<<j - 1, f[j - 1]>>]

(* A function on the naturals may be defined from a first value and a      *)
(* step.  The finite pieces of it exist by induction, agree with each      *)
(* other, and together are the function.                                   *)
LEMMA IterationExists ==
  ASSUME NEW S, NEW a \in S, NEW g \in Steps(S)
  PROVE  \E f : IsIteration(f, S, a, g)
<1> USE DEF Steps
<1> DEFINE Piece(f, n) == f[0] = a /\ \A j \in 1 .. n : f[j] = g[<<j - 1, f[j - 1]>>]
           A == {n \in Nat : \E f \in [Nat -> S] : Piece(f, n)}
<1>1. A = Nat
  <2>1. 0 \in A
    <3>1. [j \in Nat |-> a] \in [Nat -> S] /\ Piece([j \in Nat |-> a], 0)
      OBVIOUS
    <3>2. QED
      BY <3>1
  <2>2. ASSUME NEW n \in A PROVE n + 1 \in A
    <3>1. PICK f \in [Nat -> S] : Piece(f, n)
      BY <2>2
    <3> DEFINE h == [f EXCEPT ![n + 1] = g[<<n, f[n]>>]]
    <3>2. n \in Nat /\ n + 1 \in Nat
      BY <2>2
    <3>3. h \in [Nat -> S]
      BY <3>2
    <3>4. h[0] = a
      BY <3>1, <3>2
    <3>5. ASSUME NEW j \in 1 .. (n + 1) PROVE h[j] = g[<<j - 1, h[j - 1]>>]
      <4>1. CASE j = n + 1
        BY <3>2, <4>1
      <4>2. CASE j # n + 1
        <5>1. j \in 1 .. n /\ j - 1 # n + 1 /\ j \in Nat /\ j - 1 \in Nat
          BY <3>2, <4>2
        <5>2. QED
          BY <3>1, <3>2, <4>2, <5>1
      <4>3. QED
        BY <4>1, <4>2
    <3>6. Piece(h, n + 1)
      BY <3>4, <3>5
    <3> HIDE DEF h
    <3>7. QED
      BY <3>2, <3>3, <3>6
  <2>3. A \in SUBSET Nat
    OBVIOUS
  <2> HIDE DEF A
  <2>4. QED
    BY <2>1, <2>2, <2>3, SetInduction
<1>2. ASSUME NEW f \in [Nat -> S], NEW h \in [Nat -> S], NEW n \in Nat, NEW m \in Nat,
             Piece(f, n), Piece(h, m), n <= m
      PROVE  f[n] = h[n]
  <2> DEFINE B == {k \in Nat : k <= n => f[k] = h[k]}
  <2>1. 0 \in B
    BY <1>2
  <2>2. ASSUME NEW k \in B PROVE k + 1 \in B
    <3>1. CASE k + 1 <= n
      <4>1. k \in Nat /\ k + 1 \in 1 .. n /\ k + 1 \in 1 .. m /\ (k + 1) - 1 = k
        BY <1>2, <2>2, <3>1
      <4>2. f[k] = h[k]
        BY <2>2, <4>1
      <4>3. f[k + 1] = g[<<k, f[k]>>] /\ h[k + 1] = g[<<k, h[k]>>]
        BY <1>2, <4>1
      <4>4. QED
        BY <4>1, <4>2, <4>3
    <3>2. CASE ~(k + 1 <= n)
      BY <2>2, <3>2
    <3>3. QED
      BY <3>1, <3>2
  <2>3. B \in SUBSET Nat
    OBVIOUS
  <2>4. B = Nat
    <3> HIDE DEF B
    <3>1. QED
      BY <2>1, <2>2, <2>3, SetInduction
  <2>5. n \in B
    BY <2>4
  <2>6. QED
    BY <2>5
<1> DEFINE P(n) == CHOOSE f \in [Nat -> S] : Piece(f, n)
           F == [n \in Nat |-> P(n)[n]]
<1>3. ASSUME NEW n \in Nat PROVE P(n) \in [Nat -> S] /\ Piece(P(n), n)
  <2>1. n \in A
    BY <1>1
  <2>2. \E f \in [Nat -> S] : Piece(f, n)
    BY <2>1
  <2> HIDE DEF Piece
  <2>3. QED
    BY <2>2
<1> HIDE DEF P
<1>4. F \in [Nat -> S]
  BY <1>3
<1>5. ASSUME NEW j \in Nat PROVE F[j] = IF j = 0 THEN a ELSE g[<<j - 1, F[j - 1]>>]
  <2>1. CASE j = 0
    BY <1>3, <2>1
  <2>2. CASE j # 0
    <3>1. j - 1 \in Nat /\ j \in 1 .. j /\ j - 1 <= j
      BY <2>2
    <3>2. P(j)[j] = g[<<j - 1, P(j)[j - 1]>>]
      BY <1>3, <3>1
    <3>3. P(j - 1)[j - 1] = P(j)[j - 1]
      <4>1. /\ P(j - 1) \in [Nat -> S] /\ Piece(P(j - 1), j - 1)
            /\ P(j) \in [Nat -> S] /\ Piece(P(j), j)
        BY <1>3, <3>1
      <4> HIDE DEF Piece
      <4>2. QED
        BY <1>2, <3>1, <4>1
    <3>4. QED
      BY <2>2, <3>1, <3>2, <3>3
  <2>3. QED
    BY <2>1, <2>2
<1> HIDE DEF F
<1>6. QED
  BY <1>4, <1>5 DEF IsIteration

============================================================================
