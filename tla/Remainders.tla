----------------------------- MODULE Remainders -----------------------------
(***************************************************************************)
(* Remainders by any modulus, which the solvers do not know: counters and  *)
(* sequence numbers that wrap.                                             *)
(***************************************************************************)
EXTENDS Integers, TLAPS

(* Quotient and remainder. *)
LEMMA Division ==
    ASSUME NEW a \in Nat, NEW m \in Nat \ {0}
    PROVE  /\ a \div m \in Nat /\ a % m \in 0 .. m - 1
           /\ a = m * (a \div m) + (a % m)
BY SMT

(* A multiple of m that is not 0 is no less than m. *)
LEMMA Multiple ==
    ASSUME NEW d \in Int, NEW m \in Nat \ {0}, 0 < d
    PROVE  m <= m * d
BY SMT

(* Numbers that differ by less than m have the same quotient and the same  *)
(* remainder only if they are the same: there is one way to divide.        *)
LEMMA OneQuotient ==
    ASSUME NEW m \in Nat \ {0}, NEW p \in Int, NEW q \in Int,
           NEW r \in Int, NEW s \in Int, r - s < m, s - r < m,
           m * p + r = m * q + s
    PROVE  p = q /\ r = s
<1>1. m * (p - q) = s - r /\ m * (q - p) = r - s
  <2>1. m * (p - q) = m * p - m * q /\ m * (q - p) = m * q - m * p
    BY SMT
  <2>2. PICK x \in Int, y \in Int : x = m * p /\ y = m * q
    BY SMT
  <2> QED
    BY <2>1, <2>2
<1>2. ~(0 < p - q)
  BY <1>1, Multiple
<1>3. ~(0 < q - p)
  BY <1>1, Multiple
<1>4. p = q
  BY <1>2, <1>3
<1> QED
  BY <1>1, <1>4

(* Whatever is written as a multiple of m and a rest has that remainder. *)
LEMMA RemainderIs ==
    ASSUME NEW m \in Nat \ {0}, NEW a \in Nat, NEW q \in Int, NEW r \in 0 .. m - 1,
           a = m * q + r
    PROVE  a % m = r
<1> DEFINE p == a \div m
           s == a % m
<1>1. p \in Nat /\ s \in 0 .. m - 1 /\ a = m * p + s
  BY Division
<1> HIDE DEF p, s
<1>2. p \in Int /\ s \in Int /\ r - s < m /\ s - r < m /\ m * p + s = m * q + r
  BY <1>1
<1>3. s = r
  BY <1>2, OneQuotient
<1> QED
  BY <1>3 DEF s

(* A sum may be reduced at once or step by step. *)
LEMMA RemainderOfSum ==
    ASSUME NEW m \in Nat \ {0}, NEW a \in Nat, NEW b \in Nat
    PROVE  ((a % m) + b) % m = (a + b) % m
<1> DEFINE p == a \div m
           s == a % m
           q == (s + b) \div m
           r == (s + b) % m
<1>1. p \in Nat /\ s \in 0 .. m - 1 /\ a = m * p + s
  BY Division
<1> HIDE DEF p, s
<1>2. q \in Nat /\ r \in 0 .. m - 1 /\ s + b = m * q + r
  <2>1. s + b \in Nat
    BY <1>1
  <2> QED
    BY <2>1, Division
<1> HIDE DEF q, r
<1>3. a + b = m * (p + q) + r
  <2>1. m * (p + q) = m * p + m * q
    BY <1>1, <1>2, SMT
  <2>2. PICK x \in Int, y \in Int : x = m * p /\ y = m * q
    BY <1>1, <1>2, SMT
  <2> QED
    BY <1>1, <1>2, <2>1, <2>2
<1>4. (a + b) % m = r
  <2>1. PICK sum \in Nat, k \in Int : sum = a + b /\ k = p + q
    BY <1>1, <1>2
  <2>2. sum = m * k + r
    BY <1>3, <2>1
  <2>3. sum % m = r
    BY <1>2, <2>2, RemainderIs
  <2> QED
    BY <2>1, <2>3
<1> QED
  BY <1>4 DEF r, s

(* Numbers less than m apart have different remainders. *)
LEMMA SameRemainder ==
    ASSUME NEW m \in Nat \ {0}, NEW a \in Nat, NEW b \in Nat,
           a % m = b % m, a - b < m, b - a < m
    PROVE  a = b
<1> DEFINE p == a \div m
           q == b \div m
           s == a % m
<1>1. p \in Nat /\ s \in 0 .. m - 1 /\ a = m * p + s
  BY Division
<1>2. q \in Nat /\ b = m * q + s
  BY Division
<1> HIDE DEF p, q, s
<1>3. m * (p - q) = a - b /\ m * (q - p) = b - a
  <2>1. m * (p - q) = m * p - m * q /\ m * (q - p) = m * q - m * p
    BY <1>1, <1>2, SMT
  <2>2. PICK x \in Int, y \in Int : x = m * p /\ y = m * q
    BY <1>1, <1>2, SMT
  <2> QED
    BY <1>1, <1>2, <2>1, <2>2
<1>4. ~(0 < p - q) /\ ~(0 < q - p)
  BY <1>1, <1>2, <1>3, Multiple
<1>5. p = q
  BY <1>1, <1>2, <1>4
<1> QED
  BY <1>1, <1>2, <1>5
=============================================================================
