------------------------------ MODULE Induction -----------------------------
(***************************************************************************)
(* Induction over the naturals for sets, and what it gives: recursive      *)
(* functions over numbers exist, and sets of numbers can be put in order.  *)
(***************************************************************************)
EXTENDS Integers, FiniteSetTheorems, WellFoundedInduction, TLAPS

(* A set of naturals that is not empty has a least element. *)
LEMMA LeastElement ==
    ASSUME NEW S \in SUBSET Nat, S # {}
    PROVE  \E x \in S : \A y \in S : x <= y
<1>1. PICK x \in S : \A y \in S : <<y, x>> \notin OpToRel(<, Nat)
  BY NatLessThanWellFounded, WFMin, Zenon
<1>2. OpToRel(<, Nat) = {p \in Nat \X Nat : p[1] < p[2]}
  BY DEF OpToRel
<1>3. ASSUME NEW y \in S PROVE x <= y
  <2>1. x \in Nat /\ y \in Nat
    OBVIOUS
  <2>2. ~(y < x)
    BY <1>1, <1>2, <2>1, Zenon
  <2> QED
    BY <2>1, <2>2
<1> QED
  BY <1>3

(* A set that has 0 and, with a number, the next one has all of them. *)
LEMMA InductionOverNat ==
    ASSUME NEW S, 0 \in S, \A n \in Nat : n \in S => n + 1 \in S
    PROVE  \A n \in Nat : n \in S
<1> SUFFICES ASSUME ~ \A n \in Nat : n \in S PROVE FALSE
  OBVIOUS
<1> DEFINE Others == {n \in Nat : n \notin S}
<1>1. Others \in SUBSET Nat /\ Others # {}
  OBVIOUS
<1>2. PICK x \in Others : \A y \in Others : x <= y
  <2> HIDE DEF Others
  <2> QED
    BY <1>1, LeastElement
<1>3. x # 0 /\ x \in Nat
  BY <1>2
<1>4. x - 1 \in Nat /\ ~(x <= x - 1)
  BY <1>3
<1>5. x - 1 \in S
  BY <1>2, <1>4
<1>6. (x - 1) + 1 \in S
  BY <1>4, <1>5
<1>7. (x - 1) + 1 = x
  BY <1>3
<1> QED
  BY <1>2, <1>6, <1>7

(* A finite set of naturals can be listed in order. *)
LEMMA OrderExists ==
    ASSUME NEW D \in SUBSET Nat, IsFiniteSet(D)
    PROVE  \E s \in [1 .. Cardinality(D) -> D] :
             \A i, j \in 1 .. Cardinality(D) : i < j => s[i] < s[j]
<1> DEFINE Ordered(E, n, s) ==
             /\ s \in [1 .. n -> E]
             /\ \A i, j \in 1 .. n : i < j => s[i] < s[j]
           S == {n \in Nat : \A E \in SUBSET Nat :
                   IsFiniteSet(E) /\ Cardinality(E) = n => \E s : Ordered(E, n, s)}
<1>1. 0 \in S
  <2>1. \A E : Ordered(E, 0, [i \in 1 .. 0 |-> 0])
    OBVIOUS
  <2> QED
    BY <2>1
<1>2. ASSUME NEW n \in Nat, n \in S PROVE n + 1 \in S
  <2>1. ASSUME NEW E \in SUBSET Nat, IsFiniteSet(E), Cardinality(E) = n + 1
        PROVE  \E s : Ordered(E, n + 1, s)
    <3>1. E # {}
      BY <2>1, FS_EmptySet
    <3>2. PICK x \in E : \A y \in E : x <= y
      BY <3>1, LeastElement
    <3> DEFINE F == E \ {x}
    <3>3. IsFiniteSet(F) /\ Cardinality(F) = n
      BY <2>1, FS_RemoveElement
    <3>4. F \in SUBSET Nat /\ \A y \in F : y \in E /\ x < y /\ y \in Nat /\ x \in Nat
      BY <3>2
    <3>5. PICK r : Ordered(F, n, r)
      BY <1>2, <3>3, <3>4
    <3> DEFINE s == [i \in 1 .. n + 1 |-> IF i = 1 THEN x ELSE r[i - 1]]
    <3> HIDE DEF F
    <3>6. \A i \in 1 .. n + 1 : i # 1 => i - 1 \in 1 .. n /\ s[i] = r[i - 1]
      OBVIOUS
    <3>7. \A i \in 1 .. n + 1 : i # 1 => s[i] \in F
      BY <3>5, <3>6
    <3>8. s \in [1 .. n + 1 -> E]
      BY <3>4, <3>7
    <3>9. \A i, j \in 1 .. n + 1 : i < j => s[i] < s[j]
      <4> TAKE i, j \in 1 .. n + 1
      <4> HAVE i < j
      <4>1. j # 1 /\ s[j] = r[j - 1] /\ s[j] \in F
        BY <3>6, <3>7
      <4>2. CASE i = 1
        BY <3>4, <4>1, <4>2
      <4>3. CASE i # 1
        <5>1. i - 1 \in 1 .. n /\ j - 1 \in 1 .. n /\ i - 1 < j - 1 /\ s[i] = r[i - 1]
          BY <3>6, <4>1, <4>3
        <5> QED
          BY <3>5, <4>1, <5>1
      <4> QED
        BY <4>2, <4>3
    <3> HIDE DEF s
    <3> QED
      BY <3>8, <3>9
  <2> QED
    BY <2>1
<1> HIDE DEF S
<1>3. \A n \in Nat : n \in S
  BY <1>1, <1>2, InductionOverNat
<1>4. Cardinality(D) \in Nat
  BY FS_CardinalityType
<1> QED
  BY <1>3, <1>4 DEF S

(* f[i] is the sum of the first i values of g, as the recursive function   *)
(* that adds them up has it.                                               *)
Sums(n, g, f) == f = [i \in 0 .. n |-> IF i = 0 THEN 0 ELSE f[i - 1] + g[i]]

(* There is such a function. *)
LEMMA SumsExist ==
    ASSUME NEW n \in Nat, NEW g, \A i \in 1 .. n : g[i] \in Nat
    PROVE  \E f \in [0 .. n -> Nat] : Sums(n, g, f)
<1> DEFINE S == {k \in Nat : k <= n => \E f \in [0 .. k -> Nat] : Sums(k, g, f)}
<1>1. 0 \in S
  <2> DEFINE f == [i \in 0 .. 0 |-> 0]
  <2>1. f \in [0 .. 0 -> Nat] /\ Sums(0, g, f)
    BY DEF Sums
  <2> QED
    BY <2>1
<1>2. ASSUME NEW k \in Nat, k \in S PROVE k + 1 \in S
  <2> SUFFICES ASSUME k + 1 <= n
               PROVE  \E f \in [0 .. k + 1 -> Nat] : Sums(k + 1, g, f)
    OBVIOUS
  <2>1. PICK f \in [0 .. k -> Nat] : Sums(k, g, f)
    BY <1>2
  <2> DEFINE h == [i \in 0 .. k + 1 |-> IF i = k + 1 THEN f[k] + g[k + 1] ELSE f[i]]
  <2>2. g[k + 1] \in Nat
    OBVIOUS
  <2>3. h \in [0 .. k + 1 -> Nat]
    BY <2>2
  <2>4. ASSUME NEW i \in 0 .. k + 1
        PROVE  h[i] = IF i = 0 THEN 0 ELSE h[i - 1] + g[i]
    <3>1. CASE i = k + 1
      BY <3>1
    <3>2. CASE i # k + 1
      <4>1. i \in 0 .. k /\ h[i] = f[i]
        BY <3>2
      <4>2. f[i] = IF i = 0 THEN 0 ELSE f[i - 1] + g[i]
        BY <2>1, <4>1, Zenon DEF Sums
      <4>3. i # 0 => h[i - 1] = f[i - 1]
        BY <3>2
      <4> QED
        BY <4>1, <4>2, <4>3
    <3> QED
      BY <3>1, <3>2
  <2>5. h = [i \in 0 .. k + 1 |-> h[i]]
    OBVIOUS
  <2> HIDE DEF h
  <2>6. Sums(k + 1, g, h)
    BY <2>4, <2>5 DEF Sums
  <2> QED
    BY <2>3, <2>6
<1> HIDE DEF S
<1>3. n \in S
  BY <1>1, <1>2, InductionOverNat
<1> QED
  BY <1>3 DEF S

(* Two functions have the same value at n. *)
SameAt(n, e, f) == e[n] = f[n]

(* Two of them agree as far as both go. *)
LEMMA SumsAgree ==
    ASSUME NEW n \in Nat, NEW m \in Nat, n <= m, NEW g, NEW h,
           \A i \in 1 .. n : g[i] = h[i],
           NEW e, NEW f, Sums(n, g, e), Sums(m, h, f)
    PROVE  SameAt(n, e, f)
<1> DEFINE S == {k \in Nat : k <= n => e[k] = f[k]}
<1>1. /\ \A i \in 0 .. n : e[i] = IF i = 0 THEN 0 ELSE e[i - 1] + g[i]
      /\ \A i \in 0 .. m : f[i] = IF i = 0 THEN 0 ELSE f[i - 1] + h[i]
  BY Zenon DEF Sums
<1>2. 0 \in S
  BY <1>1
<1>3. ASSUME NEW k \in Nat, k \in S PROVE k + 1 \in S
  <2> SUFFICES ASSUME k + 1 <= n PROVE e[k + 1] = f[k + 1]
    OBVIOUS
  <2>1. e[k] = f[k] /\ g[k + 1] = h[k + 1]
    BY <1>3
  <2>2. /\ k + 1 \in 0 .. n /\ k + 1 \in 0 .. m /\ k + 1 # 0
        /\ (k + 1) - 1 = k
    OBVIOUS
  <2> QED
    BY <1>1, <2>1, <2>2
<1> HIDE DEF S
<1>4. n \in S
  BY <1>2, <1>3, InductionOverNat
<1> QED
  BY <1>4 DEF S, SameAt
=============================================================================
