------------------------------ MODULE Induction ------------------------------
(***************************************************************************)
(* Induction over the natural numbers, with sets of numbers in the place   *)
(* of predicates, and what follows from it for recursive functions and for *)
(* powers of two.                                                          *)
(***************************************************************************)
EXTENDS Integers, FiniteSetTheorems, WellFoundedInduction, TLAPS

-----------------------------------------------------------------------------
(* Induction.                                                              *)

\* A set of numbers has a least one.
LEMMA LeastNumber ==
    ASSUME NEW T \in SUBSET Nat, T # {}
    PROVE  \E x \in T : \A y \in T : x <= y
<1> DEFINE R == OpToRel(<, Nat)
<1>1. IsWellFoundedOn(R, Nat)
  BY NatLessThanWellFounded
<1>2. \A x, y \in Nat : y < x => <<y, x>> \in R
  BY DEF OpToRel
<1> HIDE DEF R
<1>3. PICK x \in T : \A y \in T : <<y, x>> \notin R
  BY <1>1, WFMin
<1>4. \A y \in T : ~(y < x)
  BY <1>2, <1>3
<1> QED
  BY <1>4

\* A set that has 0 and every successor has all numbers.
LEMMA SetInduction ==
    ASSUME NEW T \in SUBSET Nat, 0 \in T, \A n \in T : n + 1 \in T
    PROVE  T = Nat
<1> SUFFICES ASSUME Nat \ T # {} PROVE FALSE
  OBVIOUS
<1>1. Nat \ T \in SUBSET Nat
  OBVIOUS
<1>2. PICK x \in Nat \ T : \A y \in Nat \ T : x <= y
  BY <1>1, LeastNumber
<1>3. x # 0
  OBVIOUS
<1>4. x - 1 \in T
  BY <1>2, <1>3
<1>5. (x - 1) + 1 \in T
  BY <1>4
<1> QED
  BY <1>2, <1>5

\* The same up to a limit.
LEMMA BoundedInduction ==
    ASSUME NEW m \in Nat, NEW T, 0 \in T, \A n \in 0..(m - 1) : n \in T => n + 1 \in T
    PROVE  0..m \subseteq T
<1> DEFINE U == {n \in Nat : n <= m => n \in T}
<1>1. U \in SUBSET Nat /\ 0 \in U
  OBVIOUS
<1>2. \A n \in U : n + 1 \in U
  OBVIOUS
<1>3. U = Nat
  <2> HIDE DEF U
  <2> QED
    BY <1>1, <1>2, SetInduction
<1> QED
  BY <1>3

-----------------------------------------------------------------------------
(* Recursive functions.  The step of the recursion is a function itself.   *)

Iterates(f, n, s, step) ==
    f = [k \in 0..n |-> IF k = 0 THEN s ELSE step[<<f[k - 1], k>>]]

\* The values of a function that is given by its first value and a step.
LEMMA IterationValues ==
    ASSUME NEW n \in Nat, NEW s, NEW step, NEW f, Iterates(f, n, s, step)
    PROVE  /\ DOMAIN f = 0..n
           /\ f[0] = s
           /\ \A k \in 1..n : f[k] = step[<<f[k - 1], k>>]
<1> DEFINE g == [k \in 0..n |-> IF k = 0 THEN s ELSE step[<<f[k - 1], k>>]]
<1>1. f = g
  BY DEF Iterates
<1>2. g[0] = s
  OBVIOUS
<1>3. ASSUME NEW k \in 1..n PROVE g[k] = step[<<f[k - 1], k>>]
  <2>1. k \in 0..n /\ k # 0
    OBVIOUS
  <2> QED
    BY <2>1
<1> HIDE DEF g
<1>4. DOMAIN g = 0..n
  BY DEF g
<1> QED
  BY <1>1, <1>2, <1>3, <1>4

\* A function that is defined by a step of its values exists, has the type of
\* the steps, and is what its definition chooses.
LEMMA IterationExists ==
    ASSUME NEW n \in Nat, NEW S, NEW s \in S, NEW step \in [S \X (1..n) -> S]
    PROVE  \E f \in [0..n -> S] : Iterates(f, n, s, step)
<1> DEFINE T == {m \in Nat : m <= n => \E f \in [0..m -> S] : Iterates(f, m, s, step)}
<1>1. T \in SUBSET Nat
  OBVIOUS
<1>2. 0 \in T
  <2> DEFINE f == [k \in 0..0 |-> s]
  <2>1. f \in [0..0 -> S] /\ Iterates(f, 0, s, step)
    BY DEF Iterates
  <2> QED
    BY <2>1
<1>3. ASSUME NEW m \in T PROVE m + 1 \in T
  <2> SUFFICES ASSUME m + 1 <= n
               PROVE  \E f \in [0..(m + 1) -> S] : Iterates(f, m + 1, s, step)
    BY <1>1
  <2>1. PICK f \in [0..m -> S] : Iterates(f, m, s, step)
    BY <1>1
  <2> DEFINE g == [k \in 0..(m + 1) |-> IF k = m + 1 THEN step[<<f[m], m + 1>>] ELSE f[k]]
  <2>2. step[<<f[m], m + 1>>] \in S
    BY <1>1
  <2>3. g \in [0..(m + 1) -> S]
    BY <1>1, <2>2
  <2>4. ASSUME NEW k \in 0..(m + 1)
        PROVE  g[k] = IF k = 0 THEN s ELSE step[<<g[k - 1], k>>]
    <3>1. CASE k = m + 1
      <4>1. m \in 0..(m + 1) /\ m # m + 1 /\ k - 1 = m /\ k # 0
        BY <1>1, <3>1
      <4>2. g[m] = f[m]
        BY <4>1
      <4>3. g[k] = step[<<f[m], m + 1>>]
        BY <3>1
      <4> QED
        BY <3>1, <4>1, <4>2, <4>3
    <3>2. CASE k # m + 1
      BY <1>1, <2>1, <3>2 DEF Iterates
    <3> QED
      BY <3>1, <3>2
  <2>5. Iterates(g, m + 1, s, step)
    BY <2>3, <2>4 DEF Iterates
  <2> QED
    BY <2>3, <2>5
<1>4. T = Nat
  <2> HIDE DEF T
  <2> QED
    BY <1>1, <1>2, <1>3, SetInduction
<1> QED
  BY <1>4

-----------------------------------------------------------------------------
(* Powers of two.                                                          *)

\* A set with one element more has twice as many subsets.
LEMMA PowerDoubles ==
    ASSUME NEW n \in Nat
    PROVE  2^(n + 1) = 2 * 2^n
<1> DEFINE Old == SUBSET (1..n)
           New == {T \cup {n + 1} : T \in Old}
<1>1. /\ IsFiniteSet(1..n) /\ Cardinality(1..n) = n
      /\ IsFiniteSet(1..(n + 1)) /\ Cardinality(1..(n + 1)) = n + 1
  BY FS_Interval
<1>2. /\ IsFiniteSet(Old) /\ Cardinality(Old) = 2^n
      /\ Cardinality(SUBSET (1..(n + 1))) = 2^(n + 1)
  BY <1>1, FS_SUBSET
<1>3. SUBSET (1..(n + 1)) = Old \cup New
  <2>1. ASSUME NEW U \in SUBSET (1..(n + 1)) PROVE U \in Old \cup New
    <3>1. U \ {n + 1} \in Old
      OBVIOUS
    <3>2. n + 1 \in U => U = (U \ {n + 1}) \cup {n + 1}
      OBVIOUS
    <3> QED
      BY <3>1, <3>2
  <2>2. ASSUME NEW U \in Old \cup New PROVE U \in SUBSET (1..(n + 1))
    OBVIOUS
  <2> QED
    BY <2>1, <2>2
<1>4. Old \cap New = {}
  OBVIOUS
<1>5. ExistsBijection(Old, New)
  <2> DEFINE f == [T \in Old |-> T \cup {n + 1}]
  <2>1. f \in [Old -> New]
    OBVIOUS
  <2>2. \A T, U \in Old : T \cup {n + 1} = U \cup {n + 1} => T = U
    <3> SUFFICES ASSUME NEW T \in Old, NEW U \in Old, T \cup {n + 1} = U \cup {n + 1}
                 PROVE  T = U
      OBVIOUS
    <3>1. n + 1 \notin T /\ n + 1 \notin U
      OBVIOUS
    <3> QED
      BY <3>1
  <2>3. f \in Injection(Old, New)
    BY <2>1, <2>2 DEF Injection, IsInjective
  <2>4. f \in Surjection(Old, New)
    BY <2>1 DEF Surjection
  <2> QED
    BY <2>3, <2>4 DEF ExistsBijection, Bijection
<1> HIDE DEF Old, New
<1>6. IsFiniteSet(New) /\ Cardinality(New) = Cardinality(Old)
  BY <1>2, <1>5, FS_Bijection
<1>7. Cardinality(Old \cup New) = Cardinality(Old) + Cardinality(New) - Cardinality(Old \cap New)
  BY <1>2, <1>6, FS_Union
<1>8. Cardinality(Old \cup New) = 2^(n + 1) /\ Cardinality(Old \cap New) = 0
  BY <1>2, <1>3, <1>4, FS_EmptySet
<1>9. 2^n \in Int /\ 2^(n + 1) \in Int
  OBVIOUS
<1> QED
  BY <1>2, <1>6, <1>7, <1>8, <1>9

\* Powers of two, from PowerDoubles by induction.
LEMMA PowerPositive == \A n \in Nat : 2^n \in Nat /\ 2^n >= 1
<1> DEFINE T == {n \in Nat : 2^n \in Nat /\ 2^n >= 1}
<1>1. T \in SUBSET Nat /\ 0 \in T
  OBVIOUS
<1>2. \A n \in T : n + 1 \in T
  BY PowerDoubles
<1>3. T = Nat
  <2> HIDE DEF T
  <2> QED
    BY <1>1, <1>2, SetInduction
<1> QED
  BY <1>3

LEMMA PowerSum ==
    ASSUME NEW m \in Nat, NEW n \in Nat
    PROVE  2^(m + n) = 2^m * 2^n
<1> DEFINE T == {k \in Nat : 2^(m + k) = 2^m * 2^k}
<1>1. T \in SUBSET Nat /\ 0 \in T
  <2>1. 2^0 = 1 /\ 2^m \in Int
    OBVIOUS
  <2> QED
    BY <2>1
<1>2. ASSUME NEW k \in T PROVE k + 1 \in T
  <2>1. 2^((m + k) + 1) = 2 * 2^(m + k) /\ 2^(k + 1) = 2 * 2^k
    BY PowerDoubles
  <2>2. 2^m \in Int /\ 2^k \in Int /\ 2^(m + k) \in Int
    OBVIOUS
  <2>3. 2 * (2^m * 2^k) = 2^m * (2 * 2^k)
    BY <2>2
  <2>4. m + (k + 1) = (m + k) + 1
    OBVIOUS
  <2> QED
    BY <2>1, <2>2, <2>3, <2>4
<1>3. T = Nat
  <2> HIDE DEF T
  <2> QED
    BY <1>1, <1>2, SetInduction
<1> QED
  BY <1>3

\* A larger exponent at least doubles.
LEMMA PowerMonotone ==
    ASSUME NEW m \in Nat, NEW n \in Nat, m < n
    PROVE  2 * 2^m <= 2^n
<1>1. 2^(m + 1) = 2 * 2^m
  BY PowerDoubles
<1>2. n - (m + 1) \in Nat /\ (m + 1) + (n - (m + 1)) = n
  OBVIOUS
<1>3. 2^n = 2^(m + 1) * 2^(n - (m + 1))
  <2> DEFINE d == n - (m + 1)
  <2>1. 2^((m + 1) + d) = 2^(m + 1) * 2^d
    BY <1>2, PowerSum
  <2> QED
    BY <1>2, <2>1
<1>4. 2^(m + 1) \in Nat /\ 2^(n - (m + 1)) \in Nat /\ 2^(n - (m + 1)) >= 1
  BY <1>2, PowerPositive
<1>5. \A a, b \in Nat : b >= 1 => a <= a * b
  OBVIOUS
<1> QED
  BY <1>1, <1>3, <1>4, <1>5
=============================================================================
