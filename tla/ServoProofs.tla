----------------------------- MODULE ServoProofs -----------------------------
(***************************************************************************)
(* Proofs about the arithmetic of times, for a second of any number of     *)
(* nanoseconds and times of any size, about the filters, for words of any  *)
(* width, and about the servo that uses them.                              *)
(***************************************************************************)
EXTENDS Servo, Induction, TLAPS

\* What is left of a non-negative number after a division.
LEMMA DivisionOfNat ==
    ASSUME NEW a \in Nat
    PROVE  /\ a \div NsPerSec \in Nat
           /\ a - (a \div NsPerSec) * NsPerSec \in 0..(NsPerSec - 1)
BY ArithAssumption

\* The division of C leaves less than a second, of the same sign.
LEMMA Division ==
    ASSUME NEW a \in Int
    PROVE  /\ Quot(a, NsPerSec) \in Int
           /\ -NsPerSec < a - Quot(a, NsPerSec) * NsPerSec
           /\ a - Quot(a, NsPerSec) * NsPerSec < NsPerSec
<1> DEFINE q == Quot(a, NsPerSec)
<1>1. CASE a >= 0
  <2>1. q = a \div NsPerSec
    BY <1>1 DEF Quot
  <2> QED
    BY <1>1, <2>1, DivisionOfNat, ArithAssumption
<1>2. CASE a < 0
  <2> DEFINE d == (-a) \div NsPerSec
  <2>1. q = -d
    BY <1>2 DEF Quot
  <2>2. d \in Nat /\ (-a) - d * NsPerSec \in 0..(NsPerSec - 1)
    BY <1>2, DivisionOfNat
  <2> HIDE DEF d
  <2>3. d * NsPerSec \in Int
    BY <2>2, ArithAssumption
  <2>4. (-d) * NsPerSec = -(d * NsPerSec)
    BY <2>2, ArithAssumption
  <2> QED
    BY <1>2, <2>1, <2>2, <2>3, <2>4, ArithAssumption
<1> QED
  BY <1>1, <1>2

\* The carry keeps the time.
LEMMA Carry ==
    ASSUME NEW t \in TimeInternal
    PROVE  /\ Carried(t) \in TimeInternal
           /\ Nanoseconds(Carried(t)) = Nanoseconds(t)
           /\ -NsPerSec < Carried(t).nanoseconds /\ Carried(t).nanoseconds < NsPerSec
<1> DEFINE q == Quot(t.nanoseconds, NsPerSec)
<1>1. t.nanoseconds \in Int /\ t.seconds \in Int /\ NsPerSec \in Int
  BY ArithAssumption DEF TimeInternal
<1>2. /\ q \in Int
      /\ -NsPerSec < t.nanoseconds - q * NsPerSec
      /\ t.nanoseconds - q * NsPerSec < NsPerSec
  BY <1>1, Division
<1>3. Carried(t) = [seconds |-> t.seconds + q, nanoseconds |-> t.nanoseconds - q * NsPerSec]
  BY DEF Carried
<1> HIDE DEF q
<1>4. (t.seconds + q) * NsPerSec = t.seconds * NsPerSec + q * NsPerSec
  BY <1>1, <1>2
<1>5. q * NsPerSec \in Int /\ t.seconds * NsPerSec \in Int
  BY <1>1, <1>2
<1> QED
  BY <1>1, <1>2, <1>3, <1>4, <1>5 DEF TimeInternal, Nanoseconds

\* normalizeTime keeps the time and yields a normal one (arith.c:86-103).
THEOREM NormalizeExact ==
    ASSUME NEW t \in TimeInternal
    PROVE  /\ normalizeTime(t) \in TimeInternal
           /\ Nanoseconds(normalizeTime(t)) = Nanoseconds(t)
           /\ Normal(normalizeTime(t))
<1> DEFINE c == Carried(t)
<1>1. /\ c \in TimeInternal /\ Nanoseconds(c) = Nanoseconds(t)
      /\ -NsPerSec < c.nanoseconds /\ c.nanoseconds < NsPerSec
  BY Carry
<1>2. normalizeTime(t) =
        IF c.seconds > 0 /\ c.nanoseconds < 0
        THEN [seconds |-> c.seconds - 1, nanoseconds |-> c.nanoseconds + NsPerSec]
        ELSE IF c.seconds < 0 /\ c.nanoseconds > 0
        THEN [seconds |-> c.seconds + 1, nanoseconds |-> c.nanoseconds - NsPerSec]
        ELSE c
  BY DEF normalizeTime
<1> HIDE DEF c
<1>3. c.seconds \in Int /\ c.nanoseconds \in Int /\ NsPerSec \in Int
  BY <1>1, ArithAssumption DEF TimeInternal
<1>4. /\ (c.seconds - 1) * NsPerSec = c.seconds * NsPerSec - NsPerSec
      /\ (c.seconds + 1) * NsPerSec = c.seconds * NsPerSec + NsPerSec
      /\ c.seconds * NsPerSec \in Int
  BY <1>3
<1>5. CASE c.seconds > 0 /\ c.nanoseconds < 0
  BY <1>1, <1>2, <1>3, <1>4, <1>5 DEF TimeInternal, Nanoseconds, Normal
<1>6. CASE c.seconds < 0 /\ c.nanoseconds > 0
  BY <1>1, <1>2, <1>3, <1>4, <1>6 DEF TimeInternal, Nanoseconds, Normal
<1>7. CASE ~(c.seconds > 0 /\ c.nanoseconds < 0) /\ ~(c.seconds < 0 /\ c.nanoseconds > 0)
  BY <1>1, <1>2, <1>3, <1>7 DEF Normal
<1> QED
  BY <1>5, <1>6, <1>7

\* The sum of two times is exact and normal (arith.c:78-84).
THEOREM SumExact ==
    ASSUME NEW x \in TimeInternal, NEW y \in TimeInternal
    PROVE  /\ addTime(x, y) \in TimeInternal /\ Normal(addTime(x, y))
           /\ Nanoseconds(addTime(x, y)) = Nanoseconds(x) + Nanoseconds(y)
<1> DEFINE z == [seconds |-> x.seconds + y.seconds,
                 nanoseconds |-> x.nanoseconds + y.nanoseconds]
<1>1. /\ x.seconds \in Int /\ x.nanoseconds \in Int
      /\ y.seconds \in Int /\ y.nanoseconds \in Int /\ NsPerSec \in Int
  BY ArithAssumption DEF TimeInternal
<1>2. /\ (x.seconds + y.seconds) * NsPerSec = x.seconds * NsPerSec + y.seconds * NsPerSec
      /\ x.seconds * NsPerSec \in Int /\ y.seconds * NsPerSec \in Int
  BY <1>1
<1>3. z \in TimeInternal /\ Nanoseconds(z) = Nanoseconds(x) + Nanoseconds(y)
  BY <1>1, <1>2 DEF TimeInternal, Nanoseconds
<1> QED
  BY <1>3, NormalizeExact DEF addTime

\* The difference of two times is exact and normal (arith.c:86-92).
THEOREM DifferenceExact ==
    ASSUME NEW x \in TimeInternal, NEW y \in TimeInternal
    PROVE  /\ subTime(x, y) \in TimeInternal /\ Normal(subTime(x, y))
           /\ Nanoseconds(subTime(x, y)) = Nanoseconds(x) - Nanoseconds(y)
<1> DEFINE z == [seconds |-> x.seconds - y.seconds,
                 nanoseconds |-> x.nanoseconds - y.nanoseconds]
<1>1. /\ x.seconds \in Int /\ x.nanoseconds \in Int
      /\ y.seconds \in Int /\ y.nanoseconds \in Int /\ NsPerSec \in Int
  BY ArithAssumption DEF TimeInternal
<1>2. /\ (x.seconds - y.seconds) * NsPerSec = x.seconds * NsPerSec - y.seconds * NsPerSec
      /\ x.seconds * NsPerSec \in Int /\ y.seconds * NsPerSec \in Int
  BY <1>1
<1>3. z \in TimeInternal /\ Nanoseconds(z) = Nanoseconds(x) - Nanoseconds(y)
  BY <1>1, <1>2 DEF TimeInternal, Nanoseconds
<1> QED
  BY <1>3, NormalizeExact DEF subTime

\* Half of a number, rounded toward zero.
LEMMA Halving ==
    ASSUME NEW a \in Int
    PROVE  /\ Quot(a, 2) \in Int
           /\ a >= 0 => Quot(a, 2) >= 0 /\ a - 2 * Quot(a, 2) \in {0, 1}
           /\ a <= 0 => Quot(a, 2) <= 0 /\ a - 2 * Quot(a, 2) \in {-1, 0}
BY DEF Quot

\* Half of a normal time is half of its nanoseconds, rounded towards 0.
THEOREM HalfExact ==
    ASSUME NEW t \in TimeInternal, Normal(t)
    PROVE  /\ div2Time(t) \in TimeInternal /\ Normal(div2Time(t))
           /\ Nanoseconds(div2Time(t)) = Quot(Nanoseconds(t), 2)
<1> DEFINE h == Quot(t.seconds, 2)
           n == t.nanoseconds + (t.seconds - 2 * h) * NsPerSec
           z == [seconds |-> h, nanoseconds |-> Quot(n, 2)]
<1>1. t.seconds \in Int /\ t.nanoseconds \in Int /\ NsPerSec \in Nat
  BY ArithAssumption DEF TimeInternal
<1>2. /\ h \in Int
      /\ t.seconds >= 0 => h >= 0 /\ t.seconds - 2 * h \in {0, 1}
      /\ t.seconds <= 0 => h <= 0 /\ t.seconds - 2 * h \in {-1, 0}
  BY <1>1, Halving
<1>3. div2Time(t) = normalizeTime(z)
  BY DEF div2Time
<1> HIDE DEF h
<1>4. /\ t.seconds - 2 * h = 0 => n = t.nanoseconds
      /\ t.seconds - 2 * h = 1 => n = t.nanoseconds + NsPerSec
      /\ t.seconds - 2 * h = -1 => n = t.nanoseconds - NsPerSec
  BY <1>1
<1>5. n \in Int /\ ((h >= 0 /\ n >= 0) \/ (h <= 0 /\ n <= 0))
  <2>1. n \in Int
    BY <1>1, <1>2
  <2> HIDE DEF n
  <2>2. CASE t.seconds > 0
    BY <1>1, <1>2, <1>4, <2>1, <2>2 DEF Normal
  <2>3. CASE t.seconds < 0
    BY <1>1, <1>2, <1>4, <2>1, <2>3 DEF Normal
  <2>4. CASE t.seconds = 0
    <3>1. h = 0 /\ t.seconds - 2 * h = 0
      BY <1>1, <1>2, <2>4
    <3> QED
      BY <1>1, <1>4, <2>1, <3>1
  <2> QED
    BY <1>1, <2>2, <2>3, <2>4
<1>6. Nanoseconds(t) = 2 * (h * NsPerSec) + n /\ h * NsPerSec \in Int
  <2>1. h * NsPerSec \in Int /\ t.seconds * NsPerSec \in Int
    BY <1>1, <1>2
  <2>2. (t.seconds - 2 * h) * NsPerSec = t.seconds * NsPerSec - 2 * (h * NsPerSec)
    BY <1>1, <1>2
  <2> QED
    BY <1>1, <2>1, <2>2 DEF Nanoseconds
<1> HIDE DEF n
<1>7. z \in TimeInternal /\ Nanoseconds(z) = h * NsPerSec + Quot(n, 2)
  BY <1>1, <1>2, <1>5 DEF TimeInternal, Nanoseconds, Quot
<1>8. Quot(Nanoseconds(t), 2) = h * NsPerSec + Quot(n, 2)
  <2>1. (h >= 0 => h * NsPerSec >= 0) /\ (h <= 0 => h * NsPerSec <= 0)
    BY <1>1, <1>2
  <2> QED
    BY <1>5, <1>6, <2>1 DEF Quot
<1> QED
  BY <1>3, <1>7, <1>8, NormalizeExact

-----------------------------------------------------------------------------
(* Filters.                                                                *)

\* A number lies between the multiples of its divisor.
LEMMA FloorDivision ==
    ASSUME NEW a \in Int, NEW b \in Nat, b >= 1
    PROVE  /\ a \div b \in Int
           /\ (a \div b) * b <= a
           /\ a < (a \div b) * b + b
OBVIOUS

\* Products with a positive factor are in the order of the others.
LEMMA Cancel ==
    ASSUME NEW a \in Int, NEW b \in Int, NEW d \in Nat, d >= 1, a * d < b * d
    PROVE  a < b
<1> SUFFICES ASSUME a >= b PROVE FALSE
  OBVIOUS
<1>1. (a - b) * d >= 0
  OBVIOUS
<1>2. (a - b) * d = a * d - b * d
  OBVIOUS
<1> QED
  BY <1>1, <1>2

LEMMA ProductsAssociate ==
    \A a, b, c \in Int : a * (b * c) = (a * b) * c
OBVIOUS

\* The range of a word.
LEMMA Words ==
    /\ Word \in Nat /\ Word >= 1 /\ Word = 2 * 2^FilterBits
    /\ \A a \in Int : AsWord(a) \in -Word..(Word - 1)
<1>1. Word = 2 * 2^FilterBits
  BY ArithAssumption, PowerDoubles DEF Word
<1>2. 2^FilterBits \in Nat /\ 2^FilterBits >= 1
  BY ArithAssumption, PowerPositive
<1>3. Word \in Nat /\ Word >= 1
  BY <1>1, <1>2
<1>4. ASSUME NEW a \in Int PROVE AsWord(a) \in -Word..(Word - 1)
  <2>1. (a + Word) % (2 * Word) \in 0..(2 * Word - 1)
    BY <1>3
  <2> QED
    BY <1>3, <2>1 DEF AsWord
<1> QED
  BY <1>1, <1>3, <1>4

\* Numbers up to 2^FilterBits, in either direction, have an order up to FilterBits.
LEMMA OrderInRange ==
    ASSUME NEW a \in Int, -(2^FilterBits) <= a, a <= 2^FilterBits
    PROVE  order(a) \in 0..FilterBits /\ (a # 0 => 2^order(a) <= AbsVal(a))
<1> DEFINE b == AbsVal(a)
           P(k) == 2^k <= b /\ b < 2^(k + 1)
<1>1. FilterBits \in Nat
  BY ArithAssumption
<1>2. 2^FilterBits \in Nat /\ 2^FilterBits >= 1 /\ 2^(FilterBits + 1) = 2 * 2^FilterBits
  BY <1>1, PowerPositive, PowerDoubles
<1>3. CASE a = 0
  BY <1>1, <1>3 DEF order
<1>4. CASE a # 0
  <2>1. b \in Nat /\ b >= 1 /\ b <= 2^FilterBits
    BY <1>2, <1>4 DEF AbsVal
  <2>2. order(a) = CHOOSE k \in 0..FilterBits + 1 : P(k)
    BY <1>4 DEF order, floorLog2
  <2> HIDE DEF b
  <2>3. PICK k \in 0..FilterBits : P(k)
    <3> DEFINE T == {k \in Nat : b < 2^(k + 1)}
    <3>1. T \in SUBSET Nat /\ FilterBits \in T
      BY <1>1, <1>2, <2>1
    <3>2. PICK k \in T : \A l \in T : k <= l
      <4> HIDE DEF T
      <4> QED
        BY <3>1, LeastNumber
    <3>3. k \in 0..FilterBits /\ b < 2^(k + 1)
      BY <1>1, <3>1, <3>2
    <3>4. CASE k = 0
      <4>1. 2^0 = 1
        OBVIOUS
      <4> QED
        BY <2>1, <3>3, <3>4, <4>1
    <3>5. CASE k # 0
      <4>1. k - 1 \in Nat /\ k - 1 \notin T /\ (k - 1) + 1 = k
        BY <3>2, <3>3, <3>5
      <4>2. 2^k \in Nat
        BY <3>3, PowerPositive
      <4>3. ~(b < 2^((k - 1) + 1))
        BY <4>1
      <4>4. 2^k <= b
        BY <2>1, <4>1, <4>2, <4>3
      <4> QED
        BY <3>3, <4>4
    <3> QED
      BY <3>4, <3>5
  <2>4. order(a) \in 0..FilterBits + 1 /\ P(order(a))
    <3> HIDE DEF P
    <3>1. k \in 0..FilterBits + 1
      BY <1>1
    <3> QED
      BY <2>2, <2>3, <3>1
  <2>5. order(a) # FilterBits + 1
    BY <1>2, <2>1, <2>4
  <2>6. 2^order(a) <= AbsVal(a)
    BY <2>4 DEF b
  <2> QED
    BY <1>1, <2>4, <2>5, <2>6
<1> QED
  BY <1>3, <1>4

\* However the order changes, the sum that is shifted still yields y.
LEMMA RescaledKeeps ==
    ASSUME NEW u \in Int, NEW s \in Nat, NEW t \in Nat, NEW y, y = u \div 2^s
    PROVE  /\ y \in Int /\ Rescaled(u, s, t) \in Int
           /\ y * 2^t <= Rescaled(u, s, t)
           /\ Rescaled(u, s, t) < y * 2^t + 2^t
<1> DEFINE R == Rescaled(u, s, t)
<1>1. 2^s \in Nat /\ 2^s >= 1 /\ 2^t \in Nat /\ 2^t >= 1
  BY PowerPositive
<1>2. y \in Int /\ y * 2^s <= u /\ u < y * 2^s + 2^s
  BY <1>1, FloorDivision
<1>3. CASE s > t
  <2> DEFINE D == 2^(s - t)
  <2>1. s - t \in Nat /\ t + (s - t) = s
    BY <1>3
  <2>2. D \in Nat /\ D >= 1 /\ 2^s = 2^t * D
    BY <2>1, PowerPositive, PowerSum
  <2>3. R = u \div D
    BY <1>3 DEF Rescaled
  <2> HIDE DEF D
  <2>4. R \in Int /\ R * D <= u /\ u < R * D + D
    BY <2>2, <2>3, FloorDivision
  <2> HIDE DEF R
  <2> DEFINE p == y * 2^t
             e == 2^t
  <2>5. p \in Int /\ e \in Nat /\ y * 2^s = p * D
    <3>1. y * (2^t * D) = (y * 2^t) * D
      BY <1>1, <1>2, <2>2, ProductsAssociate
    <3> QED
      BY <1>1, <1>2, <2>2, <3>1
  <2>6. 2^s = e * D
    BY <2>2
  <2> HIDE DEF p, e
  <2>7. p * D <= u /\ u < p * D + e * D
    BY <1>2, <2>5, <2>6
  <2>8. (R + 1) * D = R * D + D /\ (p + e) * D = p * D + e * D
    BY <2>2, <2>4, <2>5
  <2>9. /\ p * D \in Int /\ e * D \in Int /\ R * D \in Int
        /\ (R + 1) * D \in Int /\ (p + e) * D \in Int
    BY <2>2, <2>4, <2>5
  <2>10. p * D < (R + 1) * D /\ R * D < (p + e) * D
    BY <2>2, <2>4, <2>7, <2>8, <2>9
  <2>11. p < R + 1 /\ R < p + e
    BY <2>2, <2>4, <2>5, <2>10, Cancel
  <2> QED
    BY <1>2, <2>4, <2>5, <2>11 DEF p, e, R
<1>4. CASE ~(s > t)
  <2> DEFINE D == 2^(t - s)
  <2>1. t - s \in Nat /\ s + (t - s) = t
    BY <1>4
  <2>2. D \in Nat /\ D >= 1 /\ 2^t = 2^s * D
    BY <2>1, PowerPositive, PowerSum
  <2>3. R = u * D
    BY <1>4 DEF Rescaled
  <2> HIDE DEF D, R
  <2> DEFINE p == y * 2^s
             e == 2^s
  <2>4. p \in Int /\ e \in Nat /\ p <= u /\ u <= p + e - 1 /\ y * 2^t = p * D /\ 2^t = e * D
    <3>1. y * (2^s * D) = (y * 2^s) * D
      BY <1>1, <1>2, <2>2, ProductsAssociate
    <3> QED
      BY <1>1, <1>2, <2>2, <3>1
  <2> HIDE DEF p, e
  <2>5. p * D <= u * D /\ u * D <= (p + e - 1) * D
    BY <2>2, <2>4
  <2>6. (p + e - 1) * D = p * D + e * D - D
    BY <2>2, <2>4
  <2>7. p * D \in Int /\ e * D \in Int /\ u * D \in Int
    BY <2>2, <2>4
  <2> QED
    BY <1>2, <2>2, <2>3, <2>4, <2>5, <2>6, <2>7 DEF R
<1> QED
  BY <1>3, <1>4

\* The mean moves towards the sample and not beyond it.
LEMMA MeanMoves ==
    ASSUME NEW y \in Int, NEW x \in Int, NEW P \in Nat, P >= 1, NEW R \in Int,
           y * P <= R, R < y * P + P
    PROVE  LET z == (R + x - y) \div P
           IN  (y <= z /\ z <= x) \/ (x <= z /\ z <= y)
<1> DEFINE v == R + x - y
           z == v \div P
<1>1. v \in Int
  OBVIOUS
<1>2. z \in Int /\ z * P <= v /\ v < z * P + P
  BY <1>1, FloorDivision
<1>3. y * P \in Int /\ x * P \in Int /\ z * P \in Int
  BY <1>2
<1> HIDE DEF z
<1>4. (z + 1) * P = z * P + P /\ (x + 1) * P = x * P + P /\ (y + 1) * P = y * P + P
  BY <1>2
<1>5. (x - y) * P = x * P - y * P
  OBVIOUS
<1>6. CASE x >= y
  <2>1. x - y <= (x - y) * P
    BY <1>6
  <2>2. y * P < (z + 1) * P /\ z * P < (x + 1) * P
    BY <1>2, <1>3, <1>4, <1>5, <1>6, <2>1
  <2>3. y < z + 1 /\ z < x + 1
    BY <1>2, <2>2, Cancel
  <2> QED
    BY <1>2, <2>3 DEF z
<1>7. CASE x < y
  <2>1. (x - y) * P <= x - y
    BY <1>7
  <2>2. x * P < (z + 1) * P /\ z * P < (y + 1) * P
    BY <1>2, <1>3, <1>4, <1>5, <1>7, <2>1
  <2>3. x < z + 1 /\ z < y + 1
    BY <1>2, <2>2, Cancel
  <2> QED
    BY <1>2, <2>3 DEF z
<1> QED
  BY <1>6, <1>7

\* What holds of a filter between the samples: its output is its sum, shifted,
\* and fits the word with a bit to spare, and it lies between its least and its
\* largest sample.
FilterRecords ==
    [n : Nat, y : Int, sum : Int, s : Nat, lo : Int, hi : Int, wrapped : BOOLEAN]

FilterOK(f) ==
    /\ f \in FilterRecords
    /\ f.s \in 0..FilterBits
    /\ f.sum \in -Word..(Word - 1)
    /\ f.y = f.sum \div 2^f.s
    /\ -(2^FilterBits) <= f.y /\ f.y <= 2^FilterBits
    /\ f.n # 0 /\ ~f.wrapped => f.lo <= f.y /\ f.y <= f.hi

\* The record of a filter keeps its type when its fields change.
LEMMA SampleRecord ==
    ASSUME NEW f \in FilterRecords, NEW n \in Nat, NEW l \in Int, NEW h \in Int
    PROVE  [f EXCEPT !.n = n, !.lo = l, !.hi = h] \in FilterRecords
BY DEF FilterRecords

LEMMA SmoothedRecord ==
    ASSUME NEW f \in FilterRecords, NEW n \in Nat, NEW v \in Int, NEW y \in Int,
           NEW t \in Nat, NEW w \in BOOLEAN
    PROVE  [f EXCEPT !.n = n, !.sum = v, !.y = y, !.s = t, !.wrapped = w] \in FilterRecords
BY DEF FilterRecords

LEMMA EmptyFilterOK == FilterOK(EmptyFilter)
<1>1. 2^0 = 1 /\ 0 \div 1 = 0
  OBVIOUS
<1>2. 2^FilterBits \in Nat
  BY ArithAssumption, PowerPositive
<1> QED
  BY <1>1, <1>2, Words, ArithAssumption DEF FilterOK, FilterRecords, EmptyFilter

\* A filter that is about to take a sample: an empty one starts with it.
LEMMA FirstSampleOK ==
    ASSUME NEW f, FilterOK(f), NEW x \in Int, -NsPerSec < x, x < NsPerSec
    PROVE  LET g == FirstSample(f, x)
           IN  /\ g \in FilterRecords /\ g.n >= 1 /\ g.s \in 0..FilterBits
               /\ g.y = g.sum \div 2^g.s
               /\ -(2^FilterBits) <= g.y /\ g.y <= 2^FilterBits
               /\ ~g.wrapped => /\ g.lo <= g.y /\ g.y <= g.hi
                                /\ g.lo <= x /\ x <= g.hi
<1>1. 2^FilterBits \in Nat /\ -(2^FilterBits) <= x /\ x <= 2^FilterBits
  BY ArithAssumption, PowerPositive
<1>2. CASE f.n = 0
  <2> DEFINE g == [n |-> 1, y |-> x, sum |-> x, s |-> 0, lo |-> x, hi |-> x, wrapped |-> FALSE]
  <2>1. FirstSample(f, x) = g
    BY <1>2 DEF FirstSample
  <2>2. 2^0 = 1 /\ x \div 1 = x
    OBVIOUS
  <2>3. g.y = g.sum \div 2^g.s
    BY <2>2
  <2>4. g \in FilterRecords
    BY DEF FilterRecords
  <2> QED
    BY <1>1, <2>1, <2>3, <2>4, ArithAssumption
<1>3. CASE f.n # 0
  <2> DEFINE l == IF x < f.lo THEN x ELSE f.lo
             h == IF x > f.hi THEN x ELSE f.hi
             g == [f EXCEPT !.n = @ + 1, !.lo = IF x < @ THEN x ELSE @,
                            !.hi = IF x > @ THEN x ELSE @]
  <2>1. FirstSample(f, x) = g
    BY <1>3 DEF FirstSample
  <2>2. f \in FilterRecords
    BY DEF FilterOK
  <2>3. /\ g.n = f.n + 1 /\ g.lo = l /\ g.hi = h
        /\ g.y = f.y /\ g.sum = f.sum /\ g.s = f.s /\ g.wrapped = f.wrapped
    BY <2>2 DEF FilterRecords
  <2>4. g \in FilterRecords
    <3>1. g = [f EXCEPT !.n = f.n + 1, !.lo = l, !.hi = h]
      OBVIOUS
    <3>2. f.n + 1 \in Nat /\ l \in Int /\ h \in Int
      BY <2>2 DEF FilterRecords
    <3> HIDE DEF g, l, h
    <3> QED
      BY <2>2, <3>1, <3>2, SampleRecord
  <2> HIDE DEF g
  <2>5. f.n \in Nat /\ f.lo \in Int /\ f.hi \in Int /\ f.y \in Int
    BY <2>2 DEF FilterRecords
  <2>6. ~g.wrapped => f.lo <= f.y /\ f.y <= f.hi
    BY <1>3, <2>3 DEF FilterOK
  <2>7. l <= f.lo /\ l <= x /\ f.hi <= h /\ x <= h /\ l \in Int /\ h \in Int
    BY <2>5
  <2> HIDE DEF l, h
  <2>8. g.n >= 1
    BY <2>3, <2>5
  <2>9. ~g.wrapped => g.lo <= g.y /\ g.y <= g.hi /\ g.lo <= x /\ x <= g.hi
    BY <2>3, <2>5, <2>6, <2>7
  <2>10. /\ g.s \in 0..FilterBits /\ g.y = g.sum \div 2^g.s
         /\ -(2^FilterBits) <= g.y /\ g.y <= 2^FilterBits
    BY <2>3 DEF FilterOK
  <2> QED
    BY <2>1, <2>4, <2>8, <2>9, <2>10
<1> QED
  BY <1>2, <1>3

\* The order that a filter takes is one that its word has bits for.
LEMMA FilterOrderInRange ==
    ASSUME NEW n \in Nat, NEW y \in Int, NEW x \in Int, NEW smax \in 0..FilterBits,
           -(2^FilterBits) <= y, y <= 2^FilterBits,
           -(2^FilterBits) <= x, x <= 2^FilterBits
    PROVE  FilterOrder(n, y, x, smax) \in 0..FilterBits
<1> DEFINE s == IF 2^smax > n THEN order(n) ELSE smax
           m == IF y > x THEN y ELSE x
           s2 == FilterBits - order(m)
<1>1. FilterBits \in Nat /\ 2^FilterBits \in Nat /\ 2^smax \in Nat
  BY ArithAssumption, PowerPositive
<1>2. 2^smax <= 2^FilterBits
  <2>1. CASE smax = FilterBits
    BY <1>1, <2>1
  <2>2. CASE smax < FilterBits
    BY <1>1, <2>2, PowerMonotone
  <2> QED
    BY <1>1, <2>1, <2>2
<1>3. s \in 0..FilterBits
  <2>1. CASE 2^smax > n
    <3>1. order(n) \in 0..FilterBits
      BY <1>1, <1>2, <2>1, OrderInRange
    <3> QED
      BY <2>1, <3>1
  <2> QED
    BY <2>1
<1>4. s2 \in 0..FilterBits
  <2>1. m \in Int /\ -(2^FilterBits) <= m /\ m <= 2^FilterBits
    BY <1>1
  <2>2. order(m) \in 0..FilterBits
    <3> HIDE DEF m
    <3> QED
      BY <2>1, OrderInRange
  <2> QED
    BY <1>1, <2>2
<1>5. FilterOrder(n, y, x, smax) = IF s < s2 THEN s ELSE s2
  BY DEF FilterOrder
<1> HIDE DEF s, s2
<1> QED
  BY <1>3, <1>4, <1>5

\* A filter that takes a sample of less than a second, in either direction,
\* remains one whose output lies between its least and its largest sample.
THEOREM FilterStep ==
    ASSUME NEW f, FilterOK(f), NEW x \in Int, -NsPerSec < x, x < NsPerSec,
           NEW smax \in 0..FilterBits
    PROVE  FilterOK(filter(f, x, smax))
<1> DEFINE g == FirstSample(f, x)
           t == FilterOrder(g.n, g.y, x, smax)
           P == 2^t
           R == Rescaled(g.sum, g.s, t)
           sum == R + x - g.y
           v == AsWord(sum)
           n == IF 2^smax > g.n THEN g.n ELSE 2^smax
           new == [g EXCEPT !.n = IF 2^smax > @ THEN @ ELSE 2^smax, !.sum = v, !.y = v \div P, !.s = t,
                            !.wrapped = @ \/ v # sum]
<1>1. filter(f, x, smax) = new
  BY DEF filter
<1>2. /\ g \in FilterRecords /\ g.n >= 1 /\ g.s \in 0..FilterBits
      /\ g.y = g.sum \div 2^g.s
      /\ -(2^FilterBits) <= g.y /\ g.y <= 2^FilterBits
      /\ ~g.wrapped => /\ g.lo <= g.y /\ g.y <= g.hi
                       /\ g.lo <= x /\ x <= g.hi
  BY FirstSampleOK
<1> HIDE DEF g
<1>3. /\ g.n \in Nat /\ g.y \in Int /\ g.sum \in Int /\ g.lo \in Int /\ g.hi \in Int
      /\ g.wrapped \in BOOLEAN /\ g.s \in Nat
  BY <1>2 DEF FilterRecords
<1>4. /\ 2^FilterBits \in Nat /\ 2^FilterBits >= 1 /\ FilterBits \in Nat
      /\ -(2^FilterBits) <= x /\ x <= 2^FilterBits /\ 2^smax \in Nat /\ 2^smax >= 1
  BY ArithAssumption, PowerPositive
<1>5. t \in 0..FilterBits
  BY <1>2, <1>3, <1>4, FilterOrderInRange
<1> HIDE DEF t
<1>6. P \in Nat /\ P >= 1
  BY <1>5, PowerPositive
<1>7. R \in Int /\ g.y * P <= R /\ R < g.y * P + P
  <2> DEFINE u == g.sum
             s == g.s
             y == g.y
  <2>1. u \in Int /\ s \in Nat /\ t \in Nat /\ y = u \div 2^s
    BY <1>2, <1>3, <1>4, <1>5
  <2> HIDE DEF u, s, y
  <2>2. Rescaled(u, s, t) \in Int /\ y * 2^t <= Rescaled(u, s, t) /\ Rescaled(u, s, t) < y * 2^t + 2^t
    BY <2>1, RescaledKeeps
  <2> QED
    BY <2>2 DEF u, s, y
<1> HIDE DEF P, R
<1>8. sum \in Int
  BY <1>3, <1>7
<1>9. LET z == sum \div P IN (g.y <= z /\ z <= x) \/ (x <= z /\ z <= g.y)
  BY <1>3, <1>6, <1>7, MeanMoves
<1>10. v \in -Word..(Word - 1) /\ Word = 2 * 2^FilterBits
  <2> HIDE DEF sum
  <2> QED
    BY <1>8, Words
<1>11. -(2^FilterBits) <= v \div P /\ v \div P <= 2^FilterBits /\ v \div P \in Int
  <2>1. CASE t = 0
    <3>1. P = 1
      BY <2>1 DEF P
    <3>2. g.y * P = g.y
      BY <1>3, <3>1
    <3>3. sum = x
      BY <1>3, <1>7, <3>1, <3>2
    <3>4. v = x
      BY <1>4, <1>10, <3>3 DEF AsWord
    <3>5. x \div P = x
      BY <3>1
    <3> QED
      BY <1>4, <3>4, <3>5
  <2>2. CASE t # 0
    <3> DEFINE z == v \div P
    <3>1. P >= 2
      <4>1. t - 1 \in Nat /\ (t - 1) + 1 = t
        BY <1>5, <2>2
      <4>2. 2^((t - 1) + 1) = 2 * 2^(t - 1) /\ 2^(t - 1) \in Nat /\ 2^(t - 1) >= 1
        BY <4>1, PowerDoubles, PowerPositive
      <4> QED
        BY <4>1, <4>2 DEF P
    <3>2. v \in Int
      BY <1>4, <1>10
    <3>3. z \in Int /\ z * P <= v /\ v < z * P + P
      <4> HIDE DEF v
      <4> QED
        BY <1>6, <3>2, FloorDivision
    <3> DEFINE F == 2^FilterBits
    <3>4. F \in Nat /\ -(2 * F) <= v /\ v < 2 * F
      BY <1>4, <1>10
    <3> HIDE DEF z, v, F
    <3>5. z <= F
      <4> SUFFICES ASSUME z > F PROVE FALSE
        BY <3>3, <3>4
      <4>1. z * P >= z * 2
        BY <1>6, <3>1, <3>3, <3>4
      <4> QED
        BY <1>6, <3>2, <3>3, <3>4, <4>1
    <3>6. -F <= z
      <4> SUFFICES ASSUME z + 1 <= -F PROVE FALSE
        BY <3>3, <3>4
      <4>1. (z + 1) * P <= (z + 1) * 2
        BY <1>6, <3>1, <3>3, <3>4
      <4>2. (z + 1) * P = z * P + P
        BY <1>6, <3>3
      <4> QED
        BY <1>6, <3>2, <3>3, <3>4, <4>1, <4>2
    <3> QED
      BY <3>3, <3>5, <3>6 DEF z, F
  <2> QED
    BY <2>1, <2>2
<1> HIDE DEF v
<1>12. /\ new.n = n /\ new.sum = v /\ new.y = v \div P /\ new.s = t
       /\ new.lo = g.lo /\ new.hi = g.hi /\ new.wrapped = (g.wrapped \/ v # sum)
  BY <1>2 DEF FilterRecords
<1>13. n \in Nat
  BY <1>3, <1>4
<1>14. new \in FilterRecords
  <2> DEFINE w == g.wrapped \/ v # sum
  <2>1. v \in Int /\ t \in Nat
    BY <1>4, <1>5, <1>10
  <2>2. w \in BOOLEAN
    BY <1>3
  <2>3. new = [g EXCEPT !.n = n, !.sum = v, !.y = v \div P, !.s = t, !.wrapped = w]
    OBVIOUS
  <2> HIDE DEF n, w, new
  <2> QED
    BY <1>2, <1>11, <1>13, <2>1, <2>2, <2>3, SmoothedRecord
<1> HIDE DEF new
<1>15. ~new.wrapped => new.lo <= new.y /\ new.y <= new.hi
  <2> SUFFICES ASSUME ~new.wrapped PROVE new.lo <= new.y /\ new.y <= new.hi
    OBVIOUS
  <2>1. ~g.wrapped /\ v = sum
    BY <1>12
  <2> QED
    BY <1>2, <1>3, <1>9, <1>11, <1>12, <2>1
<1>16. new.y = new.sum \div 2^new.s
  BY <1>12 DEF P
<1> QED
  BY <1>1, <1>5, <1>10, <1>11, <1>12, <1>14, <1>15, <1>16 DEF FilterOK

-----------------------------------------------------------------------------
(* The servo.                                                              *)

ServoInv == ServoTypeOK /\ FilterOK(ofm_filt) /\ FilterOK(owd_filt)

\* The constants, one by one.
LEMMA ServoConstants ==
    /\ MaxAdjOffset \in Nat /\ AdjFreqMax \in Nat
    /\ Ap \in Nat \ {0} /\ Ai \in Nat \ {0}
    /\ SOffset \in 0..FilterBits /\ SDelay \in 0..FilterBits
    /\ FirstOffsets \subseteq Int /\ Frequencies \subseteq Int /\ PathDelays \subseteq Int
    /\ FirstDelays \subseteq Int /\ Errors \subseteq Int
BY ServoAssumption

LEMMA ToTimeNormal ==
    ASSUME NEW ns \in Int
    PROVE  ToTime(ns) \in TimeInternal /\ Normal(ToTime(ns))
<1>1. [seconds |-> 0, nanoseconds |-> ns] \in TimeInternal
  BY DEF TimeInternal
<1> QED
  BY <1>1, NormalizeExact DEF ToTime

LEMMA TimesAreIntegers ==
    ASSUME NEW t \in TimeInternal
    PROVE  /\ t.seconds \in Int /\ t.nanoseconds \in Int
           /\ Nanoseconds(t) \in Int
BY ArithAssumption DEF TimeInternal, Nanoseconds

LEMMA QuotIsInteger ==
    ASSUME NEW a \in Int, NEW b \in Nat \ {0}
    PROVE  Quot(a, b) \in Int
BY DEF Quot

LEMMA ClippedInRange ==
    ASSUME NEW a \in Int
    PROVE  Clipped(a) \in -AdjFreqMax..AdjFreqMax
BY ServoConstants DEF Clipped

\* ServoTypeOK asks no more of a filter than FilterOK, which is inductive.
LEMMA FilterTypes ==
    ASSUME NEW f, FilterOK(f)
    PROVE  /\ f.n \in Nat /\ f.y \in Int /\ f.lo \in Int /\ f.hi \in Int
           /\ f.sum \in -Word..(Word - 1)
           /\ f.s \in 0..FilterBits
           /\ f.wrapped \in BOOLEAN
BY DEF FilterOK, FilterRecords

\* The invariant, put together from its conjuncts.
LEMMA ServoInvFrom ==
    /\ {theta, freq, pathDelay, error} \subseteq Int
    /\ {adj, observedDrift} \subseteq -AdjFreqMax..AdjFreqMax
    /\ {Tms, meanPathDelay} \subseteq TimeInternal
    /\ Normal(Tms) /\ Normal(meanPathDelay)
    /\ FilterOK(ofm_filt) /\ FilterOK(owd_filt)
    /\ asked \in BOOLEAN /\ torn \in BOOLEAN /\ second \in {0, 1} /\ sets \in 0..MaxSets
    => ServoInv
<1>1. FilterOK(ofm_filt) /\ FilterOK(owd_filt) =>
        \A f \in {ofm_filt, owd_filt} :
          /\ f.n \in Nat /\ f.y \in Int /\ f.lo \in Int /\ f.hi \in Int
          /\ f.sum \in -Word..(Word - 1)
          /\ f.s \in 0..FilterBits
          /\ f.wrapped \in BOOLEAN
  BY FilterTypes
<1> QED
  BY <1>1 DEF ServoInv, ServoTypeOK

LEMMA ServoInvNext ==
    /\ {theta', freq', pathDelay', error'} \subseteq Int
    /\ {adj', observedDrift'} \subseteq -AdjFreqMax..AdjFreqMax
    /\ {Tms', meanPathDelay'} \subseteq TimeInternal
    /\ Normal(Tms') /\ Normal(meanPathDelay')
    /\ FilterOK(ofm_filt') /\ FilterOK(owd_filt')
    /\ asked' \in BOOLEAN /\ torn' \in BOOLEAN /\ second' \in {0, 1} /\ sets' \in 0..MaxSets
    => ServoInv'
<1>1. FilterOK(ofm_filt') /\ FilterOK(owd_filt') =>
        \A f \in {ofm_filt', owd_filt'} :
          /\ f.n \in Nat /\ f.y \in Int /\ f.lo \in Int /\ f.hi \in Int
          /\ f.sum \in -Word..(Word - 1)
          /\ f.s \in 0..FilterBits
          /\ f.wrapped \in BOOLEAN
  BY FilterTypes
<1> QED
  BY <1>1 DEF ServoInv, ServoTypeOK

LEMMA ServoStarts == ServoInit => ServoInv
<1> SUFFICES ASSUME ServoInit PROVE ServoInv
  OBVIOUS
<1>1. {theta, freq, pathDelay, error} \subseteq Int
  BY ServoConstants DEF ServoInit
<1>2. {adj, observedDrift} \subseteq -AdjFreqMax..AdjFreqMax
  BY ServoConstants DEF ServoInit
<1>3. {Tms, meanPathDelay} \subseteq TimeInternal /\ Normal(Tms) /\ Normal(meanPathDelay)
  <2>1. PICK d \in FirstDelays : meanPathDelay = ToTime(d)
    BY DEF ServoInit
  <2>2. Tms = ToTime(0)
    BY DEF ServoInit
  <2>3. d \in Int
    BY ServoConstants
  <2> QED
    BY <2>1, <2>2, <2>3, ToTimeNormal
<1>4. FilterOK(ofm_filt) /\ FilterOK(owd_filt)
  BY EmptyFilterOK DEF ServoInit
<1>5. asked \in BOOLEAN /\ torn \in BOOLEAN /\ second \in {0, 1}
  BY Zenon DEF ServoInit
<1>6. sets \in 0..MaxSets
  BY DEF ServoInit, MaxSets
<1> QED
  BY <1>1, <1>2, <1>3, <1>4, <1>5, <1>6, ServoInvFrom

\* What the three ways to handle a Sync leave, for its offset raw.
LEMMA SetTimeKeeps ==
    ASSUME ServoInv, NEW now \in Int, NEW offset \in TimeInternal, SetTime(now, offset)
    PROVE  theta' \in Int /\ torn' \in BOOLEAN /\ sets' \in 0..MaxSets
<1>1. Nanoseconds(offset) \in Int /\ NsPerSec \in Int
  BY TimesAreIntegers, ArithAssumption
<1>2. sets \in 0..MaxSets
  BY DEF ServoInv, ServoTypeOK
<1>3. torn' \in BOOLEAN
  BY Zenon DEF SetTime
<1>4. theta' \in Int /\ sets' \in 0..MaxSets
  BY <1>1, <1>2 DEF SetTime, MaxSets
<1> QED
  BY <1>3, <1>4

\* initClock leaves nothing that is out of range.
LEMMA InitServoKeeps ==
    ASSUME InitServo
    PROVE  /\ {adj', observedDrift'} \subseteq -AdjFreqMax..AdjFreqMax
           /\ Tms' \in TimeInternal /\ Normal(Tms')
           /\ FilterOK(ofm_filt') /\ FilterOK(owd_filt')
<1>1. 0 \in -AdjFreqMax..AdjFreqMax
  BY ServoConstants
<1>2. Tms' \in TimeInternal /\ Normal(Tms')
  BY ToTimeNormal DEF InitServo
<1> QED
  BY <1>1, <1>2, EmptyFilterOK DEF InitServo

LEMMA SyncKeeps == ServoInv /\ Sync => ServoInv'
<1> SUFFICES ASSUME ServoInv, Sync PROVE ServoInv'
  OBVIOUS
<1> DEFINE now == theta + freq - adj
<1>1. PICK tms \in {subTime(ToTime(now), ToTime(-pathDelay))} :
      \E raw \in {subTime(tms, meanPathDelay)} :
      \E f \in {filter(ofm_filt, raw.nanoseconds, SOffset)} :
           \/ /\ raw.seconds # 0
              /\ SetTime(now, raw)
              /\ InitServo
           \/ /\ raw.seconds = 0
              /\ AbsVal(f.y) > MaxAdjOffset
              /\ SetTime(now, ToTime(f.y))
              /\ InitServo
           \/ /\ raw.seconds = 0
              /\ AbsVal(f.y) <= MaxAdjOffset
              /\ Steer(now, f.y)
              /\ ofm_filt' = f
              /\ Tms' = tms
  BY DEF Sync
<1>2. PICK raw \in {subTime(tms, meanPathDelay)} :
      \E f \in {filter(ofm_filt, raw.nanoseconds, SOffset)} :
           \/ /\ raw.seconds # 0
              /\ SetTime(now, raw)
              /\ InitServo
           \/ /\ raw.seconds = 0
              /\ AbsVal(f.y) > MaxAdjOffset
              /\ SetTime(now, ToTime(f.y))
              /\ InitServo
           \/ /\ raw.seconds = 0
              /\ AbsVal(f.y) <= MaxAdjOffset
              /\ Steer(now, f.y)
              /\ ofm_filt' = f
              /\ Tms' = tms
  BY <1>1
<1>3. PICK f \in {filter(ofm_filt, raw.nanoseconds, SOffset)} :
           \/ /\ raw.seconds # 0
              /\ SetTime(now, raw)
              /\ InitServo
           \/ /\ raw.seconds = 0
              /\ AbsVal(f.y) > MaxAdjOffset
              /\ SetTime(now, ToTime(f.y))
              /\ InitServo
           \/ /\ raw.seconds = 0
              /\ AbsVal(f.y) <= MaxAdjOffset
              /\ Steer(now, f.y)
              /\ ofm_filt' = f
              /\ Tms' = tms
  BY <1>2
<1>4. /\ now \in Int /\ -pathDelay \in Int
      /\ meanPathDelay \in TimeInternal /\ Normal(meanPathDelay)
      /\ observedDrift \in Int /\ second \in {0, 1}
      /\ freq \in Int /\ pathDelay \in Int /\ error \in Int
      /\ FilterOK(ofm_filt) /\ FilterOK(owd_filt) /\ torn \in BOOLEAN /\ sets \in 0..MaxSets
  BY ServoConstants DEF ServoInv, ServoTypeOK
<1> HIDE DEF now
<1>5. tms \in TimeInternal /\ Normal(tms)
  BY <1>4, ToTimeNormal, DifferenceExact
<1>6. raw \in TimeInternal /\ Normal(raw)
  BY <1>4, <1>5, DifferenceExact
<1>7. raw.nanoseconds \in Int /\ -NsPerSec < raw.nanoseconds /\ raw.nanoseconds < NsPerSec
  BY <1>6, TimesAreIntegers DEF Normal
<1>8. FilterOK(f)
  BY <1>4, <1>7, FilterStep, ServoConstants
<1>9. f.y \in Int
  BY <1>8, FilterTypes
<1>10. /\ second' \in {0, 1} /\ asked' \in BOOLEAN
       /\ freq' \in Int /\ pathDelay' \in Int /\ error' \in Int
       /\ meanPathDelay' \in TimeInternal /\ Normal(meanPathDelay')
  BY <1>4 DEF Sync
<1>11. CASE SetTime(now, raw) /\ InitServo
  <2>1. theta' \in Int /\ torn' \in BOOLEAN /\ sets' \in 0..MaxSets
    BY <1>4, <1>6, <1>11, SetTimeKeeps
  <2> QED
    BY <1>10, <1>11, <2>1, InitServoKeeps, ServoInvNext
<1>12. CASE SetTime(now, ToTime(f.y)) /\ InitServo
  <2>1. theta' \in Int /\ torn' \in BOOLEAN /\ sets' \in 0..MaxSets
    BY <1>4, <1>9, <1>12, ToTimeNormal, SetTimeKeeps
  <2> QED
    BY <1>10, <1>12, <2>1, InitServoKeeps, ServoInvNext
<1>13. CASE Steer(now, f.y) /\ ofm_filt' = f /\ Tms' = tms
  <2>1. Drift(f.y) \in -AdjFreqMax..AdjFreqMax
    BY <1>4, <1>9, QuotIsInteger, ClippedInRange, ServoConstants DEF Drift
  <2>2. Quot(f.y, Ap) + Drift(f.y) \in Int
    BY <1>9, <2>1, QuotIsInteger, ServoConstants
  <2>3. {adj', observedDrift'} \subseteq -AdjFreqMax..AdjFreqMax
    BY <1>13, <2>1, <2>2, ClippedInRange DEF Steer
  <2>4. theta' \in Int /\ FilterOK(owd_filt') /\ torn' \in BOOLEAN /\ sets' \in 0..MaxSets
    BY <1>4, <1>13 DEF Steer
  <2> QED
    BY <1>5, <1>8, <1>10, <1>13, <2>3, <2>4, ServoInvNext
<1> QED
  BY <1>3, <1>11, <1>12, <1>13

LEMMA DelayAnswerKeeps == ServoInv /\ DelayAnswer => ServoInv'
<1> SUFFICES ASSUME ServoInv, DelayAnswer PROVE ServoInv'
  OBVIOUS
<1>1. PICK Tsm \in {subTime(ToTime(pathDelay + error), ToTime(theta))} :
      \E mean \in {div2Time(addTime(Tms, Tsm))} :
      \E f \in {filter(owd_filt, mean.nanoseconds, SDelay)} :
           \/ /\ mean.seconds # 0
              /\ meanPathDelay' = mean
              /\ UNCHANGED owd_filt
           \/ /\ mean.seconds = 0
              /\ meanPathDelay' = ToTime(f.y)
              /\ owd_filt' = f
  BY DEF DelayAnswer
<1>2. PICK mean \in {div2Time(addTime(Tms, Tsm))} :
      \E f \in {filter(owd_filt, mean.nanoseconds, SDelay)} :
           \/ /\ mean.seconds # 0
              /\ meanPathDelay' = mean
              /\ UNCHANGED owd_filt
           \/ /\ mean.seconds = 0
              /\ meanPathDelay' = ToTime(f.y)
              /\ owd_filt' = f
  BY <1>1
<1>3. PICK f \in {filter(owd_filt, mean.nanoseconds, SDelay)} :
           \/ /\ meanPathDelay' = mean
              /\ owd_filt' = owd_filt
           \/ /\ meanPathDelay' = ToTime(f.y)
              /\ owd_filt' = f
  BY <1>2
<1>4. /\ theta \in Int /\ pathDelay + error \in Int /\ Tms \in TimeInternal /\ Normal(Tms)
      /\ FilterOK(ofm_filt) /\ FilterOK(owd_filt)
      /\ {theta, freq, pathDelay, error} \subseteq Int
      /\ {adj, observedDrift} \subseteq -AdjFreqMax..AdjFreqMax
      /\ second \in {0, 1} /\ torn \in BOOLEAN /\ sets \in 0..MaxSets
  BY DEF ServoInv, ServoTypeOK
<1>5. Tsm \in TimeInternal
  BY <1>4, ToTimeNormal, DifferenceExact
<1>6. mean \in TimeInternal /\ Normal(mean)
  <2>1. addTime(Tms, Tsm) \in TimeInternal /\ Normal(addTime(Tms, Tsm))
    BY <1>4, <1>5, SumExact
  <2> QED
    BY <2>1, HalfExact
<1>7. mean.nanoseconds \in Int /\ -NsPerSec < mean.nanoseconds /\ mean.nanoseconds < NsPerSec
  BY <1>6, TimesAreIntegers DEF Normal
<1>8. FilterOK(f)
  BY <1>4, <1>7, FilterStep, ServoConstants
<1>9. meanPathDelay' \in TimeInternal /\ Normal(meanPathDelay')
  BY <1>3, <1>6, <1>8, FilterTypes, ToTimeNormal
<1>10. FilterOK(owd_filt')
  BY <1>3, <1>4, <1>8
<1>11. /\ theta' = theta /\ freq' = freq /\ pathDelay' = pathDelay /\ error' = error
       /\ adj' = adj /\ Tms' = Tms /\ ofm_filt' = ofm_filt /\ observedDrift' = observedDrift
       /\ second' = second /\ torn' = torn /\ sets' = sets /\ asked' = FALSE
  BY DEF DelayAnswer
<1> QED
  BY <1>4, <1>9, <1>10, <1>11, ServoInvNext

LEMMA DisturbKeeps == ServoInv /\ Disturb => ServoInv'
<1> SUFFICES ASSUME ServoInv, Disturb PROVE ServoInv'
  OBVIOUS
<1>1. error' \in Int
  BY ServoConstants DEF Disturb
<1>2. /\ theta' = theta /\ freq' = freq /\ pathDelay' = pathDelay
      /\ adj' = adj /\ Tms' = Tms /\ ofm_filt' = ofm_filt /\ observedDrift' = observedDrift
      /\ second' = second /\ torn' = torn /\ sets' = sets /\ asked' = asked
      /\ meanPathDelay' = meanPathDelay /\ owd_filt' = owd_filt
  BY DEF Disturb
<1> QED
  BY <1>1, <1>2, ServoInvNext DEF ServoInv, ServoTypeOK

\* Times stay normal, the adjustments of the frequency and the drift within their
\* limits, sums within their words and orders within 0..FilterBits (servo.c).
THEOREM ServoInvariance == ServoSpec => []ServoInv
<1>1. ServoInv /\ UNCHANGED servoVars => ServoInv'
  BY DEF servoVars, ServoInv, ServoTypeOK
<1>2. ServoInv /\ [ServoNext]_servoVars => ServoInv'
  BY <1>1, SyncKeeps, DelayAnswerKeeps, DisturbKeeps DEF ServoNext
<1> QED
  BY <1>2, ServoStarts, PTL DEF ServoSpec

\* Times are normal and adjustments bounded, whatever the offsets and delays
\* (servo.c:59-115, 248-303).
THEOREM ServoTypeCorrect == ServoSpec => []ServoTypeOK
<1>1. ServoInv => ServoTypeOK
  BY DEF ServoInv
<1> QED
  BY <1>1, ServoInvariance, PTL

-----------------------------------------------------------------------------
(* How the filters follow their samples.                                   *)

\* A number below a power of two has a smaller order.
LEMMA OrderBelow ==
    ASSUME NEW a \in Nat, a >= 1, NEW m \in 1..FilterBits, a < 2^m
    PROVE  order(a) \in 0..(m - 1)
<1>1. FilterBits \in Nat /\ 2^FilterBits \in Nat /\ 2^m \in Nat
  BY ArithAssumption, PowerPositive
<1>2. 2^m <= 2^FilterBits
  <2>1. CASE m = FilterBits
    BY <1>1, <2>1
  <2>2. CASE m < FilterBits
    BY <1>1, <2>2, PowerMonotone
  <2> QED
    BY <1>1, <2>1, <2>2
<1> DEFINE k == order(a)
<1>3. k \in 0..FilterBits /\ 2^k <= a
  BY <1>1, <1>2, OrderInRange DEF AbsVal
<1> HIDE DEF k
<1>4. 2^k \in Nat
  BY <1>3, PowerPositive
<1>5. ~(k > m)
  <2> SUFFICES ASSUME k > m PROVE FALSE
    OBVIOUS
  <2>1. 2 * 2^m <= 2^k
    BY <1>3, PowerMonotone
  <2> QED
    BY <1>1, <1>3, <1>4, <2>1
<1>6. k # m
  BY <1>3
<1> QED
  BY <1>1, <1>3, <1>5, <1>6 DEF k

\* The order is at most the largest one, and 0 for the first sample.
LEMMA FilterOrderBelow ==
    ASSUME NEW n \in Nat, n >= 1, NEW y \in Int, NEW x \in Int, NEW smax \in 0..FilterBits,
           -(2^FilterBits) <= y, y <= 2^FilterBits,
           -(2^FilterBits) <= x, x <= 2^FilterBits
    PROVE  FilterOrder(n, y, x, smax) \in 0..smax /\ (n = 1 => FilterOrder(n, y, x, smax) = 0)
<1> DEFINE s == IF 2^smax > n THEN order(n) ELSE smax
           s2 == FilterBits - order(IF y > x THEN y ELSE x)
           t == FilterOrder(n, y, x, smax)
<1>1. FilterBits \in Nat /\ smax \in Nat /\ 2^smax \in Nat /\ 2^0 = 1 /\ 2^1 = 2
  BY ArithAssumption, PowerPositive
<1>2. s \in 0..smax /\ (n = 1 => s = 0)
  <2>1. CASE 2^smax > n
    <3>1. smax \in 1..FilterBits
      <4>1. smax # 0
        <5> SUFFICES ASSUME smax = 0 PROVE FALSE
          OBVIOUS
        <5>1. 2^smax = 1
          BY <1>1
        <5> QED
          BY <1>1, <2>1, <5>1
      <4> QED
        BY <1>1, <4>1
    <3>2. order(n) \in 0..(smax - 1)
      BY <2>1, <3>1, OrderBelow
    <3>3. n = 1 => order(n) = 0
      <4> SUFFICES ASSUME n = 1 PROVE order(n) = 0
        OBVIOUS
      <4>1. 1 \in 1..FilterBits /\ n < 2^1
        BY <1>1, <3>1
      <4>2. order(n) \in 0..(1 - 1)
        BY <4>1, OrderBelow
      <4> QED
        BY <4>2
    <3> QED
      BY <1>1, <2>1, <3>2, <3>3
  <2>2. CASE ~(2^smax > n)
    <3>1. n = 1 => smax = 0
      <4> SUFFICES ASSUME n = 1, smax > 0 PROVE FALSE
        BY <1>1
      <4>1. 2 * 2^0 <= 2^smax
        BY <1>1, PowerMonotone
      <4> QED
        BY <1>1, <2>2, <4>1
    <3> QED
      BY <1>1, <2>2, <3>1
  <2> QED
    BY <2>1, <2>2
<1>3. t = IF s < s2 THEN s ELSE s2
  BY DEF FilterOrder
<1>4. t \in 0..FilterBits
  BY FilterOrderInRange
<1> HIDE DEF s, t
<1>5. s2 \in Int
  <2>1. (IF y > x THEN y ELSE x) \in Int
    OBVIOUS
  <2>2. order(IF y > x THEN y ELSE x) \in 0..FilterBits
    <3> DEFINE m == IF y > x THEN y ELSE x
    <3>1. m \in Int /\ -(2^FilterBits) <= m /\ m <= 2^FilterBits
      OBVIOUS
    <3> HIDE DEF m
    <3>2. order(m) \in 0..FilterBits
      BY <3>1, OrderInRange
    <3> QED
      BY <3>2 DEF m
  <2> QED
    BY <1>1, <2>2
<1> HIDE DEF s2
<1> QED
  BY <1>1, <1>2, <1>3, <1>4, <1>5 DEF t

\* A sum in the range of the word is not changed by it.
LEMMA WordFits ==
    ASSUME NEW a \in Int, -Word <= a, a < Word
    PROVE  AsWord(a) = a
<1>1. Word \in Nat /\ Word >= 1
  BY Words
<1>2. (a + Word) % (2 * Word) = a + Word
  BY <1>1
<1> QED
  BY <1>1, <1>2 DEF AsWord

\* What a filter becomes with a sample: y is the mean before it.
LEMMA FilterIs ==
    ASSUME NEW f, FilterOK(f), NEW x \in Int, -NsPerSec < x, x < NsPerSec,
           NEW smax \in 0..FilterBits
    PROVE  LET y == IF f.n = 0 THEN x ELSE f.y
           IN  /\ filter(f, x, smax).n # 0
               /\ \E P \in 1..2^smax, R \in Int :
                     /\ f.n = 0 => P = 1
                     /\ y * P <= R /\ R < y * P + P
                     /\ filter(f, x, smax).y = AsWord(R + x - y) \div P
                     /\ filter(f, x, smax).wrapped =>
                           (f.n # 0 /\ f.wrapped) \/ AsWord(R + x - y) # R + x - y
<1> DEFINE g == FirstSample(f, x)
           t == FilterOrder(g.n, g.y, x, smax)
           P == 2^t
           R == Rescaled(g.sum, g.s, t)
           sum == R + x - g.y
           v == AsWord(sum)
           new == [g EXCEPT !.n = IF 2^smax > @ THEN @ ELSE 2^smax, !.sum = v, !.y = v \div P, !.s = t,
                            !.wrapped = @ \/ v # sum]
           y == IF f.n = 0 THEN x ELSE f.y
<1>1. filter(f, x, smax) = new
  BY DEF filter
<1>2. /\ g \in FilterRecords /\ g.n >= 1 /\ g.s \in 0..FilterBits
      /\ g.y = g.sum \div 2^g.s
      /\ -(2^FilterBits) <= g.y /\ g.y <= 2^FilterBits
  BY FirstSampleOK
<1>3. g.y = y /\ (f.n = 0 => g.n = 1) /\ g.wrapped = (f.n # 0 /\ f.wrapped)
  <2>1. CASE f.n = 0
    BY <2>1 DEF FirstSample
  <2>2. CASE f.n # 0
    BY <2>2 DEF FirstSample, FilterOK, FilterRecords
  <2> QED
    BY <2>1, <2>2
<1> HIDE DEF g
<1>4. g.n \in Nat /\ g.y \in Int /\ g.sum \in Int /\ g.s \in Nat
  BY <1>2 DEF FilterRecords
<1>5. /\ 2^FilterBits \in Nat /\ FilterBits \in Nat
      /\ -(2^FilterBits) <= x /\ x <= 2^FilterBits
      /\ smax \in Nat /\ 2^smax \in Nat /\ 2^smax >= 1
  BY ArithAssumption, PowerPositive
<1>6. t \in 0..smax /\ (f.n = 0 => t = 0)
  BY <1>2, <1>3, <1>4, <1>5, FilterOrderBelow
<1> HIDE DEF t
<1>7. P \in 1..2^smax /\ (f.n = 0 => P = 1)
  <2>1. P \in Nat /\ P >= 1
    BY <1>6, PowerPositive
  <2>2. P <= 2^smax
    <3>1. CASE t = smax
      BY <1>5, <3>1
    <3>2. CASE t < smax
      <4>1. 2 * P <= 2^smax
        BY <1>5, <1>6, <3>2, PowerMonotone
      <4> HIDE DEF P
      <4> QED
        BY <1>5, <2>1, <4>1
    <3> QED
      BY <1>5, <1>6, <3>1, <3>2
  <2>3. t = 0 => P = 1
    <3>1. 2^0 = 1
      OBVIOUS
    <3> QED
      BY <3>1
  <2> HIDE DEF P
  <2> QED
    BY <1>5, <1>6, <2>1, <2>2, <2>3
<1>8. R \in Int /\ g.y * P <= R /\ R < g.y * P + P
  <2> DEFINE u == g.sum
             s == g.s
             z == g.y
  <2>1. u \in Int /\ s \in Nat /\ t \in Nat /\ z = u \div 2^s
    BY <1>2, <1>4, <1>5, <1>6
  <2> HIDE DEF u, s, z
  <2>2. Rescaled(u, s, t) \in Int /\ z * 2^t <= Rescaled(u, s, t) /\ Rescaled(u, s, t) < z * 2^t + 2^t
    BY <2>1, RescaledKeeps
  <2> QED
    BY <2>2 DEF u, s, z
<1> HIDE DEF P, R
<1>9. new.n # 0 /\ new.y = AsWord(R + x - g.y) \div P
  BY <1>2, <1>4, <1>5 DEF FilterRecords
<1>13. new.wrapped = (g.wrapped \/ v # sum)
  BY <1>2 DEF FilterRecords
<1> HIDE DEF new, y
<1>14. new.wrapped => (f.n # 0 /\ f.wrapped) \/ AsWord(R + x - y) # R + x - y
  BY <1>3, <1>13, Zenon
<1>10. y * P <= R /\ R < y * P + P
  BY <1>3, <1>8
<1>11. new.y = AsWord(R + x - y) \div P
  BY <1>3, <1>9
<1>12. \E Q \in 1..2^smax, S \in Int :
          /\ f.n = 0 => Q = 1
          /\ y * Q <= S /\ S < y * Q + Q
          /\ new.y = AsWord(S + x - y) \div Q
          /\ new.wrapped => (f.n # 0 /\ f.wrapped) \/ AsWord(S + x - y) # S + x - y
  BY <1>7, <1>8, <1>10, <1>11, <1>14
<1> QED
  BY <1>1, <1>9, <1>12 DEF y

\* The first sample is the mean.
LEMMA FirstMean ==
    ASSUME NEW f, FilterOK(f), f.n = 0, NEW x \in Int, -NsPerSec < x, x < NsPerSec,
           NEW smax \in 0..FilterBits
    PROVE  filter(f, x, smax).y = x
<1> DEFINE z == filter(f, x, smax).y
<1>1. PICK P \in 1..2^smax, R \in Int :
         /\ P = 1
         /\ x * P <= R /\ R < x * P + P
         /\ z = AsWord(R + x - x) \div P
  BY FilterIs
<1> HIDE DEF z
<1>2. R = x
  BY <1>1
<1>3. -Word <= x /\ x < Word
  <2>1. NsPerSec \in Nat /\ NsPerSec < 2^FilterBits /\ 2^FilterBits \in Nat
    BY ArithAssumption, PowerPositive
  <2> QED
    BY <2>1, Words
<1>4. R + x - x = x
  BY <1>2
<1>5. z = x \div 1
  BY <1>1, <1>3, <1>4, WordFits
<1> QED
  BY <1>5 DEF z

\* The mean makes up at least one part in Q of its distance to the sample, with a
\* rounding of less than 1.
LEMMA MeanCatchesUp ==
    ASSUME NEW y \in Int, NEW x \in Int, NEW P \in Nat, P >= 1, NEW Q \in Nat, P <= Q,
           NEW R \in Int, y * P <= R, R < y * P + P
    PROVE  LET z == (R + x - y) \div P
               b == AbsVal(x - y) + 1
           IN  b <= Q * (b - AbsVal(x - z))
<1> DEFINE v == R + x - y
           z == v \div P
           b == AbsVal(x - y) + 1
           a == AbsVal(x - z)
<1>1. v \in Int
  OBVIOUS
<1>2. z \in Int /\ z * P <= v /\ v < z * P + P
  BY <1>1, FloorDivision
<1>3. (y <= z /\ z <= x) \/ (x <= z /\ z <= y)
  BY MeanMoves
<1>4. y * P \in Int /\ z * P \in Int
  BY <1>2
<1> HIDE DEF z
<1>5. b - a \in Nat /\ b \in Nat /\ b - a >= 1
  BY <1>2, <1>3 DEF AbsVal
<1>6. (b - a) * P >= b
  <2>1. CASE x >= y
    <3>1. b - a = z - y + 1 /\ b = x - y + 1
      BY <1>2, <1>3, <2>1 DEF AbsVal
    <3>2. (z - y + 1) * P = z * P - y * P + P
      BY <1>2
    <3> QED
      BY <1>2, <1>4, <3>1, <3>2
  <2>2. CASE x < y
    <3>1. b - a = y - z + 1 /\ b = y - x + 1
      BY <1>2, <1>3, <2>2 DEF AbsVal
    <3>2. (y - z + 1) * P = y * P - z * P + P
      BY <1>2
    <3> QED
      BY <1>2, <1>4, <3>1, <3>2
  <2> QED
    BY <2>1, <2>2
<1>7. (b - a) * P <= Q * (b - a)
  <2> DEFINE d == b - a
  <2>1. d \in Nat
    BY <1>5
  <2> HIDE DEF d
  <2>2. d * P <= Q * d
    BY <2>1
  <2> QED
    BY <2>2 DEF d
<1> DEFINE d == b - a
<1>8. d * P \in Int /\ Q * d \in Int /\ b <= d * P /\ d * P <= Q * d
  <2>1. d \in Nat
    BY <1>5
  <2>2. b <= d * P /\ d * P <= Q * d
    BY <1>6, <1>7
  <2> HIDE DEF d, b
  <2> QED
    BY <2>1, <2>2
<1>9. b <= Q * d
  <2> HIDE DEF d, b
  <2> QED
    BY <1>8, <1>5
<1> QED
  BY <1>9 DEF z

\* How far the sum of a filter can be from its mean.
LEMMA SumNear ==
    ASSUME NEW M \in Nat, NEW y \in -M..M, NEW Q \in Nat,
           NEW P \in 1..Q, NEW R \in Int, y * P <= R, R < y * P + P
    PROVE  LET S == (M + 1) * Q + M IN -S <= R - y /\ R - y <= S
<1>1. (M + 1) * P <= (M + 1) * Q
  OBVIOUS
<1>2. y * P <= M * P /\ -(M * P) <= y * P
  OBVIOUS
<1>3. (M + 1) * P = M * P + P /\ M * P \in Nat /\ y * P \in Int /\ (M + 1) * Q \in Nat
  OBVIOUS
<1> QED
  BY <1>1, <1>2, <1>3

\* The sum fits its word, when the mean is small enough and the sample not too large.
LEMMA SumFits ==
    ASSUME NEW X \in Nat, NEW x \in -X..X, NEW S \in Int, S + X < Word,
           NEW d \in Int, -S <= d, d <= S
    PROVE  AsWord(d + x) = d + x
<1>1. d + x \in Int /\ -Word <= d + x /\ d + x < Word
  BY Words
<1> QED
  BY <1>1, WordFits

\* So it does for the first sample, and whenever the mean is small.
LEMMA NoOverflow ==
    ASSUME NEW f, FilterOK(f), NEW smax \in 0..FilterBits,
           NEW M \in Nat, NEW X \in Nat, X <= NsPerSec, (M + 1) * 2^smax + M + X < Word,
           f.n # 0 => f.y \in -M..M /\ ~f.wrapped,
           NEW x \in -X..X, -NsPerSec < x, x < NsPerSec
    PROVE  ~filter(f, x, smax).wrapped
<1> DEFINE y == IF f.n = 0 THEN x ELSE f.y
           w == filter(f, x, smax).wrapped
<1>1. PICK P \in 1..2^smax, R \in Int :
         /\ f.n = 0 => P = 1
         /\ y * P <= R /\ R < y * P + P
         /\ w => (f.n # 0 /\ f.wrapped) \/ AsWord(R + x - y) # R + x - y
  BY FilterIs
<1> HIDE DEF w
<1>2. AsWord(R + x - y) = R + x - y
  <2>1. CASE f.n = 0
    <3>1. R = x /\ P = 1 /\ y = x
      BY <1>1, <2>1
    <3>2. R + x - y = x
      BY <3>1
    <3>3. NsPerSec \in Nat /\ NsPerSec < 2^FilterBits /\ 2^FilterBits \in Nat
      BY ArithAssumption, PowerPositive
    <3>4. -Word <= x /\ x < Word
      BY <3>3, Words
    <3> HIDE DEF y
    <3> QED
      BY <3>2, <3>4, WordFits
  <2>2. CASE f.n # 0
    <3> DEFINE Q == 2^smax
               S == (M + 1) * Q + M
               d == R - y
    <3>1. y = f.y /\ y \in -M..M
      BY <2>2
    <3>2. Q \in Nat /\ P \in 1..Q
      BY <1>1, PowerPositive
    <3>3. S + X < Word
      OBVIOUS
    <3>4. y * P <= R /\ R < y * P + P
      BY <1>1
    <3> HIDE DEF y, Q
    <3>5. -S <= d /\ d <= S
      BY <1>1, <3>1, <3>2, <3>4, SumNear
    <3>6. S \in Int /\ d \in Int /\ R + x - y = d + x
      BY <1>1, <3>1, <3>2
    <3> HIDE DEF S, d
    <3> QED
      BY <3>3, <3>5, <3>6, SumFits
  <2> QED
    BY <2>1, <2>2
<1>3. ~(f.n # 0 /\ f.wrapped)
  OBVIOUS
<1> HIDE DEF y
<1>4. ~w
  BY <1>1, <1>2, <1>3, Zenon
<1> QED
  BY <1>4 DEF w

\* A filter whose samples are small: the mean moves towards the sample.
LEMMA SmallSample ==
    ASSUME NEW f, FilterOK(f), f.n # 0, NEW smax \in 0..FilterBits,
           NEW M \in Nat, M < NsPerSec, (M + 1) * 2^smax + M + M < Word,
           f.y \in -M..M, NEW x \in -M..M
    PROVE  LET z == filter(f, x, smax).y
               b == AbsVal(x - f.y) + 1
           IN  /\ z \in Int
               /\ (f.y <= z /\ z <= x) \/ (x <= z /\ z <= f.y)
               /\ b <= 2^smax * (b - AbsVal(x - z))
<1> DEFINE z == filter(f, x, smax).y
           y == f.y
           Q == 2^smax
<1>1. Q \in Nat /\ Q >= 1 /\ NsPerSec \in Nat
  BY PowerPositive, ArithAssumption
<1>2. PICK P \in 1..2^smax, R \in Int :
         /\ y * P <= R /\ R < y * P + P
         /\ z = AsWord(R + x - y) \div P
  <2>1. x \in Int /\ -NsPerSec < x /\ x < NsPerSec
    BY <1>1
  <2> QED
    BY <2>1, FilterIs
<1>3. y \in -M..M /\ (M + 1) * Q + M + M < Word
  OBVIOUS
<1>4. P \in Nat /\ P >= 1 /\ P <= Q
  BY <1>1, <1>2
<1> HIDE DEF y, Q, z
<1>5. AsWord(R + x - y) = R + x - y
  <2> DEFINE S == (M + 1) * Q + M
             d == R - y
  <2>1. S + M < Word /\ P \in 1..Q
    BY <1>1, <1>3, <1>4
  <2>2. -S <= d /\ d <= S
    BY <1>1, <1>2, <1>3, <2>1, SumNear
  <2>3. S \in Int /\ d \in Int /\ R + x - y = d + x
    BY <1>1, <1>2, <1>3
  <2> HIDE DEF S, d
  <2> QED
    BY <2>1, <2>2, <2>3, SumFits
<1>6. z = (R + x - y) \div P
  BY <1>2, <1>5
<1>7. (y <= z /\ z <= x) \/ (x <= z /\ z <= y)
  <2>1. y \in Int /\ x \in Int /\ R \in Int
    BY <1>2, <1>3
  <2>2. y * P <= R /\ R < y * P + P
    BY <1>2
  <2>3. LET w == (R + x - y) \div P
        IN  (y <= w /\ w <= x) \/ (x <= w /\ w <= y)
    BY <1>4, <2>1, <2>2, MeanMoves, Zenon
  <2> QED
    BY <1>6, <2>3, Zenon
<1>8. LET b == AbsVal(x - y) + 1 IN b <= Q * (b - AbsVal(x - z))
  <2>1. y \in Int /\ x \in Int /\ R \in Int
    BY <1>2, <1>3
  <2>2. y * P <= R /\ R < y * P + P
    BY <1>2
  <2>3. LET w == (R + x - y) \div P
            b == AbsVal(x - y) + 1
        IN  b <= Q * (b - AbsVal(x - w))
    BY <1>1, <1>4, <2>1, <2>2, MeanCatchesUp, Zenon
  <2> QED
    BY <1>6, <2>3, Zenon
<1>9. z \in Int
  <2>1. R + x - y \in Int
    BY <1>2, <1>3
  <2> QED
    BY <1>4, <1>6, <2>1, FloorDivision
<1> QED
  BY <1>7, <1>8, <1>9 DEF y, z, Q

\* The distance of the mean from a sample that moves by less than U a step.
LEMMA LagBounded ==
    ASSUME NEW Q \in Nat, Q >= 1, NEW U \in Nat, NEW a \in Int, NEW b \in Int,
           b <= Q * (b - a), b <= Q * U
    PROVE  a <= (Q - 1) * U
<1> SUFFICES ASSUME a >= (Q - 1) * U + 1 PROVE FALSE
  <2>1. (Q - 1) * U \in Int
    OBVIOUS
  <2> QED
    BY <2>1
<1> DEFINE V == (Q - 1) * U
<1>1. V \in Int /\ Q * U \in Int /\ Q * a \in Int /\ Q * b \in Int
  OBVIOUS
<1>2. Q * (b - a) = Q * b - Q * a /\ (Q - 1) * b = Q * b - b /\ (Q - 1) * b \in Int
  OBVIOUS
<1>3. (Q - 1) * b <= (Q - 1) * (Q * U)
  BY <1>1
<1>4. Q * V = (Q - 1) * (Q * U)
  OBVIOUS
<1>5. Q * a >= Q * (V + 1)
  BY <1>1
<1>6. Q * (V + 1) = Q * V + Q /\ Q * V \in Int
  BY <1>1
<1> HIDE DEF V
<1> QED
  BY <1>1, <1>2, <1>3, <1>4, <1>5, <1>6

-----------------------------------------------------------------------------
(* The clock is set at most three times.                                   *)

Near(a, b, m) == a - b \in -m..m

\* What the mean path delay in use is wrong by, and the time when a Sync comes.
PathError == Nanoseconds(meanPathDelay) - pathDelay
Now == theta + freq - adj

\* The clock is steered to an offset of c, which the servo sees but for the error
\* of the delay: the mean follows the offsets, both are small enough for the clock
\* not to be set, and where the mean is large the control is at its limit.
Locked(c) ==
    /\ Near(PathError, c, MaxError)
    /\ ofm_filt.n = 0 => adj = 0 /\ Near(theta, c, MaxError)
    /\ ofm_filt.n # 0 =>
          /\ Near(theta, c, MaxAdjOffset + MaxError)
          /\ Near(theta - c, ofm_filt.y, Lag)
          /\ ofm_filt.y \in -MaxAdjOffset..MaxAdjOffset
          /\ ofm_filt.y >= Drive => adj = AdjFreqMax
          /\ ofm_filt.y <= -Drive => adj = -AdjFreqMax

\* The delay in use is one that was measured.
Measured == Near(PathError, 0, MaxError)

\* The frequency, the path and the error are what they are assumed to be, the time
\* of the last Sync is that of the clock, and the delays are measured right.
TimesAgree ==
    /\ freq \in -MaxFrequency..MaxFrequency
    /\ pathDelay \in PathDelays
    /\ error \in -MaxError..MaxError
    /\ ofm_filt.n # 0 => Nanoseconds(Tms) = theta + pathDelay
    /\ owd_filt.n # 0 => Near(owd_filt.y, pathDelay, MaxError)

\* How often the clock has been set, and what makes it be set again: not yet, with
\* the delay that it started with, with a delay that is right, after the set for
\* the mean of a wrong offset and a right one, and finally.
SetsAccounted ==
    \/ sets = 0 /\ ofm_filt.n = 0
    \/ sets <= 1 /\ Locked(PathError)
    \/ Measured /\ sets <= 1
    \/ Measured /\ sets <= 2 /\ ofm_filt.n = 0
    \/ Measured /\ sets <= 3 /\ Locked(0)

\* The mean offset is one to steer by, and no filter has overflowed.
FiltersFit ==
    /\ ofm_filt.n # 0 => ofm_filt.y \in -MaxAdjOffset..MaxAdjOffset /\ ~ofm_filt.wrapped
    /\ owd_filt.n # 0 => ~owd_filt.wrapped

LoopInv == ServoInv /\ TimesAgree /\ FiltersFit /\ SetsAccounted

\* A normal time of less than a second has no seconds.
LEMMA SmallTime ==
    ASSUME NEW t \in TimeInternal, Normal(t),
           -NsPerSec < Nanoseconds(t), Nanoseconds(t) < NsPerSec
    PROVE  t.seconds = 0 /\ t.nanoseconds = Nanoseconds(t)
<1>1. t.seconds \in Int /\ t.nanoseconds \in Int /\ NsPerSec \in Nat /\ NsPerSec >= 1
  BY ArithAssumption DEF TimeInternal
<1>2. t.seconds * NsPerSec \in Int
  BY <1>1
<1>3. t.seconds > 0 => t.seconds * NsPerSec >= NsPerSec
  BY <1>1
<1>4. t.seconds < 0 => t.seconds * NsPerSec <= -NsPerSec
  BY <1>1
<1>5. t.seconds = 0
  BY <1>1, <1>2, <1>3, <1>4 DEF Normal, Nanoseconds
<1>6. t.seconds * NsPerSec = 0
  BY <1>1, <1>5
<1> QED
  BY <1>1, <1>5, <1>6 DEF Nanoseconds

\* A time without seconds is its nanoseconds.
LEMMA NoSeconds ==
    ASSUME NEW t \in TimeInternal, t.seconds = 0
    PROVE  Nanoseconds(t) = t.nanoseconds
<1>1. t.nanoseconds \in Int /\ NsPerSec \in Nat
  BY ArithAssumption DEF TimeInternal
<1>2. 0 * NsPerSec = 0
  BY <1>1
<1> QED
  BY <1>1, <1>2 DEF Nanoseconds

\* Nanoseconds made a time are as many as before.
LEMMA ToTimeExact ==
    ASSUME NEW ns \in Int
    PROVE  Nanoseconds(ToTime(ns)) = ns
<1> DEFINE t == [seconds |-> 0, nanoseconds |-> ns]
<1>1. t \in TimeInternal /\ t.seconds = 0 /\ t.nanoseconds = ns
  BY DEF TimeInternal
<1>2. ToTime(ns) = normalizeTime(t)
  BY DEF ToTime
<1> HIDE DEF t
<1> QED
  BY <1>1, <1>2, NormalizeExact, NoSeconds

\* Bounds as plain numbers.
LEMMA LoopConstants ==
    /\ MaxFrequency \in Nat /\ MaxError \in Nat /\ MaxAdjOffset \in Nat /\ AdjFreqMax \in Nat
    /\ Gain = MaxFrequency + AdjFreqMax
    /\ 2^SOffset \in Nat /\ 2^SOffset >= 1
    /\ Lag \in Nat /\ Lag >= MaxError /\ Drive \in Nat
    /\ MaxFrequency + 2 * MaxError <= AdjFreqMax
    /\ Drive + Lag + Gain + MaxError <= MaxAdjOffset
    /\ MaxAdjOffset < NsPerSec /\ NsPerSec \in Nat
    /\ (MaxAdjOffset + 1) * 2^SOffset + MaxAdjOffset + NsPerSec < Word
<1>1. /\ MaxFrequency \in Nat /\ MaxError \in Nat /\ MaxAdjOffset \in Nat /\ AdjFreqMax \in Nat
      /\ MaxFrequency + 2 * MaxError <= AdjFreqMax
      /\ Drive + Lag + Gain + MaxError <= MaxAdjOffset
      /\ MaxAdjOffset < NsPerSec /\ NsPerSec \in Nat
      /\ (MaxAdjOffset + 1) * 2^SOffset + MaxAdjOffset + NsPerSec < Word
  BY LoopAssumption, ServoConstants, ArithAssumption
<1>2. 2^SOffset \in Nat /\ 2^SOffset >= 1
  <2>1. SOffset \in Nat
    BY ServoConstants, ArithAssumption
  <2> QED
    BY <2>1, PowerPositive
<1>3. Drive \in Nat
  <2>1. Ap * AdjFreqMax \in Nat
    BY ServoConstants
  <2> QED
    BY <2>1 DEF Drive
<1>4. Lag \in Nat /\ Lag >= MaxError
  <2> DEFINE q == 2^SOffset
             u == MaxFrequency + AdjFreqMax + 2 * MaxError + 1
  <2>1. u \in Nat /\ q - 1 \in Nat
    BY <1>1, <1>2
  <2>2. (q - 1) * u \in Nat
    <3> HIDE DEF q, u
    <3> QED
      BY <2>1
  <2>3. Lag = (q - 1) * u + MaxError
    BY DEF Lag, Gain
  <2> HIDE DEF q, u
  <2> QED
    BY <1>1, <2>2, <2>3
<1> QED
  BY <1>1, <1>2, <1>3, <1>4 DEF Gain

\* The control is at its limit where the mean is large.
LEMMA ControlSaturates ==
    ASSUME NEW y \in Int, NEW d \in -AdjFreqMax..AdjFreqMax
    PROVE  /\ y >= Drive => Clipped(Quot(y, Ap) + d) = AdjFreqMax
           /\ y <= -Drive => Clipped(Quot(y, Ap) + d) = -AdjFreqMax
<1> DEFINE A == AdjFreqMax
           D == Ap * A
<1>1. A \in Nat /\ Ap \in Nat /\ Ap >= 1 /\ D \in Nat /\ Drive = 2 * D
  BY ServoConstants DEF Drive
<1>2. \A z \in Nat : z >= 2 * D => z \div Ap >= 2 * A /\ z \div Ap \in Nat
  <2> SUFFICES ASSUME NEW z \in Nat, z >= 2 * D PROVE z \div Ap >= 2 * A /\ z \div Ap \in Nat
    OBVIOUS
  <2> DEFINE e == z \div Ap
  <2>1. e \in Int /\ e * Ap <= z /\ z < e * Ap + Ap
    BY <1>1, FloorDivision
  <2> HIDE DEF e
  <2>2. (2 * A) * Ap < (e + 1) * Ap
    <3>1. (2 * A) * Ap = 2 * D /\ (e + 1) * Ap = e * Ap + Ap
      BY <1>1, <2>1
    <3>2. e * Ap \in Int
      BY <1>1, <2>1
    <3> HIDE DEF D
    <3> QED
      BY <1>1, <2>1, <3>1, <3>2
  <2>3. 2 * A < e + 1
    <3> DEFINE p == 2 * A
               r == e + 1
    <3>1. p \in Int /\ r \in Int /\ p * Ap < r * Ap
      BY <1>1, <2>1, <2>2
    <3> HIDE DEF p, r
    <3>2. p < r
      BY <1>1, <3>1, Cancel
    <3> QED
      BY <3>2 DEF p, r
  <2> QED
    BY <1>1, <2>1, <2>3 DEF e
<1> HIDE DEF D
<1>3. CASE y >= Drive
  <2>1. Quot(y, Ap) = y \div Ap /\ y \div Ap >= 2 * A /\ y \div Ap \in Nat
    BY <1>1, <1>2, <1>3 DEF Quot
  <2>2. ~(y <= -Drive) \/ A = 0
    <3>1. CASE D = 0
      <4>1. A = 0
        BY <1>1, <3>1 DEF D
      <4> QED
        BY <4>1
    <3>2. CASE D # 0
      BY <1>1, <1>3, <3>2
    <3> QED
      BY <3>1, <3>2
  <2> QED
    BY <1>1, <2>1, <2>2 DEF Clipped
<1>4. CASE y <= -Drive
  <2>1. -y \in Nat /\ -y >= 2 * D
    BY <1>1, <1>4
  <2>2. (-y) \div Ap >= 2 * A /\ (-y) \div Ap \in Nat
    BY <1>2, <2>1
  <2>3. Quot(y, Ap) <= -(2 * A) /\ Quot(y, Ap) \in Int
    <3>1. CASE y >= 0
      <4>1. y = 0 /\ D = 0
        BY <1>1, <1>4, <3>1
      <4>2. A = 0
        BY <1>1, <4>1 DEF D
      <4>3. (-y) \div Ap = y \div Ap /\ 0 \div Ap = 0
        BY <1>1, <4>1
      <4> QED
        BY <1>1, <4>1, <4>2, <4>3 DEF Quot
    <3>2. CASE y < 0
      BY <1>1, <2>2, <3>2 DEF Quot
    <3> QED
      BY <3>1, <3>2
  <2>4. y >= Drive => A = 0
    <3> SUFFICES ASSUME y >= Drive PROVE A = 0
      OBVIOUS
    <3>1. D = 0
      BY <1>1, <1>4
    <3> QED
      BY <1>1, <3>1 DEF D
  <2> QED
    BY <1>1, <2>3, <2>4 DEF Clipped
<1> QED
  BY <1>3, <1>4

\* The three ways to handle a Sync.
LEMMA SyncDoes ==
    ASSUME ServoInv, Sync
    PROVE  \E raw \in TimeInternal : \E f \in {filter(ofm_filt, raw.nanoseconds, SOffset)} :
              /\ Normal(raw) /\ Nanoseconds(raw) = Now - PathError
              /\ \/ SetTime(Now, raw) /\ InitServo /\ raw.seconds # 0
                 \/ /\ SetTime(Now, ToTime(f.y)) /\ InitServo
                    /\ raw.seconds = 0 /\ AbsVal(f.y) > MaxAdjOffset
                 \/ /\ Steer(Now, f.y) /\ ofm_filt' = f
                    /\ Nanoseconds(Tms') = Now + pathDelay
                    /\ raw.seconds = 0 /\ AbsVal(f.y) <= MaxAdjOffset
<1>1. PICK tms \in {subTime(ToTime(Now), ToTime(-pathDelay))} :
      \E raw \in {subTime(tms, meanPathDelay)} :
      \E f \in {filter(ofm_filt, raw.nanoseconds, SOffset)} :
           \/ /\ raw.seconds # 0
              /\ SetTime(Now, raw)
              /\ InitServo
           \/ /\ raw.seconds = 0
              /\ AbsVal(f.y) > MaxAdjOffset
              /\ SetTime(Now, ToTime(f.y))
              /\ InitServo
           \/ /\ raw.seconds = 0
              /\ AbsVal(f.y) <= MaxAdjOffset
              /\ Steer(Now, f.y)
              /\ ofm_filt' = f
              /\ Tms' = tms
  BY DEF Sync, Now
<1>2. PICK raw \in {subTime(tms, meanPathDelay)} :
      \E f \in {filter(ofm_filt, raw.nanoseconds, SOffset)} :
           \/ /\ raw.seconds # 0
              /\ SetTime(Now, raw)
              /\ InitServo
           \/ /\ raw.seconds = 0
              /\ AbsVal(f.y) > MaxAdjOffset
              /\ SetTime(Now, ToTime(f.y))
              /\ InitServo
           \/ /\ raw.seconds = 0
              /\ AbsVal(f.y) <= MaxAdjOffset
              /\ Steer(Now, f.y)
              /\ ofm_filt' = f
              /\ Tms' = tms
  BY <1>1
<1>3. /\ Now \in Int /\ pathDelay \in Int /\ -pathDelay \in Int
      /\ meanPathDelay \in TimeInternal
  BY ServoConstants DEF ServoInv, ServoTypeOK, Now
<1>4. tms \in TimeInternal /\ Nanoseconds(tms) = Now + pathDelay
  <2>1. /\ ToTime(Now) \in TimeInternal /\ Nanoseconds(ToTime(Now)) = Now
        /\ ToTime(-pathDelay) \in TimeInternal /\ Nanoseconds(ToTime(-pathDelay)) = -pathDelay
    BY <1>3, ToTimeNormal, ToTimeExact
  <2>2. tms = subTime(ToTime(Now), ToTime(-pathDelay))
    BY <1>1
  <2>3. tms \in TimeInternal /\ Nanoseconds(tms) = Now - (-pathDelay)
    BY <2>1, <2>2, DifferenceExact
  <2> QED
    BY <1>3, <2>3
<1>5. raw \in TimeInternal /\ Normal(raw) /\ Nanoseconds(raw) = Now - PathError
  <2>1. raw = subTime(tms, meanPathDelay)
    BY <1>2
  <2>2. /\ raw \in TimeInternal /\ Normal(raw)
        /\ Nanoseconds(raw) = Nanoseconds(tms) - Nanoseconds(meanPathDelay)
    BY <1>3, <1>4, <2>1, DifferenceExact
  <2>3. Nanoseconds(meanPathDelay) \in Int
    BY <1>3, TimesAreIntegers
  <2> QED
    BY <1>3, <1>4, <2>2, <2>3 DEF PathError
<1> QED
  BY <1>2, <1>4, <1>5

\* What a Sync leaves alone.
LEMMA SyncLeaves ==
    ASSUME ServoInv, TimesAgree, Sync
    PROVE  /\ PathError' = PathError /\ PathError \in Int /\ Now \in Int
           /\ theta \in Int /\ freq \in Int /\ adj \in -AdjFreqMax..AdjFreqMax
           /\ Now = theta + freq - adj
           /\ pathDelay' = pathDelay /\ error' = error /\ freq' = freq
           /\ freq \in -MaxFrequency..MaxFrequency
           /\ FilterOK(ofm_filt) /\ ofm_filt.y \in Int
           /\ sets \in 0..MaxSets
<1>1. /\ theta \in Int /\ freq \in Int /\ pathDelay \in Int /\ adj \in -AdjFreqMax..AdjFreqMax
      /\ meanPathDelay \in TimeInternal /\ FilterOK(ofm_filt) /\ sets \in 0..MaxSets
  BY DEF ServoInv, ServoTypeOK
<1>2. PathError \in Int /\ Now \in Int
  <2>1. Nanoseconds(meanPathDelay) \in Int
    BY <1>1, TimesAreIntegers
  <2> QED
    BY <1>1, <2>1, ServoConstants DEF PathError, Now
<1>3. /\ freq' = freq /\ pathDelay' = pathDelay /\ error' = error
      /\ meanPathDelay' = meanPathDelay
  BY DEF Sync
<1>4. PathError' = PathError
  BY <1>3 DEF PathError, Nanoseconds
<1> QED
  BY <1>1, <1>2, <1>3, <1>4, FilterTypes DEF Now, TimesAgree

\* While the clock is steered a Sync does not set it.
LEMMA LockedStays ==
    ASSUME ServoInv, TimesAgree, Sync, NEW c \in Int, Locked(c)
    PROVE  Locked(c)' /\ sets' = sets /\ ofm_filt'.n # 0 /\ Nanoseconds(Tms') = theta' + pathDelay'
              /\ owd_filt' = owd_filt
<1>1. PICK raw \in TimeInternal : \E f \in {filter(ofm_filt, raw.nanoseconds, SOffset)} :
              /\ Normal(raw) /\ Nanoseconds(raw) = Now - PathError
              /\ \/ SetTime(Now, raw) /\ InitServo /\ raw.seconds # 0
                 \/ /\ SetTime(Now, ToTime(f.y)) /\ InitServo
                    /\ raw.seconds = 0 /\ AbsVal(f.y) > MaxAdjOffset
                 \/ /\ Steer(Now, f.y) /\ ofm_filt' = f
                    /\ Nanoseconds(Tms') = Now + pathDelay
                    /\ raw.seconds = 0 /\ AbsVal(f.y) <= MaxAdjOffset
  BY SyncDoes
<1> DEFINE x == Now - PathError
           f == filter(ofm_filt, raw.nanoseconds, SOffset)
           y == ofm_filt.y
           z == f.y
<1>2. /\ PathError' = PathError /\ PathError \in Int /\ Now \in Int
      /\ theta \in Int /\ freq \in Int /\ adj \in -AdjFreqMax..AdjFreqMax
      /\ Now = theta + freq - adj
      /\ pathDelay' = pathDelay
      /\ freq \in -MaxFrequency..MaxFrequency
      /\ FilterOK(ofm_filt) /\ ofm_filt.y \in Int
  BY SyncLeaves
<1>3. PathError - c \in -MaxError..MaxError
  BY DEF Locked, Near
<1>4. SOffset \in 0..FilterBits
  BY ServoConstants
<1>5. x \in Int /\ x = theta + freq - adj - PathError
  BY <1>2
<1>6. ofm_filt.n = 0 => x \in -AdjFreqMax..AdjFreqMax
  <2> SUFFICES ASSUME ofm_filt.n = 0 PROVE x \in -AdjFreqMax..AdjFreqMax
    OBVIOUS
  <2>1. adj = 0 /\ theta - c \in -MaxError..MaxError
    BY DEF Locked, Near
  <2> QED
    BY <1>2, <1>3, <1>5, <2>1, LoopConstants
<1>7. ofm_filt.n # 0 =>
         /\ theta - c \in -(MaxAdjOffset + MaxError)..(MaxAdjOffset + MaxError)
         /\ theta - c - y \in -Lag..Lag
         /\ y \in -MaxAdjOffset..MaxAdjOffset
         /\ y >= Drive => adj = AdjFreqMax
         /\ y <= -Drive => adj = -AdjFreqMax
  BY DEF Locked, Near
<1> HIDE DEF y
<1>8. AdjFreqMax <= MaxAdjOffset
  BY LoopConstants
<1>9. x \in -MaxAdjOffset..MaxAdjOffset
  <2>1. CASE ofm_filt.n = 0
    BY <1>5, <1>6, <1>8, <2>1, LoopConstants
  <2>2. CASE ofm_filt.n # 0
    <3>1. x <= MaxAdjOffset
      <4>1. CASE y >= Drive
        BY <1>2, <1>3, <1>5, <1>7, <2>2, <4>1, LoopConstants
      <4>2. CASE y < Drive
        BY <1>2, <1>3, <1>5, <1>7, <2>2, <4>2, LoopConstants
      <4> QED
        BY <1>7, <2>2, <4>1, <4>2, LoopConstants
    <3>2. x >= -MaxAdjOffset
      <4>1. CASE y <= -Drive
        BY <1>2, <1>3, <1>5, <1>7, <2>2, <4>1, LoopConstants
      <4>2. CASE y > -Drive
        BY <1>2, <1>3, <1>5, <1>7, <2>2, <4>2, LoopConstants
      <4> QED
        BY <1>7, <2>2, <4>1, <4>2, LoopConstants
    <3> QED
      BY <1>5, <3>1, <3>2, LoopConstants
  <2> QED
    BY <2>1, <2>2
<1>10. raw.seconds = 0 /\ raw.nanoseconds = x
  <2>1. -NsPerSec < Nanoseconds(raw) /\ Nanoseconds(raw) < NsPerSec
    BY <1>1, <1>9, LoopConstants
  <2> QED
    BY <1>1, <2>1, SmallTime
<1>11. f = filter(ofm_filt, x, SOffset)
  BY <1>10
<1>12. /\ z \in -MaxAdjOffset..MaxAdjOffset
       /\ x - z \in -(Lag - MaxError)..(Lag - MaxError)
  <2>1. CASE ofm_filt.n = 0
    <3>1. z = x
      BY <1>2, <1>4, <1>9, <1>11, <2>1, FirstMean, LoopConstants
    <3> HIDE DEF z, x
    <3> QED
      BY <1>5, <1>9, <3>1, LoopConstants
  <2>2. CASE ofm_filt.n # 0
    <3>1. /\ z \in Int
          /\ (y <= z /\ z <= x) \/ (x <= z /\ z <= y)
          /\ AbsVal(x - y) + 1 <= 2^SOffset * ((AbsVal(x - y) + 1) - AbsVal(x - z))
      <4>1. ofm_filt.y \in -MaxAdjOffset..MaxAdjOffset
        BY <1>7, <2>2 DEF y
      <4> DEFINE M == MaxAdjOffset
      <4>2. M \in Nat /\ M < NsPerSec /\ (M + 1) * 2^SOffset + M + M < Word
        <5> DEFINE p == (M + 1) * 2^SOffset
        <5>1. p \in Nat /\ M \in Nat /\ M < NsPerSec /\ NsPerSec \in Nat /\ p + M + NsPerSec < Word
          BY LoopConstants
        <5> HIDE DEF p, M
        <5>2. p + M + M < Word
          BY <5>1, Words
        <5> QED
          BY <5>1, <5>2 DEF p
      <4>3. x \in -M..M /\ ofm_filt.y \in -M..M
        BY <1>9, <4>1
      <4> HIDE DEF M, x
      <4>4. LET w == filter(ofm_filt, x, SOffset).y
                b == AbsVal(x - ofm_filt.y) + 1
            IN  /\ w \in Int
                /\ (ofm_filt.y <= w /\ w <= x) \/ (x <= w /\ w <= ofm_filt.y)
                /\ b <= 2^SOffset * (b - AbsVal(x - w))
        BY <1>2, <1>4, <2>2, <4>2, <4>3, SmallSample
      <4>5. z = filter(ofm_filt, x, SOffset).y
        BY <1>11
      <4> HIDE DEF z, f
      <4> QED
        BY <4>4, <4>5, Zenon DEF y
    <3>2. y \in -MaxAdjOffset..MaxAdjOffset
      BY <1>7, <2>2
    <3> HIDE DEF z
    <3>3. z \in -MaxAdjOffset..MaxAdjOffset
      <4> HIDE DEF x
      <4> QED
        BY <1>5, <1>9, <3>1, <3>2, LoopConstants
    <3> DEFINE Q == 2^SOffset
               U == Gain + 2 * MaxError + 1
               b == AbsVal(x - y) + 1
               a == AbsVal(x - z)
    <3>4. b <= Lag + Gain + MaxError + 1
      <4>1. x - y <= Lag + Gain + MaxError /\ y - x <= Lag + Gain + MaxError
        BY <1>2, <1>3, <1>5, <1>7, <2>2, <3>2, LoopConstants
      <4> HIDE DEF x
      <4> QED
        BY <1>5, <3>2, <4>1, LoopConstants DEF AbsVal
    <3>5. Q \in Nat /\ Q >= 1 /\ U \in Nat /\ a \in Int /\ b \in Int
      <4> HIDE DEF x
      <4> QED
        BY <1>5, <3>1, <3>2, LoopConstants DEF AbsVal
    <3>6. Lag = (Q - 1) * U + MaxError
      BY DEF Lag
    <3>7. U = Gain + 2 * MaxError + 1
      OBVIOUS
    <3>8. b <= Q * (b - a)
      BY <3>1
    <3> HIDE DEF Q, U, a, b
    <3>9. b <= Q * U
      <4>1. Q * U = (Q - 1) * U + U /\ (Q - 1) * U \in Int
        BY <3>5
      <4> QED
        BY <3>4, <3>5, <3>6, <3>7, <4>1, LoopConstants
    <3>10. a <= (Q - 1) * U
      BY <3>5, <3>8, <3>9, LagBounded
    <3>11. a <= Lag - MaxError
      <4>1. (Q - 1) * U \in Int
        BY <3>5
      <4> QED
        BY <3>5, <3>6, <3>10, <4>1, LoopConstants
    <3>12. x - z \in -(Lag - MaxError)..(Lag - MaxError)
      <4> HIDE DEF x
      <4> QED
        BY <1>5, <3>1, <3>11, LoopConstants DEF a, AbsVal
    <3> QED
      BY <3>3, <3>12
  <2> QED
    BY <2>1, <2>2
<1>13. f.n # 0
  <2>1. x \in Int /\ -NsPerSec < x /\ x < NsPerSec
    BY <1>5, <1>9, LoopConstants
  <2> HIDE DEF x
  <2> QED
    BY <1>2, <1>4, <1>11, <2>1, FilterIs
<1> HIDE DEF f, z
<1>14. AbsVal(f.y) <= MaxAdjOffset
  BY <1>12, LoopConstants DEF AbsVal, z
<1>15. Steer(Now, f.y) /\ ofm_filt' = f /\ Nanoseconds(Tms') = Now + pathDelay
  <2>1. \E g \in {f} :
           \/ SetTime(Now, ToTime(g.y)) /\ InitServo /\ AbsVal(g.y) > MaxAdjOffset
           \/ Steer(Now, g.y) /\ ofm_filt' = g /\ Nanoseconds(Tms') = Now + pathDelay
    BY <1>1, <1>10, Zenon DEF f
  <2>2. ~(AbsVal(f.y) > MaxAdjOffset)
    <3>1. AbsVal(f.y) \in Int
      BY <1>12, LoopConstants DEF AbsVal, z
    <3> QED
      BY <1>14, <3>1, LoopConstants
  <2> QED
    BY <2>1, <2>2, Zenon
<1>16. /\ theta' = Now /\ adj' = Clipped(Quot(z, Ap) + Drift(z))
       /\ owd_filt' = owd_filt /\ sets' = sets
  BY <1>15 DEF Steer, z
<1>17. /\ z >= Drive => adj' = AdjFreqMax
       /\ z <= -Drive => adj' = -AdjFreqMax
  <2>1. Drift(z) \in -AdjFreqMax..AdjFreqMax
    <3>1. observedDrift \in Int /\ z \in Int
      BY <1>12, LoopConstants DEF ServoInv, ServoTypeOK
    <3>2. observedDrift + Quot(z, Ai) \in Int
      BY <3>1, QuotIsInteger, ServoConstants
    <3> QED
      BY <3>2, ClippedInRange DEF Drift
  <2>2. z \in Int
    BY <1>12, LoopConstants
  <2> QED
    BY <1>16, <2>1, <2>2, ControlSaturates
<1>18. ofm_filt'.n # 0 /\ ofm_filt'.y = z
  BY <1>13, <1>15 DEF z
<1>19. theta' = x + PathError
  BY <1>2, <1>16
<1>20. /\ theta' - c \in -(MaxAdjOffset + MaxError)..(MaxAdjOffset + MaxError)
       /\ theta' - c - z \in -Lag..Lag
  <2> HIDE DEF x
  <2> QED
    BY <1>2, <1>3, <1>5, <1>9, <1>12, <1>19, LoopConstants
<1>21. Locked(c)'
  BY <1>2, <1>3, <1>12, <1>17, <1>18, <1>20 DEF Locked, Near
<1> QED
  BY <1>2, <1>15, <1>16, <1>18, <1>21

\* A Sync that comes when the filter is empty steers the clock or sets it right,
\* but for the error of the delay, unless the time read is a second ahead.
LEMMA EmptyLocks ==
    ASSUME ServoInv, TimesAgree, Sync, ofm_filt.n = 0, NEW c \in Int, Near(PathError, c, MaxError)
    PROVE  /\ sets' \in 0..(sets + 1)
           /\ Locked(c)' \/ (sets' = 0 /\ ofm_filt'.n = 0)
           /\ ofm_filt'.n # 0 => Nanoseconds(Tms') = theta' + pathDelay'
           /\ owd_filt' \in {owd_filt, EmptyFilter}
<1>1. PICK raw \in TimeInternal : \E f \in {filter(ofm_filt, raw.nanoseconds, SOffset)} :
              /\ Normal(raw) /\ Nanoseconds(raw) = Now - PathError
              /\ \/ SetTime(Now, raw) /\ InitServo /\ raw.seconds # 0
                 \/ /\ SetTime(Now, ToTime(f.y)) /\ InitServo
                    /\ raw.seconds = 0 /\ AbsVal(f.y) > MaxAdjOffset
                 \/ /\ Steer(Now, f.y) /\ ofm_filt' = f
                    /\ Nanoseconds(Tms') = Now + pathDelay
                    /\ raw.seconds = 0 /\ AbsVal(f.y) <= MaxAdjOffset
  BY SyncDoes
<1> DEFINE f == filter(ofm_filt, raw.nanoseconds, SOffset)
<1>2. /\ PathError' = PathError /\ PathError \in Int /\ Now \in Int
      /\ pathDelay' = pathDelay
      /\ FilterOK(ofm_filt) /\ sets \in 0..MaxSets
  BY SyncLeaves
<1>3. PathError - c \in -MaxError..MaxError
  BY DEF Near
<1>4. Normal(raw) /\ Nanoseconds(raw) = Now - PathError /\ raw.nanoseconds \in Int
  BY <1>1, TimesAreIntegers
<1>5. f.y = raw.nanoseconds /\ f.n # 0
  <2>1. raw.nanoseconds \in Int /\ -NsPerSec < raw.nanoseconds /\ raw.nanoseconds < NsPerSec
    BY <1>4 DEF Normal
  <2>2. SOffset \in 0..FilterBits
    BY ServoConstants
  <2>3. f.y = raw.nanoseconds
    BY <1>2, <2>1, <2>2, FirstMean
  <2>4. f.n # 0
    BY <1>2, <2>1, <2>2, FilterIs
  <2> QED
    BY <2>3, <2>4
<1>6. raw.seconds = 0 => raw.nanoseconds = Now - PathError
  BY <1>4, NoSeconds
<1> HIDE DEF f
<1>7. \/ \E off \in TimeInternal :
            SetTime(Now, off) /\ InitServo /\ Nanoseconds(off) = Now - PathError
      \/ /\ Steer(Now, f.y) /\ ofm_filt' = f
         /\ Nanoseconds(Tms') = Now + pathDelay
         /\ raw.seconds = 0 /\ AbsVal(f.y) <= MaxAdjOffset
  <2>1. CASE SetTime(Now, raw) /\ InitServo
    BY <1>4, <2>1
  <2>2. CASE SetTime(Now, ToTime(f.y)) /\ InitServo /\ raw.seconds = 0
    <3>1. ToTime(f.y) \in TimeInternal /\ Nanoseconds(ToTime(f.y)) = Now - PathError
      BY <1>4, <1>5, <1>6, <2>2, ToTimeNormal, ToTimeExact
    <3> QED
      BY <2>2, <3>1
  <2> QED
    BY <1>1, <2>1, <2>2 DEF f
<1>8. ASSUME NEW off \in TimeInternal, SetTime(Now, off), InitServo,
             Nanoseconds(off) = Now - PathError
      PROVE  /\ sets' \in 0..(sets + 1)
             /\ Locked(c)' \/ (sets' = 0 /\ ofm_filt'.n = 0)
             /\ ofm_filt'.n = 0 /\ owd_filt' = EmptyFilter
  <2>1. ofm_filt'.n = 0 /\ owd_filt' = EmptyFilter /\ adj' = 0
    BY <1>8 DEF InitServo, EmptyFilter
  <2>2. CASE theta' = Now - Nanoseconds(off) /\ sets' = IF sets < MaxSets THEN sets + 1 ELSE sets
    <3>1. theta' = PathError
      BY <1>2, <1>8, <2>2
    <3>2. sets' \in 0..(sets + 1)
      BY <1>2, <2>2 DEF MaxSets
    <3> QED
      BY <1>2, <1>3, <2>1, <3>1, <3>2 DEF Locked, Near
  <2>3. CASE sets' = 0
    BY <1>2, <2>1, <2>3
  <2> QED
    BY <1>8, <2>1, <2>2, <2>3 DEF SetTime
<1>9. CASE /\ Steer(Now, f.y) /\ ofm_filt' = f
           /\ Nanoseconds(Tms') = Now + pathDelay
           /\ raw.seconds = 0 /\ AbsVal(f.y) <= MaxAdjOffset
  <2> DEFINE x == Now - PathError
  <2>1. f.y = x /\ x \in Int
    BY <1>2, <1>5, <1>6, <1>9
  <2>2. x \in -MaxAdjOffset..MaxAdjOffset
    BY <1>9, <2>1, LoopConstants DEF AbsVal
  <2>3. /\ theta' = Now /\ adj' = Clipped(Quot(x, Ap) + Drift(x))
        /\ owd_filt' = owd_filt /\ sets' = sets
    BY <1>9, <2>1 DEF Steer
  <2>4. ofm_filt'.n # 0 /\ ofm_filt'.y = x
    BY <1>5, <1>9, <2>1
  <2> HIDE DEF x
  <2>5. /\ x >= Drive => adj' = AdjFreqMax
        /\ x <= -Drive => adj' = -AdjFreqMax
    <3>1. observedDrift \in Int
      BY LoopConstants DEF ServoInv, ServoTypeOK
    <3>2. observedDrift + Quot(x, Ai) \in Int
      BY <2>1, <3>1, QuotIsInteger, ServoConstants
    <3>3. Drift(x) \in -AdjFreqMax..AdjFreqMax
      BY <3>2, ClippedInRange DEF Drift
    <3> QED
      BY <2>1, <2>3, <3>3, ControlSaturates
  <2>6. /\ theta' - c \in -(MaxAdjOffset + MaxError)..(MaxAdjOffset + MaxError)
        /\ theta' - c - x \in -Lag..Lag
    <3>1. theta' = x + PathError
      BY <1>2, <2>3 DEF x
    <3> QED
      BY <1>2, <1>3, <2>1, <2>2, <3>1, LoopConstants
  <2>7. Locked(c)'
    BY <1>2, <1>3, <2>2, <2>4, <2>5, <2>6 DEF Locked, Near
  <2> QED
    BY <1>2, <1>9, <2>3, <2>7
<1> QED
  BY <1>7, <1>8, <1>9

\* A Sync that is handled with a delay that was measured, when the clock was set
\* once at most.
LEMMA MeasuredSync ==
    ASSUME ServoInv, TimesAgree, Measured, Sync, sets <= 1
    PROVE  /\ SetsAccounted'
           /\ ofm_filt'.n # 0 => Nanoseconds(Tms') = theta' + pathDelay'
           /\ owd_filt' \in {owd_filt, EmptyFilter}
<1>1. PICK raw \in TimeInternal : \E f \in {filter(ofm_filt, raw.nanoseconds, SOffset)} :
              /\ Normal(raw) /\ Nanoseconds(raw) = Now - PathError
              /\ \/ SetTime(Now, raw) /\ InitServo /\ raw.seconds # 0
                 \/ /\ SetTime(Now, ToTime(f.y)) /\ InitServo
                    /\ raw.seconds = 0 /\ AbsVal(f.y) > MaxAdjOffset
                 \/ /\ Steer(Now, f.y) /\ ofm_filt' = f
                    /\ Nanoseconds(Tms') = Now + pathDelay
                    /\ raw.seconds = 0 /\ AbsVal(f.y) <= MaxAdjOffset
  BY SyncDoes
<1> DEFINE f == filter(ofm_filt, raw.nanoseconds, SOffset)
<1>2. /\ PathError' = PathError /\ PathError \in Int /\ Now \in Int
      /\ pathDelay' = pathDelay /\ sets \in 0..MaxSets
  BY SyncLeaves
<1>3. Measured' /\ PathError \in -MaxError..MaxError
  BY <1>2, LoopConstants DEF Measured, Near
<1> HIDE DEF f
<1>4. CASE SetTime(Now, raw) /\ InitServo /\ raw.seconds # 0
  <2>1. ofm_filt'.n = 0 /\ owd_filt' = EmptyFilter /\ adj' = 0
    BY <1>4 DEF InitServo, EmptyFilter
  <2>2. CASE theta' = Now - Nanoseconds(raw) /\ sets' = IF sets < MaxSets THEN sets + 1 ELSE sets
    <3>1. theta' = PathError
      BY <1>1, <1>2, <2>2
    <3>2. Locked(0)'
      BY <1>2, <1>3, <2>1, <3>1, LoopConstants DEF Locked, Near
    <3>3. sets' <= 3
      BY <1>2, <2>2 DEF MaxSets
    <3> QED
      BY <1>3, <2>1, <3>2, <3>3 DEF SetsAccounted
  <2>3. CASE sets' = 0
    BY <2>1, <2>3 DEF SetsAccounted
  <2> QED
    BY <1>4, <2>1, <2>2, <2>3 DEF SetTime
<1>5. CASE SetTime(Now, ToTime(f.y)) /\ InitServo
  <2>1. ofm_filt'.n = 0 /\ owd_filt' = EmptyFilter
    BY <1>5 DEF InitServo, EmptyFilter
  <2>2. sets' <= 2
    BY <1>2, <1>5 DEF SetTime, MaxSets
  <2> QED
    BY <1>3, <2>1, <2>2 DEF SetsAccounted
<1>6. CASE Steer(Now, f.y) /\ Nanoseconds(Tms') = Now + pathDelay
  <2>1. sets' = sets /\ owd_filt' = owd_filt /\ theta' = Now
    BY <1>6 DEF Steer
  <2>2. sets' <= 1
    BY <2>1
  <2> QED
    BY <1>2, <1>3, <1>6, <2>1, <2>2 DEF SetsAccounted
<1> QED
  BY <1>1, <1>4, <1>5, <1>6 DEF f

\* Whatever has led to it, a Sync keeps the account.
LEMMA SyncAccounted == LoopInv /\ Sync => TimesAgree' /\ SetsAccounted'
<1> SUFFICES ASSUME LoopInv, Sync PROVE TimesAgree' /\ SetsAccounted'
  OBVIOUS
<1>1. ServoInv /\ TimesAgree /\ SetsAccounted
  BY DEF LoopInv
<1>2. /\ PathError' = PathError /\ PathError \in Int
      /\ pathDelay' = pathDelay /\ error' = error /\ freq' = freq
      /\ sets \in 0..MaxSets
  BY <1>1, SyncLeaves
<1>3. Measured => Measured'
  BY <1>2 DEF Measured, Near
<1>4. /\ SetsAccounted'
      /\ ofm_filt'.n # 0 => Nanoseconds(Tms') = theta' + pathDelay'
      /\ owd_filt' \in {owd_filt, EmptyFilter}
  <2>1. CASE sets = 0 /\ ofm_filt.n = 0
    <3>1. PICK c \in Int : c = PathError
      BY <1>2
    <3>2. Near(PathError, c, MaxError)
      BY <3>1, LoopConstants DEF Near
    <3>3. /\ sets' \in 0..(sets + 1)
          /\ Locked(c)' \/ (sets' = 0 /\ ofm_filt'.n = 0)
          /\ ofm_filt'.n # 0 => Nanoseconds(Tms') = theta' + pathDelay'
          /\ owd_filt' \in {owd_filt, EmptyFilter}
      BY <1>1, <2>1, <3>2, EmptyLocks
    <3>4. c = PathError'
      BY <1>2, <3>1
    <3>5. Locked(c)' => Locked(PathError)'
      BY <3>4
    <3>6. sets' <= 1
      BY <2>1, <3>3
    <3> QED
      BY <3>3, <3>5, <3>6 DEF SetsAccounted
  <2>2. CASE sets <= 1 /\ Locked(PathError)
    <3>1. PICK c \in Int : c = PathError
      BY <1>2
    <3>2. Locked(c)
      BY <2>2, <3>1
    <3>3. /\ Locked(c)' /\ sets' = sets
          /\ Nanoseconds(Tms') = theta' + pathDelay' /\ owd_filt' = owd_filt
      BY <1>1, <3>2, LockedStays
    <3>4. c = PathError'
      BY <1>2, <3>1
    <3>5. Locked(PathError)'
      BY <3>3, <3>4
    <3>6. sets' <= 1
      BY <2>2, <3>3
    <3> QED
      BY <3>3, <3>5, <3>6 DEF SetsAccounted
  <2>3. CASE Measured /\ sets <= 1
    BY <1>1, <2>3, MeasuredSync
  <2>4. CASE Measured /\ sets <= 2 /\ ofm_filt.n = 0
    <3>1. Near(PathError, 0, MaxError)
      BY <2>4 DEF Measured
    <3>2. /\ sets' \in 0..(sets + 1)
          /\ Locked(0)' \/ (sets' = 0 /\ ofm_filt'.n = 0)
          /\ ofm_filt'.n # 0 => Nanoseconds(Tms') = theta' + pathDelay'
          /\ owd_filt' \in {owd_filt, EmptyFilter}
      BY <1>1, <2>4, <3>1, EmptyLocks
    <3>3. sets' <= 3
      BY <1>2, <2>4, <3>2
    <3> QED
      BY <1>3, <2>4, <3>2, <3>3 DEF SetsAccounted
  <2>5. CASE Measured /\ sets <= 3 /\ Locked(0)
    <3>1. /\ Locked(0)' /\ sets' = sets
          /\ Nanoseconds(Tms') = theta' + pathDelay' /\ owd_filt' = owd_filt
      BY <1>1, <2>5, LockedStays
    <3>2. sets' <= 3
      BY <2>5, <3>1
    <3> QED
      BY <1>3, <2>5, <3>1, <3>2 DEF SetsAccounted
  <2> QED
    BY <1>1, <2>1, <2>2, <2>3, <2>4, <2>5 DEF SetsAccounted
<1>5. owd_filt'.n # 0 => Near(owd_filt'.y, pathDelay', MaxError)
  BY <1>1, <1>2, <1>4 DEF TimesAgree, EmptyFilter
<1> QED
  BY <1>1, <1>2, <1>4, <1>5 DEF TimesAgree

\* A Sync leaves the filter of the offsets empty, or with a mean to steer by and a
\* sum that has not overflowed.
LEMMA SyncFits == LoopInv /\ Sync => FiltersFit'
<1> SUFFICES ASSUME LoopInv, Sync PROVE FiltersFit'
  OBVIOUS
<1>1. ServoInv /\ TimesAgree /\ FiltersFit /\ FilterOK(ofm_filt)
  BY DEF LoopInv, ServoInv
<1>2. PICK raw \in TimeInternal : \E f \in {filter(ofm_filt, raw.nanoseconds, SOffset)} :
              /\ Normal(raw) /\ Nanoseconds(raw) = Now - PathError
              /\ \/ SetTime(Now, raw) /\ InitServo /\ raw.seconds # 0
                 \/ /\ SetTime(Now, ToTime(f.y)) /\ InitServo
                    /\ raw.seconds = 0 /\ AbsVal(f.y) > MaxAdjOffset
                 \/ /\ Steer(Now, f.y) /\ ofm_filt' = f
                    /\ Nanoseconds(Tms') = Now + pathDelay
                    /\ raw.seconds = 0 /\ AbsVal(f.y) <= MaxAdjOffset
  BY <1>1, SyncDoes
<1> DEFINE x == raw.nanoseconds
           f == filter(ofm_filt, x, SOffset)
<1>3. x \in Int /\ -NsPerSec < x /\ x < NsPerSec /\ SOffset \in 0..FilterBits
  BY <1>2, TimesAreIntegers, ServoConstants DEF Normal
<1>4. ~f.wrapped
  <2> DEFINE M == MaxAdjOffset
             X == NsPerSec
  <2>1. /\ M \in Nat /\ X \in Nat /\ X <= NsPerSec
        /\ (M + 1) * 2^SOffset + M + X < Word
    BY LoopConstants
  <2>2. ofm_filt.n # 0 => ofm_filt.y \in -M..M /\ ~ofm_filt.wrapped
    BY <1>1 DEF FiltersFit
  <2>3. x \in -X..X
    BY <1>3, <2>1
  <2> HIDE DEF M, X, x
  <2> QED
    BY <1>1, <1>3, <2>1, <2>2, <2>3, NoOverflow
<1>5. f.y \in Int
  <2> HIDE DEF x
  <2>1. FilterOK(f)
    BY <1>1, <1>3, FilterStep
  <2> QED
    BY <2>1, FilterTypes
<1> HIDE DEF f
<1>6. CASE InitServo
  BY <1>6 DEF InitServo, FiltersFit, EmptyFilter
<1>7. CASE Steer(Now, f.y) /\ ofm_filt' = f /\ AbsVal(f.y) <= MaxAdjOffset
  <2>1. f.y \in -MaxAdjOffset..MaxAdjOffset
    BY <1>5, <1>7, LoopConstants DEF AbsVal
  <2>2. ofm_filt' = f /\ owd_filt' = owd_filt
    BY <1>7 DEF Steer
  <2> QED
    BY <1>1, <1>4, <2>1, <2>2 DEF FiltersFit
<1> QED
  BY <1>2, <1>6, <1>7 DEF f

\* An answer measures the path, but for half of what its time is wrong by.
LEMMA AnswerMeasures ==
    ASSUME ServoInv, TimesAgree, DelayAnswer
    PROVE  /\ Measured'
           /\ owd_filt'.n # 0 => Near(owd_filt'.y, pathDelay', MaxError)
           /\ FiltersFit => ~owd_filt'.wrapped
<1>1. PICK Tsm \in {subTime(ToTime(pathDelay + error), ToTime(theta))} :
      \E mean \in {div2Time(addTime(Tms, Tsm))} :
      \E f \in {filter(owd_filt, mean.nanoseconds, SDelay)} :
           \/ /\ mean.seconds # 0
              /\ meanPathDelay' = mean
              /\ UNCHANGED owd_filt
           \/ /\ mean.seconds = 0
              /\ meanPathDelay' = ToTime(f.y)
              /\ owd_filt' = f
  BY DEF DelayAnswer
<1>2. PICK mean \in {div2Time(addTime(Tms, Tsm))} :
      \E f \in {filter(owd_filt, mean.nanoseconds, SDelay)} :
           \/ /\ mean.seconds # 0
              /\ meanPathDelay' = mean
              /\ UNCHANGED owd_filt
           \/ /\ mean.seconds = 0
              /\ meanPathDelay' = ToTime(f.y)
              /\ owd_filt' = f
  BY <1>1
<1>3. /\ theta \in Int /\ pathDelay \in Int /\ error \in Int
      /\ Tms \in TimeInternal /\ FilterOK(owd_filt)
      /\ pathDelay \in PathDelays /\ error \in -MaxError..MaxError
      /\ Nanoseconds(Tms) = theta + pathDelay
      /\ owd_filt.n # 0 => owd_filt.y - pathDelay \in -MaxError..MaxError
  BY DEF ServoInv, ServoTypeOK, TimesAgree, Near, DelayAnswer, AnswerDue
<1> DEFINE m == Quot(2 * pathDelay + error, 2)
<1>4. m - pathDelay \in -MaxError..MaxError /\ m \in Int
  BY <1>3, LoopConstants DEF Quot
<1>5. mean \in TimeInternal /\ Normal(mean) /\ Nanoseconds(mean) = m
  <2>1. /\ ToTime(pathDelay + error) \in TimeInternal
        /\ Nanoseconds(ToTime(pathDelay + error)) = pathDelay + error
        /\ ToTime(theta) \in TimeInternal /\ Nanoseconds(ToTime(theta)) = theta
    BY <1>3, ToTimeNormal, ToTimeExact
  <2>2. Tsm = subTime(ToTime(pathDelay + error), ToTime(theta))
    BY <1>1
  <2>3. Tsm \in TimeInternal /\ Nanoseconds(Tsm) = pathDelay + error - theta
    BY <1>3, <2>1, <2>2, DifferenceExact
  <2> DEFINE s == addTime(Tms, Tsm)
  <2>4. s \in TimeInternal /\ Normal(s) /\ Nanoseconds(s) = Nanoseconds(Tms) + Nanoseconds(Tsm)
    BY <1>3, <2>3, SumExact
  <2>5. mean = div2Time(s)
    BY <1>2
  <2> HIDE DEF s
  <2>6. Nanoseconds(s) = 2 * pathDelay + error
    BY <1>3, <2>3, <2>4
  <2> QED
    BY <2>4, <2>5, <2>6, HalfExact
<1> HIDE DEF m
<1> DEFINE M == AbsVal(pathDelay) + MaxError
<1>6. /\ M \in Nat /\ M < NsPerSec /\ (M + 1) * 2^SDelay + M + M < Word
      /\ \A y \in Int : y - pathDelay \in -MaxError..MaxError => y \in -M..M
  <2>1. M < NsPerSec /\ (M + 1) * 2^SDelay + M + M < Word
    <3>1. (M + 1) * 2^SDelay + 2 * M < Word /\ M < NsPerSec
      BY <1>3, LoopAssumption
    <3> DEFINE p == (M + 1) * 2^SDelay
    <3>2. M \in Int /\ p \in Int
      <4>1. M \in Int
        BY <1>3, LoopConstants DEF AbsVal
      <4>2. SDelay \in Nat
        BY ServoConstants, ArithAssumption
      <4>3. 2^SDelay \in Nat
        BY <4>2, PowerPositive
      <4> HIDE DEF M
      <4> QED
        BY <4>1, <4>3
    <3> HIDE DEF M, p
    <3>3. p + M + M < Word
      BY <3>1, <3>2, Words DEF p
    <3> QED
      BY <3>1, <3>3 DEF p
  <2>2. M \in Nat
    BY <1>3, LoopConstants DEF AbsVal
  <2>3. \A y \in Int : y - pathDelay \in -MaxError..MaxError => y \in -M..M
    BY <1>3, LoopConstants DEF AbsVal
  <2> QED
    BY <2>1, <2>2, <2>3
<1> HIDE DEF M
<1>7. mean.seconds = 0 /\ mean.nanoseconds = m
  <2>1. m \in -M..M
    BY <1>4, <1>6
  <2>2. -NsPerSec < Nanoseconds(mean) /\ Nanoseconds(mean) < NsPerSec
    BY <1>5, <1>6, <2>1, LoopConstants
  <2> QED
    BY <1>5, <2>2, SmallTime
<1> DEFINE f == filter(owd_filt, m, SDelay)
<1>8. meanPathDelay' = ToTime(f.y) /\ owd_filt' = f /\ pathDelay' = pathDelay
  BY <1>2, <1>7 DEF DelayAnswer
<1>9. f.y \in Int /\ f.y - pathDelay \in -MaxError..MaxError
  <2>1. m \in -M..M /\ SDelay \in 0..FilterBits
    BY <1>4, <1>6, ServoConstants
  <2>2. CASE owd_filt.n = 0
    <3>1. f.y = m
      BY <1>3, <1>4, <1>6, <2>1, <2>2, FirstMean, LoopConstants
    <3> QED
      BY <1>4, <3>1
  <2>3. CASE owd_filt.n # 0
    <3>1. owd_filt.y \in Int /\ owd_filt.y - pathDelay \in -MaxError..MaxError
      BY <1>3, <2>3, FilterTypes
    <3>2. owd_filt.y \in -M..M
      BY <1>6, <3>1
    <3>3. LET w == filter(owd_filt, m, SDelay).y
              b == AbsVal(m - owd_filt.y) + 1
          IN  /\ w \in Int
              /\ (owd_filt.y <= w /\ w <= m) \/ (m <= w /\ w <= owd_filt.y)
              /\ b <= 2^SDelay * (b - AbsVal(m - w))
      BY <1>3, <1>6, <2>1, <2>3, <3>2, SmallSample
    <3>4. f.y \in Int /\ ((owd_filt.y <= f.y /\ f.y <= m) \/ (m <= f.y /\ f.y <= owd_filt.y))
      BY <3>3, Zenon
    <3> HIDE DEF f
    <3> QED
      BY <1>3, <1>4, <3>1, <3>4, LoopConstants
  <2> QED
    BY <2>2, <2>3
<1>13. FiltersFit => ~f.wrapped
  <2> SUFFICES ASSUME FiltersFit PROVE ~f.wrapped
    OBVIOUS
  <2>1. m \in -M..M /\ -NsPerSec < m /\ m < NsPerSec /\ SDelay \in 0..FilterBits
    BY <1>4, <1>6, ServoConstants, LoopConstants
  <2>2. owd_filt.n # 0 => owd_filt.y \in -M..M /\ ~owd_filt.wrapped
    BY <1>3, <1>6, FilterTypes DEF FiltersFit
  <2>3. M <= NsPerSec
    BY <1>6, LoopConstants
  <2> QED
    BY <1>3, <1>6, <2>1, <2>2, <2>3, NoOverflow
<1> HIDE DEF f
<1>10. Nanoseconds(meanPathDelay)' = f.y
  <2>1. Nanoseconds(ToTime(f.y)) = f.y
    BY <1>9, ToTimeExact
  <2> QED
    BY <1>8, <2>1 DEF Nanoseconds
<1>11. PathError' = f.y - pathDelay
  BY <1>8, <1>10 DEF PathError
<1>12. PathError' - 0 = PathError'
  BY <1>3, <1>9, <1>11
<1> QED
  BY <1>8, <1>9, <1>11, <1>12, <1>13 DEF Measured, Near

\* An answer changes no more than the mean path delay.
LEMMA AnswerAccounted ==
    LoopInv /\ DelayAnswer => TimesAgree' /\ FiltersFit' /\ SetsAccounted'
<1> SUFFICES ASSUME LoopInv, DelayAnswer PROVE TimesAgree' /\ FiltersFit' /\ SetsAccounted'
  OBVIOUS
<1>1. ServoInv /\ TimesAgree /\ FiltersFit /\ SetsAccounted
  BY DEF LoopInv
<1>2. /\ Measured' /\ (owd_filt'.n # 0 => Near(owd_filt'.y, pathDelay', MaxError))
      /\ ~owd_filt'.wrapped
  BY <1>1, AnswerMeasures
<1>3. /\ theta' = theta /\ freq' = freq /\ pathDelay' = pathDelay /\ error' = error
      /\ adj' = adj /\ Tms' = Tms /\ ofm_filt' = ofm_filt /\ sets' = sets
      /\ ofm_filt.n # 0
  BY DEF DelayAnswer, AnswerDue
<1>4. TimesAgree'
  BY <1>1, <1>2, <1>3 DEF TimesAgree, Nanoseconds
<1>5. Locked(0) => Locked(0)'
  BY <1>2, <1>3 DEF Locked, Measured, Near
<1>6. SetsAccounted'
  BY <1>1, <1>2, <1>3, <1>5 DEF SetsAccounted
<1>7. FiltersFit'
  BY <1>1, <1>2, <1>3 DEF FiltersFit
<1> QED
  BY <1>4, <1>6, <1>7

\* When the answers go wrong nothing else changes.
LEMMA DisturbAccounted ==
    LoopInv /\ Disturb => TimesAgree' /\ FiltersFit' /\ SetsAccounted'
<1> SUFFICES ASSUME LoopInv, Disturb PROVE TimesAgree' /\ FiltersFit' /\ SetsAccounted'
  OBVIOUS
<1>1. TimesAgree /\ FiltersFit /\ SetsAccounted
  BY DEF LoopInv
<1>2. /\ theta' = theta /\ freq' = freq /\ pathDelay' = pathDelay
      /\ adj' = adj /\ Tms' = Tms /\ ofm_filt' = ofm_filt /\ sets' = sets
      /\ owd_filt' = owd_filt /\ meanPathDelay' = meanPathDelay
      /\ error' \in -MaxError..MaxError
  BY LoopAssumption DEF Disturb
<1>3. TimesAgree'
  BY <1>1, <1>2 DEF TimesAgree, Nanoseconds, Near
<1>4. SetsAccounted'
  BY <1>1, <1>2 DEF SetsAccounted, Locked, Measured, PathError, Nanoseconds, Near
<1>5. FiltersFit'
  BY <1>1, <1>2 DEF FiltersFit
<1> QED
  BY <1>3, <1>4, <1>5

LEMMA LoopStarts == ServoInit => LoopInv
<1> SUFFICES ASSUME ServoInit PROVE LoopInv
  OBVIOUS
<1>1. SetsAccounted
  BY DEF ServoInit, SetsAccounted, EmptyFilter
<1>2. TimesAgree
  BY LoopAssumption, LoopConstants DEF ServoInit, TimesAgree, EmptyFilter
<1>3. FiltersFit
  BY DEF ServoInit, FiltersFit, EmptyFilter
<1> QED
  BY <1>1, <1>2, <1>3, ServoStarts DEF LoopInv

\* Each set of the clock leads to a state from which fewer are left, and at last to
\* one in which the control never lets the mean offset grow to what sets the clock
\* (servo.c:130-303).
THEOREM LoopInvariance == ServoSpec => []LoopInv
<1>1. LoopInv /\ UNCHANGED servoVars => LoopInv'
  BY DEF servoVars, LoopInv, ServoInv, ServoTypeOK, TimesAgree, FiltersFit,
         SetsAccounted, Locked, Measured, PathError, Nanoseconds, Near
<1>2. LoopInv /\ ServoNext => LoopInv'
  BY SyncKeeps, DelayAnswerKeeps, DisturbKeeps, SyncAccounted, SyncFits,
     AnswerAccounted, DisturbAccounted DEF ServoNext, LoopInv
<1>3. LoopInv /\ [ServoNext]_servoVars => LoopInv'
  BY <1>1, <1>2
<1> QED
  BY <1>3, LoopStarts, PTL DEF ServoSpec

\* The clock is set at most three times between reads that are a second ahead
\* (servo.c:257-270).
THEOREM SetsBounded == ServoSpec => []SetAtMostThrice
<1>1. LoopInv => SetAtMostThrice
  BY DEF LoopInv, ServoInv, ServoTypeOK, SetsAccounted, SetAtMostThrice
<1> QED
  BY <1>1, LoopInvariance, PTL

\* What the filters yield lies between their least and their largest sample, and
\* their sums never overflow (servo.c:59-115, 248-303).
THEOREM FiltersWithinSamples == ServoSpec => []FilterWithinSamples
<1>1. LoopInv => FilterWithinSamples
  BY DEF LoopInv, ServoInv, FiltersFit, FilterOK, FilterWithinSamples
<1> QED
  BY <1>1, LoopInvariance, PTL
=============================================================================
