-------------------------------- MODULE Arith --------------------------------
(***************************************************************************)
(* The arithmetic of the clock servo: times of seconds and nanoseconds     *)
(* (ptpd-2.0.0/src/arith.c) and exponential smoothing (dep/servo.c).       *)
(* Division is that of C, towards 0; a shift to the right is that of the   *)
(* processor, towards minus infinity.                                      *)
(***************************************************************************)
EXTENDS Integers

CONSTANTS
    NsPerSec,   \* 1000000000
    FilterBits  \* 30: NsPerSec fits this many bits, a word has two more

ASSUME ArithAssumption ==
    /\ NsPerSec \in Nat \ {0}
    /\ FilterBits \in Nat
    /\ NsPerSec < 2^FilterBits

Quot(a, b) == IF a >= 0 THEN a \div b ELSE -((-a) \div b)
AbsVal(a) == IF a >= 0 THEN a ELSE -a

-----------------------------------------------------------------------------
(* Times.                                                                  *)

TimeInternal == [seconds : Int, nanoseconds : Int]

Nanoseconds(t) == t.seconds * NsPerSec + t.nanoseconds

\* The parts have one sign and the nanoseconds make less than a second.
Normal(t) ==
    /\ -NsPerSec < t.nanoseconds /\ t.nanoseconds < NsPerSec
    /\ t.seconds > 0 => t.nanoseconds >= 0
    /\ t.seconds < 0 => t.nanoseconds <= 0

Carried(t) ==
    LET q == Quot(t.nanoseconds, NsPerSec)
    IN  [seconds |-> t.seconds + q, nanoseconds |-> t.nanoseconds - q * NsPerSec]

normalizeTime(t) ==
    LET c == Carried(t)  IN
        IF c.seconds > 0 /\ c.nanoseconds < 0
        THEN [seconds |-> c.seconds - 1, nanoseconds |-> c.nanoseconds + NsPerSec]
        ELSE IF c.seconds < 0 /\ c.nanoseconds > 0
        THEN [seconds |-> c.seconds + 1, nanoseconds |-> c.nanoseconds - NsPerSec]
        ELSE c

addTime(x, y) ==
    normalizeTime([seconds |-> x.seconds + y.seconds,
                   nanoseconds |-> x.nanoseconds + y.nanoseconds])

subTime(x, y) ==
    normalizeTime([seconds |-> x.seconds - y.seconds,
                   nanoseconds |-> x.nanoseconds - y.nanoseconds])

div2Time(t) ==
    LET half == Quot(t.seconds, 2)
    IN  normalizeTime([seconds |-> half,
                       nanoseconds |->
                          Quot(t.nanoseconds + (t.seconds - 2 * half) * NsPerSec, 2)])

-----------------------------------------------------------------------------
(* Smoothing.  lo and hi, the least and the largest sample of the filter,  *)
(* and wrapped, a sum that did not fit its word, are history.              *)

floorLog2(a) == CHOOSE k \in 0..FilterBits + 1 : 2^k <= a /\ a < 2^(k + 1)

order(a) == IF a = 0 THEN 0 ELSE floorLog2(AbsVal(a))

Word == 2^(FilterBits + 1)

AsWord(a) == ((a + Word) % (2 * Word)) - Word

EmptyFilter == [n |-> 0, y |-> 0, sum |-> 0, s |-> 0, lo |-> 0, hi |-> 0, wrapped |-> FALSE]

FirstSample(f, x) ==
    IF f.n = 0
    THEN [n |-> 1, y |-> x, sum |-> x, s |-> 0, lo |-> x, hi |-> x, wrapped |-> FALSE]
    ELSE [f EXCEPT !.n = @ + 1, !.lo = IF x < @ THEN x ELSE @, !.hi = IF x > @ THEN x ELSE @]

\* The order for the n-th sample, whose sum has to fit a word.
FilterOrder(n, y, x, smax) ==
    LET s  == IF 2^smax > n THEN order(n) ELSE smax
        s2 == FilterBits - order(IF y > x THEN y ELSE x)
    IN  IF s < s2 THEN s ELSE s2

\* Defect: the sum is not rescaled when the order changes.
SumUnscaled(sum, s, t) == sum

Rescaled(sum, s, t) == IF s > t THEN sum \div 2^(s - t) ELSE sum * 2^(t - s)

\* The filter f, of order smax at most, after the sample x.
filter(f, x, smax) ==
    LET g   == FirstSample(f, x)
        t   == FilterOrder(g.n, g.y, x, smax)
        sum == Rescaled(g.sum, g.s, t) + x - g.y
    IN  [g EXCEPT !.n = IF 2^smax > @ THEN @ ELSE 2^smax,
                  !.sum = AsWord(sum),
                  !.y = AsWord(sum) \div 2^t,
                  !.s = t,
                  !.wrapped = @ \/ AsWord(sum) # sum]
=============================================================================
