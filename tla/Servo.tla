-------------------------------- MODULE Servo --------------------------------
(***************************************************************************)
(* The clock servo (ptpd-2.0.0/src/dep/servo.c) in a closed loop with the  *)
(* clock it steers: a slave, end to end, with one master that sends a Sync *)
(* every second, and a path of constant delay.  The delay request follows  *)
(* the handling of a Sync at once (protocol.c:721); its answer may be      *)
(* lost, and from some time on the answers may carry a time that is wrong. *)
(***************************************************************************)
EXTENDS Arith

CONSTANTS
    MaxAdjOffset,   \* MAX_ADJ_OFFSET_NS
    AdjFreqMax,     \* ADJ_FREQ_MAX
    Ap, Ai,         \* servo.ap, servo.ai
    SOffset, SDelay,
    FirstOffsets, Frequencies, PathDelays, FirstDelays,  \* initial values
    Errors,         \* of the time that an answer carries
    MaxFrequency, MaxError  \* bounds of Frequencies and Errors

ASSUME ServoAssumption ==
    /\ MaxAdjOffset \in Nat /\ AdjFreqMax \in Nat
    /\ {Ap, Ai} \subseteq Nat \ {0}
    /\ {SOffset, SDelay} \subseteq 0..FilterBits
    /\ \A values \in {FirstOffsets, Frequencies, PathDelays, FirstDelays, Errors} :
           values \subseteq Int

\* How much an offset changes in a second, at most, how far the mean offset can
\* lag behind the last one, and the mean from which the controller steers at its
\* limit.
Gain  == MaxFrequency + AdjFreqMax
Lag   == (2^SOffset - 1) * (Gain + 2 * MaxError + 1) + MaxError
Drive == 2 * (Ap * AdjFreqMax)

\* The control is stronger than what it has to control, its limit is reached
\* before the clock is set instead, and the filters have room for the offsets
\* and the delays that are steered with.  In the build this asks for a clock that
\* is off by less than 0.05 % and for delays of less than 32 ms.
ASSUME LoopAssumption ==
    /\ MaxFrequency \in Nat /\ Frequencies \subseteq -MaxFrequency..MaxFrequency
    /\ MaxError \in Nat /\ Errors \subseteq -MaxError..MaxError
    /\ MaxFrequency + 2 * MaxError <= AdjFreqMax
    /\ Drive + Lag + Gain + MaxError <= MaxAdjOffset
    /\ MaxAdjOffset < NsPerSec
    /\ (MaxAdjOffset + 1) * 2^SOffset + MaxAdjOffset + NsPerSec < Word
    /\ \A d \in PathDelays :
          /\ AbsVal(d) + MaxError < NsPerSec
          /\ (AbsVal(d) + MaxError + 1) * 2^SDelay + 2 * (AbsVal(d) + MaxError) < Word

VARIABLES
    theta,      \* the true offset of the clock from the master
    freq,       \* what the clock gains in a second when adj is 0
    pathDelay,  \* of a message, in each direction
    error,      \* of the time that an answer carries
    adj,        \* the last argument of adjFreq, with its sign reversed
    Tms,
    meanPathDelay,
    ofm_filt, owd_filt,
    observedDrift,
    asked,      \* the answer to a delay request is due
    second,     \* the parity of the seconds
    torn,       \* history: the last time that was read was one second ahead
    sets        \* history: how often the clock was set since, MaxSets at most

servoVars == <<theta, freq, pathDelay, error, adj, Tms, meanPathDelay, ofm_filt,
               owd_filt, observedDrift, asked, second, torn, sets>>

MaxSets == 4

ToTime(ns) == normalizeTime([seconds |-> 0, nanoseconds |-> ns])

-----------------------------------------------------------------------------

\* initClock, which leaves meanPathDelay alone.
InitServo ==
    /\ Tms' = ToTime(0)
    /\ observedDrift' = 0
    /\ adj' = 0
    /\ ofm_filt' = EmptyFilter
    /\ owd_filt' = EmptyFilter

\* Defect: the offset is added.
SetTimeAhead(now, offset) ==
    /\ theta' = now + Nanoseconds(offset)
    /\ torn' = FALSE
    /\ sets' = IF sets < MaxSets THEN sets + 1 ELSE sets

\* The time is read, the offset subtracted and the result set.  The low half of
\* the time is read before the high half: when the second ends in between the
\* time read is a second ahead.
SetTime(now, offset) ==
    \/ /\ theta' = now - Nanoseconds(offset)
       /\ torn' = FALSE
       /\ sets' = IF sets < MaxSets THEN sets + 1 ELSE sets
    \/ /\ theta' = now - Nanoseconds(offset) + NsPerSec
       /\ torn' = TRUE
       /\ sets' = 0

Clipped(a) == IF a > AdjFreqMax THEN AdjFreqMax
              ELSE IF a < -AdjFreqMax THEN -AdjFreqMax ELSE a

Drift(ns) == Clipped(observedDrift + Quot(ns, Ai))

\* Defect: the accumulator is not used.
SteerProportionally(now, ns) ==
    /\ theta' = now
    /\ observedDrift' = Drift(ns)
    /\ adj' = Clipped(Quot(ns, Ap))
    /\ UNCHANGED <<owd_filt, torn, sets>>

\* The PI controller, for a sync interval of one second.
Steer(now, ns) ==
    /\ theta' = now
    /\ observedDrift' = Drift(ns)
    /\ adj' = Clipped(Quot(ns, Ap) + Drift(ns))
    /\ UNCHANGED <<owd_filt, torn, sets>>

\* A second later a Sync arrives: updateOffset and updateClock.
Sync ==
    /\ second' = 1 - second
    /\ asked' = TRUE
    /\ UNCHANGED <<freq, pathDelay, error, meanPathDelay>>
    /\ LET now == theta + freq - adj  IN
        \E tms \in {subTime(ToTime(now), ToTime(-pathDelay))} :
        \E raw \in {subTime(tms, meanPathDelay)} :
        \E f \in {filter(ofm_filt, raw.nanoseconds, SOffset)} :
           \/ /\ raw.seconds # 0
              /\ SetTime(now, raw)
              /\ InitServo
           \/ /\ raw.seconds = 0
              /\ AbsVal(f.y) > MaxAdjOffset
              /\ SetTime(now, ToTime(f.y))
              /\ InitServo
           \/ /\ raw.seconds = 0
              /\ AbsVal(f.y) <= MaxAdjOffset
              /\ Steer(now, f.y)
              /\ ofm_filt' = f
              /\ Tms' = tms

\* updateDelay ignores an answer after the clock was set.
AnswerDue == asked /\ ofm_filt.n # 0

\* The answer to the delay request: updateDelay.
DelayAnswer ==
    /\ AnswerDue
    /\ asked' = FALSE
    /\ \E Tsm \in {subTime(ToTime(pathDelay + error), ToTime(theta))} :
       \E mean \in {div2Time(addTime(Tms, Tsm))} :
       \E f \in {filter(owd_filt, mean.nanoseconds, SDelay)} :
           \/ /\ mean.seconds # 0
              /\ meanPathDelay' = mean
              /\ UNCHANGED owd_filt
           \/ /\ mean.seconds = 0
              /\ meanPathDelay' = ToTime(f.y)
              /\ owd_filt' = f
    /\ UNCHANGED <<theta, freq, pathDelay, error, adj, Tms, ofm_filt,
                   observedDrift, second, torn, sets>>

\* The path has been measured for a while when the answers go wrong.
Disturb ==
    /\ error = 0
    /\ owd_filt.n = 2^SDelay
    /\ error' \in Errors
    /\ UNCHANGED <<theta, freq, pathDelay, adj, Tms, meanPathDelay, ofm_filt,
                   owd_filt, observedDrift, asked, second, torn, sets>>

-----------------------------------------------------------------------------

\* The clock has any offset, and meanPathDelay is that of another master or of
\* another time scale.
ServoInit ==
    /\ theta \in FirstOffsets
    /\ freq \in Frequencies
    /\ pathDelay \in PathDelays
    /\ error = 0
    /\ \E d \in FirstDelays : meanPathDelay = ToTime(d)
    /\ adj = 0 /\ observedDrift = 0
    /\ Tms = ToTime(0)
    /\ ofm_filt = EmptyFilter /\ owd_filt = EmptyFilter
    /\ asked = FALSE /\ second = 0
    /\ torn = FALSE /\ sets = 0

ServoNext == Sync \/ DelayAnswer \/ Disturb

ServoSpec == ServoInit /\ [][ServoNext]_servoVars

\* The master goes on, and answers get through again and again.  This is
\* WF(Sync) and SF(DelayAnswer): Sync is always enabled, DelayAnswer when an
\* answer is due that is not ignored.
ServoFairness ==
    /\ []<><<Sync>>_servoVars
    /\ []<>AnswerDue => []<><<DelayAnswer>>_servoVars

ServoFairSpec == ServoSpec /\ ServoFairness

-----------------------------------------------------------------------------
(* Properties.                                                             *)

\* Every variable has its type, times are normal and the adjustments bounded.
ServoTypeOK ==
    /\ {theta, freq, pathDelay, error} \subseteq Int
    /\ {adj, observedDrift} \subseteq -AdjFreqMax..AdjFreqMax
    /\ {Tms, meanPathDelay} \subseteq TimeInternal
    /\ Normal(Tms) /\ Normal(meanPathDelay)
    /\ \A f \in {ofm_filt, owd_filt} :
          /\ f.n \in Nat /\ f.y \in Int /\ f.lo \in Int /\ f.hi \in Int
          /\ f.sum \in -Word..(Word - 1)
          /\ f.s \in 0..FilterBits
          /\ f.wrapped \in BOOLEAN
    /\ asked \in BOOLEAN /\ torn \in BOOLEAN
    /\ second \in {0, 1}
    /\ sets \in 0..MaxSets

\* What a filter yields lies between its least and its largest sample, though
\* the order rises with the samples and falls for large ones, with the sum
\* shifted each time (servo.c:59-115).  The sum never overflows its word.  For a
\* long run of samples close to minus a second it would, as their order is taken
\* from the larger of two signed values (servo.c:104); but the filter of the offsets
\* is emptied before its mean comes near that, and delays are short.
FilterWithinSamples ==
    \A f \in {ofm_filt, owd_filt} :
        f.n # 0 => ~f.wrapped /\ f.lo <= f.y /\ f.y <= f.hi

\* The clock is set at most three times: once for its own offset and twice, as
\* the second offset is averaged with the first, for a mean path delay that was
\* wrong, which initClock keeps.  After that it is steered, unless the time read
\* for setting it was a second ahead (servo.c:257-270).
SetAtMostThrice == sets <= 3

\* The loop settles: in the end the clock stays within Ai of the master, where
\* the accumulator no longer responds, apart from what the answers are wrong by,
\* unless the time is read a second ahead again and again (servo.c:248-303).
SettlesInTheEnd == []<>torn \/ <>[](AbsVal(theta) <= Ai + AbsVal(error))
=============================================================================
