---------------------------- MODULE TelnetProofs ----------------------------
(***************************************************************************)
(* Proofs about the console, for lines, segments and connections of any    *)
(* size: that the shell reads what is typed, and that the line is seen.    *)
(***************************************************************************)
EXTENDS Telnet, Induction, SequenceTheorems, TLAPS

Octets    == {"a", "BS", "CR", "IAC", "DO", "SB", "SE"}
Typed     == {"a", "BS", "CR", "IAC"}
TelStates == {"NORMAL", "IAC", "OPT", "SB", "OPTDAT", "SE"}

-----------------------------------------------------------------------------
(* The telnet commands.                                                    *)

Runs == [state : TelStates, data : Seq(Octets), options : BOOLEAN]

FreshRun(state) == [state |-> state, data |-> <<>>, options |-> FALSE]

\* The values of run in Process.
IsRun(r, state, os) ==
    /\ r \in [0..Len(os) -> Runs]
    /\ r[0] = FreshRun(state)
    /\ \A k \in 1..Len(os) : r[k] = ProcessOctet(r[k - 1], os[k])

LEMMA ProcessOctetTyped ==
    ASSUME NEW s \in Runs, NEW o \in Octets
    PROVE  ProcessOctet(s, o) \in Runs
<1>1. s.state \in TelStates /\ s.data \in Seq(Octets) /\ s.options \in BOOLEAN
  BY DEF Runs
<1>2. NextState(s.state, o) \in TelStates
  BY <1>1 DEF NextState, TelStates
<1>3. (IF IsData(s.state, o) THEN Append(s.data, o) ELSE s.data) \in Seq(Octets)
  BY <1>1
<1>4. (s.options \/ s.state = "OPT") \in BOOLEAN
  BY <1>1
<1> QED
  BY <1>2, <1>3, <1>4, Zenon DEF ProcessOctet, Runs

LEMMA FreshRunTyped ==
    ASSUME NEW state \in TelStates
    PROVE  FreshRun(state) \in Runs
<1>1. <<>> \in Seq(Octets)
  OBVIOUS
<1> QED
  BY <1>1 DEF FreshRun, Runs

\* Process follows a run.
LEMMA ProcessRuns ==
    ASSUME NEW state \in TelStates, NEW os \in Seq(Octets)
    PROVE  \E r : IsRun(r, state, os) /\ Process(state, os) = r[Len(os)]
<1> DEFINE n == Len(os)
           s == FreshRun(state)
           Recurs(g) == g = [k \in 0..n |-> IF k = 0 THEN s ELSE ProcessOctet(g[k - 1], os[k])]
           step == [p \in Runs \X (1..n) |-> ProcessOctet(p[1], os[p[2]])]
           r == CHOOSE g : Recurs(g)
<1>1. n \in Nat /\ \A k \in 1..n : os[k] \in Octets
  BY ElementOfSeq, LenProperties
<1>2. s \in Runs
  BY FreshRunTyped
<1>3. step \in [Runs \X (1..n) -> Runs]
  <2>1. \A p \in Runs \X (1..n) : ProcessOctet(p[1], os[p[2]]) \in Runs
    BY <1>1, ProcessOctetTyped
  <2> QED
    BY <2>1
<1>4. Process(state, os) = r[n]
  BY DEF Process, FreshRun
<1>5. PICK h \in [0..n -> Runs] : Iterates(h, n, s, step)
  <2> HIDE DEF n, s, step
  <2> QED
    BY <1>1, <1>2, <1>3, IterationExists
<1>6. /\ h = [k \in 0..n |-> h[k]]
      /\ h[0] = s
      /\ \A k \in 1..n : h[k] = step[<<h[k - 1], k>>]
  <2> HIDE DEF n, s, step
  <2>1. h = [k \in 0..n |-> h[k]]
    BY <1>5
  <2>2. h[0] = s /\ \A k \in 1..n : h[k] = step[<<h[k - 1], k>>]
    BY <1>1, <1>5, IterationValues
  <2> QED
    BY <2>1, <2>2
<1>7. ASSUME NEW k \in 1..n PROVE h[k] = ProcessOctet(h[k - 1], os[k])
  <2>1. k - 1 \in 0..n
    BY <1>1
  <2>2. <<h[k - 1], k>> \in Runs \X (1..n)
    BY <1>5, <2>1
  <2>3. step[<<h[k - 1], k>>] = ProcessOctet(h[k - 1], os[k])
    BY <2>2
  <2> QED
    BY <1>6, <2>3
<1> HIDE DEF step
<1>8. Recurs(h)
  <2>1. ASSUME NEW k \in 0..n
        PROVE  h[k] = IF k = 0 THEN s ELSE ProcessOctet(h[k - 1], os[k])
    <3> HIDE DEF s
    <3>1. CASE k = 0
      BY <1>6, <3>1
    <3>2. CASE k \in 1..n
      <4>1. k # 0
        BY <3>2
      <4> QED
        BY <1>7, <3>2, <4>1, Zenon
    <3> QED
      BY <1>1, <3>1, <3>2
  <2> QED
    BY <1>6, <2>1
<1>9. Recurs(r)
  <2> HIDE DEF Recurs
  <2> QED
    BY <1>8
<1> HIDE DEF r
<1>10. /\ DOMAIN r = 0..n
       /\ \A k \in 0..n : r[k] = IF k = 0 THEN s ELSE ProcessOctet(r[k - 1], os[k])
  <2> DEFINE g == [k \in 0..n |-> IF k = 0 THEN s ELSE ProcessOctet(r[k - 1], os[k])]
  <2>1. r = g
    BY <1>9
  <2>2. DOMAIN g = 0..n /\ \A k \in 0..n : g[k] = IF k = 0 THEN s ELSE ProcessOctet(r[k - 1], os[k])
    OBVIOUS
  <2> HIDE DEF g
  <2> QED
    BY <2>1, <2>2
<1>11. r[0] = s /\ \A k \in 1..n : r[k] = ProcessOctet(r[k - 1], os[k])
  BY <1>1, <1>10
<1>12. \A k \in 0..n : r[k] \in Runs
  <2> DEFINE T == {k \in 0..n : r[k] \in Runs}
  <2>1. 0 \in T
    BY <1>1, <1>2, <1>11
  <2>2. ASSUME NEW k \in 0..(n - 1), k \in T PROVE k + 1 \in T
    <3>1. k + 1 \in 1..n /\ k + 1 \in 0..n /\ (k + 1) - 1 = k
      BY <1>1
    <3>2. r[k + 1] = ProcessOctet(r[k], os[k + 1])
      BY <1>11, <3>1
    <3>3. r[k] \in Runs /\ os[k + 1] \in Octets
      BY <1>1, <2>2, <3>1
    <3>4. r[k + 1] \in Runs
      BY <3>2, <3>3, ProcessOctetTyped
    <3> QED
      BY <3>1, <3>4
  <2>3. 0..n \subseteq T
    <3> HIDE DEF T, n
    <3> QED
      BY <1>1, <2>1, <2>2, BoundedInduction
  <2> QED
    BY <2>3
<1>13. r \in [0..n -> Runs]
  <2>1. r = [k \in 0..n |-> r[k]]
    <3>1. r = [k \in 0..n |-> IF k = 0 THEN s ELSE ProcessOctet(r[k - 1], os[k])]
      BY <1>9
    <3> QED
      BY <1>10, <3>1
  <2> QED
    BY <1>12, <2>1
<1>14. IsRun(r, state, os)
  BY <1>11, <1>13 DEF IsRun
<1> QED
  BY <1>4, <1>14

\* There is only one.
LEMMA RunIsUnique ==
    ASSUME NEW state, NEW os \in Seq(Octets),
           NEW f, IsRun(f, state, os), NEW h, IsRun(h, state, os)
    PROVE  f[Len(os)] = h[Len(os)]
<1> DEFINE n == Len(os)
           T == {k \in 0..n : f[k] = h[k]}
<1>1. n \in Nat
  BY LenProperties
<1>2. 0 \in T
  BY <1>1 DEF IsRun
<1>3. ASSUME NEW k \in 0..(n - 1), k \in T PROVE k + 1 \in T
  <2>1. k + 1 \in 1..n /\ k + 1 \in 0..n /\ (k + 1) - 1 = k
    BY <1>1
  <2>2. f[k + 1] = ProcessOctet(f[k], os[k + 1]) /\ h[k + 1] = ProcessOctet(h[k], os[k + 1])
    BY <2>1 DEF IsRun
  <2>3. f[k] = h[k]
    BY <1>3
  <2> QED
    BY <2>1, <2>2, <2>3
<1>4. 0..n \subseteq T
  <2> HIDE DEF T, n
  <2> QED
    BY <1>1, <1>2, <1>3, BoundedInduction
<1> QED
  BY <1>1, <1>4

\* telnet_process is the end of a run through the octets.
LEMMA ProcessIs ==
    ASSUME NEW state \in TelStates, NEW os \in Seq(Octets), NEW r, IsRun(r, state, os)
    PROVE  Process(state, os) = r[Len(os)]
BY ProcessRuns, RunIsUnique

LEMMA ProcessTyped ==
    ASSUME NEW state \in TelStates, NEW os \in Seq(Octets)
    PROVE  Process(state, os) \in Runs
<1>1. PICK r : IsRun(r, state, os) /\ Process(state, os) = r[Len(os)]
  BY ProcessRuns
<1>2. Len(os) \in 0..Len(os)
  BY LenProperties
<1> QED
  BY <1>1, <1>2 DEF IsRun

LEMMA ProcessNothing ==
    ASSUME NEW state \in TelStates
    PROVE  Process(state, <<>>) = FreshRun(state)
<1>1. PICK r : IsRun(r, state, <<>>) /\ Process(state, <<>>) = r[Len(<<>>)]
  BY ProcessRuns, EmptySeq
<1> QED
  BY <1>1 DEF IsRun

\* Wherever octets are cut in two, their data and the state after them are the
\* same: telnet_process may stop anywhere and go on (telnet.c:155-214).
THEOREM ProcessResumes ==
    ASSUME NEW state \in TelStates, NEW a \in Seq(Octets), NEW b \in Seq(Octets)
    PROVE  LET first == Process(state, a)
               second == Process(first.state, b)
           IN  Process(state, a \o b) = [state |-> second.state,
                                         data |-> first.data \o second.data,
                                         options |-> first.options \/ second.options]
<1> DEFINE m == Len(a)
           n == Len(b)
           first == Process(state, a)
           Joined(s) == [state |-> s.state, data |-> first.data \o s.data,
                         options |-> first.options \/ s.options]
<1>1. m \in Nat /\ n \in Nat
  BY LenProperties
<1>2. PICK f : IsRun(f, state, a) /\ first = f[m]
  BY ProcessRuns
<1>3. first \in Runs
  BY ProcessTyped
<1> HIDE DEF first
<1>4. first.state \in TelStates /\ first.data \in Seq(Octets) /\ first.options \in BOOLEAN
  BY <1>3 DEF Runs
<1>5. PICK h : IsRun(h, first.state, b) /\ Process(first.state, b) = h[n]
  BY <1>4, ProcessRuns
<1> DEFINE r == [k \in 0..(m + n) |-> IF k <= m THEN f[k] ELSE Joined(h[k - m])]
<1>6. Len(a \o b) = m + n /\ a \o b \in Seq(Octets)
  BY ConcatProperties
<1>7. /\ \A k \in 1..m : (a \o b)[k] = a[k]
      /\ \A k \in 1..n : (a \o b)[m + k] = b[k]
  BY <1>1
<1>8. \A s \in Runs : Joined(s) \in Runs
  <2> SUFFICES ASSUME NEW s \in Runs PROVE Joined(s) \in Runs
    OBVIOUS
  <2>1. s.state \in TelStates /\ s.data \in Seq(Octets) /\ s.options \in BOOLEAN
    BY DEF Runs
  <2>2. first.data \o s.data \in Seq(Octets)
    BY <1>4, <2>1, ConcatProperties
  <2>3. (first.options \/ s.options) \in BOOLEAN
    BY <1>4, <2>1
  <2> QED
    BY <2>1, <2>2, <2>3, Zenon DEF Runs
<1>9. ASSUME NEW s \in Runs, NEW o \in Octets
      PROVE  ProcessOctet(Joined(s), o) = Joined(ProcessOctet(s, o))
  <2>1. s.state \in TelStates /\ s.data \in Seq(Octets) /\ s.options \in BOOLEAN
    BY DEF Runs
  <2>2. Append(first.data \o s.data, o) = first.data \o Append(s.data, o)
    <3>1. PICK d \in Seq(Octets) : d = first.data
      BY <1>4
    <3>2. PICK e \in Seq(Octets) : e = s.data
      BY <2>1
    <3>3. Append(e, o) = e \o <<o>> /\ <<o>> \in Seq(Octets)
      BY AppendIsConcat
    <3>4. d \o e \in Seq(Octets)
      BY ConcatProperties
    <3>5. Append(d \o e, o) = (d \o e) \o <<o>>
      BY <3>4, AppendIsConcat
    <3>6. (d \o e) \o <<o>> = d \o (e \o <<o>>)
      BY <3>3, ConcatAssociative
    <3>7. Append(d \o e, o) = d \o Append(e, o)
      BY <3>3, <3>5, <3>6
    <3> QED
      BY <3>1, <3>2, <3>7
  <2>3. ((first.options \/ s.options) \/ s.state = "OPT")
          = (first.options \/ (s.options \/ s.state = "OPT"))
    BY <1>4, <2>1
  <2>4. CASE IsData(s.state, o)
    BY <2>2, <2>3, <2>4, Zenon DEF ProcessOctet
  <2>5. CASE ~IsData(s.state, o)
    BY <2>3, <2>5, Zenon DEF ProcessOctet
  <2> QED
    BY <2>4, <2>5
<1>10. /\ f \in [0..m -> Runs] /\ f[0] = FreshRun(state)
       /\ \A k \in 1..m : f[k] = ProcessOctet(f[k - 1], a[k])
  BY <1>2 DEF IsRun
<1>11. /\ h \in [0..n -> Runs] /\ h[0] = FreshRun(first.state)
       /\ \A k \in 1..n : h[k] = ProcessOctet(h[k - 1], b[k])
  BY <1>5 DEF IsRun
<1>12. Joined(h[0]) = f[m]
  <2>1. first.data \o <<>> = first.data
    BY <1>4, ConcatEmptySeq
  <2>2. h[0].state = first.state /\ h[0].data = <<>> /\ h[0].options = FALSE
    BY <1>11 DEF FreshRun
  <2>3. (first.options \/ h[0].options) = first.options
    BY <1>4, <2>2
  <2>4. Joined(h[0]) = [state |-> first.state, data |-> first.data, options |-> first.options]
    BY <2>1, <2>2, <2>3
  <2>5. first = [state |-> first.state, data |-> first.data, options |-> first.options]
    BY <1>3 DEF Runs
  <2> QED
    BY <1>2, <2>4, <2>5
<1>13. IsRun(r, state, a \o b)
  <2> HIDE DEF Joined
  <2>1. r \in [0..(m + n) -> Runs]
    <3>1. ASSUME NEW k \in 0..(m + n) PROVE (IF k <= m THEN f[k] ELSE Joined(h[k - m])) \in Runs
      <4>1. CASE k <= m
        <5>1. k \in 0..m
          BY <1>1, <4>1
        <5> QED
          BY <1>10, <4>1, <5>1
      <4>2. CASE ~(k <= m)
        <5>1. k - m \in 0..n
          BY <1>1, <4>2
        <5> QED
          BY <1>8, <1>11, <4>2, <5>1
      <4> QED
        BY <4>1, <4>2
    <3> QED
      BY <3>1
  <2>2. r[0] = FreshRun(state)
    BY <1>1, <1>10
  <2>3. ASSUME NEW k \in 1..(m + n) PROVE r[k] = ProcessOctet(r[k - 1], (a \o b)[k])
    <3> DEFINE c == a \o b
    <3>0. k \in 0..(m + n) /\ k - 1 \in 0..(m + n)
      BY <1>1
    <3>1. CASE k <= m
      <4>1. r[k] = f[k] /\ r[k - 1] = f[k - 1] /\ k \in 1..m
        BY <1>1, <3>0, <3>1
      <4>2. c[k] = a[k]
        BY <1>7, <4>1
      <4> HIDE DEF r, c
      <4> QED
        BY <1>10, <4>1, <4>2 DEF c
    <3>2. CASE ~(k <= m)
      <4> DEFINE j == k - m
      <4>1. j \in 1..n /\ j \in 0..n /\ j - 1 \in 0..n /\ m + j = k /\ (k - 1) - m = j - 1
        BY <1>1, <3>2
      <4>2. r[k] = Joined(h[j])
        BY <3>0, <3>2
      <4>3. r[k - 1] = Joined(h[j - 1])
        <5>1. CASE k - 1 <= m
          <6>1. k - 1 = m /\ j - 1 = 0
            BY <1>1, <3>2, <5>1
          <6> QED
            BY <1>12, <3>0, <5>1, <6>1
        <5>2. CASE ~(k - 1 <= m)
          BY <3>0, <4>1, <5>2
        <5> QED
          BY <5>1, <5>2
      <4>4. c[k] = b[j]
        BY <1>7, <4>1
      <4> HIDE DEF j, r, c
      <4>5. h[j] = ProcessOctet(h[j - 1], b[j]) /\ h[j - 1] \in Runs /\ b[j] \in Octets
        BY <1>11, <4>1, ElementOfSeq
      <4>6. ProcessOctet(Joined(h[j - 1]), b[j]) = Joined(ProcessOctet(h[j - 1], b[j]))
        BY <1>9, <4>5
      <4> QED
        BY <4>2, <4>3, <4>4, <4>5, <4>6 DEF c
    <3> QED
      BY <3>1, <3>2
  <2> HIDE DEF r
  <2> QED
    BY <1>6, <2>1, <2>2, <2>3 DEF IsRun
<1>14. Process(state, a \o b) = r[m + n]
  <2> HIDE DEF r
  <2> QED
    BY <1>6, <1>13, ProcessIs
<1>15. r[m + n] = Joined(h[n])
  <2>1. CASE n = 0
    <3>1. m + n \in 0..(m + n) /\ m + n = m
      BY <1>1, <2>1
    <3>2. r[m + n] = f[m]
      BY <1>1, <3>1
    <3> QED
      BY <1>12, <2>1, <3>2
  <2>2. CASE n # 0
    <3>1. m + n \in 0..(m + n) /\ ~(m + n <= m) /\ (m + n) - m = n
      BY <1>1, <2>2
    <3> QED
      BY <3>1
  <2> QED
    BY <2>1, <2>2
<1>16. Process(state, a \o b) = Joined(Process(first.state, b))
  BY <1>5, <1>14, <1>15
<1> QED
  BY <1>16 DEF first

-----------------------------------------------------------------------------
(* What a client sends.                                                    *)

\* One octet of a run.
LEMMA NextOctet ==
    ASSUME NEW r, NEW state, NEW os, IsRun(r, state, os), Len(os) \in Nat,
           NEW j \in 0..(Len(os) - 1), NEW k, k = j + 1
    PROVE  /\ r[k].state = NextState(r[j].state, os[k])
           /\ r[k].data = IF IsData(r[j].state, os[k])
                          THEN Append(r[j].data, os[k]) ELSE r[j].data
<1>1. k \in 1..Len(os) /\ k - 1 = j
  OBVIOUS
<1>2. r[k] = ProcessOctet(r[j], os[k])
  BY <1>1 DEF IsRun
<1> QED
  BY <1>2 DEF ProcessOctet

\* What becomes of each unit that a client sends, when all of it is there.
LEMMA Typed255Processed ==
    /\ Typed255 \in Seq(Octets)
    /\ Process("NORMAL", Typed255).state = "NORMAL"
    /\ Process("NORMAL", Typed255).data = <<"IAC">>
<1>1. Len(Typed255) = 2
  BY DEF Typed255
<1>0. /\ Typed255[1] = "IAC"
      /\ Typed255[2] = "IAC"
  BY DEF Typed255
<1>2. Typed255 \in Seq(Octets)
  BY DEF Typed255, Octets
<1>3. PICK r : IsRun(r, "NORMAL", Typed255) /\ Process("NORMAL", Typed255) = r[Len(Typed255)]
  BY <1>2, ProcessRuns DEF TelStates
<1>4. r[0].state = "NORMAL" /\ r[0].data = <<>>
  BY <1>3 DEF IsRun, FreshRun
<1>5. /\ r[1].state = NextState(r[0].state, Typed255[1])
      /\ r[1].data = IF IsData(r[0].state, Typed255[1])
                     THEN Append(r[0].data, Typed255[1]) ELSE r[0].data
  BY <1>1, <1>3, 0 \in 0..(Len(Typed255) - 1), 1 = 0 + 1, NextOctet
<1>6. r[1].state = "IAC" /\ r[1].data = <<>>
  BY <1>0, <1>4, <1>5 DEF NextState, IsData
<1>7. /\ r[2].state = NextState(r[1].state, Typed255[2])
      /\ r[2].data = IF IsData(r[1].state, Typed255[2])
                     THEN Append(r[1].data, Typed255[2]) ELSE r[1].data
  BY <1>1, <1>3, 1 \in 0..(Len(Typed255) - 1), 2 = 1 + 1, NextOctet
<1>8. r[2].state = "NORMAL" /\ r[2].data = <<"IAC">>
  BY <1>0, <1>6, <1>7 DEF NextState, IsData
<1> QED
  BY <1>1, <1>2, <1>3, <1>8

LEMMA OptionProcessed ==
    /\ Option \in Seq(Octets)
    /\ Process("NORMAL", Option).state = "NORMAL"
    /\ Process("NORMAL", Option).data = <<>>
<1>1. Len(Option) = 3
  BY DEF Option
<1>0. /\ Option[1] = "IAC"
      /\ Option[2] = "DO"
      /\ Option[3] = "a"
  BY DEF Option
<1>2. Option \in Seq(Octets)
  BY DEF Option, Octets
<1>3. PICK r : IsRun(r, "NORMAL", Option) /\ Process("NORMAL", Option) = r[Len(Option)]
  BY <1>2, ProcessRuns DEF TelStates
<1>4. r[0].state = "NORMAL" /\ r[0].data = <<>>
  BY <1>3 DEF IsRun, FreshRun
<1>5. /\ r[1].state = NextState(r[0].state, Option[1])
      /\ r[1].data = IF IsData(r[0].state, Option[1])
                     THEN Append(r[0].data, Option[1]) ELSE r[0].data
  BY <1>1, <1>3, 0 \in 0..(Len(Option) - 1), 1 = 0 + 1, NextOctet
<1>6. r[1].state = "IAC" /\ r[1].data = <<>>
  BY <1>0, <1>4, <1>5 DEF NextState, IsData
<1>7. /\ r[2].state = NextState(r[1].state, Option[2])
      /\ r[2].data = IF IsData(r[1].state, Option[2])
                     THEN Append(r[1].data, Option[2]) ELSE r[1].data
  BY <1>1, <1>3, 1 \in 0..(Len(Option) - 1), 2 = 1 + 1, NextOctet
<1>8. r[2].state = "OPT" /\ r[2].data = <<>>
  BY <1>0, <1>6, <1>7 DEF NextState, IsData
<1>9. /\ r[3].state = NextState(r[2].state, Option[3])
      /\ r[3].data = IF IsData(r[2].state, Option[3])
                     THEN Append(r[2].data, Option[3]) ELSE r[2].data
  BY <1>1, <1>3, 2 \in 0..(Len(Option) - 1), 3 = 2 + 1, NextOctet
<1>10. r[3].state = "NORMAL" /\ r[3].data = <<>>
  BY <1>0, <1>8, <1>9 DEF NextState, IsData
<1> QED
  BY <1>1, <1>2, <1>3, <1>10

LEMMA SubOptionProcessed ==
    /\ SubOption \in Seq(Octets)
    /\ Process("NORMAL", SubOption).state = "NORMAL"
    /\ Process("NORMAL", SubOption).data = <<>>
<1>1. Len(SubOption) = 6
  BY DEF SubOption
<1>0. /\ SubOption[1] = "IAC"
      /\ SubOption[2] = "SB"
      /\ SubOption[3] = "a"
      /\ SubOption[4] = "a"
      /\ SubOption[5] = "IAC"
      /\ SubOption[6] = "SE"
  BY DEF SubOption
<1>2. SubOption \in Seq(Octets)
  BY DEF SubOption, Octets
<1>3. PICK r : IsRun(r, "NORMAL", SubOption) /\ Process("NORMAL", SubOption) = r[Len(SubOption)]
  BY <1>2, ProcessRuns DEF TelStates
<1>4. r[0].state = "NORMAL" /\ r[0].data = <<>>
  BY <1>3 DEF IsRun, FreshRun
<1>5. /\ r[1].state = NextState(r[0].state, SubOption[1])
      /\ r[1].data = IF IsData(r[0].state, SubOption[1])
                     THEN Append(r[0].data, SubOption[1]) ELSE r[0].data
  BY <1>1, <1>3, 0 \in 0..(Len(SubOption) - 1), 1 = 0 + 1, NextOctet
<1>6. r[1].state = "IAC" /\ r[1].data = <<>>
  BY <1>0, <1>4, <1>5 DEF NextState, IsData
<1>7. /\ r[2].state = NextState(r[1].state, SubOption[2])
      /\ r[2].data = IF IsData(r[1].state, SubOption[2])
                     THEN Append(r[1].data, SubOption[2]) ELSE r[1].data
  BY <1>1, <1>3, 1 \in 0..(Len(SubOption) - 1), 2 = 1 + 1, NextOctet
<1>8. r[2].state = "SB" /\ r[2].data = <<>>
  BY <1>0, <1>6, <1>7 DEF NextState, IsData
<1>9. /\ r[3].state = NextState(r[2].state, SubOption[3])
      /\ r[3].data = IF IsData(r[2].state, SubOption[3])
                     THEN Append(r[2].data, SubOption[3]) ELSE r[2].data
  BY <1>1, <1>3, 2 \in 0..(Len(SubOption) - 1), 3 = 2 + 1, NextOctet
<1>10. r[3].state = "OPTDAT" /\ r[3].data = <<>>
  BY <1>0, <1>8, <1>9 DEF NextState, IsData
<1>11. /\ r[4].state = NextState(r[3].state, SubOption[4])
      /\ r[4].data = IF IsData(r[3].state, SubOption[4])
                     THEN Append(r[3].data, SubOption[4]) ELSE r[3].data
  BY <1>1, <1>3, 3 \in 0..(Len(SubOption) - 1), 4 = 3 + 1, NextOctet
<1>12. r[4].state = "OPTDAT" /\ r[4].data = <<>>
  BY <1>0, <1>10, <1>11 DEF NextState, IsData
<1>13. /\ r[5].state = NextState(r[4].state, SubOption[5])
      /\ r[5].data = IF IsData(r[4].state, SubOption[5])
                     THEN Append(r[4].data, SubOption[5]) ELSE r[4].data
  BY <1>1, <1>3, 4 \in 0..(Len(SubOption) - 1), 5 = 4 + 1, NextOctet
<1>14. r[5].state = "SE" /\ r[5].data = <<>>
  BY <1>0, <1>12, <1>13 DEF NextState, IsData
<1>15. /\ r[6].state = NextState(r[5].state, SubOption[6])
      /\ r[6].data = IF IsData(r[5].state, SubOption[6])
                     THEN Append(r[5].data, SubOption[6]) ELSE r[5].data
  BY <1>1, <1>3, 5 \in 0..(Len(SubOption) - 1), 6 = 5 + 1, NextOctet
<1>16. r[6].state = "NORMAL" /\ r[6].data = <<>>
  BY <1>0, <1>14, <1>15 DEF NextState, IsData
<1> QED
  BY <1>1, <1>2, <1>3, <1>16

LEMMA Quoted255Processed ==
    /\ Quoted255 \in Seq(Octets)
    /\ Process("NORMAL", Quoted255).state = "NORMAL"
    /\ Process("NORMAL", Quoted255).data = <<"a">>
<1>1. Len(Quoted255) = 8
  BY DEF Quoted255
<1>0. /\ Quoted255[1] = "IAC"
      /\ Quoted255[2] = "SB"
      /\ Quoted255[3] = "a"
      /\ Quoted255[4] = "IAC"
      /\ Quoted255[5] = "IAC"
      /\ Quoted255[6] = "a"
      /\ Quoted255[7] = "IAC"
      /\ Quoted255[8] = "SE"
  BY DEF Quoted255
<1>2. Quoted255 \in Seq(Octets)
  BY DEF Quoted255, Octets
<1>3. PICK r : IsRun(r, "NORMAL", Quoted255) /\ Process("NORMAL", Quoted255) = r[Len(Quoted255)]
  BY <1>2, ProcessRuns DEF TelStates
<1>4. r[0].state = "NORMAL" /\ r[0].data = <<>>
  BY <1>3 DEF IsRun, FreshRun
<1>5. /\ r[1].state = NextState(r[0].state, Quoted255[1])
      /\ r[1].data = IF IsData(r[0].state, Quoted255[1])
                     THEN Append(r[0].data, Quoted255[1]) ELSE r[0].data
  BY <1>1, <1>3, 0 \in 0..(Len(Quoted255) - 1), 1 = 0 + 1, NextOctet
<1>6. r[1].state = "IAC" /\ r[1].data = <<>>
  BY <1>0, <1>4, <1>5 DEF NextState, IsData
<1>7. /\ r[2].state = NextState(r[1].state, Quoted255[2])
      /\ r[2].data = IF IsData(r[1].state, Quoted255[2])
                     THEN Append(r[1].data, Quoted255[2]) ELSE r[1].data
  BY <1>1, <1>3, 1 \in 0..(Len(Quoted255) - 1), 2 = 1 + 1, NextOctet
<1>8. r[2].state = "SB" /\ r[2].data = <<>>
  BY <1>0, <1>6, <1>7 DEF NextState, IsData
<1>9. /\ r[3].state = NextState(r[2].state, Quoted255[3])
      /\ r[3].data = IF IsData(r[2].state, Quoted255[3])
                     THEN Append(r[2].data, Quoted255[3]) ELSE r[2].data
  BY <1>1, <1>3, 2 \in 0..(Len(Quoted255) - 1), 3 = 2 + 1, NextOctet
<1>10. r[3].state = "OPTDAT" /\ r[3].data = <<>>
  BY <1>0, <1>8, <1>9 DEF NextState, IsData
<1>11. /\ r[4].state = NextState(r[3].state, Quoted255[4])
      /\ r[4].data = IF IsData(r[3].state, Quoted255[4])
                     THEN Append(r[3].data, Quoted255[4]) ELSE r[3].data
  BY <1>1, <1>3, 3 \in 0..(Len(Quoted255) - 1), 4 = 3 + 1, NextOctet
<1>12. r[4].state = "SE" /\ r[4].data = <<>>
  BY <1>0, <1>10, <1>11 DEF NextState, IsData
<1>13. /\ r[5].state = NextState(r[4].state, Quoted255[5])
      /\ r[5].data = IF IsData(r[4].state, Quoted255[5])
                     THEN Append(r[4].data, Quoted255[5]) ELSE r[4].data
  BY <1>1, <1>3, 4 \in 0..(Len(Quoted255) - 1), 5 = 4 + 1, NextOctet
<1>14. r[5].state = "NORMAL" /\ r[5].data = <<>>
  BY <1>0, <1>12, <1>13 DEF NextState, IsData
<1>15. /\ r[6].state = NextState(r[5].state, Quoted255[6])
      /\ r[6].data = IF IsData(r[5].state, Quoted255[6])
                     THEN Append(r[5].data, Quoted255[6]) ELSE r[5].data
  BY <1>1, <1>3, 5 \in 0..(Len(Quoted255) - 1), 6 = 5 + 1, NextOctet
<1>16. r[6].state = "NORMAL" /\ r[6].data = <<"a">>
  BY <1>0, <1>14, <1>15 DEF NextState, IsData
<1>17. /\ r[7].state = NextState(r[6].state, Quoted255[7])
      /\ r[7].data = IF IsData(r[6].state, Quoted255[7])
                     THEN Append(r[6].data, Quoted255[7]) ELSE r[6].data
  BY <1>1, <1>3, 6 \in 0..(Len(Quoted255) - 1), 7 = 6 + 1, NextOctet
<1>18. r[7].state = "IAC" /\ r[7].data = <<"a">>
  BY <1>0, <1>16, <1>17 DEF NextState, IsData
<1>19. /\ r[8].state = NextState(r[7].state, Quoted255[8])
      /\ r[8].data = IF IsData(r[7].state, Quoted255[8])
                     THEN Append(r[7].data, Quoted255[8]) ELSE r[7].data
  BY <1>1, <1>3, 7 \in 0..(Len(Quoted255) - 1), 8 = 7 + 1, NextOctet
<1>20. r[8].state = "NORMAL" /\ r[8].data = <<"a">>
  BY <1>0, <1>18, <1>19 DEF NextState, IsData
<1> QED
  BY <1>1, <1>2, <1>3, <1>20

LEMMA CharacterProcessed ==
    ASSUME NEW c \in {"a", "BS", "CR"}
    PROVE  /\ <<c>> \in Seq(Octets)
           /\ Process("NORMAL", <<c>>).state = "NORMAL"
           /\ Process("NORMAL", <<c>>).data = <<c>>
<1> DEFINE u == <<c>>
<1>1. Len(u) = 1 /\ u[1] = c
  OBVIOUS
<1>2. u \in Seq(Octets)
  BY DEF Octets
<1> HIDE DEF u
<1>3. PICK r : IsRun(r, "NORMAL", u) /\ Process("NORMAL", u) = r[Len(u)]
  BY <1>2, ProcessRuns DEF TelStates
<1>4. r[0].state = "NORMAL" /\ r[0].data = <<>>
  BY <1>3 DEF IsRun, FreshRun
<1>5. /\ r[1].state = NextState(r[0].state, c)
      /\ r[1].data = IF IsData(r[0].state, c) THEN Append(r[0].data, c) ELSE r[0].data
  BY <1>1, <1>3, NextOctet
<1>6. r[1].state = "NORMAL" /\ r[1].data = <<c>>
  BY <1>4, <1>5 DEF NextState, IsData
<1> QED
  BY <1>1, <1>2, <1>3, <1>6 DEF u

\* The octets of every unit leave the console ready for the next unit, and
\* their data is what the user means by them, except that a 255 quoted within an
\* option ends it.
LEMMA UnitsProcessed ==
    ASSUME NEW u \in Units
    PROVE  /\ u \in Seq(Octets)
           /\ Process("NORMAL", u).state = "NORMAL"
           /\ Process("NORMAL", u).data \in Seq(Typed)
           /\ Meaning(u) \in Seq(Typed)
           /\ u # Quoted255 => Process("NORMAL", u).data = Meaning(u)
<1>1. CASE u \in {<<"a">>, <<"BS">>, <<"CR">>}
  <2>1. PICK c \in {"a", "BS", "CR"} : u = <<c>>
    BY <1>1
  <2>2. Len(u) = 1 /\ <<c>> \in Seq(Typed)
    BY <2>1 DEF Typed
  <2>3. Meaning(u) = u
    BY <2>2 DEF Meaning
  <2> QED
    BY <2>1, <2>2, <2>3, CharacterProcessed
<1>2. CASE u = Typed255
  <2>1. Len(u) = 2 /\ <<"IAC">> \in Seq(Typed)
    BY <1>2 DEF Typed255, Typed
  <2>2. Meaning(u) = <<"IAC">>
    BY <1>2, <2>1 DEF Meaning
  <2> QED
    BY <1>2, <2>1, <2>2, Typed255Processed
<1>3. CASE u \in {Option, SubOption}
  <2>1. Len(u) # 1 /\ u # Typed255 /\ <<>> \in Seq(Typed)
    BY <1>3 DEF Option, SubOption, Typed255
  <2>2. Meaning(u) = <<>>
    BY <2>1 DEF Meaning
  <2> QED
    BY <1>3, <2>1, <2>2, OptionProcessed, SubOptionProcessed
<1>4. CASE u = Quoted255
  <2>1. Len(u) # 1 /\ u # Typed255 /\ <<>> \in Seq(Typed) /\ <<"a">> \in Seq(Typed)
    BY <1>4 DEF Quoted255, Typed255, Typed
  <2>2. Meaning(u) = <<>>
    BY <2>1 DEF Meaning
  <2> QED
    BY <1>4, <2>1, <2>2, Quoted255Processed
<1> QED
  BY <1>1, <1>2, <1>3, <1>4 DEF Units

-----------------------------------------------------------------------------
(* The client's terminal.                                                  *)

TerminalRun(r, t, os) == r = [k \in 0..Len(os) |-> IF k = 0 THEN t ELSE Shown(r[k - 1], os[k])]

\* The terminal is the end of a run through the output.
LEMMA TerminalRuns ==
    ASSUME NEW t, NEW os, NEW h, TerminalRun(h, t, os)
    PROVE  \E r : TerminalRun(r, t, os) /\ Terminal(t, os) = r[Len(os)]
<1> DEFINE r == CHOOSE g : TerminalRun(g, t, os)
<1>1. TerminalRun(r, t, os)
  <2>1. \E g : TerminalRun(g, t, os)
    OBVIOUS
  <2> QED
    BY <2>1
<1>2. Terminal(t, os) = r[Len(os)]
  BY DEF Terminal, TerminalRun
<1> HIDE DEF r
<1> QED
  BY <1>1, <1>2

LEMMA TerminalRunValues ==
    ASSUME NEW t, NEW os, NEW r, TerminalRun(r, t, os), Len(os) \in Nat
    PROVE  /\ r[0] = t
           /\ \A k \in 1..Len(os) : r[k] = Shown(r[k - 1], os[k])
<1> DEFINE g == [k \in 0..Len(os) |-> IF k = 0 THEN t ELSE Shown(r[k - 1], os[k])]
<1>1. r = g
  BY DEF TerminalRun
<1>2. g[0] = t
  OBVIOUS
<1>3. ASSUME NEW k \in 1..Len(os) PROVE g[k] = Shown(r[k - 1], os[k])
  <2>1. k \in 0..Len(os) /\ k # 0
    OBVIOUS
  <2> QED
    BY <2>1
<1> HIDE DEF g
<1> QED
  BY <1>1, <1>2, <1>3

LEMMA TerminalNothing == \A t : Terminal(t, <<>>) = t
<1> SUFFICES ASSUME NEW t PROVE Terminal(t, <<>>) = t
  OBVIOUS
<1> DEFINE h == [k \in 0..0 |-> t]
<1>1. Len(<<>>) = 0
  OBVIOUS
<1>2. TerminalRun(h, t, <<>>)
  BY <1>1 DEF TerminalRun
<1>3. PICK r : TerminalRun(r, t, <<>>) /\ Terminal(t, <<>>) = r[Len(<<>>)]
  BY <1>2, TerminalRuns
<1>4. r[0] = t
  BY <1>1, <1>3, TerminalRunValues
<1> QED
  BY <1>1, <1>3, <1>4

LEMMA TerminalOne == \A t, c : Terminal(t, <<c>>) = Shown(t, c)
<1> SUFFICES ASSUME NEW t, NEW c PROVE Terminal(t, <<c>>) = Shown(t, c)
  OBVIOUS
<1> DEFINE os == <<c>>
           h == [k \in 0..1 |-> IF k = 0 THEN t ELSE Shown(t, c)]
<1>1. Len(os) = 1 /\ os[1] = c
  OBVIOUS
<1> HIDE DEF os
<1>2. TerminalRun(h, t, os)
  <2>1. h[0] = t
    OBVIOUS
  <2>2. \A k \in 0..1 : h[k] = IF k = 0 THEN t ELSE Shown(h[k - 1], os[k])
    BY <1>1, <2>1
  <2> QED
    BY <1>1, <2>2 DEF TerminalRun
<1>3. PICK r : TerminalRun(r, t, os) /\ Terminal(t, os) = r[Len(os)]
  BY <1>2, TerminalRuns
<1>4. r[0] = t /\ \A k \in 1..1 : r[k] = Shown(r[k - 1], os[k])
  BY <1>1, <1>3, TerminalRunValues
<1>5. r[1] = Shown(t, c)
  BY <1>1, <1>4
<1> QED
  BY <1>1, <1>3, <1>5 DEF os

LEMMA TerminalThree ==
    \A t, a, b, c : Terminal(t, <<a, b, c>>) = Shown(Shown(Shown(t, a), b), c)
<1> SUFFICES ASSUME NEW t, NEW a, NEW b, NEW c
             PROVE  Terminal(t, <<a, b, c>>) = Shown(Shown(Shown(t, a), b), c)
  OBVIOUS
<1> DEFINE os == <<a, b, c>>
           t1 == Shown(t, a)
           t2 == Shown(t1, b)
           t3 == Shown(t2, c)
           h == [k \in 0..3 |-> IF k = 0 THEN t ELSE IF k = 1 THEN t1 ELSE IF k = 2 THEN t2 ELSE t3]
<1>1. Len(os) = 3 /\ os[1] = a /\ os[2] = b /\ os[3] = c
  OBVIOUS
<1> HIDE DEF os
<1>2. TerminalRun(h, t, os)
  <2>1. h[0] = t /\ h[1] = t1 /\ h[2] = t2 /\ h[3] = t3
    <3> HIDE DEF t1, t2, t3
    <3> QED
      OBVIOUS
  <2>2. h[1] = Shown(h[0], os[1]) /\ h[2] = Shown(h[1], os[2]) /\ h[3] = Shown(h[2], os[3])
    <3> HIDE DEF h
    <3> QED
      BY <1>1, <2>1
  <2>3. h = [k \in 0..3 |-> h[k]]
    OBVIOUS
  <2> HIDE DEF h
  <2>4. \A k \in 0..3 : h[k] = IF k = 0 THEN t ELSE Shown(h[k - 1], os[k])
    <3> SUFFICES ASSUME NEW k \in 0..3
                 PROVE  h[k] = IF k = 0 THEN t ELSE Shown(h[k - 1], os[k])
      OBVIOUS
    <3>1. k = 0 \/ k = 1 \/ k = 2 \/ k = 3
      OBVIOUS
    <3> QED
      BY <2>1, <2>2, <3>1
  <2> QED
    BY <1>1, <2>3, <2>4 DEF TerminalRun
<1>3. PICK r : TerminalRun(r, t, os) /\ Terminal(t, os) = r[Len(os)]
  BY <1>2, TerminalRuns
<1>4. r[0] = t /\ \A k \in 1..3 : r[k] = Shown(r[k - 1], os[k])
  BY <1>1, <1>3, TerminalRunValues
<1>5. r[1] = t1
  BY <1>1, <1>4
<1>6. r[2] = t2
  <2>1. r[2] = Shown(r[1], os[2])
    BY <1>4
  <2> QED
    BY <1>1, <1>5, <2>1
<1>7. r[3] = t3
  <2>1. r[3] = Shown(r[2], os[3])
    BY <1>4
  <2> QED
    BY <1>1, <1>6, <2>1
<1> QED
  BY <1>1, <1>3, <1>7 DEF os

Visibles == {"a", "IAC"}
Glyphs   == Visibles \cup {"SP"}

\* A glyph is written at the cursor.
LEMMA Written ==
    ASSUME NEW z \in Seq(Glyphs), NEW n \in Nat, n <= Len(z), NEW c \in Glyphs,
           NEW x, x = IF n < Len(z) THEN [z EXCEPT ![n + 1] = c] ELSE Append(z, c)
    PROVE  /\ x \in Seq(Glyphs) /\ Len(x) \in Nat /\ n + 1 <= Len(x)
           /\ \A k \in 1..n : x[k] = z[k]
           /\ x[n + 1] = c
           /\ Len(x) = (IF n < Len(z) THEN Len(z) ELSE n + 1)
           /\ \A k \in (n + 2)..Len(x) : x[k] = z[k]
<1>1. Len(z) \in Nat
  BY LenProperties
<1>2. CASE n < Len(z)
  <2>1. n + 1 \in 1..Len(z)
    BY <1>1, <1>2
  <2>2. x = [z EXCEPT ![n + 1] = c]
    BY <1>2
  <2>3. /\ x \in Seq(Glyphs) /\ Len(x) = Len(z)
        /\ \A k \in 1..Len(z) : x[k] = IF k = n + 1 THEN c ELSE z[k]
    <3>1. /\ [z EXCEPT ![n + 1] = c] \in Seq(Glyphs)
          /\ Len([z EXCEPT ![n + 1] = c]) = Len(z)
          /\ \A k \in 1..Len(z) : [z EXCEPT ![n + 1] = c][k] = IF k = n + 1 THEN c ELSE z[k]
      BY <2>1, ExceptSeq
    <3> QED
      BY <2>2, <3>1
  <2>4. \A k \in 1..n : x[k] = z[k]
    BY <1>1, <1>2, <2>3
  <2>5. \A k \in (n + 2)..Len(x) : x[k] = z[k]
    BY <1>1, <1>2, <2>3
  <2> QED
    BY <1>1, <1>2, <2>1, <2>3, <2>4, <2>5
<1>3. CASE n = Len(z)
  <2>1. x = Append(z, c)
    BY <1>1, <1>3
  <2>2. /\ x \in Seq(Glyphs) /\ Len(x) = Len(z) + 1
        /\ \A k \in 1..Len(z) : x[k] = z[k]
        /\ x[Len(z) + 1] = c
    BY <2>1, AppendProperties
  <2> QED
    BY <1>1, <1>3, <2>2
<1> QED
  BY <1>1, <1>2, <1>3

\* What a screen shows after an octet.
LEMMA ShownCR == \A t : Shown(t, "CR") = [text |-> <<>>, cursor |-> 0]
BY DEF Shown

\* What the terminal shows after one more octet.
LEMMA ShownBS ==
    ASSUME NEW z, NEW n \in Nat
    PROVE  Shown([text |-> z, cursor |-> n], "BS")
             = [text |-> z, cursor |-> IF n = 0 THEN 0 ELSE n - 1]
BY DEF Shown

LEMMA ShownGlyph ==
    ASSUME NEW z, NEW n \in Nat, NEW c \in Glyphs
    PROVE  Shown([text |-> z, cursor |-> n], c)
             = [text |-> IF n < Len(z) THEN [z EXCEPT ![n + 1] = c] ELSE Append(z, c),
                cursor |-> n + 1]
BY DEF Shown, Glyphs, Visibles

LEMMA ShownTyped ==
    ASSUME NEW z \in Seq(Glyphs), NEW n \in Nat, n <= Len(z), NEW o \in Glyphs \cup {"BS", "CR"}
    PROVE  \E y \in Seq(Glyphs), m \in Nat :
              m <= Len(y) /\ Shown([text |-> z, cursor |-> n], o) = [text |-> y, cursor |-> m]
<1>1. CASE o = "CR"
  <2>1. <<>> \in Seq(Glyphs) /\ 0 <= Len(<<>>) /\ 0 \in Nat
    OBVIOUS
  <2> QED
    BY <1>1, <2>1, ShownCR
<1>2. CASE o = "BS"
  <2> DEFINE m == IF n = 0 THEN 0 ELSE n - 1
  <2>1. m \in Nat /\ m <= Len(z)
    BY LenProperties
  <2>2. Shown([text |-> z, cursor |-> n], o) = [text |-> z, cursor |-> m]
    BY <1>2, ShownBS
  <2> QED
    BY <2>1, <2>2
<1>3. CASE o \in Glyphs
  <2> DEFINE x == IF n < Len(z) THEN [z EXCEPT ![n + 1] = o] ELSE Append(z, o)
  <2>1. Shown([text |-> z, cursor |-> n], o) = [text |-> x, cursor |-> n + 1]
    BY <1>3, ShownGlyph
  <2>2. x \in Seq(Glyphs) /\ n + 1 <= Len(x) /\ n + 1 \in Nat
    BY <1>3, Written
  <2> QED
    BY <2>1, <2>2
<1> QED
  BY <1>1, <1>2, <1>3

\* The line is on the screen, up to the cursor, and nothing behind it.
ShowsLine(z, n, l) ==
    /\ Len(l) = n
    /\ \A k \in 1..n : z[k] = l[k]
    /\ \A k \in (n + 1)..Len(z) : z[k] = "SP"

\* A character that is added to the line is written at the cursor.
LEMMA ShowsAppend ==
    ASSUME NEW z \in Seq(Glyphs), NEW n \in Nat, n <= Len(z),
           NEW l \in Seq(Visibles), ShowsLine(z, n, l), NEW c \in Visibles
    PROVE  \E y \in Seq(Glyphs), m \in Nat :
              /\ m <= Len(y) /\ Shown([text |-> z, cursor |-> n], c) = [text |-> y, cursor |-> m]
              /\ ShowsLine(y, m, Append(l, c))
<1> DEFINE y == IF n < Len(z) THEN [z EXCEPT ![n + 1] = c] ELSE Append(z, c)
           m == Append(l, c)
<1>1. c \in Glyphs /\ Len(z) \in Nat
  BY LenProperties DEF Glyphs
<1>2. Shown([text |-> z, cursor |-> n], c) = [text |-> y, cursor |-> n + 1]
  BY <1>1, ShownGlyph
<1>3. /\ y \in Seq(Glyphs) /\ Len(y) \in Nat /\ n + 1 <= Len(y)
      /\ \A k \in 1..n : y[k] = z[k]
      /\ y[n + 1] = c
      /\ Len(y) = (IF n < Len(z) THEN Len(z) ELSE n + 1)
      /\ \A k \in (n + 2)..Len(y) : y[k] = z[k]
  BY <1>1, Written
<1>4. /\ Len(l) = n /\ \A k \in 1..n : z[k] = l[k]
      /\ \A k \in (n + 1)..Len(z) : z[k] = "SP"
  BY DEF ShowsLine
<1>5. /\ Len(m) = n + 1
      /\ \A k \in 1..n : m[k] = l[k]
      /\ m[n + 1] = c
  BY <1>4, AppendProperties
<1> HIDE DEF y, m
<1>6. \A k \in 1..(n + 1) : y[k] = m[k]
  BY <1>3, <1>4, <1>5
<1>7. \A k \in (n + 2)..Len(y) : y[k] = "SP"
  BY <1>1, <1>3, <1>4
<1>8. ShowsLine(y, n + 1, m)
  BY <1>5, <1>6, <1>7 DEF ShowsLine
<1>9. n + 1 \in Nat
  OBVIOUS
<1> QED
  BY <1>2, <1>3, <1>8, <1>9 DEF m

\* The last character of the line is blanked out.
LEMMA ShowsErase ==
    ASSUME NEW z \in Seq(Glyphs), NEW n \in Nat, n <= Len(z),
           NEW l \in Seq(Visibles), ShowsLine(z, n, l), l # <<>>
    PROVE  \E y \in Seq(Glyphs), m \in Nat :
              /\ m <= Len(y)
              /\ Shown(Shown(Shown([text |-> z, cursor |-> n], "BS"), "SP"), "BS")
                   = [text |-> y, cursor |-> m]
              /\ ShowsLine(y, m, SubSeq(l, 1, Len(l) - 1))
<1>1. /\ Len(l) = n /\ \A k \in 1..n : z[k] = l[k]
      /\ \A k \in (n + 1)..Len(z) : z[k] = "SP"
  BY DEF ShowsLine
<1>2. n >= 1 /\ Len(z) \in Nat /\ "SP" \in Glyphs
  BY <1>1, EmptySeq, LenProperties DEF Glyphs
<1>3. PICK p \in Nat : p + 1 = n
  <2>1. n - 1 \in Nat /\ (n - 1) + 1 = n
    BY <1>2
  <2> QED
    BY <2>1
<1> DEFINE y == IF p < Len(z) THEN [z EXCEPT ![p + 1] = "SP"] ELSE Append(z, "SP")
           m == SubSeq(l, 1, p)
<1>4. Shown([text |-> z, cursor |-> n], "BS") = [text |-> z, cursor |-> p]
  <2>1. (IF n = 0 THEN 0 ELSE n - 1) = p
    BY <1>3
  <2> QED
    BY <2>1, ShownBS
<1>5. Shown([text |-> z, cursor |-> p], "SP") = [text |-> y, cursor |-> p + 1]
  BY <1>2, ShownGlyph
<1>6. /\ y \in Seq(Glyphs) /\ Len(y) \in Nat /\ p + 1 <= Len(y)
      /\ \A k \in 1..p : y[k] = z[k]
      /\ y[p + 1] = "SP"
      /\ Len(y) = (IF p < Len(z) THEN Len(z) ELSE p + 1)
      /\ \A k \in (p + 2)..Len(y) : y[k] = z[k]
  <2>1. p <= Len(z)
    BY <1>2, <1>3
  <2> QED
    BY <1>2, <2>1, Written
<1> HIDE DEF y
<1>7. Shown([text |-> y, cursor |-> p + 1], "BS") = [text |-> y, cursor |-> p]
  <2>1. (IF p + 1 = 0 THEN 0 ELSE (p + 1) - 1) = p /\ p + 1 \in Nat
    OBVIOUS
  <2> QED
    BY <2>1, ShownBS
<1>8. Len(m) = p /\ \A k \in 1..p : m[k] = l[k]
  <2>1. \A k \in 1..p : l[k] \in Visibles
    BY <1>1, <1>3, ElementOfSeq
  <2>2. /\ Len(SubSeq(l, 1, p)) = IF 1 <= p THEN p - 1 + 1 ELSE 0
        /\ \A k \in 1..(p - 1 + 1) : SubSeq(l, 1, p)[k] = l[1 + k - 1]
    BY <2>1, SubSeqProperties
  <2> QED
    BY <2>2
<1> HIDE DEF m
<1>9. \A k \in 1..p : y[k] = m[k]
  BY <1>1, <1>3, <1>6, <1>8
<1>10. \A k \in (p + 1)..Len(y) : y[k] = "SP"
  <2> SUFFICES ASSUME NEW k \in (p + 1)..Len(y) PROVE y[k] = "SP"
    OBVIOUS
  <2>1. CASE k = p + 1
    BY <1>6, <2>1
  <2>2. CASE k # p + 1
    <3>1. k \in (p + 2)..Len(y) /\ k \in (n + 1)..Len(z)
      BY <1>2, <1>3, <1>6, <2>2
    <3> QED
      BY <1>1, <1>6, <3>1
  <2> QED
    BY <2>1, <2>2
<1>11. ShowsLine(y, p, m)
  BY <1>8, <1>9, <1>10 DEF ShowsLine
<1>12. m = SubSeq(l, 1, Len(l) - 1) /\ p <= Len(y)
  <2>1. Len(l) - 1 = p
    BY <1>1, <1>3
  <2> QED
    BY <1>6, <2>1 DEF m
<1> QED
  BY <1>4, <1>5, <1>6, <1>7, <1>11, <1>12

IsScreen(t) ==
    \E z \in Seq(Glyphs), n \in Nat : n <= Len(z) /\ t = [text |-> z, cursor |-> n]

Seen(t, l) ==
    \E z \in Seq(Glyphs), n \in Nat :
        n <= Len(z) /\ t = [text |-> z, cursor |-> n] /\ ShowsLine(z, n, l)

\* Screens remain screens.
LEMMA IsScreenShown ==
    ASSUME NEW t, IsScreen(t), NEW o \in Glyphs \cup {"BS", "CR"}
    PROVE  IsScreen(Shown(t, o))
<1>1. PICK z \in Seq(Glyphs), n \in Nat : n <= Len(z) /\ t = [text |-> z, cursor |-> n]
  BY DEF IsScreen
<1>2. \E y \in Seq(Glyphs), m \in Nat :
         m <= Len(y) /\ Shown([text |-> z, cursor |-> n], o) = [text |-> y, cursor |-> m]
  BY <1>1, ShownTyped
<1> QED
  BY <1>1, <1>2 DEF IsScreen

\* An echoed character shows the line that has it at the end.
LEMMA SeenAppend ==
    ASSUME NEW t, NEW l \in Seq(Visibles), Seen(t, l), NEW c \in Visibles
    PROVE  Seen(Shown(t, c), Append(l, c))
<1>1. PICK z \in Seq(Glyphs), n \in Nat :
         n <= Len(z) /\ t = [text |-> z, cursor |-> n] /\ ShowsLine(z, n, l)
  BY DEF Seen
<1> QED
  BY <1>1, ShowsAppend DEF Seen

\* BS, SP, BS shows the line without its last character.
LEMMA SeenErase ==
    ASSUME NEW t, NEW l \in Seq(Visibles), Seen(t, l), l # <<>>
    PROVE  Seen(Shown(Shown(Shown(t, "BS"), "SP"), "BS"), SubSeq(l, 1, Len(l) - 1))
<1>1. PICK z \in Seq(Glyphs), n \in Nat :
         n <= Len(z) /\ t = [text |-> z, cursor |-> n] /\ ShowsLine(z, n, l)
  BY DEF Seen
<1> QED
  BY <1>1, ShowsErase DEF Seen

LEMMA SeenNothing == Seen([text |-> <<>>, cursor |-> 0], <<>>)
<1>1. <<>> \in Seq(Glyphs) /\ 0 \in Nat /\ 0 <= Len(<<>>) /\ Len(<<>>) = 0
  OBVIOUS
<1>2. ShowsLine(<<>>, 0, <<>>)
  BY <1>1 DEF ShowsLine
<1> QED
  BY <1>1, <1>2 DEF Seen

-----------------------------------------------------------------------------
(* Sequences.                                                              *)

\* Facts about sequences.
LEMMA SeqOf ==
    ASSUME NEW S, NEW T, NEW s \in Seq(S), \A i \in 1..Len(s) : s[i] \in T
    PROVE  s \in Seq(T)
<1>1. SubSeq(s, 1, Len(s)) = s
  BY SubSeqFull
<1>2. Len(s) \in Int
  BY LenProperties
<1>3. SubSeq(s, 1, Len(s)) \in Seq(T)
  BY <1>2, SubSeqProperties
<1> QED
  BY <1>1, <1>3

LEMMA ConcatParts ==
    ASSUME NEW S, NEW T, NEW s \in Seq(S), NEW t \in Seq(S), s \o t \in Seq(T)
    PROVE  s \in Seq(T) /\ t \in Seq(T)
<1>1. Len(s) \in Nat /\ Len(t) \in Nat
  BY LenProperties
<1>2. /\ Len(s \o t) = Len(s) + Len(t)
      /\ \A i \in 1..(Len(s) + Len(t)) :
            (s \o t)[i] = IF i <= Len(s) THEN s[i] ELSE t[i - Len(s)]
  BY ConcatProperties
<1>3. \A i \in 1..(Len(s) + Len(t)) : (s \o t)[i] \in T
  BY <1>2, ElementOfSeq
<1>4. ASSUME NEW i \in 1..Len(s) PROVE s[i] \in T
  <2>1. i \in 1..(Len(s) + Len(t)) /\ i <= Len(s)
    BY <1>1
  <2> QED
    BY <1>2, <1>3, <2>1
<1>5. ASSUME NEW i \in 1..Len(t) PROVE t[i] \in T
  <2>1. /\ Len(s) + i \in 1..(Len(s) + Len(t))
        /\ ~(Len(s) + i <= Len(s)) /\ (Len(s) + i) - Len(s) = i
    BY <1>1
  <2>2. (s \o t)[Len(s) + i] = t[i]
    BY <1>2, <2>1
  <2> QED
    BY <1>3, <2>1, <2>2
<1> QED
  BY <1>4, <1>5, SeqOf

LEMMA TailConcat ==
    ASSUME NEW S, NEW s \in Seq(S), NEW t \in Seq(S), s # <<>>
    PROVE  s \o t # <<>> /\ Tail(s \o t) = Tail(s) \o t
<1> DEFINE c == s \o t
           l == Tail(c)
           r == Tail(s) \o t
<1>1. Len(s) \in Nat \ {0} /\ Len(t) \in Nat
  BY EmptySeq, LenProperties
<1>2. /\ c \in Seq(S) /\ Len(c) = Len(s) + Len(t)
      /\ \A i \in 1..(Len(s) + Len(t)) : c[i] = IF i <= Len(s) THEN s[i] ELSE t[i - Len(s)]
  BY ConcatProperties
<1>3. c # <<>>
  BY <1>1, <1>2
<1>4. /\ Tail(s) \in Seq(S) /\ Len(Tail(s)) = Len(s) - 1
      /\ \A i \in 1..Len(Tail(s)) : Tail(s)[i] = s[i + 1]
  BY HeadTailProperties
<1> HIDE DEF c
<1>5. /\ l \in Seq(S) /\ Len(l) = Len(c) - 1
      /\ \A i \in 1..Len(l) : l[i] = c[i + 1]
  BY <1>2, <1>3, HeadTailProperties
<1>6. /\ r \in Seq(S) /\ Len(r) = Len(Tail(s)) + Len(t)
      /\ \A i \in 1..(Len(Tail(s)) + Len(t)) :
            r[i] = IF i <= Len(Tail(s)) THEN Tail(s)[i] ELSE t[i - Len(Tail(s))]
  BY <1>4, ConcatProperties
<1> HIDE DEF l, r
<1>7. Len(l) = Len(r) /\ Len(l) = Len(s) + Len(t) - 1
  BY <1>1, <1>2, <1>4, <1>5, <1>6
<1>8. ASSUME NEW i \in 1..Len(l) PROVE l[i] = r[i]
  <2>1. i + 1 \in 1..(Len(s) + Len(t)) /\ i \in 1..(Len(Tail(s)) + Len(t))
    BY <1>1, <1>4, <1>7
  <2>2. l[i] = IF i + 1 <= Len(s) THEN s[i + 1] ELSE t[(i + 1) - Len(s)]
    BY <1>2, <1>5, <2>1
  <2>3. r[i] = IF i <= Len(Tail(s)) THEN Tail(s)[i] ELSE t[i - Len(Tail(s))]
    BY <1>6, <2>1
  <2>4. CASE i + 1 <= Len(s)
    <3>1. i \in 1..Len(Tail(s)) /\ i <= Len(Tail(s))
      BY <1>1, <1>4, <2>4
    <3> QED
      BY <1>4, <2>2, <2>3, <2>4, <3>1
  <2>5. CASE ~(i + 1 <= Len(s))
    <3>1. ~(i <= Len(Tail(s))) /\ (i + 1) - Len(s) = i - Len(Tail(s))
      BY <1>1, <1>4, <2>5
    <3> QED
      BY <2>2, <2>3, <2>5, <3>1
  <2> QED
    BY <2>4, <2>5
<1>9. l = r
  BY <1>5, <1>6, <1>7, <1>8, SeqEqual
<1> QED
  BY <1>3, <1>9 DEF l, r, c

-----------------------------------------------------------------------------
(* The inductive invariant.                                                *)

ScalarsOK ==
    /\ units \in 0..MaxUnits
    /\ telState \in TelStates
    /\ console \in {"getc", "sendopt", "flush"}
    /\ hangup \in BOOLEAN /\ room \in BOOLEAN /\ stalled \in BOOLEAN
    /\ quoted \subseteq {"line", "option"}

\* What was typed and not read is in the input or on the way, and what is on
\* the way ends with a whole unit as long as the client is there.
InputOK ==
    /\ octets \in Seq(Octets) /\ input \in Seq(Typed) /\ unread \in Seq(Typed)
    /\ Process(telState, octets).data \in Seq(Typed)
    /\ ~hangup => Process(telState, octets).state = "NORMAL"
    /\ "option" \notin quoted => input \o Process(telState, octets).data = unread

Screen == [text |-> text, cursor |-> cursor]

Echoes == {<<>>, <<"BS", "SP", "BS">>, <<"a">>, <<"IAC">>, <<"CR">>}

\* The line is on the screen once the echo is.
LineOK ==
    /\ line \in Seq(Visibles) /\ Len(line) < LineSize
    /\ IsScreen(Screen)
    /\ echo \in Echoes
    /\ console # "flush" => echo = <<>>
    /\ ~stalled /\ quoted = {} => Seen(Terminal(Screen, echo), line)

TelnetInv == ScalarsOK /\ InputOK /\ LineOK

\* A new connection starts with nothing on the way.
LEMMA NewOK ==
    /\ Process("NORMAL", <<>>).data = <<>> /\ Process("NORMAL", <<>>).state = "NORMAL"
    /\ <<>> \o <<>> = <<>>
    /\ Terminal([text |-> <<>>, cursor |-> 0], <<>>) = [text |-> <<>>, cursor |-> 0]
<1>1. Process("NORMAL", <<>>) = FreshRun("NORMAL")
  BY ProcessNothing DEF TelStates
<1>2. <<>> \o <<>> = <<>>
  <2>1. <<>> \in Seq(Octets)
    OBVIOUS
  <2> QED
    BY <2>1, ConcatEmptySeq
<1> QED
  BY <1>1, <1>2, TerminalNothing DEF FreshRun

LEMMA EmptySequences ==
    ASSUME NEW S
    PROVE  <<>> \in Seq(S) /\ Len(<<>>) = 0
OBVIOUS

LEMMA TelnetStarts == TelnetInit => TelnetInv
<1> SUFFICES ASSUME TelnetInit PROVE TelnetInv
  OBVIOUS
<1>1. ScalarsOK
  <2>1. units \in 0..MaxUnits
    BY TelnetAssumption DEF TelnetInit
  <2>2. /\ telState \in TelStates /\ console \in {"getc", "sendopt", "flush"}
        /\ hangup \in BOOLEAN /\ room \in BOOLEAN /\ stalled \in BOOLEAN
        /\ quoted \subseteq {"line", "option"}
    BY Zenon DEF TelnetInit, TelStates
  <2> QED
    BY <2>1, <2>2 DEF ScalarsOK
<1>2. InputOK
  BY NewOK, EmptySequences DEF TelnetInit, InputOK
<1>3. LineOK
  <2>1. echo \in Echoes /\ echo = <<>> /\ text = <<>> /\ cursor = 0 /\ line = <<>>
    BY DEF TelnetInit, Echoes
  <2>2. Len(line) < LineSize
    BY <2>1, EmptySequences, TelnetAssumption
  <2>3. /\ Terminal(Screen, echo) = [text |-> <<>>, cursor |-> 0]
    BY <2>1, NewOK DEF Screen
  <2>4. Seen(Terminal(Screen, echo), line)
    BY <2>1, <2>3, SeenNothing
  <2>5. IsScreen(Screen)
    BY <2>1, SeenNothing DEF Seen, IsScreen, Screen
  <2> QED
    BY <2>1, <2>2, <2>4, <2>5, EmptySequences DEF LineOK
<1> QED
  BY <1>1, <1>2, <1>3 DEF TelnetInv

LEMMA NewConnectionKeeps == NewConnection => TelnetInv'
<1> SUFFICES ASSUME NewConnection PROVE TelnetInv'
  OBVIOUS
<1>1. ScalarsOK'
  <2>1. units' \in 0..MaxUnits
    BY TelnetAssumption DEF NewConnection
  <2>2. /\ telState' \in TelStates /\ console' \in {"getc", "sendopt", "flush"}
        /\ hangup' \in BOOLEAN /\ room' \in BOOLEAN /\ stalled' \in BOOLEAN
        /\ quoted' \subseteq {"line", "option"}
    BY Zenon DEF NewConnection, TelStates
  <2> QED
    BY <2>1, <2>2 DEF ScalarsOK
<1>2. InputOK'
  BY NewOK, EmptySequences DEF NewConnection, InputOK
<1>3. LineOK'
  <2>1. echo' \in Echoes /\ echo' = <<>> /\ text' = <<>> /\ cursor' = 0 /\ line' = <<>>
    BY DEF NewConnection, Echoes
  <2>2. Len(line') < LineSize
    BY <2>1, EmptySequences, TelnetAssumption
  <2>3. /\ Terminal(Screen', echo') = [text |-> <<>>, cursor |-> 0]
    BY <2>1, NewOK DEF Screen
  <2>4. Seen(Terminal(Screen', echo'), line')
    BY <2>1, <2>3, SeenNothing
  <2>5. IsScreen(Screen')
    BY <2>1, SeenNothing DEF Seen, IsScreen, Screen
  <2> QED
    BY <2>1, <2>2, <2>4, <2>5, EmptySequences DEF LineOK
<1> QED
  BY <1>1, <1>2, <1>3 DEF TelnetInv

-----------------------------------------------------------------------------
(* The steps.                                                              *)

\* What is on the way, cut in two.
LEMMA PendingSplit ==
    ASSUME NEW state \in TelStates, NEW a \in Seq(Octets), NEW b \in Seq(Octets)
    PROVE  /\ Process(state, a).state \in TelStates
           /\ Process(state, a).data \in Seq(Octets)
           /\ Process(Process(state, a).state, b).data \in Seq(Octets)
           /\ Process(state, a \o b).state = Process(Process(state, a).state, b).state
           /\ Process(state, a \o b).data
                = Process(state, a).data \o Process(Process(state, a).state, b).data
<1>1. /\ Process(state, a).state \in TelStates
      /\ Process(state, a).data \in Seq(Octets)
  BY ProcessTyped DEF Runs
<1>2. Process(Process(state, a).state, b).data \in Seq(Octets)
  BY <1>1, ProcessTyped DEF Runs
<1>3. PICK x, d, e, v, w :
        /\ x = Process(Process(state, a).state, b).state
        /\ d = Process(state, a).data /\ e = Process(Process(state, a).state, b).data
        /\ v = Process(state, a).options /\ w = Process(Process(state, a).state, b).options
  OBVIOUS
<1>4. Process(state, a \o b) = [state |-> x, data |-> d \o e, options |-> v \/ w]
  BY <1>3, ProcessResumes
<1>5. PICK o : Process(state, a \o b) = [state |-> x, data |-> d \o e, options |-> o]
  BY <1>4
<1>6. Process(state, a \o b).state = x /\ Process(state, a \o b).data = d \o e
  BY <1>5
<1> QED
  BY <1>1, <1>2, <1>3, <1>6

LEMMA ClientSendsKeeps ==
    ASSUME TelnetInv, NEW u \in Units, ClientSends(u)
    PROVE  TelnetInv'
<1> DEFINE p == Process(telState, octets)
<1>1. /\ u \in Seq(Octets)
      /\ Process("NORMAL", u).state = "NORMAL"
      /\ Process("NORMAL", u).data \in Seq(Typed)
      /\ Meaning(u) \in Seq(Typed)
      /\ u # Quoted255 => Process("NORMAL", u).data = Meaning(u)
  BY UnitsProcessed
<1>2. /\ ~hangup /\ units < MaxUnits /\ units' = units + 1
      /\ octets' = octets \o u /\ unread' = unread \o Meaning(u)
      /\ u = Quoted255 => "option" \in quoted'
      /\ quoted' \subseteq {"line", "option"} /\ quoted \subseteq quoted'
      /\ UNCHANGED <<hangup, room, telState, input, line, console, echo, text, cursor, stalled>>
  BY DEF ClientSends, TelnetInv, ScalarsOK, telTerminal
<1>3. /\ octets \in Seq(Octets) /\ input \in Seq(Typed) /\ unread \in Seq(Typed)
      /\ p.data \in Seq(Typed) /\ p.state = "NORMAL"
      /\ "option" \notin quoted => input \o p.data = unread
      /\ telState \in TelStates
  BY <1>2 DEF TelnetInv, InputOK, ScalarsOK
<1>4. ScalarsOK'
  <2>1. units' \in 0..MaxUnits
    BY <1>2, TelnetAssumption DEF TelnetInv, ScalarsOK
  <2> QED
    BY <1>2, <2>1 DEF TelnetInv, ScalarsOK
<1>5. /\ Process(telState, octets \o u).state = "NORMAL"
      /\ Process(telState, octets \o u).data = p.data \o Process("NORMAL", u).data
  <2>1. /\ Process(telState, octets \o u).state = Process(p.state, u).state
        /\ Process(telState, octets \o u).data = p.data \o Process(p.state, u).data
    BY <1>1, <1>3, PendingSplit
  <2> QED
    BY <1>1, <1>3, <2>1
<1> HIDE DEF p
<1>6. InputOK'
  <2>1. octets' \in Seq(Octets)
    BY <1>1, <1>2, <1>3, ConcatProperties
  <2>2. unread' \in Seq(Typed)
    BY <1>1, <1>2, <1>3, ConcatProperties
  <2>3. p.data \o Process("NORMAL", u).data \in Seq(Typed)
    BY <1>1, <1>3, ConcatProperties
  <2>4. Process(telState', octets').data \in Seq(Typed)
    BY <1>2, <1>5, <2>3
  <2>5. Process(telState', octets').state = "NORMAL"
    BY <1>2, <1>5
  <2>6. ASSUME "option" \notin quoted'
        PROVE  input' \o Process(telState', octets').data = unread'
    <3>1. "option" \notin quoted /\ Process("NORMAL", u).data = Meaning(u)
      BY <1>1, <1>2, <2>6
    <3>2. Process(telState', octets').data = p.data \o Meaning(u)
      BY <1>2, <1>5, <3>1
    <3>3. input \o (p.data \o Meaning(u)) = (input \o p.data) \o Meaning(u)
      <4>1. PICK d \in Seq(Typed), w \in Seq(Typed), i \in Seq(Typed) :
              d = p.data /\ w = Meaning(u) /\ i = input
        BY <1>1, <1>3, Zenon
      <4>2. (i \o d) \o w = i \o (d \o w)
        BY ConcatAssociative
      <4> QED
        BY <4>1, <4>2, Zenon
    <3> QED
      BY <1>2, <1>3, <3>1, <3>2, <3>3
  <2> QED
    BY <1>2, <1>3, <2>1, <2>2, <2>4, <2>5, <2>6 DEF InputOK
<1>7. LineOK'
  <2>1. quoted' = {} => quoted = {}
    BY <1>2
  <2> QED
    BY <1>2, <2>1 DEF TelnetInv, LineOK, Screen
<1> QED
  BY <1>4, <1>6, <1>7 DEF TelnetInv

LEMMA ClientReadsKeeps == TelnetInv /\ ClientReads => TelnetInv'
<1> SUFFICES ASSUME TelnetInv, ClientReads PROVE TelnetInv'
  OBVIOUS
<1>1. /\ UNCHANGED <<octets, hangup, units, telState, input, line, console, echo,
                     text, cursor, unread, stalled, quoted>>
      /\ room' = TRUE
  BY DEF ClientReads, telTerminal, telHistory
<1> QED
  BY <1>1 DEF TelnetInv, ScalarsOK, InputOK, LineOK, Screen

LEMMA ClientLeavesKeeps == TelnetInv /\ ClientLeaves => TelnetInv'
<1> SUFFICES ASSUME TelnetInv, ClientLeaves PROVE TelnetInv'
  OBVIOUS
<1>1. /\ UNCHANGED <<room, units, telState, input, line, console, echo, text, cursor,
                     stalled, quoted>>
      /\ hangup' = TRUE
  BY DEF ClientLeaves, telTerminal
<1>2. ScalarsOK'
  BY <1>1 DEF TelnetInv, ScalarsOK
<1>3. LineOK'
  BY <1>1 DEF TelnetInv, LineOK, Screen
<1>4. InputOK'
  <2>1. CASE UNCHANGED <<octets, unread>>
    BY <1>1, <2>1 DEF TelnetInv, InputOK
  <2>2. CASE octets' = <<>> /\ unread' = input
    <3>1. telState \in TelStates /\ input \in Seq(Typed)
      BY DEF TelnetInv, ScalarsOK, InputOK
    <3>2. Process(telState', octets').data = <<>>
      BY <1>1, <2>2, <3>1, ProcessNothing DEF FreshRun
    <3>3. input \o <<>> = input
      BY <3>1, ConcatEmptySeq
    <3> QED
      BY <1>1, <2>2, <3>1, <3>2, <3>3, EmptySequences DEF InputOK
  <2> QED
    BY <2>1, <2>2 DEF ClientLeaves
<1> QED
  BY <1>2, <1>3, <1>4 DEF TelnetInv

LEMMA ReceiveKeeps == TelnetInv /\ Receive => TelnetInv'
<1> SUFFICES ASSUME TelnetInv, Receive PROVE TelnetInv'
  OBVIOUS
<1>1. /\ UNCHANGED <<hangup, room, units, line, echo, text, cursor, unread, stalled, quoted>>
      /\ console = "getc" /\ input = <<>>
  BY DEF Receive, telTerminal, telHistory
<1>2. PICK k \in 1..Len(octets) :
          /\ telState' = Process(telState, SubSeq(octets, 1, k)).state
          /\ input' = Process(telState, SubSeq(octets, 1, k)).data
          /\ console' \in {"getc", "sendopt"}
          /\ octets' = SubSeq(octets, k + 1, Len(octets))
  BY DEF Receive, StateBetween
<1> DEFINE a == SubSeq(octets, 1, k)
           b == SubSeq(octets, k + 1, Len(octets))
<1>3. /\ octets \in Seq(Octets) /\ telState \in TelStates /\ unread \in Seq(Typed)
      /\ Process(telState, octets).data \in Seq(Typed)
      /\ ~hangup => Process(telState, octets).state = "NORMAL"
      /\ "option" \notin quoted => input \o Process(telState, octets).data = unread
  BY DEF TelnetInv, InputOK, ScalarsOK
<1>4. a \in Seq(Octets) /\ b \in Seq(Octets) /\ a \o b = octets
  <2>1. Len(octets) \in Nat /\ \A i \in 1..Len(octets) : octets[i] \in Octets
    BY <1>3, LenProperties, ElementOfSeq
  <2>2. a \in Seq(Octets)
    BY <2>1, SubSeqProperties
  <2>3. b \in Seq(Octets)
    BY <2>1, SubSeqProperties
  <2>4. SubSeq(octets, 1, k) \o SubSeq(octets, k + 1, Len(octets)) = SubSeq(octets, 1, Len(octets))
    <3>1. /\ 1 \in 1..(Len(octets) + 1) /\ k \in (1 - 1)..Len(octets)
          /\ Len(octets) \in k..Len(octets)
      BY <2>1
    <3> QED
      BY <1>3, <3>1, ConcatAdjacentSubSeq
  <2> QED
    BY <1>3, <2>2, <2>3, <2>4, SubSeqFull
<1> HIDE DEF a, b
<1>5. /\ telState' \in TelStates /\ input' \in Seq(Octets)
      /\ Process(telState', octets').data \in Seq(Octets)
      /\ Process(telState, octets).state = Process(telState', octets').state
      /\ Process(telState, octets).data = input' \o Process(telState', octets').data
  <2>1. telState' = Process(telState, a).state /\ input' = Process(telState, a).data /\ octets' = b
    BY <1>2 DEF a, b
  <2> QED
    BY <1>3, <1>4, <2>1, PendingSplit
<1>6. InputOK'
  <2>1. octets' \in Seq(Octets)
    BY <1>2, <1>4 DEF b
  <2>2. input' \in Seq(Typed) /\ Process(telState', octets').data \in Seq(Typed)
    <3>1. PICK d \in Seq(Octets) : d = input'
      BY <1>5
    <3>2. PICK e \in Seq(Octets) : e = Process(telState', octets').data
      BY <1>5
    <3>3. d \o e \in Seq(Typed)
      BY <1>3, <1>5, <3>1, <3>2
    <3>4. d \in Seq(Typed) /\ e \in Seq(Typed)
      BY <3>3, ConcatParts
    <3> QED
      BY <3>1, <3>2, <3>4
  <2>3. input \o Process(telState, octets).data = Process(telState, octets).data
    <3>1. PICK d \in Seq(Typed) : d = Process(telState, octets).data
      BY <1>3
    <3>2. <<>> \o d = d
      BY ConcatEmptySeq
    <3> QED
      BY <1>1, <3>1, <3>2
  <2> QED
    BY <1>1, <1>3, <1>5, <2>1, <2>2, <2>3 DEF InputOK
<1>7. ScalarsOK'
  BY <1>1, <1>2, <1>5 DEF TelnetInv, ScalarsOK
<1>8. LineOK'
  BY <1>1, <1>2 DEF TelnetInv, LineOK, Screen
<1> QED
  BY <1>6, <1>7, <1>8 DEF TelnetInv

LEMMA SendOptionKeeps == TelnetInv /\ SendOption => TelnetInv'
<1> SUFFICES ASSUME TelnetInv, SendOption PROVE TelnetInv'
  OBVIOUS
<1>1. /\ UNCHANGED <<octets, hangup, units, telState, input, line, echo, text, cursor,
                     unread, stalled, quoted>>
      /\ room' \in {room, FALSE} /\ console = "sendopt" /\ console' = "getc"
  BY DEF SendOption, telTerminal, telHistory
<1>2. ScalarsOK'
  <2>1. room' \in BOOLEAN
    BY <1>1, Zenon DEF TelnetInv, ScalarsOK
  <2> QED
    BY <1>1, <2>1 DEF TelnetInv, ScalarsOK
<1> QED
  BY <1>1, <1>2 DEF TelnetInv, InputOK, LineOK, Screen

\* An edited line consists of visible characters and fits its buffer.
LEMMA EditedTyped ==
    ASSUME line \in Seq(Visibles), Len(line) < LineSize, NEW c \in Typed
    PROVE  Edited(c) \in Seq(Visibles) /\ Len(Edited(c)) < LineSize
<1>1. Len(line) \in Nat /\ LineSize \in Nat \ {0} /\ \A i \in 1..Len(line) : line[i] \in Visibles
  BY TelnetAssumption, LenProperties, ElementOfSeq
<1>2. CASE c = "CR"
  <2>1. Edited(c) = <<>>
    BY <1>2 DEF Edited, Visible
  <2> QED
    BY <1>1, <2>1, EmptySequences
<1>3. CASE c = "BS" /\ line = <<>>
  <2>1. Edited(c) = <<>>
    BY <1>3 DEF Edited, Visible
  <2> QED
    BY <1>1, <2>1, EmptySequences
<1>4. CASE c = "BS" /\ line # <<>>
  <2>1. Edited(c) = SubSeq(line, 1, Len(line) - 1)
    BY <1>4 DEF Edited, Visible
  <2>2. PICK n \in Int : n = Len(line) - 1
    BY <1>1
  <2>3. SubSeq(line, 1, n) \in Seq(Visibles) /\ Len(SubSeq(line, 1, n)) = IF 1 <= n THEN n - 1 + 1 ELSE 0
    <3>1. \A i \in 1..n : line[i] \in Visibles
      BY <1>1, <2>2
    <3> QED
      BY <3>1, SubSeqProperties
  <2> QED
    BY <1>1, <2>1, <2>2, <2>3
<1>5. CASE c \in Visibles
  <2>1. Edited(c) = IF Len(line) < LineSize - 1 THEN Append(line, c) ELSE line
    BY <1>5 DEF Edited, Visible, Visibles
  <2>2. Append(line, c) \in Seq(Visibles) /\ Len(Append(line, c)) = Len(line) + 1
    BY <1>5, AppendProperties
  <2> QED
    BY <1>1, <2>1, <2>2
<1> QED
  BY <1>2, <1>3, <1>4, <1>5 DEF Typed, Visibles

\* The echo of a character shows what the character does to the line.
LEMMA EchoShowsLine ==
    ASSUME line \in Seq(Visibles), NEW c \in Typed, NEW t, Seen(t, line)
    PROVE  Seen(Terminal(t, Echoed(c)), Edited(c))
<1>1. CASE c = "CR"
  <2>1. Edited(c) = <<>> /\ Echoed(c) = <<c>>
    BY <1>1 DEF Edited, Echoed, Visible
  <2>2. Terminal(t, <<c>>) = [text |-> <<>>, cursor |-> 0]
    BY <1>1, TerminalOne, ShownCR
  <2> QED
    BY <2>1, <2>2, SeenNothing
<1>2. CASE c = "BS" /\ line = <<>>
  <2>1. Edited(c) = <<>> /\ Echoed(c) = <<>>
    BY <1>2 DEF Edited, Echoed, Visible
  <2> QED
    BY <1>2, <2>1, TerminalNothing
<1>3. CASE c = "BS" /\ line # <<>>
  <2>1. Edited(c) = SubSeq(line, 1, Len(line) - 1) /\ Echoed(c) = <<"BS", "SP", "BS">>
    BY <1>3 DEF Edited, Echoed, Visible
  <2>2. Terminal(t, <<"BS", "SP", "BS">>) = Shown(Shown(Shown(t, "BS"), "SP"), "BS")
    BY TerminalThree
  <2>3. Seen(Shown(Shown(Shown(t, "BS"), "SP"), "BS"), SubSeq(line, 1, Len(line) - 1))
    BY <1>3, SeenErase
  <2> QED
    BY <2>1, <2>2, <2>3
<1>4. CASE c \in Visibles /\ Len(line) < LineSize - 1
  <2>1. Edited(c) = Append(line, c) /\ Echoed(c) = <<c>>
    BY <1>4 DEF Edited, Echoed, Visible, Visibles
  <2>2. Terminal(t, <<c>>) = Shown(t, c)
    BY TerminalOne
  <2>3. Seen(Shown(t, c), Append(line, c))
    BY <1>4, SeenAppend
  <2> QED
    BY <2>1, <2>2, <2>3
<1>5. CASE c \in Visibles /\ ~(Len(line) < LineSize - 1)
  <2>1. Edited(c) = line /\ Echoed(c) = <<>>
    BY <1>5 DEF Edited, Echoed, Visible, Visibles
  <2> QED
    BY <2>1, TerminalNothing
<1> QED
  BY <1>1, <1>2, <1>3, <1>4, <1>5 DEF Typed, Visibles

LEMMA GetCharKeeps == TelnetInv /\ GetChar => TelnetInv'
<1> SUFFICES ASSUME TelnetInv, GetChar PROVE TelnetInv'
  OBVIOUS
<1> DEFINE c == Head(input)
<1>1. /\ UNCHANGED <<octets, hangup, room, units, telState, text, cursor, stalled, quoted>>
      /\ console = "getc" /\ input # <<>> /\ console' = "flush"
      /\ line' = Edited(c) /\ echo' = echo \o Echoed(c) /\ input' = Tail(input)
      /\ unread' = IF unread = <<>> THEN <<>> ELSE Tail(unread)
  BY DEF GetChar, connection, telTerminal
<1>2. /\ octets \in Seq(Octets) /\ input \in Seq(Typed) /\ unread \in Seq(Typed)
      /\ Process(telState, octets).data \in Seq(Typed)
      /\ ~hangup => Process(telState, octets).state = "NORMAL"
      /\ "option" \notin quoted => input \o Process(telState, octets).data = unread
  BY DEF TelnetInv, InputOK
<1>3. c \in Typed /\ Tail(input) \in Seq(Typed)
  BY <1>1, <1>2, HeadTailProperties
<1> HIDE DEF c
<1>4. InputOK'
  <2>1. unread' \in Seq(Typed)
    <3>1. CASE unread = <<>>
      BY <1>1, <3>1, EmptySequences
    <3>2. CASE unread # <<>>
      BY <1>1, <1>2, <3>2, HeadTailProperties
    <3> QED
      BY <3>1, <3>2
  <2>2. ASSUME "option" \notin quoted
        PROVE  Tail(input) \o Process(telState, octets).data = unread'
    <3>1. PICK d \in Seq(Typed) : d = Process(telState, octets).data
      BY <1>2
    <3>2. input \o d # <<>> /\ Tail(input \o d) = Tail(input) \o d
      BY <1>1, <1>2, TailConcat
    <3> QED
      BY <1>1, <1>2, <2>2, <3>1, <3>2
  <2> QED
    BY <1>1, <1>2, <1>3, <2>1, <2>2 DEF InputOK
<1>5. ScalarsOK'
  BY <1>1 DEF TelnetInv, ScalarsOK
<1>6. LineOK'
  <2>1. /\ line \in Seq(Visibles) /\ Len(line) < LineSize /\ IsScreen(Screen) /\ echo = <<>>
        /\ ~stalled /\ quoted = {} => Seen(Terminal(Screen, <<>>), line)
    BY <1>1 DEF TelnetInv, LineOK
  <2>2. Terminal(Screen, <<>>) = Screen
    BY TerminalNothing
  <2>3. Echoed(c) \in Echoes
    BY <1>3, Zenon DEF Echoed, Echoes, Typed
  <2>4. echo' = Echoed(c)
    <3>1. /\ <<>> \o <<>> = <<>> /\ <<>> \o <<"BS", "SP", "BS">> = <<"BS", "SP", "BS">>
          /\ <<>> \o <<"a">> = <<"a">> /\ <<>> \o <<"IAC">> = <<"IAC">> /\ <<>> \o <<"CR">> = <<"CR">>
      OBVIOUS
    <3> QED
      BY <1>1, <2>1, <2>3, <3>1, Zenon DEF Echoes
  <2>5. Edited(c) \in Seq(Visibles) /\ Len(Edited(c)) < LineSize
    BY <1>3, <2>1, EditedTyped
  <2>6. ~stalled /\ quoted = {} => Seen(Terminal(Screen, Echoed(c)), Edited(c))
    BY <1>3, <2>1, <2>2, EchoShowsLine
  <2>7. Screen' = Screen
    BY <1>1 DEF Screen
  <2> QED
    BY <1>1, <2>1, <2>3, <2>4, <2>5, <2>6, <2>7 DEF LineOK
<1> QED
  BY <1>4, <1>5, <1>6 DEF TelnetInv

\* Whatever is echoed leaves a screen.
LEMMA EchoTyped ==
    ASSUME NEW t, IsScreen(t), NEW e \in Echoes
    PROVE  IsScreen(Terminal(t, e))
<1>1. CASE e = <<>>
  BY <1>1, TerminalNothing
<1>2. CASE e = <<"BS", "SP", "BS">>
  <2>1. "BS" \in Glyphs \cup {"BS", "CR"} /\ "SP" \in Glyphs \cup {"BS", "CR"}
    BY DEF Glyphs
  <2>2. IsScreen(Shown(t, "BS"))
    BY <2>1, IsScreenShown
  <2>3. IsScreen(Shown(Shown(t, "BS"), "SP"))
    BY <2>1, <2>2, IsScreenShown
  <2>4. IsScreen(Shown(Shown(Shown(t, "BS"), "SP"), "BS"))
    BY <2>1, <2>3, IsScreenShown
  <2> QED
    BY <1>2, <2>4, TerminalThree
<1>3. CASE e \in {<<"a">>, <<"IAC">>, <<"CR">>}
  <2>1. PICK o \in {"a", "IAC", "CR"} : e = <<o>>
    BY <1>3
  <2>2. o \in Glyphs \cup {"BS", "CR"}
    BY DEF Glyphs, Visibles
  <2>3. IsScreen(Shown(t, o))
    BY <2>2, IsScreenShown
  <2> QED
    BY <2>1, <2>3, TerminalOne
<1> QED
  BY <1>1, <1>2, <1>3 DEF Echoes

LEMMA FlushKeeps == TelnetInv /\ Flush => TelnetInv'
<1> SUFFICES ASSUME TelnetInv, Flush PROVE TelnetInv'
  OBVIOUS
<1>1. /\ UNCHANGED <<octets, hangup, units, telState, input, line, unread, stalled, quoted>>
      /\ room' \in {room, FALSE} /\ console' = "getc" /\ echo' = <<>>
      /\ text' = Terminal(Screen, echo).text /\ cursor' = Terminal(Screen, echo).cursor
  BY DEF Flush, Screen, telHistory
<1>2. ScalarsOK'
  <2>1. room' \in BOOLEAN
    BY <1>1, Zenon DEF TelnetInv, ScalarsOK
  <2> QED
    BY <1>1, <2>1 DEF TelnetInv, ScalarsOK
<1>3. InputOK'
  BY <1>1 DEF TelnetInv, InputOK
<1>4. LineOK'
  <2>1. IsScreen(Screen) /\ echo \in Echoes
    BY DEF TelnetInv, LineOK
  <2>2. IsScreen(Terminal(Screen, echo))
    BY <2>1, EchoTyped
  <2>3. Screen' = Terminal(Screen, echo)
    <3>1. PICK z \in Seq(Glyphs), n \in Nat : Terminal(Screen, echo) = [text |-> z, cursor |-> n]
      BY <2>2 DEF IsScreen
    <3>2. text' = z /\ cursor' = n
      BY <1>1, <3>1
    <3>3. Screen' = [text |-> text', cursor |-> cursor']
      BY DEF Screen
    <3> QED
      BY <3>1, <3>2, <3>3
  <2>4. Terminal(Screen', echo') = Screen'
    BY <1>1, TerminalNothing
  <2>5. <<>> \in Echoes
    BY DEF Echoes
  <2> QED
    BY <1>1, <2>2, <2>3, <2>4, <2>5 DEF TelnetInv, LineOK
<1> QED
  BY <1>2, <1>3, <1>4 DEF TelnetInv

LEMMA FlushTimeoutKeeps == TelnetInv /\ FlushTimeout => TelnetInv'
<1> SUFFICES ASSUME TelnetInv, FlushTimeout PROVE TelnetInv'
  OBVIOUS
<1>1. /\ UNCHANGED <<octets, hangup, room, units, telState, input, line, text, cursor,
                     unread, quoted>>
      /\ stalled' = TRUE /\ echo' = <<>> /\ console' = "getc"
  BY DEF FlushTimeout, connection, telTerminal
<1>2. <<>> \in Echoes
  BY DEF Echoes
<1> QED
  BY <1>1, <1>2 DEF TelnetInv, ScalarsOK, InputOK, LineOK, Screen

\* The invariant of the console: what was typed and not read is in the input or
\* on the way, and the line is on the client's screen when the echo is.
THEOREM TelnetInvariance == TelnetSpec => []TelnetInv
<1>1. TelnetInv /\ UNCHANGED telVars => TelnetInv'
  BY DEF telVars, connection, telTerminal, telHistory, TelnetInv, ScalarsOK, InputOK, LineOK, Screen
<1>2. TelnetInv /\ TelnetNext => TelnetInv'
  <2>1. TelnetInv /\ ConsoleStep => TelnetInv'
    BY ReceiveKeeps, SendOptionKeeps, GetCharKeeps, FlushKeeps, FlushTimeoutKeeps,
       NewConnectionKeeps DEF ConsoleStep, EndOfStream, Exit
  <2>2. ASSUME TelnetInv, \E u \in Units : ClientSends(u) PROVE TelnetInv'
    BY <2>2, ClientSendsKeeps
  <2> QED
    BY <2>1, <2>2, ClientReadsKeeps, ClientLeavesKeeps DEF TelnetNext
<1> QED
  BY <1>1, <1>2, TelnetStarts, PTL DEF TelnetSpec

\* Whatever a client sends, the line stays within cmdbuf (telnet.c:564-611).
THEOREM TelnetTypeCorrect == TelnetSpec => []TelnetTypeOK
<1>1. TelnetInv => TelnetTypeOK
  <2> SUFFICES ASSUME TelnetInv PROVE TelnetTypeOK
    OBVIOUS
  <2>1. octets \in Seq(Octets) /\ input \in Seq(Typed) /\ line \in Seq(Visibles)
    BY DEF TelnetInv, InputOK, LineOK
  <2>2. \A k \in DOMAIN octets : octets[k] \in Octets
    BY <2>1, LenProperties, ElementOfSeq
  <2>3. \A k \in DOMAIN input : input[k] \in Typed
    BY <2>1, LenProperties, ElementOfSeq
  <2>4. \A k \in DOMAIN line : line[k] \in Visibles
    BY <2>1, LenProperties, ElementOfSeq
  <2> QED
    BY <2>2, <2>3, <2>4
       DEF TelnetInv, ScalarsOK, LineOK, TelnetTypeOK, Octets, Typed, Visibles, Visible, TelStates
<1> QED
  BY <1>1, TelnetInvariance, PTL

\* The shell reads what is typed, in order, and the user sees the line, for
\* segments, lines and connections of any size (telnet.c:155-214, 510-611).
THEOREM ConsoleIsFaithful == TelnetSpec => []ConsoleFaithful
<1>1. TelnetInv => InputKept
  BY DEF TelnetInv, InputOK, InputKept
<1>2. TelnetInv => LineAsSeen
  <2> SUFFICES ASSUME TelnetInv, console = "getc", ~stalled, quoted = {}
               PROVE  /\ cursor = Len(line)
                      /\ SubSeq(text, 1, cursor) = line
                      /\ \A k \in cursor + 1..Len(text) : text[k] = "SP"
    BY DEF LineAsSeen
  <2>1. Seen(Terminal(Screen, <<>>), line) /\ line \in Seq(Visibles)
    BY DEF TelnetInv, LineOK
  <2>2. Terminal(Screen, <<>>) = Screen
    BY TerminalNothing
  <2>3. PICK z \in Seq(Glyphs), n \in Nat :
           n <= Len(z) /\ Screen = [text |-> z, cursor |-> n] /\ ShowsLine(z, n, line)
    BY <2>1, <2>2 DEF Seen
  <2>4. text = z /\ cursor = n
    BY <2>3 DEF Screen
  <2>5. /\ Len(line) = n /\ \A k \in 1..n : z[k] = line[k]
        /\ \A k \in (n + 1)..Len(z) : z[k] = "SP"
    BY <2>3 DEF ShowsLine
  <2>6. SubSeq(z, 1, n) = line
    <3>1. Len(z) \in Nat /\ \A i \in 1..n : z[i] \in Glyphs
      BY <2>3, LenProperties, ElementOfSeq
    <3>2. /\ SubSeq(z, 1, n) \in Seq(Glyphs)
          /\ Len(SubSeq(z, 1, n)) = IF 1 <= n THEN n - 1 + 1 ELSE 0
          /\ \A i \in 1..(n - 1 + 1) : SubSeq(z, 1, n)[i] = z[1 + i - 1]
      BY <3>1, SubSeqProperties
    <3>3. /\ Len(SubSeq(z, 1, n)) = n /\ \A i \in 1..n : SubSeq(z, 1, n)[i] = line[i]
      BY <2>5, <3>2
    <3>4. line \in Seq(Glyphs)
      BY <2>1, SeqMonotonic DEF Glyphs
    <3> QED
      BY <2>5, <3>2, <3>3, <3>4, SeqEqual
  <2> QED
    BY <2>4, <2>5, <2>6
<1> QED
  BY <1>1, <1>2, TelnetInvariance, PTL DEF ConsoleFaithful
=============================================================================
