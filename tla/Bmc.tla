-------------------------------- MODULE Bmc --------------------------------
(***************************************************************************)
(* The data of the Best Master Clock Algorithm (ptpd-2.0.0/src/bmc.c): the *)
(* comparison of two data sets, the table of foreign masters and the scan  *)
(* that selects a record of it.                                            *)
(*                                                                         *)
(* A data set is what the header and the body of an Announce contribute to *)
(* the algorithm:                                                          *)
(*   src    the port that sent it, <<clock identity, port number>>;        *)
(*   gm     grandmasterIdentity;                                           *)
(*   q      <<priority1, clockClass, clockAccuracy, variance, priority2>>, *)
(*          the attributes in the order in which they are compared;        *)
(*   steps  stepsRemoved.                                                  *)
(* Clock identities are numbers, ordered as memcmp orders the octets.      *)
(***************************************************************************)
EXTENDS Integers, Sequences

CONSTANTS
    OwnClock,     \* defaultDS.clockIdentity
    OwnQuality,   \* the local attributes, in the layout of q
    Capacity,     \* foreignMasterDS.capacity
    Announces     \* the data sets that foreign masters announce

PortIdentity == Int \X Nat
DataSet == [src : PortIdentity, gm : Int, q : [1..5 -> Nat], steps : Nat]

\* The port identity of the local port, and the parent that m1 installs.
OwnPort == <<OwnClock, 1>>
Self    == <<OwnClock, 0>>

ASSUME CapacityAssumption == Capacity \in Nat \ {0}

ASSUME IdentityAssumption ==
    /\ OwnClock \in Int
    /\ OwnQuality \in [1..5 -> Nat]
    /\ Announces \subseteq DataSet
    /\ \A d \in Announces : d.src \notin {OwnPort, Self}

-----------------------------------------------------------------------------
(* Data set comparison.                                                    *)

LexLess(s, t) ==
    \E k \in DOMAIN s : s[k] < t[k] /\ \A j \in 1..(k - 1) : s[j] = t[j]

A_better_then_B ==  1
B_better_then_A == -1
ERROR_1         ==  0

\* Figure 27: different grandmasters, attributes first, identity last.
CompareGrandmasters(a, b) ==
    IF LexLess(Append(b.q, b.gm), Append(a.q, a.gm)) THEN B_better_then_A
                                                     ELSE A_better_then_B

\* Figure 28: one grandmaster, the shorter path first, the sender last.
CompareTopology(a, b) ==
    CASE a.steps > b.steps + 1 -> B_better_then_A
      [] b.steps > a.steps + 1 -> A_better_then_B
      [] a.steps = b.steps + 1 ->
            IF a.src[1] = OwnClock THEN ERROR_1 ELSE B_better_then_A
      [] b.steps = a.steps + 1 ->
            IF b.src[1] = OwnClock THEN ERROR_1 ELSE A_better_then_B
      [] a.steps = b.steps /\ a.src[1] > b.src[1] -> B_better_then_A
      [] a.steps = b.steps /\ a.src[1] < b.src[1] -> A_better_then_B
      [] OTHER -> ERROR_1

bmcDataSetComparison(a, b) ==
    IF a.gm # b.gm THEN CompareGrandmasters(a, b) ELSE CompareTopology(a, b)

\* The local data set as copyD0 lays it out for a comparison.
D0 == [src |-> OwnPort, gm |-> OwnClock, q |-> OwnQuality, steps |-> 0]

-----------------------------------------------------------------------------
(* The table of foreign masters, foreignMasterDS.  Its memory is static    *)
(* and zero until a record is written.                                     *)

Slots == 0..(Capacity - 1)

ZeroRecord == [src |-> <<0, 0>>, gm |-> 0, q |-> <<0, 0, 0, 0, 0>>, steps |-> 0]

NoForeignMasters ==
    [count |-> 0, i |-> 0, best |-> 0, records |-> [s \in Slots |-> ZeroRecord]]

ForeignMasterDS ==
    [count   : 0..Capacity,
     i       : Slots,
     best    : Slots,
     records : [Slots -> Announces \cup {ZeroRecord}]]

\* The slots the search visits: it starts at best, takes count steps and goes
\* on modulo count, so a best left beyond count is visited as well.
\* Defect: it stops at the last record.
VisitedWithoutWrap(fm) == fm.best..(fm.count - 1)

Visited(fm) ==
    IF fm.count = 0 THEN {}
    ELSE {fm.best} \cup ((0..(fm.count - 1)) \ {fm.best % fm.count})

Known(fm, d) == {s \in Visited(fm) : fm.records[s].src = d.src}

\* A known master's record is refreshed; a new one takes slot i, the oldest
\* once the table is full.
addForeign(fm, d) ==
    IF Known(fm, d) # {}
    THEN [fm EXCEPT !.records[CHOOSE s \in Known(fm, d) : TRUE] = d]
    ELSE [fm EXCEPT !.count      = IF @ < Capacity THEN @ + 1 ELSE @,
                    !.records[fm.i] = d,
                    !.i          = (@ + 1) % Capacity]

\* The announce receipt timeout forgets the masters, but not best.
\* Defect: they are remembered.
rememberForeign(fm) == fm

forgetForeign(fm) == [fm EXCEPT !.count = 0, !.i = 0]

\* The records that bmc() reads: slot 0 even when the table is empty.
Candidates(fm) == 0..(IF fm.count = 0 THEN 0 ELSE fm.count - 1)

\* bestScan(fm)[k] is the loop variable best of bmc() after slots 1..k.
bestScan(fm) ==
    LET best[k \in Candidates(fm)] ==
            IF k = 0 THEN 0
            ELSE IF bmcDataSetComparison(fm.records[k],
                                         fm.records[best[k - 1]]) < 0
                 THEN k ELSE best[k - 1]
    IN  best

\* bmc() selects slot b.
Selects(fm, b) ==
    b = bestScan(fm)[IF fm.count = 0 THEN 0 ELSE fm.count - 1]
=============================================================================
