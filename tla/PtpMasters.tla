----------------------------- MODULE PtpMasters -----------------------------
(***************************************************************************)
(* The ring foreignMasterDS of the port implements MasterQueue.            *)
(***************************************************************************)
EXTENDS PtpPort

\* The slot of the k-th oldest record of table f: i is where the next one goes,
\* so the oldest is count slots behind it.
SlotOfAge(f, k) == (f.i + (Capacity - f.count) + (k - 1)) % Capacity

OrderOf(f) == [k \in 1..f.count |-> f.records[SlotOfAge(f, k)]]

MasterOrder == OrderOf(fm)

MQ == INSTANCE MasterQueue WITH queue <- MasterOrder

\* Along every behaviour of the port its ring of records is a queue of the
\* masters in the order in which they were first heard: neither the search
\* that starts at best, nor the slot that doInit does not reset, nor the
\* records left behind by a timeout ever mix that order up (bmc.c:92-138).
RingIsMasterQueue == MQ!Spec

\* Whatever the BMC selects, no other record is better (bmc.c:131, 250).
BestMasterSelected ==
    pc = "recommend" /\ fm.count > 0 =>
        \A k \in 0..(fm.count - 1) :
            bmcDataSetComparison(fm.records[k], fm.records[fm.best]) # A_better_then_B
=============================================================================
