----------------------------- MODULE MCThreads -----------------------------
(***************************************************************************)
(* The four modules about threads that share data, side by side: a network *)
(* queue, the main loop, the transmit and the receive path.  A behaviour   *)
(* is one of one part; the other parts keep their initial states.  So the  *)
(* states are the sum, not the product, of those of the parts, and each    *)
(* property is checked of all behaviours of its part.                      *)
(***************************************************************************)
EXTENDS NetQueue, PtpThread, EthTx, EthRx

VARIABLE part

threadsVars == <<part, queueVars, threadVars, txVars, rxVars>>

Parts == {"queue", "thread", "tx", "rx"}

In(p) == part = p /\ UNCHANGED part

OnlyQueue  == In("queue")  /\ UNCHANGED <<threadVars, txVars, rxVars>>
OnlyThread == In("thread") /\ UNCHANGED <<queueVars, txVars, rxVars>>
OnlyTx     == In("tx")     /\ UNCHANGED <<queueVars, threadVars, rxVars>>
OnlyRx     == In("rx")     /\ UNCHANGED <<queueVars, threadVars, txVars>>

ThreadsInit == part \in Parts /\ QueueInit /\ ThreadInit /\ EthTxInit /\ EthRxInit

ThreadsNext ==
    \/ OnlyQueue /\ QueueNext
    \/ OnlyThread /\ ThreadNext
    \/ OnlyTx /\ EthTxNext
    \/ OnlyRx /\ EthRxNext

ThreadsSpec == ThreadsInit /\ [][ThreadsNext]_threadsVars

-----------------------------------------------------------------------------
(* Liveness of each part under the fairness that its module states.        *)

\* Every variable of every part has its type.
ThreadsTypeOK == QueueTypeOK /\ ThreadTypeOK /\ EthTxTypeOK /\ EthRxTypeOK

\* A UDP callback returns (NetQueue, CallbackReturns).
QueueCallbackReturns == part = "queue" /\ QueueFairness => CallbackReturns

\* The main loop handles every event message (PtpThread, EventsHandled).
LoopHandlesEvents == part = "thread" /\ ThreadFairness => EventsHandled

\* The transmit ring does not jam (EthTx, TxNeverJams).
TransmitNeverJams == part = "tx" /\ EthTxFairness => TxNeverJams
=============================================================================
