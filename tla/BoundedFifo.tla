---------------------------- MODULE BoundedFifo ----------------------------
(***************************************************************************)
(* What a network queue promises: messages come out in the order in which  *)
(* they went in, none is lost, doubled or made up, and at most Limit wait. *)
(***************************************************************************)
EXTENDS Integers, Sequences

CONSTANTS Limit, Messages, None

VARIABLES
    fifo,   \* the messages that wait
    got     \* the message handed out last, or None

Init == fifo = <<>> /\ got = None

Put(m) ==
    /\ Len(fifo) < Limit
    /\ fifo' = Append(fifo, m)
    /\ UNCHANGED got

Get ==
    /\ fifo # <<>>
    /\ got' = Head(fifo)
    /\ fifo' = Tail(fifo)

GetNothing == fifo = <<>> /\ got' = None /\ UNCHANGED fifo

Release == got' = None /\ UNCHANGED fifo

Discard == fifo # <<>> /\ fifo' = Tail(fifo) /\ UNCHANGED got

Next == (\E m \in Messages : Put(m)) \/ Get \/ GetNothing \/ Release \/ Discard

Spec == Init /\ [][Next]_<<fifo, got>>
=============================================================================
