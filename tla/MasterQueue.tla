---------------------------- MODULE MasterQueue ----------------------------
(***************************************************************************)
(* What the table of foreign masters promises: a queue of at most Capacity *)
(* data sets, one for each port, in the order in which the ports were      *)
(* first heard.  A port that is heard again has its data set refreshed in  *)
(* place; a new one enters at the end and, if need be, drives out the      *)
(* first.  Silence forgets them all.                                       *)
(***************************************************************************)
EXTENDS Integers, Sequences

CONSTANTS Capacity, Announces

VARIABLE queue

Init == queue = <<>>

Refresh(d) ==
    \E k \in DOMAIN queue :
        /\ queue[k].src = d.src
        /\ queue' = [queue EXCEPT ![k] = d]

Enter(d) ==
    /\ \A k \in DOMAIN queue : queue[k].src # d.src
    /\ queue' = Append(IF Len(queue) < Capacity THEN queue ELSE Tail(queue), d)

Forget == queue' = <<>>

Next == Forget \/ \E d \in Announces : Refresh(d) \/ Enter(d)

Spec == Init /\ [][Next]_queue
=============================================================================
