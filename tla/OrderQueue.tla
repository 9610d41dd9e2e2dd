----------------------------- MODULE OrderQueue -----------------------------
(***************************************************************************)
(* What an order buffer promises its users: a bounded queue.  Orders come  *)
(* out in the order in which they went in, none is lost and none is        *)
(* handed out twice.                                                       *)
(***************************************************************************)
EXTENDS Naturals, Sequences

CONSTANTS Order, Capacity

VARIABLE queue

Init == queue = <<>>

Insert(o) ==
    /\ Len(queue) < Capacity
    /\ queue' = Append(queue, o)

Get ==
    /\ queue # <<>>
    /\ queue' = Tail(queue)

Next == Get \/ \E o \in Order : Insert(o)

Spec == Init /\ [][Next]_queue

=============================================================================
