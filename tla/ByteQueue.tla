----------------------------- MODULE ByteQueue ------------------------------
(***************************************************************************)
(* What SPSCRingBuffer promises: a queue of at most Size - 1 bytes.  A     *)
(* write appends all its bytes at once or none, a read takes some bytes    *)
(* from the front.  Bytes are numbered in the order in which they are      *)
(* written; received is what the reader got.                               *)
(***************************************************************************)
EXTENDS Naturals, Sequences

CONSTANTS Size, MaxLen

VARIABLES queue, total, received

Init == queue = <<>> /\ total = 0 /\ received = <<>>

Write ==
    \E n \in 1 .. MaxLen :
        /\ Len(queue) + n <= Size - 1
        /\ queue' = queue \o [i \in 1 .. n |-> total + i]
        /\ total' = total + n
        /\ UNCHANGED received

Read ==
    \E n \in 1 .. Len(queue) :
        /\ queue' = SubSeq(queue, n + 1, Len(queue))
        /\ received' = received \o SubSeq(queue, 1, n)
        /\ UNCHANGED total

Next == Write \/ Read

Spec == Init /\ [][Next]_<<queue, total, received>>

=============================================================================
