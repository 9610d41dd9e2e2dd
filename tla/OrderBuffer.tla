---------------------------- MODULE OrderBuffer -----------------------------
(***************************************************************************)
(* The order buffers of game_data/writer/writer.cpp (writer orders and     *)
(* protocol orders) and game_data/reader/reader.cpp (reader orders): a     *)
(* cyclic array, two pointers that only grow, and the semaphores           *)
(* OrderBufferEmpty and OrderBufferFull.  Only the protocol buffer has     *)
(* several producers, and only it has a mutex around the insertion.        *)
(*                                                                         *)
(* The consumer is the writer, protocol or reader thread: it processes the *)
(* orders until it gets the TERMINATE order that exit_writer and           *)
(* exit_reader insert before they join the thread.                         *)
(***************************************************************************)
EXTENDS Integers, Sequences

CONSTANTS
    Producer, NoProducer,
    Capacity,           \* NARRAY(OrderBuffer)
    UseMutex,           \* TRUE for the protocol buffer
    MaxOrders           \* bound on the orders of one producer

ASSUME BufferAssumption ==
    /\ Capacity \in Nat \ {0}
    /\ UseMutex \in BOOLEAN
    /\ MaxOrders \in Nat
    /\ NoProducer \notin Producer
    /\ ~UseMutex => \A p, q \in Producer : p = q

VARIABLES
    OrderBuffer,
    OrderPointerWrite, OrderPointerRead,
    Empty, Full, Mutex,     \* values of the semaphores, holder of the mutex
    pc, order,              \* producers: control, the order at hand
    sent,                   \* producers: how many orders they have begun
    cpc, taken,             \* consumer: control, the order it has copied
    inserted, got           \* history: what went in, what came out

vars == <<OrderBuffer, OrderPointerWrite, OrderPointerRead, Empty, Full, Mutex,
          pc, order, sent, cpc, taken, inserted, got>>

\* An order is identified by its producer and its number; the last one a
\* producer sends asks the consumer to terminate.
NoOrder == <<NoProducer, 0>>
Order == Producer \X (1 .. MaxOrders)
IsTerminate(o) == o[2] = MaxOrders

TypeOK ==
    /\ OrderBuffer \in [0 .. Capacity - 1 -> Order \cup {NoOrder}]
    /\ OrderPointerWrite \in Nat /\ OrderPointerRead \in Nat
    /\ Empty \in 0 .. Capacity /\ Full \in 0 .. Capacity
    /\ Mutex \in Producer \cup {NoProducer}
    /\ pc \in [Producer -> {"idle", "lock", "empty", "write", "advance", "full", "unlock"}]
    /\ order \in [Producer -> Order \cup {NoOrder}]
    /\ sent \in [Producer -> 0 .. MaxOrders]
    /\ cpc \in {"full", "copy", "advance", "empty", "process", "done"}
    /\ taken \in Order \cup {NoOrder}
    /\ inserted \in Seq(Order)
    /\ got \in Seq(Order)

Init ==
    /\ OrderBuffer = [i \in 0 .. Capacity - 1 |-> NoOrder]
    /\ OrderPointerWrite = 0 /\ OrderPointerRead = 0
    /\ Empty = Capacity /\ Full = 0
    /\ Mutex = NoProducer
    /\ pc = [p \in Producer |-> "idle"]
    /\ order = [p \in Producer |-> NoOrder]
    /\ sent = [p \in Producer |-> 0]
    /\ cpc = "full" /\ taken = NoOrder
    /\ inserted = <<>> /\ got = <<>>

Goto(p, from, to) ==
    /\ pc[p] = from
    /\ pc' = [pc EXCEPT ![p] = to]

consumer == <<cpc, taken, got>>

-----------------------------------------------------------------------------
(* insert_order, insert_protocol_order                                     *)

StartInsert(p) ==
    /\ sent[p] < MaxOrders
    /\ Goto(p, "idle", IF UseMutex THEN "lock" ELSE "empty")
    /\ sent' = [sent EXCEPT ![p] = @ + 1]
    /\ order' = [order EXCEPT ![p] = <<p, sent[p] + 1>>]
    /\ UNCHANGED <<OrderBuffer, OrderPointerWrite, OrderPointerRead, Empty, Full, Mutex, inserted, consumer>>

\* Mutant: producers are not kept apart.
BugMutexDown(p) ==
    /\ Goto(p, "lock", "empty")
    /\ UNCHANGED <<OrderBuffer, OrderPointerWrite, OrderPointerRead, Empty, Full, Mutex, order, sent, inserted, consumer>>

MutexDown(p) ==
    /\ Goto(p, "lock", "empty")
    /\ Mutex = NoProducer
    /\ Mutex' = p
    /\ UNCHANGED <<OrderBuffer, OrderPointerWrite, OrderPointerRead, Empty, Full, order, sent, inserted, consumer>>

\* Mutant: the producer does not wait for a free cell.
BugEmptyDown(p) ==
    /\ Goto(p, "empty", "write")
    /\ Empty' = IF Empty > 0 THEN Empty - 1 ELSE Empty
    /\ UNCHANGED <<OrderBuffer, OrderPointerWrite, OrderPointerRead, Full, Mutex, order, sent, inserted, consumer>>

EmptyDown(p) ==
    /\ Goto(p, "empty", "write")
    /\ Empty > 0
    /\ Empty' = Empty - 1
    /\ UNCHANGED <<OrderBuffer, OrderPointerWrite, OrderPointerRead, Full, Mutex, order, sent, inserted, consumer>>

WriteCell(p) ==
    /\ Goto(p, "write", "advance")
    /\ OrderBuffer' = [OrderBuffer EXCEPT ![OrderPointerWrite % Capacity] = order[p]]
    /\ UNCHANGED <<OrderPointerWrite, OrderPointerRead, Empty, Full, Mutex, order, sent, inserted, consumer>>

AdvanceWrite(p) ==
    /\ Goto(p, "advance", "full")
    /\ OrderPointerWrite' = OrderPointerWrite + 1
    /\ inserted' = Append(inserted, order[p])
    /\ UNCHANGED <<OrderBuffer, OrderPointerRead, Empty, Full, Mutex, order, sent, consumer>>

FullUp(p) ==
    /\ Goto(p, "full", IF UseMutex THEN "unlock" ELSE "idle")
    /\ Full' = Full + 1
    /\ UNCHANGED <<OrderBuffer, OrderPointerWrite, OrderPointerRead, Empty, Mutex, order, sent, inserted, consumer>>

MutexUp(p) ==
    /\ Goto(p, "unlock", "idle")
    /\ Mutex' = NoProducer
    /\ UNCHANGED <<OrderBuffer, OrderPointerWrite, OrderPointerRead, Empty, Full, order, sent, inserted, consumer>>

Insert(p) ==
    MutexDown(p) \/ EmptyDown(p) \/ WriteCell(p) \/ AdvanceWrite(p) \/ FullUp(p) \/ MutexUp(p)

-----------------------------------------------------------------------------
(* get_order, get_protocol_order and the loop of the thread                *)

producers == <<OrderBuffer, OrderPointerWrite, Mutex, pc, order, sent, inserted>>

\* Mutant: the consumer does not wait for an order.
BugFullDown ==
    /\ cpc = "full" /\ cpc' = "copy"
    /\ Full' = IF Full > 0 THEN Full - 1 ELSE Full
    /\ UNCHANGED <<producers, OrderPointerRead, Empty, taken, got>>

FullDown ==
    /\ cpc = "full" /\ cpc' = "copy"
    /\ Full > 0
    /\ Full' = Full - 1
    /\ UNCHANGED <<producers, OrderPointerRead, Empty, taken, got>>

CopyCell ==
    /\ cpc = "copy" /\ cpc' = "advance"
    /\ taken' = OrderBuffer[OrderPointerRead % Capacity]
    /\ UNCHANGED <<producers, OrderPointerRead, Empty, Full, got>>

AdvanceRead ==
    /\ cpc = "advance" /\ cpc' = "empty"
    /\ OrderPointerRead' = OrderPointerRead + 1
    /\ UNCHANGED <<producers, Empty, Full, taken, got>>

\* Mutant: the consumer does not give the cell back.
BugEmptyUp ==
    /\ cpc = "empty" /\ cpc' = "process"
    /\ UNCHANGED <<producers, OrderPointerRead, Empty, Full, taken, got>>

EmptyUp ==
    /\ cpc = "empty" /\ cpc' = "process"
    /\ Empty' = Empty + 1
    /\ UNCHANGED <<producers, OrderPointerRead, Full, taken, got>>

\* The thread ends with the terminate order.
Process ==
    /\ cpc = "process"
    /\ cpc' = IF IsTerminate(taken) THEN "done" ELSE "full"
    /\ got' = Append(got, taken)
    /\ UNCHANGED <<producers, OrderPointerRead, Empty, Full, taken>>

Consume == FullDown \/ CopyCell \/ AdvanceRead \/ EmptyUp \/ Process

-----------------------------------------------------------------------------
Next == Consume \/ \E p \in Producer : StartInsert(p) \/ Insert(p)

Spec == Init /\ [][Next]_vars

\* Threads that have begun an operation go on, and the semaphores are fair.
Fairness ==
    /\ WF_vars(Consume)
    /\ \A p \in Producer : WF_vars(Insert(p)) /\ SF_vars(MutexDown(p)) /\ SF_vars(EmptyDown(p))

FairSpec == Spec /\ Fairness

-----------------------------------------------------------------------------
\* The cell a producer is about to fill is not the one the consumer is about
\* to copy, and no two producers fill cells at the same time: the array is
\* accessed without a lock, so this is what makes the accesses safe.
NoCellRace ==
    \A p \in Producer : pc[p] \in {"write", "advance"} =>
        /\ cpc = "copy" => OrderPointerRead % Capacity # OrderPointerWrite % Capacity
        /\ \A q \in Producer \ {p} : pc[q] \notin {"write", "advance", "full"}

\* The consumer gets the orders in the order of insertion, each once, and the
\* very contents that were inserted.
DeliveredInOrder ==
    /\ Len(got) <= Len(inserted)
    /\ \A i \in 1 .. Len(got) : got[i] = inserted[i]

\* The buffer implements a bounded FIFO queue.
Pending == SubSeq(inserted, OrderPointerRead + 1, OrderPointerWrite)
Queue == INSTANCE OrderQueue WITH queue <- Pending
ImplementsQueue == Queue!Spec

InsertReturns == \A p \in Producer : pc[p] # "idle" ~> pc[p] = "idle" \/ cpc = "done"
Terminates == (\E p \in Producer : sent[p] = MaxOrders) ~> cpc = "done"

\* Nobody waits for anybody forever: an insertion that has begun ends, even with
\* a full buffer, as long as the consumer runs; and the consumer processes
\* everything that was inserted before TERMINATE and then ends, so that
\* exit_writer and exit_reader return.
OrdersServed == InsertReturns /\ Terminates

=============================================================================
