------------------------- MODULE OrderBufferProofs --------------------------
(***************************************************************************)
(* Proofs about OrderBuffer for every number of producers, every capacity  *)
(* and every number of orders.  The safety properties are not inductive:   *)
(* they rest on what the two semaphores count, which IInv states exactly.  *)
(***************************************************************************)
EXTENDS OrderBuffer, SequenceTheorems, TLAPS

Bit(b) == IF b THEN 1 ELSE 0

\* Producers that hold the mutex, or the only producer at work.
Inside(p) == pc[p] \in {"empty", "write", "advance", "full", "unlock"}
Writing == \E p \in Producer : pc[p] \in {"write", "advance"}
Filling == \E p \in Producer : pc[p] = "full"

\* At most one producer is inside.
OneInside ==
    /\ \A p \in Producer : UseMutex /\ Inside(p) => Mutex = p
    /\ \A p \in Producer : pc[p] \in {"lock", "unlock"} => UseMutex

\* OrderBufferEmpty counts the free cells, OrderBufferFull the filled ones,
\* except for the cell a thread is working on.
Counts ==
    /\ Empty + (OrderPointerWrite - OrderPointerRead) + Bit(Writing) + Bit(cpc = "empty") = Capacity
    /\ Full + Bit(Filling) + Bit(cpc \in {"copy", "advance"}) = OrderPointerWrite - OrderPointerRead

\* The cells between the pointers hold the orders not yet taken.
Contents ==
    /\ Len(inserted) = OrderPointerWrite
    /\ \A i \in Nat : OrderPointerRead <= i /\ i < OrderPointerWrite
          => OrderBuffer[i % Capacity] = inserted[i + 1]
    /\ \A p \in Producer : pc[p] # "idle" => order[p] \in Order
    /\ \A p \in Producer : pc[p] = "advance" => OrderBuffer[OrderPointerWrite % Capacity] = order[p]

\* What the consumer has taken is next in the order of insertion.
Delivery ==
    /\ cpc = "advance" => taken = inserted[OrderPointerRead + 1]
    /\ cpc \in {"empty", "process"} => OrderPointerRead > 0 /\ taken = inserted[OrderPointerRead]
    /\ Len(got) = OrderPointerRead - Bit(cpc \in {"empty", "process"})
    /\ \A i \in 1 .. Len(got) : got[i] = inserted[i]

IInv == TypeOK /\ OneInside /\ Counts /\ Contents /\ Delivery

-----------------------------------------------------------------------------
(* Arithmetic of the cyclic array.                                         *)

\* Two positions less than a turn apart are different cells.
LEMMA ModDistinct ==
  ASSUME NEW N \in Nat \ {0}, NEW a \in Nat, NEW b \in Nat, a < b, b < a + N
  PROVE  a % N # b % N
<1> SUFFICES ASSUME a % N = b % N PROVE FALSE
  OBVIOUS
<1> DEFINE k == (b \div N) - (a \div N)
<1>1. a = N * (a \div N) + (a % N) /\ b = N * (b \div N) + (b % N)
  OBVIOUS
<1>2. (a \div N) \in Int /\ (b \div N) \in Int /\ k \in Int
  OBVIOUS
<1>3. b - a = N * k
  BY <1>1, <1>2, Z3
<1>4. CASE k <= 0
  <2>1. N * k <= 0
    BY <1>2, <1>4
  <2> QED
    BY <1>3, <2>1
<1>5. CASE k >= 1
  <2>1. N * k >= N
    BY <1>2, <1>5
  <2> QED
    BY <1>3, <2>1
<1> QED
  BY <1>2, <1>4, <1>5

\* A position modulo the capacity is a cell.
LEMMA ModRange ==
  ASSUME NEW N \in Nat \ {0}, NEW a \in Nat
  PROVE  a % N \in 0 .. N - 1
OBVIOUS

-----------------------------------------------------------------------------
\* The buffer starts empty with all cells free.
LEMMA InitIInv == Init => IInv
<1> SUFFICES ASSUME Init PROVE IInv
  OBVIOUS
<1> USE BufferAssumption DEF Init
<1>1. TypeOK
  BY DEF TypeOK
<1>2. OneInside
  BY DEF OneInside, Inside
<1>3. Counts
  <2>1. ~Writing /\ ~Filling
    BY DEF Writing, Filling
  <2> QED
    BY <2>1 DEF Counts, Bit
<1>4. Contents
  BY DEF Contents
<1>5. Delivery
  <2>1. Len(got) = 0 /\ 1 .. 0 = {}
    OBVIOUS
  <2>2. Bit(cpc \in {"empty", "process"}) = 0
    BY DEF Bit
  <2> QED
    BY <2>1, <2>2 DEF Delivery
<1> QED
  BY <1>1, <1>2, <1>3, <1>4, <1>5 DEF IInv

\* Two producers inside the critical section are the same one.
LEMMA OnlyOne ==
  ASSUME OneInside, NEW p \in Producer, NEW q \in Producer, Inside(p), Inside(q)
  PROVE  p = q
  BY BufferAssumption DEF OneInside

\* While a producer is inside, Writing and Filling are about its own control.
LEMMA InsideAlone ==
  ASSUME OneInside, NEW p \in Producer, Inside(p)
  PROVE  /\ Writing <=> pc[p] \in {"write", "advance"}
         /\ Filling <=> pc[p] = "full"
  BY OnlyOne DEF Writing, Filling, Inside

\* What every action of a producer p does to the control state.
LEMMA ProducerMoves ==
  ASSUME TypeOK, OneInside, NEW p \in Producer, Inside(p), OneInside',
         NEW l, pc' = [pc EXCEPT ![p] = l], Inside(p)'
  PROVE  /\ Writing' <=> l \in {"write", "advance"}
         /\ Filling' <=> l = "full"
<1>1. pc'[p] = l /\ \A q \in Producer : q # p => pc'[q] = pc[q]
  BY DEF TypeOK
<1>2. \A q \in Producer : q # p => ~Inside(q)
  BY OnlyOne
<1> QED
  BY <1>1, <1>2 DEF Writing, Filling, Inside

\* A producer enters insert_order.
LEMMA StartInsertInv ==
  ASSUME IInv, NEW p \in Producer, StartInsert(p) PROVE IInv'
<1> USE BufferAssumption DEF IInv, StartInsert, Goto, consumer
<1>1. TypeOK'
  BY DEF TypeOK, Order
<1>2. OneInside'
  BY DEF TypeOK, OneInside, Inside
<1>3. Counts'
  <2>1. (Writing' <=> Writing) /\ (Filling' <=> Filling)
    BY DEF TypeOK, Writing, Filling
  <2> QED
    BY <2>1 DEF Counts, Bit
<1>4. Contents'
  BY DEF TypeOK, Contents, Order
<1>5. Delivery'
  BY DEF Delivery, Bit
<1> QED
  BY <1>1, <1>2, <1>3, <1>4, <1>5

\* ProtocolMutex.down()
LEMMA MutexDownInv ==
  ASSUME IInv, NEW p \in Producer, MutexDown(p) PROVE IInv'
<1> USE BufferAssumption DEF IInv, MutexDown, Goto, consumer
<1>1. TypeOK'
  BY DEF TypeOK
<1>2. OneInside'
  BY DEF TypeOK, OneInside, Inside
<1>3. Counts'
  <2>1. (Writing' <=> Writing) /\ (Filling' <=> Filling)
    BY DEF TypeOK, Writing, Filling
  <2> QED
    BY <2>1 DEF Counts, Bit
<1>4. Contents'
  BY DEF TypeOK, Contents
<1>5. Delivery'
  BY DEF Delivery, Bit
<1> QED
  BY <1>1, <1>2, <1>3, <1>4, <1>5

\* OrderBufferEmpty.down()
LEMMA EmptyDownInv ==
  ASSUME IInv, NEW p \in Producer, EmptyDown(p) PROVE IInv'
<1> USE BufferAssumption DEF IInv, EmptyDown, Goto, consumer
<1>1. TypeOK'
  BY DEF TypeOK
<1>2. OneInside' /\ Inside(p) /\ Inside(p)'
  BY DEF TypeOK, OneInside, Inside
<1>3. Counts'
  <2>1. ~Writing /\ Writing' /\ ~Filling /\ ~Filling'
    BY <1>2, InsideAlone, ProducerMoves
  <2> QED
    BY <2>1 DEF Counts, Bit, TypeOK
<1>4. Contents'
  BY DEF TypeOK, Contents
<1>5. Delivery'
  BY DEF Delivery, Bit
<1> QED
  BY <1>1, <1>2, <1>3, <1>4, <1>5

\* The cell written to is none of those that wait for the consumer.
LEMMA WriteCellInv ==
  ASSUME IInv, NEW p \in Producer, WriteCell(p) PROVE IInv'
<1> USE BufferAssumption DEF IInv, WriteCell, Goto, consumer
<1>1. TypeOK'
  BY ModRange DEF TypeOK, Contents
<1>2. OneInside' /\ Inside(p) /\ Inside(p)'
  BY DEF TypeOK, OneInside, Inside
<1>3. Writing /\ Writing' /\ ~Filling /\ ~Filling'
  BY <1>2, InsideAlone, ProducerMoves
<1>4. Counts'
  BY <1>3 DEF Counts, Bit, TypeOK
<1>5. OrderPointerWrite < OrderPointerRead + Capacity
  BY <1>3 DEF Counts, Bit, TypeOK
<1>6. Contents'
  <2>1. ASSUME NEW i \in Nat, OrderPointerRead <= i, i < OrderPointerWrite
        PROVE  OrderBuffer'[i % Capacity] = inserted[i + 1]
    <3>0. OrderPointerWrite \in Nat /\ OrderPointerWrite < i + Capacity /\ Capacity \in Nat \ {0}
      BY <1>5, <2>1 DEF TypeOK
    <3>1. i % Capacity # OrderPointerWrite % Capacity
      BY <2>1, <3>0, ModDistinct, Zenon
    <3>2. i % Capacity \in 0 .. Capacity - 1
      BY ModRange
    <3>3. OrderBuffer'[i % Capacity] = OrderBuffer[i % Capacity]
      BY <3>1, <3>2 DEF TypeOK
    <3> QED
      BY <2>1, <3>3 DEF Contents
  <2>2. ASSUME NEW q \in Producer, pc'[q] = "advance"
        PROVE  OrderBuffer'[OrderPointerWrite % Capacity] = order[q]
    <3>1. q = p
      BY <1>2, <2>2, OnlyOne DEF TypeOK, Inside
    <3> QED
      BY <3>1, ModRange DEF TypeOK
  <2> QED
    BY <2>1, <2>2 DEF TypeOK, Contents
<1>7. Delivery'
  BY DEF Delivery, Bit
<1> QED
  BY <1>1, <1>2, <1>4, <1>6, <1>7

\* OrderPointerWrite += 1
LEMMA AdvanceWriteInv ==
  ASSUME IInv, NEW p \in Producer, AdvanceWrite(p) PROVE IInv'
<1> USE BufferAssumption DEF IInv, AdvanceWrite, Goto, consumer
<1>1. order[p] \in Order
  BY DEF Contents
<1>2. TypeOK'
  BY <1>1 DEF TypeOK
<1>3. OneInside' /\ Inside(p) /\ Inside(p)'
  BY DEF TypeOK, OneInside, Inside
<1>4. Writing /\ ~Writing' /\ ~Filling /\ Filling'
  BY <1>3, InsideAlone, ProducerMoves
<1>5. Counts'
  BY <1>4 DEF Counts, Bit, TypeOK
<1>6. /\ Len(inserted') = OrderPointerWrite + 1
      /\ inserted'[OrderPointerWrite + 1] = order[p]
      /\ \A i \in 1 .. OrderPointerWrite : inserted'[i] = inserted[i]
  <2>1. inserted \in Seq(Order) /\ Len(inserted) = OrderPointerWrite
    BY DEF TypeOK, Contents
  <2>2. inserted' = Append(inserted, order[p])
    OBVIOUS
  <2> QED
    BY <1>1, <2>1, <2>2, AppendProperties
<1>7. Contents'
  <2>1. ASSUME NEW i \in Nat, OrderPointerRead <= i, i < OrderPointerWrite + 1
        PROVE  OrderBuffer[i % Capacity] = inserted'[i + 1]
    <3>1. CASE i = OrderPointerWrite
      BY <1>6, <3>1 DEF Contents
    <3>2. CASE i < OrderPointerWrite
      <4>1. i + 1 \in 1 .. OrderPointerWrite
        BY <3>2 DEF TypeOK
      <4> QED
        BY <1>6, <2>1, <3>2, <4>1, Zenon DEF Contents
    <3>3. i = OrderPointerWrite \/ i < OrderPointerWrite
      BY <2>1 DEF TypeOK
    <3> QED
      BY <3>1, <3>2, <3>3
  <2>2. ASSUME NEW q \in Producer PROVE pc'[q] # "advance"
    BY <1>3, OnlyOne DEF TypeOK, Inside
  <2> QED
    BY <1>6, <2>1, <2>2 DEF TypeOK, Contents
<1>8. OrderPointerWrite - OrderPointerRead >= 0
        /\ (cpc \in {"copy", "advance"} => OrderPointerRead < OrderPointerWrite)
  BY DEF Counts, Bit, TypeOK
<1>9. Delivery'
  <2>1. Len(got) <= OrderPointerWrite
    BY <1>8 DEF Delivery, Bit, TypeOK
  <2> QED
    BY <1>6, <1>8, <2>1 DEF Delivery, Bit, TypeOK
<1> QED
  BY <1>2, <1>3, <1>5, <1>7, <1>9

\* OrderBufferFull.up()
LEMMA FullUpInv ==
  ASSUME IInv, NEW p \in Producer, FullUp(p) PROVE IInv'
<1> USE BufferAssumption DEF IInv, FullUp, Goto, consumer
<1>1. OneInside' /\ Inside(p)
  BY DEF TypeOK, OneInside, Inside
<1>2. ~Writing /\ Filling
  BY <1>1, InsideAlone
<1>3. ~Writing' /\ ~Filling'
  <2>1. \A q \in Producer : q # p => ~Inside(q)
    BY <1>1, OnlyOne
  <2>2. \A q \in Producer : pc'[q] \notin {"write", "advance", "full"}
    BY <2>1 DEF TypeOK, Inside
  <2> QED
    BY <2>2 DEF Writing, Filling
<1>4. Counts'
  BY <1>2, <1>3 DEF Counts, Bit, TypeOK
<1>5. TypeOK'
  <2>1. Full' \in 0 .. Capacity
    BY <1>2 DEF Counts, Bit, TypeOK
  <2> QED
    BY <2>1 DEF TypeOK
<1>6. Contents'
  BY DEF TypeOK, Contents
<1>7. Delivery'
  BY DEF Delivery, Bit
<1> QED
  BY <1>1, <1>4, <1>5, <1>6, <1>7

\* ProtocolMutex.up()
LEMMA MutexUpInv ==
  ASSUME IInv, NEW p \in Producer, MutexUp(p) PROVE IInv'
<1> USE BufferAssumption DEF IInv, MutexUp, Goto, consumer
<1>1. TypeOK'
  BY DEF TypeOK
<1>2. Inside(p)
  BY DEF Inside
<1>3. \A q \in Producer : q # p => ~Inside(q)
  BY <1>2, OnlyOne
<1>4. OneInside'
  BY <1>3 DEF TypeOK, OneInside, Inside
<1>5. Counts'
  <2>1. (Writing' <=> Writing) /\ (Filling' <=> Filling)
    BY DEF TypeOK, Writing, Filling
  <2> QED
    BY <2>1 DEF Counts, Bit
<1>6. Contents'
  BY DEF TypeOK, Contents
<1>7. Delivery'
  BY DEF Delivery, Bit
<1> QED
  BY <1>1, <1>4, <1>5, <1>6, <1>7

-----------------------------------------------------------------------------
(* The consumer.                                                           *)

\* A step of the consumer leaves the producers and the cells alone.
LEMMA ConsumerLeaves ==
  ASSUME OneInside, Contents, UNCHANGED producers,
         OrderPointerRead \in Nat, OrderPointerRead' \in Nat, OrderPointerRead <= OrderPointerRead'
  PROVE  OneInside' /\ Contents' /\ Writing' = Writing /\ Filling' = Filling
<1>1. OneInside' /\ Writing' = Writing /\ Filling' = Filling
  BY DEF producers, OneInside, Inside, Writing, Filling
<1>2. \A i \in Nat : OrderPointerRead' <= i => OrderPointerRead <= i
  OBVIOUS
<1>3. Contents'
  BY <1>2, Zenon DEF producers, Contents
<1> QED
  BY <1>1, <1>3

\* OrderBufferFull.down()
LEMMA FullDownInv ==
  ASSUME IInv, FullDown PROVE IInv'
<1> USE BufferAssumption DEF IInv, FullDown
<1>1. TypeOK'
  BY DEF TypeOK, producers
<1>2. OneInside' /\ Contents' /\ Writing' = Writing /\ Filling' = Filling
  BY ConsumerLeaves DEF TypeOK
<1>3. Counts'
  BY <1>2 DEF Counts, Bit, TypeOK, producers
<1>4. Delivery'
  BY DEF Delivery, Bit, producers
<1> QED
  BY <1>1, <1>2, <1>3, <1>4

\* The oldest cell is not empty, so it holds the next order.
LEMMA CopyCellInv ==
  ASSUME IInv, CopyCell PROVE IInv'
<1> USE BufferAssumption DEF IInv, CopyCell
<1>1. TypeOK'
  BY ModRange DEF TypeOK, producers
<1>2. OneInside' /\ Contents' /\ Writing' = Writing /\ Filling' = Filling
  BY ConsumerLeaves DEF TypeOK
<1>3. Counts'
  BY <1>2 DEF Counts, Bit, TypeOK, producers
<1>4. OrderPointerRead < OrderPointerWrite
  BY DEF Counts, Bit, TypeOK
<1>5. taken' = inserted[OrderPointerRead + 1]
  <2>1. OrderPointerRead \in Nat /\ OrderPointerRead <= OrderPointerRead
    BY DEF TypeOK
  <2> QED
    BY <1>4, <2>1, Zenon DEF Contents
<1>6. Delivery'
  BY <1>5 DEF Delivery, Bit, producers
<1> QED
  BY <1>1, <1>2, <1>3, <1>6

\* OrderPointerRead += 1
LEMMA AdvanceReadInv ==
  ASSUME IInv, AdvanceRead PROVE IInv'
<1> USE BufferAssumption DEF IInv, AdvanceRead
<1>1. TypeOK'
  BY DEF TypeOK, producers
<1>2. OneInside' /\ Contents' /\ Writing' = Writing /\ Filling' = Filling
  BY ConsumerLeaves DEF TypeOK
<1>3. Counts'
  BY <1>2 DEF Counts, Bit, TypeOK, producers
<1>4. Delivery'
  BY DEF Delivery, Bit, TypeOK, producers
<1> QED
  BY <1>1, <1>2, <1>3, <1>4

\* OrderBufferEmpty.up()
LEMMA EmptyUpInv ==
  ASSUME IInv, EmptyUp PROVE IInv'
<1> USE BufferAssumption DEF IInv, EmptyUp
<1>1. OneInside' /\ Contents' /\ Writing' = Writing /\ Filling' = Filling
  BY ConsumerLeaves DEF TypeOK
<1>2. Counts'
  BY <1>1 DEF Counts, Bit, TypeOK, producers
<1>3. TypeOK'
  <2>1. Empty' \in 0 .. Capacity
    BY DEF Counts, Bit, TypeOK
  <2> QED
    BY <2>1 DEF TypeOK, producers
<1>4. Delivery'
  BY DEF Delivery, Bit, TypeOK, producers
<1> QED
  BY <1>1, <1>2, <1>3, <1>4

\* The thread processes the order it has copied.
LEMMA ProcessInv ==
  ASSUME IInv, Process PROVE IInv'
<1> USE BufferAssumption DEF IInv, Process
<1>1. OneInside' /\ Contents' /\ Writing' = Writing /\ Filling' = Filling
  BY ConsumerLeaves DEF TypeOK
<1>2. Counts'
  BY <1>1 DEF Counts, Bit, TypeOK, producers
<1>3. OrderPointerRead <= OrderPointerWrite
  BY DEF Counts, Bit, TypeOK
<1>4. /\ inserted \in Seq(Order) /\ got \in Seq(Order)
      /\ OrderPointerRead \in 1 .. Len(inserted)
      /\ taken = inserted[OrderPointerRead]
      /\ Len(got) = OrderPointerRead - 1
  BY <1>3 DEF TypeOK, Contents, Delivery, Bit
<1>5. taken \in Order
  BY <1>4, ElementOfSeq
<1>6. TypeOK'
  BY <1>5 DEF TypeOK, producers
<1>7. /\ Len(got') = OrderPointerRead
      /\ got'[OrderPointerRead] = taken
      /\ \A i \in 1 .. OrderPointerRead - 1 : got'[i] = got[i]
  <2>1. got' = Append(got, taken)
    OBVIOUS
  <2>2. Len(got) + 1 = OrderPointerRead
    BY <1>4
  <2> QED
    BY <1>4, <1>5, <2>1, <2>2, AppendProperties
<1>8. \A i \in 1 .. Len(got') : got'[i] = inserted'[i]
  <2> SUFFICES ASSUME NEW i \in 1 .. OrderPointerRead PROVE got'[i] = inserted[i]
    BY <1>7 DEF producers
  <2>1. i = OrderPointerRead \/ i \in 1 .. OrderPointerRead - 1
    BY <1>4
  <2> QED
    BY <1>4, <1>7, <2>1 DEF Delivery
<1>9. Delivery'
  <2>1. cpc' \notin {"advance", "empty", "process"} /\ OrderPointerRead' = OrderPointerRead
    OBVIOUS
  <2>2. OrderPointerRead \in Nat
    BY DEF TypeOK
  <2> QED
    BY <1>7, <1>8, <2>1, <2>2 DEF Delivery, Bit
<1> QED
  BY <1>1, <1>2, <1>6, <1>9

-----------------------------------------------------------------------------
\* Every step keeps the invariant.
LEMMA NextIInv == IInv /\ [Next]_vars => IInv'
<1> SUFFICES ASSUME IInv, [Next]_vars PROVE IInv'
  OBVIOUS
<1>1. CASE Consume
  BY <1>1, FullDownInv, CopyCellInv, AdvanceReadInv, EmptyUpInv, ProcessInv DEF Consume
<1>2. ASSUME NEW p \in Producer, StartInsert(p) PROVE IInv'
  BY <1>2, StartInsertInv
<1>3. ASSUME NEW p \in Producer, Insert(p) PROVE IInv'
  BY <1>3, MutexDownInv, EmptyDownInv, WriteCellInv, AdvanceWriteInv, FullUpInv, MutexUpInv
     DEF Insert
<1>4. CASE UNCHANGED vars
  BY <1>4 DEF vars, IInv, TypeOK, OneInside, Inside, Counts, Bit, Writing, Filling, Contents,
     Delivery
<1> QED
  BY <1>1, <1>2, <1>3, <1>4 DEF Next

\* The inductive invariant: what the semaphores count, what the cells hold.
THEOREM Invariance == Spec => []IInv
  BY InitIInv, NextIInv, PTL DEF Spec

\* Type correctness; in particular the semaphores stay within the capacity.
THEOREM TypeCorrect == Spec => []TypeOK
<1>1. IInv => TypeOK
  BY DEF IInv
<1> QED
  BY <1>1, Invariance, PTL

\* The producer never writes the cell that is being copied, and producers
\* never write at the same time, for every capacity and number of producers.
THEOREM CellsNotShared == Spec => []NoCellRace
<1>1. IInv => NoCellRace
  <2> SUFFICES ASSUME IInv, NEW p \in Producer, pc[p] \in {"write", "advance"}
               PROVE  /\ cpc = "copy" => OrderPointerRead % Capacity # OrderPointerWrite % Capacity
                      /\ \A q \in Producer \ {p} : pc[q] \notin {"write", "advance", "full"}
    BY DEF NoCellRace
  <2> USE DEF IInv
  <2>1. \A q \in Producer \ {p} : pc[q] \notin {"write", "advance", "full"}
    BY OnlyOne DEF Inside
  <2>2. ASSUME cpc = "copy" PROVE OrderPointerRead % Capacity # OrderPointerWrite % Capacity
    <3>1. Writing
      BY DEF Writing
    <3>2. /\ OrderPointerRead \in Nat /\ OrderPointerWrite \in Nat /\ Capacity \in Nat \ {0}
          /\ OrderPointerRead < OrderPointerWrite
          /\ OrderPointerWrite < OrderPointerRead + Capacity
      BY <2>2, <3>1, BufferAssumption DEF Counts, Bit, TypeOK
    <3> QED
      BY <3>2, ModDistinct, Zenon
  <2> QED
    BY <2>1, <2>2
<1> QED
  BY <1>1, Invariance, PTL

\* The consumer gets exactly what was inserted, in the order of insertion.
THEOREM Delivered == Spec => []DeliveredInOrder
<1>1. IInv => DeliveredInOrder
  <2> SUFFICES ASSUME IInv PROVE DeliveredInOrder
    OBVIOUS
  <2>1. Len(got) <= OrderPointerRead /\ OrderPointerRead <= Len(inserted)
    BY DEF IInv, TypeOK, Counts, Bit, Contents, Delivery
  <2>2. Len(got) \in Nat /\ Len(inserted) \in Nat /\ OrderPointerRead \in Nat
    BY LenProperties DEF IInv, TypeOK
  <2> QED
    BY <2>1, <2>2 DEF IInv, Delivery, DeliveredInOrder
<1> QED
  BY <1>1, Invariance, PTL

-----------------------------------------------------------------------------
(* Refinement: the orders between the pointers are a queue.                *)

\* A suffix of a longer sequence is the longer suffix.
LEMMA SuffixAppend ==
  ASSUME NEW S, NEW s \in Seq(S), NEW e \in S, NEW r \in 0 .. Len(s)
  PROVE  SubSeq(Append(s, e), r + 1, Len(s) + 1) = Append(SubSeq(s, r + 1, Len(s)), e)
<1> DEFINE n == Len(s)
           x == Append(s, e)
           a == SubSeq(x, r + 1, n + 1)
           b == SubSeq(s, r + 1, n)
<1>1. n \in Nat /\ r \in Nat /\ r <= n
  BY LenProperties
<1>2. /\ x \in Seq(S)
      /\ Len(x) = n + 1
      /\ \A i \in 1 .. n : x[i] = s[i]
      /\ x[n + 1] = e
  BY AppendProperties
<1> HIDE DEF n, x
<1>3. a \in Seq(S) /\ Len(a) = n - r + 1 /\ \A i \in 1 .. n - r + 1 : a[i] = x[r + i]
  <2>1. \A i \in r + 1 .. n + 1 : x[i] \in S
    <3> SUFFICES ASSUME NEW i \in r + 1 .. n + 1 PROVE x[i] \in S
      OBVIOUS
    <3>1. i \in 1 .. n + 1
      BY <1>1
    <3> QED
      BY <1>2, <3>1, ElementOfSeq
  <2>2. r + 1 \in Int /\ n + 1 \in Int
    BY <1>1
  <2>3. /\ a \in Seq(S)
        /\ Len(a) = IF r + 1 <= n + 1 THEN (n + 1) - (r + 1) + 1 ELSE 0
        /\ \A i \in 1 .. (n + 1) - (r + 1) + 1 : a[i] = x[(r + 1) + i - 1]
    BY <2>1, <2>2, SubSeqProperties
  <2> HIDE DEF a
  <2>4. (n + 1) - (r + 1) + 1 = n - r + 1
    BY <1>1
  <2>5. \A i \in 1 .. n - r + 1 : (r + 1) + i - 1 = r + i
    BY <1>1
  <2>6. r + 1 <= n + 1
    BY <1>1
  <2> QED
    BY <2>3, <2>4, <2>5, <2>6
<1>4. b \in Seq(S) /\ Len(b) = n - r /\ \A i \in 1 .. n - r : b[i] = s[r + i]
  <2>1. \A i \in r + 1 .. n : s[i] \in S
    <3> SUFFICES ASSUME NEW i \in r + 1 .. n PROVE s[i] \in S
      OBVIOUS
    <3>1. i \in 1 .. Len(s)
      BY <1>1 DEF n
    <3> QED
      BY <3>1, ElementOfSeq
  <2>2. r + 1 \in Int /\ n \in Int
    BY <1>1
  <2>3. /\ b \in Seq(S)
        /\ Len(b) = IF r + 1 <= n THEN n - (r + 1) + 1 ELSE 0
        /\ \A i \in 1 .. n - (r + 1) + 1 : b[i] = s[(r + 1) + i - 1]
    BY <2>1, <2>2, SubSeqProperties
  <2> HIDE DEF b
  <2>4. n - (r + 1) + 1 = n - r
    BY <1>1
  <2>5. \A i \in 1 .. n - r : (r + 1) + i - 1 = r + i
    BY <1>1
  <2> QED
    BY <1>1, <2>3, <2>4, <2>5
<1> HIDE DEF a, b
<1>5. /\ Append(b, e) \in Seq(S)
      /\ Len(Append(b, e)) = n - r + 1
      /\ \A i \in 1 .. n - r : Append(b, e)[i] = b[i]
      /\ Append(b, e)[n - r + 1] = e
  BY <1>4, AppendProperties
<1>6. \A i \in 1 .. Len(a) : a[i] = Append(b, e)[i]
  <2> SUFFICES ASSUME NEW i \in 1 .. n - r + 1 PROVE a[i] = Append(b, e)[i]
    BY <1>3
  <2>1. CASE i = n - r + 1
    <3>1. r + i = n + 1
      BY <1>1, <2>1
    <3> QED
      BY <1>2, <1>3, <1>5, <2>1, <3>1
  <2>2. CASE i \in 1 .. n - r
    <3>1. r + i \in 1 .. n
      BY <1>1, <2>2
    <3> QED
      BY <1>2, <1>3, <1>4, <1>5, <2>2, <3>1
  <2>3. i = n - r + 1 \/ i \in 1 .. n - r
    BY <1>1
  <2> QED
    BY <2>1, <2>2, <2>3
<1>7. a = Append(b, e)
  BY <1>3, <1>5, <1>6, SeqEqual
<1> QED
  BY <1>7 DEF a, b, n, x

\* The pending orders: how many there are, and what they are made of.
LEMMA PendingFacts ==
  ASSUME IInv
  PROVE  /\ Pending \in Seq(Order)
         /\ Len(Pending) = OrderPointerWrite - OrderPointerRead
         /\ OrderPointerRead \in 0 .. Len(inserted)
         /\ OrderPointerWrite = Len(inserted)
         /\ inserted \in Seq(Order)
<1>1. /\ inserted \in Seq(Order) /\ OrderPointerWrite = Len(inserted)
      /\ OrderPointerWrite \in Nat /\ OrderPointerRead \in Nat
      /\ OrderPointerRead <= OrderPointerWrite
  BY DEF IInv, TypeOK, Contents, Counts, Bit
<1>2. \A i \in OrderPointerRead + 1 .. OrderPointerWrite : inserted[i] \in Order
  <2> SUFFICES ASSUME NEW i \in OrderPointerRead + 1 .. OrderPointerWrite
               PROVE  inserted[i] \in Order
    OBVIOUS
  <2>1. i \in 1 .. Len(inserted)
    BY <1>1
  <2> QED
    BY <1>1, <2>1, ElementOfSeq
<1>3. /\ Pending \in Seq(Order)
      /\ Len(Pending) = IF OrderPointerRead + 1 <= OrderPointerWrite
                        THEN OrderPointerWrite - (OrderPointerRead + 1) + 1 ELSE 0
  <2>1. OrderPointerRead + 1 \in Int /\ OrderPointerWrite \in Int
    BY <1>1
  <2> QED
    BY <1>2, <2>1, SubSeqProperties DEF Pending
<1>4. OrderPointerRead \in 0 .. Len(inserted)
  BY <1>1
<1> QED
  BY <1>1, <1>3, <1>4

\* The order buffer implements a bounded queue: an order is inserted when
\* OrderPointerWrite moves and removed when OrderPointerRead moves.
THEOREM Refinement == Spec => ImplementsQueue
<1>1. Init => Queue!Init
  <2> SUFFICES ASSUME Init PROVE Pending = <<>>
    BY DEF Queue!Init
  <2>1. 0 + 1 \in Int /\ 0 \in Int /\ 0 < 0 + 1
    OBVIOUS
  <2> QED
    BY <2>1, SubSeqEmpty DEF Init, Pending
<1>2. IInv /\ [Next]_vars => [Queue!Next]_Pending
  <2> SUFFICES ASSUME IInv, [Next]_vars PROVE Queue!Next \/ Pending' = Pending
    OBVIOUS
  <2>1. ASSUME NEW p \in Producer, AdvanceWrite(p) PROVE Queue!Insert(order[p]) /\ order[p] \in Order
    <3>1. order[p] \in Order
      BY <2>1 DEF AdvanceWrite, Goto, IInv, Contents
    <3>2. Len(Pending) < Capacity
      <4>1. Writing
        BY <2>1 DEF AdvanceWrite, Goto, Writing
      <4>2. OrderPointerWrite - OrderPointerRead < Capacity
        BY <4>1, BufferAssumption DEF IInv, Counts, Bit, TypeOK
      <4> QED
        BY <4>2, PendingFacts
    <3>3. Pending' = SubSeq(Append(inserted, order[p]), OrderPointerRead + 1, Len(inserted) + 1)
      BY <2>1, PendingFacts DEF AdvanceWrite, Pending
    <3>4. Pending' = Append(Pending, order[p])
      BY <3>1, <3>3, PendingFacts, SuffixAppend DEF Pending
    <3> QED
      BY <3>1, <3>2, <3>4 DEF Queue!Insert
  <2>2. CASE AdvanceRead
    <3>1. OrderPointerRead < OrderPointerWrite /\ OrderPointerRead \in Nat /\ OrderPointerWrite \in Nat
      BY <2>2 DEF AdvanceRead, IInv, Counts, Bit, TypeOK
    <3>2. /\ OrderPointerRead + 1 \in 1 .. Len(inserted)
          /\ OrderPointerWrite \in OrderPointerRead + 1 .. Len(inserted)
      BY <3>1, PendingFacts
    <3>3. Pending' = SubSeq(inserted, (OrderPointerRead + 1) + 1, OrderPointerWrite)
      BY <2>2 DEF AdvanceRead, producers, Pending
    <3>4. Pending' = Tail(Pending)
      BY <3>2, <3>3, PendingFacts, HeadTailOfSubSeq DEF Pending
    <3>5. Pending # <<>>
      <4>1. Len(Pending) # 0
        BY <3>1, PendingFacts
      <4> QED
        BY <4>1
    <3> QED
      BY <3>4, <3>5 DEF Queue!Next, Queue!Get
  <2>3. ASSUME NEW p \in Producer,
               StartInsert(p) \/ MutexDown(p) \/ EmptyDown(p) \/ WriteCell(p) \/ FullUp(p) \/ MutexUp(p)
        PROVE  Pending' = Pending
    BY <2>3 DEF StartInsert, MutexDown, EmptyDown, WriteCell, FullUp, MutexUp, Pending
  <2>4. CASE FullDown \/ CopyCell \/ EmptyUp \/ Process
    BY <2>4 DEF FullDown, CopyCell, EmptyUp, Process, producers, Pending
  <2>5. CASE UNCHANGED vars
    BY <2>5 DEF vars, Pending
  <2> QED
    BY <2>1, <2>2, <2>3, <2>4, <2>5 DEF Next, Consume, Insert, Queue!Next
<1> QED
  BY <1>1, <1>2, Invariance, PTL DEF Spec, ImplementsQueue, Queue!Spec

=============================================================================
