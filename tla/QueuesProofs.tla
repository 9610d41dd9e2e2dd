---------------------------- MODULE QueuesProofs ----------------------------
(***************************************************************************)
(* Proofs about three of the parts of Queues: the semaphore, the replies   *)
(* of the writer thread and the bytes of a WebSocket.                      *)
(***************************************************************************)
EXTENDS Semaphore, ReplyRing, SPSCRingBuffer, FiniteSetTheorems, SequenceTheorems, TLAPS

-----------------------------------------------------------------------------
(***************************************************************************)
(* Proofs about Semaphore, for any number of threads and any initial       *)
(* value.  The inductive invariant is TypeOK /\ Exclusion: that the value  *)
(* stays a natural number needs only the test of down, but that nobody     *)
(* changes it between the test and the subtraction is what Exclusion says. *)
(* That no wakeup is lost is inductive once it is known that who waits is  *)
(* inside pthread_cond_wait (Sleepers).                                    *)
(***************************************************************************)

SemaphoreInv == TypeOK /\ Exclusion

\* The semaphore starts with its initial value and nobody inside.
LEMMA InitSemaphore == Init => SemaphoreInv
  BY SemaphoreAssumption DEF Init, SemaphoreInv, TypeOK, Exclusion, Critical

\* Every step of down and up keeps the types.
LEMMA NextTypeOK == TypeOK /\ [Next]_vars => TypeOK'
<1> SUFFICES ASSUME TypeOK, [Next]_vars PROVE TypeOK'
  OBVIOUS
<1> USE SemaphoreAssumption DEF TypeOK, Goto
<1>1. ASSUME NEW t \in Thread, Call(t) PROVE TypeOK'
  BY <1>1 DEF Call
<1>2. ASSUME NEW t \in Thread, SpuriousWakeup(t) PROVE TypeOK'
  BY <1>2 DEF SpuriousWakeup
<1>3. ASSUME NEW t \in Thread, Down(t) PROVE TypeOK'
  BY <1>3 DEF Down, LockDown, Wait, Wake, Take, UnlockDown
<1>4. ASSUME NEW t \in Thread, Up(t) PROVE TypeOK'
  BY <1>4 DEF Up, LockUp, Add, UnlockUp, Signal
<1>5. CASE UNCHANGED vars
  BY <1>5 DEF vars
<1> QED
  BY <1>1, <1>2, <1>3, <1>4, <1>5 DEF Next

\* Only a thread that finds the mutex free enters, and it leaves with it.
LEMMA NextExclusion == SemaphoreInv /\ [Next]_vars => Exclusion'
<1> SUFFICES ASSUME TypeOK, Exclusion, [Next]_vars PROVE Exclusion'
  BY DEF SemaphoreInv
<1> USE SemaphoreAssumption DEF TypeOK, Exclusion, Critical, Goto
<1>1. ASSUME NEW t \in Thread, Call(t) PROVE Exclusion'
  BY <1>1 DEF Call
<1>2. ASSUME NEW t \in Thread, SpuriousWakeup(t) PROVE Exclusion'
  BY <1>2 DEF SpuriousWakeup
<1>3. ASSUME NEW t \in Thread, Down(t) PROVE Exclusion'
  <2>1. CASE LockDown(t)
    BY <2>1 DEF LockDown
  <2>2. CASE Wait(t)
    BY <2>2 DEF Wait
  <2>3. CASE Wake(t)
    BY <2>3 DEF Wake
  <2>4. CASE Take(t)
    BY <2>4 DEF Take
  <2>5. CASE UnlockDown(t)
    BY <2>5 DEF UnlockDown
  <2> QED
    BY <1>3, <2>1, <2>2, <2>3, <2>4, <2>5 DEF Down
<1>4. ASSUME NEW t \in Thread, Up(t) PROVE Exclusion'
  <2>1. CASE LockUp(t)
    BY <2>1 DEF LockUp
  <2>2. CASE Add(t)
    BY <2>2 DEF Add
  <2>3. CASE UnlockUp(t)
    BY <2>3 DEF UnlockUp
  <2>4. CASE Signal(t)
    BY <2>4 DEF Signal
  <2> QED
    BY <1>4, <2>1, <2>2, <2>3, <2>4 DEF Up
<1>5. CASE UNCHANGED vars
  BY <1>5 DEF vars
<1> QED
  BY <1>1, <1>2, <1>3, <1>4, <1>5 DEF Next

\* Type correctness: in particular the value never goes below zero, however
\* many threads are inside down.
THEOREM SemaphoreTypes == Spec => []TypeOK
<1>1. Init => TypeOK
  BY InitSemaphore DEF SemaphoreInv
<1>2. TypeOK /\ [Next]_vars => TypeOK'
  BY NextTypeOK
<1> QED
  BY <1>1, <1>2, PTL DEF Spec

\* The invariant holds in every behaviour.
LEMMA SemaphoreInvariance == Spec => []SemaphoreInv
<1>1. SemaphoreInv /\ [Next]_vars => SemaphoreInv'
  BY NextTypeOK, NextExclusion DEF SemaphoreInv
<1> QED
  BY <1>1, InitSemaphore, PTL DEF Spec

\* Mutual exclusion of the threads between lock and unlock in down and up.
THEOREM MutualExclusion == Spec => []Exclusion
<1>1. SemaphoreInv => Exclusion
  BY DEF SemaphoreInv
<1> QED
  BY <1>1, SemaphoreInvariance, PTL

\* Semaphore implements the counting semaphore: every step of down and up is
\* a step of the abstract counter or leaves it alone.
THEOREM SemaphoreRefinement == Spec => Implements
<1>1. Init => Abstract!Init
  BY DEF Init, Abstract!Init
<1>2. TypeOK /\ [Next]_vars => [Abstract!Next]_value
  <2> SUFFICES ASSUME TypeOK, [Next]_vars, value' # value PROVE Abstract!Next
    OBVIOUS
  <2> USE DEF Abstract!Next, Abstract!Down, Abstract!Up
  <2>1. ASSUME NEW t \in Thread, Take(t) PROVE Abstract!Down
    BY <2>1 DEF Take
  <2>2. ASSUME NEW t \in Thread, Add(t) PROVE Abstract!Up
    BY <2>2 DEF Add
  <2>3. ASSUME NEW t \in Thread, Call(t) \/ SpuriousWakeup(t) \/ LockDown(t) \/ Wait(t)
                 \/ Wake(t) \/ UnlockDown(t) \/ LockUp(t) \/ UnlockUp(t) \/ Signal(t)
        PROVE FALSE
    BY <2>3 DEF Call, SpuriousWakeup, LockDown, Wait, Wake, UnlockDown, LockUp, UnlockUp, Signal
  <2>4. CASE UNCHANGED vars
    BY <2>4 DEF vars
  <2> QED
    BY <2>1, <2>2, <2>3, <2>4 DEF Next, Down, Up
<1> QED
  BY <1>1, <1>2, SemaphoreTypes, PTL DEF Spec, Implements, Abstract!Spec

-----------------------------------------------------------------------------
(* No wakeup is lost.                                                      *)

Sleepers == \A t \in waiting : pc[t] = "wait"

WakeInv == TypeOK /\ Sleepers /\ NoLostWakeup

\* The set of stirring threads is finite, and its size moves with it.
LEMMA StirringFinite == IsFiniteSet(Stirring) /\ Cardinality(Stirring) \in Nat
<1>1. Stirring \subseteq Thread
  BY DEF Stirring
<1>2. IsFiniteSet(Stirring)
  BY <1>1, SemaphoreAssumption, FS_Subset
<1> QED
  BY <1>2, FS_CardinalityType

\* While nobody goes to sleep, a unit more needs one who stirs more, and a
\* thread that no longer stirs has to have taken a unit.
LEMMA Balance ==
  ASSUME TypeOK, NoLostWakeup, waiting' \subseteq waiting,
         IsFiniteSet(Stirring'), Cardinality(Stirring') \in Int, value' \in Int,
         value' - value <= Cardinality(Stirring') - Cardinality(Stirring)
  PROVE  NoLostWakeup'
<1> SUFFICES ASSUME waiting' # {} PROVE value' <= Cardinality(Stirring')
  BY DEF NoLostWakeup
<1>1. waiting # {}
  OBVIOUS
<1>2. value <= Cardinality(Stirring) /\ Cardinality(Stirring) \in Int /\ value \in Int
  BY <1>1, StirringFinite DEF NoLostWakeup, TypeOK
<1> QED
  BY <1>2

\* One step of a thread keeps the balance of units and of threads that stir.
LEMMA NextWake == WakeInv /\ [Next]_vars => Sleepers' /\ NoLostWakeup'
<1> SUFFICES ASSUME WakeInv, [Next]_vars PROVE Sleepers' /\ NoLostWakeup'
  OBVIOUS
<1>1. TypeOK /\ Sleepers /\ NoLostWakeup
  BY DEF WakeInv
<1>2. TypeOK'
  BY <1>1, NextTypeOK
<1>3. Stirring' \subseteq Thread /\ IsFiniteSet(Stirring') /\ Cardinality(Stirring') \in Nat
  <2>1. Stirring' \subseteq Thread
    BY DEF Stirring
  <2> QED
    BY <2>1, SemaphoreAssumption, FS_Subset, FS_CardinalityType
<1>4. Sleepers'
  <2> USE <1>1 DEF TypeOK, Sleepers, Goto
  <2>1. ASSUME NEW t \in Thread, Call(t) \/ SpuriousWakeup(t) PROVE Sleepers'
    BY <2>1 DEF Call, SpuriousWakeup
  <2>2. ASSUME NEW t \in Thread, Down(t) PROVE Sleepers'
    BY <2>2 DEF Down, LockDown, Wait, Wake, Take, UnlockDown
  <2>3. ASSUME NEW t \in Thread, Up(t) PROVE Sleepers'
    BY <2>3 DEF Up, LockUp, Add, UnlockUp, Signal
  <2>4. CASE UNCHANGED vars
    BY <2>4 DEF vars
  <2> QED
    BY <2>1, <2>2, <2>3, <2>4 DEF Next
<1>5. ASSUME Stirring \subseteq Stirring', waiting' \subseteq waiting, value' = value
      PROVE  NoLostWakeup'
  <2>1. Cardinality(Stirring) <= Cardinality(Stirring')
    BY <1>3, <1>5, FS_Subset
  <2> QED
    BY <1>1, <1>3, <1>5, <2>1, StirringFinite, Balance DEF TypeOK
<1>6. ASSUME NEW t \in Thread, Call(t) \/ SpuriousWakeup(t) \/ LockDown(t) \/ Wake(t)
               \/ UnlockDown(t) \/ LockUp(t) \/ UnlockUp(t)
      PROVE  NoLostWakeup'
  <2>1. Stirring \subseteq Stirring' /\ waiting' \subseteq waiting /\ value' = value
    BY <1>1, <1>6
    DEF Call, SpuriousWakeup, LockDown, Wake, UnlockDown, LockUp, UnlockUp, Goto, TypeOK, Stirring
  <2> QED
    BY <1>5, <2>1
\* A thread goes to sleep only when there is no unit.
<1>7. ASSUME NEW t \in Thread, Wait(t) PROVE NoLostWakeup'
  BY <1>1, <1>3, <1>7 DEF Wait, TypeOK, NoLostWakeup
\* A thread takes the unit it stirs for.
<1>8. ASSUME NEW t \in Thread, Take(t) PROVE NoLostWakeup'
  <2>1. t \in Stirring /\ Stirring' = Stirring \ {t} /\ waiting' = waiting /\ value' = value - 1
    BY <1>1, <1>8 DEF Take, Goto, TypeOK, Stirring
  <2>2. Cardinality(Stirring') = Cardinality(Stirring) - 1
    BY <2>1, StirringFinite, FS_RemoveElement
  <2> QED
    BY <1>1, <1>3, <2>1, <2>2, StirringFinite, Balance DEF TypeOK
\* A thread stirs for the unit it adds.
<1>9. ASSUME NEW t \in Thread, Add(t) PROVE NoLostWakeup'
  <2>1. t \notin Stirring /\ Stirring' = Stirring \cup {t} /\ waiting' = waiting /\ value' = value + 1
    BY <1>1, <1>9 DEF Add, Goto, TypeOK, Stirring
  <2>2. Cardinality(Stirring') = Cardinality(Stirring) + 1
    BY <2>1, StirringFinite, FS_AddElement
  <2> QED
    BY <1>1, <1>3, <2>1, <2>2, StirringFinite, Balance DEF TypeOK
\* A thread that signals hands over to the one it wakes.
<1>10. ASSUME NEW t \in Thread, Signal(t) PROVE NoLostWakeup'
  <2>1. CASE waiting = {} /\ UNCHANGED waiting
    BY <2>1 DEF NoLostWakeup
  <2>2. ASSUME NEW u \in waiting, waiting' = waiting \ {u} PROVE NoLostWakeup'
    <3>1. t \in Stirring /\ u \notin Stirring \ {t} /\ Stirring' = (Stirring \ {t}) \cup {u}
          /\ waiting' \subseteq waiting /\ value' = value
      BY <1>1, <1>10, <2>2 DEF Signal, Goto, TypeOK, Stirring, Sleepers
    <3>2. IsFiniteSet(Stirring \ {t}) /\ Cardinality(Stirring \ {t}) = Cardinality(Stirring) - 1
      BY <3>1, StirringFinite, FS_RemoveElement
    <3>3. Cardinality(Stirring') = Cardinality(Stirring \ {t}) + 1
      BY <3>1, <3>2, FS_AddElement
    <3> QED
      BY <1>1, <1>3, <3>1, <3>2, <3>3, StirringFinite, Balance DEF TypeOK
  <2> QED
    BY <1>10, <2>1, <2>2 DEF Signal
<1>11. CASE UNCHANGED vars
  BY <1>1, <1>4, <1>11 DEF vars, NoLostWakeup, Stirring
<1> QED
  BY <1>4, <1>6, <1>7, <1>8, <1>9, <1>10, <1>11 DEF Next, Down, Up

\* No wakeup is lost: while a thread sleeps in down, for every unit of the
\* semaphore somebody has yet to signal it or to test the value.
THEOREM NoWakeupLost == Spec => []NoLostWakeup
<1>1. Init => WakeInv
  BY InitSemaphore DEF Init, SemaphoreInv, WakeInv, Sleepers, NoLostWakeup
<1>2. WakeInv /\ [Next]_vars => WakeInv'
  BY NextTypeOK, NextWake DEF WakeInv
<1>3. WakeInv => NoLostWakeup
  BY DEF WakeInv
<1> QED
  BY <1>1, <1>2, <1>3, PTL DEF Spec

-----------------------------------------------------------------------------
(***************************************************************************)
(* Proofs about ReplyRing as writer.cpp uses it (Discards), for every size *)
(* of the buffer and every number of replies.  There is no semaphore: that *)
(* no reply is overwritten rests on the order in which the producer counts *)
(* the replies, writes and advances, while the game thread advances only   *)
(* after it has copied.  The buffer of reader.cpp has no such theorem: run *)
(* reader_replies shows that its comparison lets a reply be overwritten.   *)
(***************************************************************************)

\* The producer has found room, and what it found has only become more since.
Room ==
    /\ ReplyPointerRead <= ReplyPointerWrite
    /\ ReplyPointerWrite - ReplyPointerRead <= Capacity
    /\ ppc = "check" => ReplyPointerWrite - ReplyPointerRead <= Replies
    /\ ppc \in {"write", "advance"} => ReplyPointerWrite - ReplyPointerRead < Capacity
    /\ cpc \in {"copy", "advance"} => ReplyPointerRead < ReplyPointerWrite

\* The cells between the pointers hold the replies not yet fetched.
ReplyContents ==
    /\ Len(accepted) = ReplyPointerWrite
    /\ \A i \in Nat : ReplyPointerRead <= i /\ i < ReplyPointerWrite
          => ReplyBuffer[i % Capacity] = accepted[i + 1]
    /\ ppc # "idle" => reply \in 1 .. MaxReplies
    /\ ppc = "advance" => ReplyBuffer[ReplyPointerWrite % Capacity] = reply

\* What the game thread has copied is next in the order of insertion.
Delivery ==
    /\ cpc = "advance" => taken = accepted[ReplyPointerRead + 1]
    /\ cpc = "process" => ReplyPointerRead > 0 /\ taken = accepted[ReplyPointerRead]
    /\ Len(processed) = IF cpc = "process" THEN ReplyPointerRead - 1 ELSE ReplyPointerRead
    /\ \A i \in 1 .. Len(processed) : processed[i] = accepted[i]

ReplyInv == ReplyTypeOK /\ Room /\ ReplyContents /\ Delivery

-----------------------------------------------------------------------------
(* Arithmetic of the cyclic array.                                         *)

\* Two positions less than a turn apart are different cells.
LEMMA CellsDiffer ==
  ASSUME NEW N \in Nat \ {0}, NEW a \in Nat, NEW b \in Nat, a < b, b < a + N
  PROVE  a % N # b % N
<1> SUFFICES ASSUME a % N = b % N PROVE FALSE
  OBVIOUS
<1> DEFINE k == (b \div N) - (a \div N)
<1>1. a = N * (a \div N) + (a % N) /\ b = N * (b \div N) + (b % N)
  OBVIOUS
<1>2. (a \div N) \in Int /\ (b \div N) \in Int /\ k \in Int
  OBVIOUS
<1>3. b - a = N * k
  BY <1>1, <1>2, Z3
<1>4. CASE k <= 0
  <2>1. N * k <= 0
    BY <1>2, <1>4
  <2> QED
    BY <1>3, <2>1
<1>5. CASE k >= 1
  <2>1. N * k >= N
    BY <1>2, <1>5
  <2> QED
    BY <1>3, <2>1
<1> QED
  BY <1>2, <1>4, <1>5

-----------------------------------------------------------------------------
(* The invariant.                                                          *)

\* The buffer starts empty.
LEMMA InitReply == ReplyInit => ReplyInv
<1> SUFFICES ASSUME ReplyInit PROVE ReplyInv
  OBVIOUS
<1> USE RingAssumption DEF ReplyInit
<1>1. ReplyTypeOK
  BY DEF ReplyTypeOK
<1>2. Room
  BY DEF Room
<1>3. ReplyContents
  BY DEF ReplyContents
<1>4. Delivery
  <2>1. Len(processed) = 0 /\ 1 .. 0 = {}
    OBVIOUS
  <2> QED
    BY <2>1 DEF Delivery
<1> QED
  BY <1>1, <1>2, <1>3, <1>4 DEF ReplyInv

\* A step of insert_reply that only moves the control of the producer.
LEMMA CountInv == Discards /\ ReplyInv /\ CountReplies => ReplyInv'
<1> SUFFICES ASSUME ReplyInv, CountReplies PROVE ReplyInv'
  OBVIOUS
<1> USE RingAssumption DEF ReplyInv, CountReplies, ring, consumer
<1>1. ReplyTypeOK'
  BY DEF ReplyTypeOK, Room
<1>2. Room'
  BY DEF Room, ReplyTypeOK
<1>3. ReplyContents'
  BY DEF ReplyContents, ReplyTypeOK
<1>4. Delivery'
  BY DEF Delivery
<1> QED
  BY <1>1, <1>2, <1>3, <1>4

\* Replies is never less than what is in the buffer, so that the test is safe
\* although the game thread goes on.
LEMMA CheckInv == Discards /\ ReplyInv /\ CheckRoom => ReplyInv'
<1> SUFFICES ASSUME Discards, ReplyInv, CheckRoom PROVE ReplyInv'
  OBVIOUS
<1> USE RingAssumption DEF ReplyInv, CheckRoom, ring, consumer
<1>1. ReplyTypeOK'
  BY DEF ReplyTypeOK
<1>2. Room'
  BY DEF Room, ReplyTypeOK, NoRoom
<1>3. ReplyContents'
  BY DEF ReplyContents, ReplyTypeOK
<1>4. Delivery'
  BY DEF Delivery
<1> QED
  BY <1>1, <1>2, <1>3, <1>4

\* The cell that is written is none of those that wait for the game thread.
LEMMA WriteInv == ReplyInv /\ WriteReply => ReplyInv'
<1> SUFFICES ASSUME ReplyInv, WriteReply PROVE ReplyInv'
  OBVIOUS
<1> USE RingAssumption DEF ReplyInv, WriteReply, consumer
<1>1. ReplyPointerWrite % Capacity \in 0 .. Capacity - 1
  BY DEF ReplyTypeOK
<1>2. ReplyTypeOK'
  BY <1>1 DEF ReplyTypeOK
<1>3. Room'
  BY DEF Room
<1>4. ReplyContents'
  <2>1. ASSUME NEW i \in Nat, ReplyPointerRead <= i, i < ReplyPointerWrite
        PROVE  ReplyBuffer'[i % Capacity] = accepted[i + 1]
    <3>1. i % Capacity # ReplyPointerWrite % Capacity
      <4>1. ReplyPointerWrite \in Nat /\ ReplyPointerRead \in Nat /\ Capacity \in Nat \ {0}
        BY DEF ReplyTypeOK
      <4>2. ReplyPointerWrite < i + Capacity
        BY <2>1, <4>1 DEF Room
      <4> HIDE DEF ReplyInv, WriteReply
      <4> QED
        BY <2>1, <4>1, <4>2, CellsDiffer
    <3>2. i % Capacity \in 0 .. Capacity - 1
      OBVIOUS
    <3> QED
      BY <2>1, <3>1, <3>2, <1>1 DEF ReplyTypeOK, ReplyContents
  <2>2. ReplyBuffer'[ReplyPointerWrite % Capacity] = reply
    BY <1>1 DEF ReplyTypeOK
  <2> QED
    BY <2>1, <2>2 DEF ReplyContents
<1>5. Delivery'
  BY DEF Delivery
<1> QED
  BY <1>2, <1>3, <1>4, <1>5

\* The reply becomes visible once it is in its cell.
LEMMA AdvanceWriteInv == ReplyInv /\ AdvanceWrite => ReplyInv'
<1> SUFFICES ASSUME ReplyInv, AdvanceWrite PROVE ReplyInv'
  OBVIOUS
<1> USE RingAssumption DEF ReplyInv, AdvanceWrite, consumer
<1>1. reply \in 1 .. MaxReplies
  BY DEF ReplyContents
<1>2. /\ accepted' \in Seq(1 .. MaxReplies)
      /\ Len(accepted') = ReplyPointerWrite + 1
      /\ accepted'[ReplyPointerWrite + 1] = reply
      /\ \A i \in 1 .. ReplyPointerWrite : accepted'[i] = accepted[i]
  BY <1>1 DEF ReplyTypeOK, ReplyContents
<1>3. ReplyTypeOK'
  BY <1>2 DEF ReplyTypeOK
<1>4. Room'
  BY DEF Room, ReplyTypeOK
<1>5. ReplyContents'
  <2>1. ASSUME NEW i \in Nat, ReplyPointerRead <= i, i < ReplyPointerWrite + 1
        PROVE  ReplyBuffer[i % Capacity] = accepted'[i + 1]
    <3>1. CASE i < ReplyPointerWrite
      <4>1. i + 1 \in 1 .. ReplyPointerWrite
        BY <3>1 DEF ReplyTypeOK
      <4> QED
        BY <2>1, <3>1, <4>1, <1>2 DEF ReplyContents
    <3>2. CASE i = ReplyPointerWrite
      BY <3>2, <1>2 DEF ReplyContents
    <3>3. i < ReplyPointerWrite \/ i = ReplyPointerWrite
      BY <2>1 DEF ReplyTypeOK
    <3> QED
      BY <3>1, <3>2, <3>3
  <2> QED
    BY <2>1, <1>2 DEF ReplyContents, ReplyTypeOK
<1>6. Delivery'
  <2>1. ReplyPointerRead <= ReplyPointerWrite /\ (cpc = "advance" => ReplyPointerRead < ReplyPointerWrite)
    BY DEF Room
  <2>2. Len(processed) <= ReplyPointerWrite /\ Len(processed) \in Nat
    BY <2>1 DEF Delivery, ReplyTypeOK
  <2>3. \A i \in 1 .. Len(processed) : i \in 1 .. ReplyPointerWrite
    BY <2>2 DEF ReplyTypeOK
  <2>4. UNCHANGED <<cpc, ReplyPointerRead, taken, processed>>
    OBVIOUS
  <2>5. ReplyPointerRead \in Nat /\ ReplyPointerWrite \in Nat
    BY DEF ReplyTypeOK
  <2>6. \A i \in 1 .. Len(processed) : processed[i] = accepted'[i]
    BY <1>2, <2>3 DEF Delivery
  <2>7. cpc = "advance" => taken = accepted'[ReplyPointerRead + 1]
    <3>1. cpc = "advance" => ReplyPointerRead + 1 \in 1 .. ReplyPointerWrite
      BY <2>1, <2>5
    <3> QED
      BY <1>2, <3>1 DEF Delivery
  <2>8. cpc = "process" => ReplyPointerRead > 0 /\ taken = accepted'[ReplyPointerRead]
    <3>1. cpc = "process" => ReplyPointerRead > 0 /\ taken = accepted[ReplyPointerRead]
      BY DEF Delivery
    <3>2. ReplyPointerRead > 0 => ReplyPointerRead \in 1 .. ReplyPointerWrite
      BY <2>1, <2>5
    <3> QED
      BY <1>2, <3>1, <3>2
  <2>9. Len(processed) = IF cpc = "process" THEN ReplyPointerRead - 1 ELSE ReplyPointerRead
    BY DEF Delivery
  <2> HIDE DEF ReplyInv, AdvanceWrite, consumer
  <2> QED
    BY <2>4, <2>6, <2>7, <2>8, <2>9 DEF Delivery
<1> QED
  BY <1>3, <1>4, <1>5, <1>6

\* The game thread has seen a reply.
LEMMA TestInv == ReplyInv /\ TestReply => ReplyInv'
<1> SUFFICES ASSUME ReplyInv, TestReply PROVE ReplyInv'
  OBVIOUS
<1> USE RingAssumption DEF ReplyInv, TestReply, ring, producer
<1>1. ReplyTypeOK'
  BY DEF ReplyTypeOK
<1>2. Room'
  BY DEF Room
<1>3. ReplyContents'
  BY DEF ReplyContents
<1>4. Delivery'
  BY DEF Delivery
<1> QED
  BY <1>1, <1>2, <1>3, <1>4

\* It copies the oldest one.
LEMMA CopyInv == ReplyInv /\ CopyReply => ReplyInv'
<1> SUFFICES ASSUME ReplyInv, CopyReply PROVE ReplyInv'
  OBVIOUS
<1> USE RingAssumption DEF ReplyInv, CopyReply, ring, producer
<1>1. taken' = accepted[ReplyPointerRead + 1]
  <2>1. ReplyPointerRead \in Nat /\ ReplyPointerRead <= ReplyPointerRead
        /\ ReplyPointerRead < ReplyPointerWrite
    BY DEF Room, ReplyTypeOK
  <2>2. ReplyBuffer[ReplyPointerRead % Capacity] = accepted[ReplyPointerRead + 1]
    BY <2>1 DEF ReplyContents
  <2> QED
    BY <2>2
<1>2. taken' \in 0 .. MaxReplies
  <2>1. ReplyPointerRead % Capacity \in 0 .. Capacity - 1
    BY DEF ReplyTypeOK
  <2> QED
    BY <2>1 DEF ReplyTypeOK
<1>3. ReplyTypeOK'
  BY <1>2 DEF ReplyTypeOK
<1>4. Room'
  BY DEF Room
<1>5. ReplyContents'
  BY DEF ReplyContents
<1>6. Delivery'
  BY <1>1 DEF Delivery
<1> QED
  BY <1>3, <1>4, <1>5, <1>6

\* Only now is the cell given back.
LEMMA AdvanceReadInv == ReplyInv /\ AdvanceRead => ReplyInv'
<1> SUFFICES ASSUME ReplyInv, AdvanceRead PROVE ReplyInv'
  OBVIOUS
<1> USE RingAssumption DEF ReplyInv, AdvanceRead, producer
<1>1. ReplyTypeOK'
  BY DEF ReplyTypeOK
<1>2. Room'
  BY DEF Room, ReplyTypeOK
<1>3. ReplyContents'
  <2>1. ASSUME NEW i \in Nat, ReplyPointerRead + 1 <= i, i < ReplyPointerWrite
        PROVE  ReplyBuffer[i % Capacity] = accepted[i + 1]
    <3>1. ReplyPointerRead <= i
      BY <2>1 DEF ReplyTypeOK
    <3> QED
      BY <2>1, <3>1 DEF ReplyContents
  <2> QED
    BY <2>1 DEF ReplyContents
<1>4. Delivery'
  <2>1. /\ cpc' = "process" /\ ReplyPointerRead' = ReplyPointerRead + 1
        /\ UNCHANGED <<taken, accepted, processed>>
    OBVIOUS
  <2>2. /\ taken = accepted[ReplyPointerRead + 1] /\ Len(processed) = ReplyPointerRead
        /\ \A i \in 1 .. Len(processed) : processed[i] = accepted[i]
    BY DEF Delivery
  <2>3. ReplyPointerRead + 1 > 0 /\ (ReplyPointerRead + 1) - 1 = ReplyPointerRead
    BY DEF ReplyTypeOK
  <2> HIDE DEF ReplyInv, AdvanceRead, producer
  <2> QED
    BY <2>1, <2>2, <2>3 DEF Delivery
<1> QED
  BY <1>1, <1>2, <1>3, <1>4

\* The reply is processed.
LEMMA ProcessInv == ReplyInv /\ ProcessReply => ReplyInv'
<1> SUFFICES ASSUME ReplyInv, ProcessReply PROVE ReplyInv'
  OBVIOUS
<1> USE RingAssumption DEF ReplyInv, ProcessReply, ring, producer
<1>1. /\ processed' \in Seq(0 .. MaxReplies)
      /\ Len(processed') = ReplyPointerRead
      /\ processed'[ReplyPointerRead] = taken
      /\ \A i \in 1 .. ReplyPointerRead - 1 : processed'[i] = processed[i]
  BY DEF ReplyTypeOK, Delivery
<1>2. ReplyTypeOK'
  BY <1>1 DEF ReplyTypeOK
<1>3. Room'
  BY DEF Room
<1>4. ReplyContents'
  BY DEF ReplyContents
<1>5. Delivery'
  <2>1. ASSUME NEW i \in 1 .. ReplyPointerRead PROVE processed'[i] = accepted[i]
    BY <2>1, <1>1 DEF Delivery, ReplyTypeOK
  <2> QED
    BY <2>1, <1>1 DEF Delivery
<1> QED
  BY <1>2, <1>3, <1>4, <1>5

-----------------------------------------------------------------------------
\* The invariant holds in every behaviour of the writer's buffer.
THEOREM ReplyInvariance == Discards => (ReplySpec => []ReplyInv)
<1> SUFFICES ASSUME Discards PROVE ReplySpec => []ReplyInv
  OBVIOUS
<1>1. ReplyInv /\ [ReplyNext]_replyVars => ReplyInv'
  <2> SUFFICES ASSUME ReplyInv, [ReplyNext]_replyVars PROVE ReplyInv'
    OBVIOUS
  <2>1. CASE UNCHANGED replyVars
    BY <2>1 DEF replyVars, ReplyInv, ReplyTypeOK, Room, ReplyContents, Delivery
  <2> QED
    BY <2>1, CountInv, CheckInv, WriteInv, AdvanceWriteInv, TestInv, CopyInv, AdvanceReadInv, ProcessInv
    DEF ReplyNext, Produce, Consume
<1> QED
  BY <1>1, InitReply, PTL DEF ReplySpec

\* The game thread processes the replies of the writer that were inserted, in
\* their order, each once and unchanged.
THEOREM RepliesInOrder == Discards => (ReplySpec => []ProcessedInOrder)
<1> SUFFICES ASSUME Discards PROVE ReplySpec => []ProcessedInOrder
  OBVIOUS
<1>1. ReplyInv => ProcessedInOrder
  BY DEF ReplyInv, ReplyTypeOK, Room, ReplyContents, Delivery, ProcessedInOrder
<1>2. ReplySpec => []ReplyInv
  BY ReplyInvariance
<1> QED
  BY <1>1, <1>2, PTL

-----------------------------------------------------------------------------
(***************************************************************************)
(* Proofs about SPSCRingBuffer: for every size of the ring that divides    *)
(* the range of the positions, whatever the two threads do between their   *)
(* loads and stores, the ring is a queue of bytes.  The invariant relates  *)
(* the positions, which wrap around, to the numbers of bytes written and   *)
(* read, which do not.                                                     *)
(***************************************************************************)

Done == Len(received)       \* bytes read

\* The positions are the numbers of bytes, modulo the range of unsigned.
Positions ==
    /\ write_pos = total % Modulus
    /\ read_pos = Done % Modulus

\* At most Size - 1 bytes are in the ring, and those of a write under way fit as
\* well; those of a read under way are there.
Filling ==
    /\ Done <= total
    /\ total - Done <= Size - 1
    /\ wpc = "copy" => len >= 1 /\ total + len <= MaxBytes /\ total + len - Done <= Size - 1
    /\ rpc = "copy" => avail >= 1 /\ Done + avail <= total

\* The cells hold the bytes not yet read, and those of the write under way.
Cells ==
    /\ \A n \in Nat : Done <= n /\ n < total => buffer[n % Size] = n + 1
    /\ wpc = "copy" => \A n \in Nat : total <= n /\ n < total + put => buffer[n % Size] = n + 1

\* What was copied out of the ring is next in order.
Fetched == rpc = "copy" => \A i \in 1 .. Len(fetched) : fetched[i] = Done + i

Types ==
    /\ buffer \in [0 .. Size - 1 -> 0 .. MaxBytes]
    /\ wpc \in {"idle", "copy"} /\ len \in 0 .. MaxLen /\ put \in 0 .. len
    /\ rpc \in {"idle", "copy"} /\ avail \in 0 .. MaxLen
    /\ fetched \in Seq(0 .. MaxBytes) /\ Len(fetched) <= avail
    /\ total \in 0 .. MaxBytes
    /\ received \in Seq(0 .. MaxBytes)

ByteInv == Types /\ Positions /\ Filling /\ Cells /\ Fetched

-----------------------------------------------------------------------------
(* Unsigned arithmetic.                                                    *)

\* Division with remainder is unique.
LEMMA ModUnique ==
  ASSUME NEW N \in Nat \ {0}, NEW q \in Int, NEW r \in 0 .. N - 1
  PROVE  (N * q + r) % N = r
<1> DEFINE x == N * q + r
           k == q - (x \div N)
<1>1. x \in Int /\ (x \div N) \in Int /\ k \in Int /\ x % N \in 0 .. N - 1
  OBVIOUS
<1>2. x = N * (x \div N) + (x % N)
  BY <1>1
<1>3. N * k = (x % N) - r
  BY <1>1, <1>2, Z3
<1>4. k = 0
  <2>1. CASE k >= 1
    <3>1. N * k >= N
      BY <1>1, <2>1
    <3> HIDE DEF k, x
    <3> QED
      BY <1>1, <1>3, <3>1
  <2>2. CASE k <= -1
    <3>1. N * k <= -N
      BY <1>1, <2>2
    <3> HIDE DEF k, x
    <3> QED
      BY <1>1, <1>3, <3>1
  <2> HIDE DEF k
  <2> QED
    BY <1>1, <2>1, <2>2
<1>5. N * k = 0
  BY <1>4
<1> HIDE DEF k, x
<1>6. x % N = r
  BY <1>1, <1>3, <1>5
<1> QED
  BY <1>6 DEF x

\* Adding a multiple of the divisor changes nothing.
LEMMA ModShift ==
  ASSUME NEW N \in Nat \ {0}, NEW q \in Int, NEW y \in Nat
  PROVE  (N * q + y) % N = y % N
<1> DEFINE k == y \div N
<1>1. y = N * k + (y % N) /\ k \in Int /\ y % N \in 0 .. N - 1
  OBVIOUS
<1> HIDE DEF k
<1>2. N * q + y = N * (q + k) + (y % N) /\ q + k \in Int
  BY <1>1, Z3
<1>3. (N * (q + k) + (y % N)) % N = y % N
  BY <1>1, <1>2, ModUnique
<1> QED
  BY <1>2, <1>3

\* Positions are added modulo the range.
LEMMA PlusPosition ==
  ASSUME NEW a \in Nat, NEW b \in Nat
  PROVE  Plus(a % Modulus, b) = (a + b) % Modulus
<1> DEFINE q == a \div Modulus
<1>1. Modulus \in Nat \ {0}
  BY ByteRingAssumption
<1>2. a = Modulus * q + (a % Modulus) /\ q \in Int /\ a % Modulus \in Nat
  BY <1>1
<1> HIDE DEF q
<1>3. a + b = Modulus * q + ((a % Modulus) + b) /\ (a % Modulus) + b \in Nat
  <2>1. Modulus * q \in Int
    BY <1>1, <1>2
  <2> QED
    BY <1>2, <2>1
<1>4. (Modulus * q + ((a % Modulus) + b)) % Modulus = ((a % Modulus) + b) % Modulus
  BY <1>1, <1>2, <1>3, ModShift
<1> QED
  BY <1>3, <1>4 DEF Plus

\* The difference of two positions is that of the numbers they stand for.
LEMMA SubPosition ==
  ASSUME NEW a \in Nat, NEW b \in Nat, b <= a, a - b < Modulus
  PROVE  Sub(a % Modulus, b % Modulus) = a - b
<1> DEFINE p == a \div Modulus
           q == b \div Modulus
<1>1. Modulus \in Nat \ {0}
  BY ByteRingAssumption
<1>2. /\ a = Modulus * p + (a % Modulus) /\ p \in Int /\ a % Modulus \in Nat
      /\ b = Modulus * q + (b % Modulus) /\ q \in Int /\ b % Modulus \in Nat
  BY <1>1
<1> HIDE DEF p, q
<1>3. (a % Modulus) - (b % Modulus) + Modulus = Modulus * ((q - p) + 1) + (a - b) /\ (q - p) + 1 \in Int
  <2>1. Modulus * ((q - p) + 1) = Modulus * q - Modulus * p + Modulus
    BY <1>1, <1>2, Z3
  <2>2. Modulus * q \in Int /\ Modulus * p \in Int /\ (q - p) + 1 \in Int
    BY <1>1, <1>2
  <2> DEFINE ra == a % Modulus
             rb == b % Modulus
             pm == Modulus * p
             qm == Modulus * q
             z == Modulus * ((q - p) + 1)
  <2>3. /\ a = pm + ra /\ b = qm + rb /\ z = qm - pm + Modulus
        /\ pm \in Int /\ qm \in Int /\ ra \in Int /\ rb \in Int
    BY <1>2, <2>1, <2>2
  <2>4. ra - rb + Modulus = z + (a - b)
    <3> HIDE DEF ra, rb, pm, qm, z
    <3> QED
      BY <1>1, <2>3
  <2> QED
    BY <2>2, <2>4
<1>4. a - b \in 0 .. Modulus - 1
  BY <1>1
<1>5. (Modulus * ((q - p) + 1) + (a - b)) % Modulus = a - b
  BY <1>1, <1>3, <1>4, ModUnique
<1> QED
  BY <1>3, <1>5 DEF Sub

\* The mask picks the same cell for a position and for the number it stands for.
LEMMA IndexPosition ==
  ASSUME NEW a \in Nat, NEW i \in Nat
  PROVE  Index((a % Modulus) + i) = (a + i) % Size
<1> DEFINE q == a \div Modulus
           k == Modulus \div Size
<1>1. Modulus \in Nat \ {0} /\ Size \in Nat \ {0} /\ Modulus % Size = 0
  BY ByteRingAssumption
<1>2. a = Modulus * q + (a % Modulus) /\ q \in Int /\ a % Modulus \in Nat
  BY <1>1
<1>3. Modulus = Size * k /\ k \in Int
  BY <1>1
<1> HIDE DEF q, k
<1>4. Modulus * q = Size * (k * q) /\ k * q \in Int
  BY <1>1, <1>2, <1>3, Z3
<1>5. a + i = Size * (k * q) + ((a % Modulus) + i) /\ (a % Modulus) + i \in Nat
  <2>1. Size * (k * q) \in Int
    BY <1>1, <1>4
  <2> QED
    BY <1>2, <1>4, <2>1
<1>6. (Size * (k * q) + ((a % Modulus) + i)) % Size = ((a % Modulus) + i) % Size
  BY <1>1, <1>4, <1>5, ModShift
<1> QED
  BY <1>5, <1>6 DEF Index

\* Two bytes less than a turn apart are in different cells.
LEMMA CellsApart ==
  ASSUME NEW a \in Nat, NEW b \in Nat, a < b, b < a + Size
  PROVE  a % Size # b % Size
<1> DEFINE q == a \div Size
           d == b - a
<1>1. Size \in Nat \ {0} /\ d \in 1 .. Size - 1
  BY ByteRingAssumption
<1>2. a = Size * q + (a % Size) /\ q \in Int /\ a % Size \in 0 .. Size - 1
  BY <1>1
<1> HIDE DEF q
<1>3. CASE (a % Size) + d <= Size - 1
  <2>1. b = Size * q + ((a % Size) + d) /\ (a % Size) + d \in 0 .. Size - 1
    BY <1>1, <1>2, <1>3
  <2>2. b % Size = (a % Size) + d
    BY <1>1, <1>2, <2>1, ModUnique
  <2> QED
    BY <1>1, <1>2, <2>2
<1>4. CASE (a % Size) + d >= Size
  <2>1. b = Size * (q + 1) + ((a % Size) + d - Size) /\ (a % Size) + d - Size \in 0 .. Size - 1 /\ q + 1 \in Int
    BY <1>1, <1>2, <1>4, Z3
  <2>2. b % Size = (a % Size) + d - Size
    BY <1>1, <2>1, ModUnique
  <2> QED
    BY <1>1, <1>2, <2>2
<1> QED
  BY <1>1, <1>2, <1>3, <1>4

-----------------------------------------------------------------------------
(* The invariant.                                                          *)

\* The numbers behind the positions.
Numeric ==
    /\ total \in Nat /\ Done \in Nat /\ len \in Nat /\ put \in Nat /\ put <= len /\ avail \in Nat
    /\ Len(fetched) \in Nat /\ Len(fetched) <= avail
    /\ Size \in Nat /\ MaxBytes \in Nat /\ MaxLen \in Nat
    /\ Sub(write_pos, read_pos) = total - Done

\* The positions tell how many bytes are in the ring.
LEMMA Numbers == Types /\ Positions /\ Filling => Numeric
<1> SUFFICES ASSUME Types, Positions, Filling PROVE Numeric
  OBVIOUS
<1>1. /\ total \in Nat /\ Done \in Nat /\ len \in Nat /\ put \in Nat /\ put <= len /\ avail \in Nat
      /\ Len(fetched) \in Nat /\ Len(fetched) <= avail
      /\ Size \in Nat /\ MaxBytes \in Nat /\ MaxLen \in Nat
  BY ByteRingAssumption DEF Types, Done
<1>2. total - Done < Modulus /\ Done <= total
  BY <1>1, ByteRingAssumption DEF Filling
<1> QED
  BY <1>1, <1>2, SubPosition DEF Positions, Numeric

\* The ring starts empty.
LEMMA InitBytes == ByteInit => ByteInv
<1> SUFFICES ASSUME ByteInit PROVE ByteInv
  OBVIOUS
<1> USE ByteRingAssumption DEF ByteInit
<1>1. Done = 0 /\ 1 .. 0 = {} /\ Len(fetched) = 0
  BY DEF Done
<1>2. Types
  BY DEF Types
<1>3. 0 % Modulus = 0
  OBVIOUS
<1>4. Positions
  BY <1>1, <1>3 DEF Positions
<1>6. Filling
  BY <1>1 DEF Filling
<1>5. Cells
  BY <1>1 DEF Cells
<1> QED
  BY <1>2, <1>4, <1>5, <1>6 DEF ByteInv, Fetched

\* Room that was seen does not shrink: only the producer fills the ring.
LEMMA WriteBeginInv ==
  ASSUME ByteInv, NEW n \in 1 .. MaxLen, WriteBegin(n)
  PROVE  ByteInv'
<1> USE DEF ByteInv, WriteBegin, reading
<1>0. Numeric
  BY Numbers
<1>1. n <= Size - 1 - (total - Done)
  BY <1>0 DEF Numeric, FreeSpace
<1>2. Types'
  BY <1>0 DEF Numeric, Types
<1>3. Positions'
  BY DEF Positions, Done
<1>4. Filling'
  BY <1>1, <1>0 DEF Numeric, Filling, Done
<1>5. Cells'
  BY <1>0 DEF Numeric, Cells, Done
<1>6. Fetched'
  BY DEF Fetched, Done
<1> QED
  BY <1>2, <1>3, <1>4, <1>5, <1>6

\* A byte is written to a cell whose byte has been read.
LEMMA WriteByteInv ==
  ASSUME ByteInv, WriteByte
  PROVE  ByteInv'
<1> USE DEF ByteInv, WriteByte, reading
<1>0. Numeric
  BY Numbers
<1> DEFINE x == total + put
<1>1. x \in Nat /\ Done <= x /\ x < Done + Size /\ x + 1 \in 0 .. MaxBytes
  BY <1>0 DEF Numeric, Filling
<1>2. Index(write_pos + put) = x % Size /\ x % Size \in 0 .. Size - 1
  <2>1. Index((total % Modulus) + put) = x % Size
    BY <1>0, IndexPosition DEF Numeric
  <2>2. x % Size \in 0 .. Size - 1
    BY <1>1, ByteRingAssumption
  <2> QED
    BY <2>1, <2>2 DEF Positions
<1>3. buffer' = [buffer EXCEPT ![x % Size] = x + 1]
  BY <1>2
<1>4. Types'
  BY <1>1, <1>2, <1>3, <1>0 DEF Numeric, Types
<1>5. Positions' /\ Filling'
  BY <1>0 DEF Numeric, Positions, Filling, Done
<1>6. buffer'[x % Size] = x + 1
  BY <1>2, <1>3 DEF Types
<1>7. ASSUME NEW n \in Nat, Done <= n, n < x
      PROVE  buffer'[n % Size] = n + 1
  <2>1. n % Size # x % Size
    <3>1. n < x /\ x < n + Size
      BY <1>1, <1>7, <1>0 DEF Numeric
    <3> HIDE DEF x
    <3> QED
      BY <1>1, <3>1, CellsApart
  <2>2. buffer[n % Size] = n + 1
    <3>1. n < total \/ (total <= n /\ n < total + put)
      BY <1>7, <1>0 DEF Numeric
    <3> QED
      BY <1>7, <3>1 DEF Cells
  <2>3. n % Size \in 0 .. Size - 1
    BY ByteRingAssumption
  <2> QED
    BY <1>3, <2>1, <2>2, <2>3 DEF Types
<1>8. Cells'
  <2>1. ASSUME NEW n \in Nat, Done <= n, n < total PROVE buffer'[n % Size] = n + 1
    <3>1. n < x
      BY <2>1, <1>0 DEF Numeric
    <3> QED
      BY <1>7, <2>1, <3>1
  <2>2. ASSUME NEW n \in Nat, total <= n, n < total + (put + 1) PROVE buffer'[n % Size] = n + 1
    <3>1. n < x \/ n = x
      BY <2>2, <1>0 DEF Numeric
    <3>2. CASE n < x
      <4>1. Done <= n
        BY <2>2, <1>0 DEF Numeric, Filling
      <4> QED
        BY <1>7, <3>2, <4>1
    <3>3. CASE n = x
      BY <1>6, <3>3
    <3> QED
      BY <3>1, <3>2, <3>3
  <2> QED
    BY <2>1, <2>2 DEF Cells, Done
<1>9. Fetched'
  BY DEF Fetched, Done
<1> QED
  BY <1>4, <1>5, <1>8, <1>9

\* The bytes are in place when the position is stored.
LEMMA WritePublishInv ==
  ASSUME ByteInv, WritePublish
  PROVE  ByteInv'
<1> USE DEF ByteInv, WritePublish, reading
<1>0. Numeric
  BY Numbers
<1>1. total + len \in 0 .. MaxBytes /\ total + len - Done <= Size - 1 /\ Done <= total + len
  BY <1>0 DEF Numeric, Filling
<1>2. write_pos' = (total + len) % Modulus
  BY <1>0, PlusPosition DEF Numeric, Positions
<1>3. Types'
  BY <1>1 DEF Types
<1>4. Positions' /\ Filling'
  <2>1. Positions'
    BY <1>2 DEF Positions, Done
  <2>2. Filling'
    BY <1>0, <1>1 DEF Numeric, Filling, Done
  <2> QED
    BY <2>1, <2>2
<1>5. Cells'
  <2>1. ASSUME NEW n \in Nat, Done <= n, n < total + len PROVE buffer[n % Size] = n + 1
    <3>1. n < total \/ (total <= n /\ n < total + put)
      BY <2>1, <1>0 DEF Numeric
    <3> QED
      BY <2>1, <3>1 DEF Cells
  <2> QED
    BY <2>1 DEF Cells, Done
<1>6. Fetched'
  BY DEF Fetched, Done
<1> QED
  BY <1>3, <1>4, <1>5, <1>6

\* Bytes that were seen stay: only the consumer empties the ring.
LEMMA ReadBeginInv ==
  ASSUME ByteInv, NEW max \in 1 .. MaxLen, ReadBegin(max)
  PROVE  ByteInv'
<1> USE DEF ByteInv, ReadBegin, writing
<1>0. Numeric
  BY Numbers
<1>1. avail' = (IF total - Done > max THEN max ELSE total - Done) /\ total - Done # 0
  BY <1>0 DEF Numeric
<1>2. avail' \in 0 .. MaxLen /\ avail' >= 1 /\ Done + avail' <= total
  BY <1>1, <1>0 DEF Numeric, Filling
<1>3. Len(fetched') = 0 /\ fetched' \in Seq(0 .. MaxBytes)
  OBVIOUS
<1>4. Types'
  BY <1>2, <1>3 DEF Types
<1>5. Positions' /\ Filling'
  BY <1>2 DEF Positions, Filling, Done
<1>6. Cells'
  BY DEF Cells, Done
<1>7. Fetched'
  BY <1>3 DEF Fetched
<1> QED
  BY <1>4, <1>5, <1>6, <1>7

\* A byte is copied before its cell is given back.
LEMMA ReadByteInv ==
  ASSUME ByteInv, ReadByte
  PROVE  ByteInv'
<1> USE DEF ByteInv, ReadByte, writing
<1>0. Numeric
  BY Numbers
<1> DEFINE x == Done + Len(fetched)
<1>1. x \in Nat /\ Done <= x /\ x < total
  BY <1>0 DEF Numeric, Filling
<1>2. buffer[Index(read_pos + Len(fetched))] = x + 1
  <2>1. Index((Done % Modulus) + Len(fetched)) = x % Size
    BY <1>0, IndexPosition DEF Numeric
  <2>2. buffer[x % Size] = x + 1
    BY <1>1 DEF Cells
  <2> QED
    BY <2>1, <2>2 DEF Positions
<1>3. x + 1 \in 0 .. MaxBytes
  BY <1>1, <1>0 DEF Numeric, Types
<1>4. /\ fetched' \in Seq(0 .. MaxBytes) /\ Len(fetched') = Len(fetched) + 1
      /\ fetched'[Len(fetched) + 1] = Done + (Len(fetched) + 1)
      /\ \A i \in 1 .. Len(fetched) : fetched'[i] = fetched[i]
  <2>1. fetched' = Append(fetched, x + 1) /\ fetched \in Seq(0 .. MaxBytes)
    BY <1>2 DEF Types
  <2>2. x + 1 = Done + (Len(fetched) + 1)
    BY <1>0 DEF Numeric
  <2> HIDE DEF x
  <2> QED
    BY <1>3, <2>1, <2>2
<1>5. Types'
  BY <1>4, <1>0 DEF Numeric, Types
<1>6. Positions' /\ Filling'
  BY DEF Positions, Filling, Done
<1>7. Cells'
  BY DEF Cells, Done
<1>8. Fetched'
  <2>1. ASSUME NEW i \in 1 .. Len(fetched) + 1 PROVE fetched'[i] = Done + i
    <3>1. i \in 1 .. Len(fetched) \/ i = Len(fetched) + 1
      BY <1>0 DEF Numeric
    <3> QED
      BY <1>4, <3>1 DEF Fetched
  <2> QED
    BY <2>1, <1>4 DEF Fetched, Done
<1> QED
  BY <1>5, <1>6, <1>7, <1>8

\* The cells are given back when the position is stored.
LEMMA ReadPublishInv ==
  ASSUME ByteInv, ReadPublish
  PROVE  ByteInv' /\ Done' = Done + avail
<1> USE DEF ByteInv, ReadPublish, writing
<1>0. Numeric
  BY Numbers
<1>1. received' \in Seq(0 .. MaxBytes) /\ Done' = Done + avail
  <2>1. received \in Seq(0 .. MaxBytes) /\ fetched \in Seq(0 .. MaxBytes)
    BY DEF Types
  <2> QED
    BY <2>1, ConcatProperties DEF Done
<1>2. read_pos' = (Done + avail) % Modulus
  BY <1>0, PlusPosition DEF Numeric, Positions
<1>3. Types'
  BY <1>1 DEF Types
<1>4. Positions' /\ Filling'
  <2>1. Positions'
    BY <1>1, <1>2 DEF Positions
  <2>2. Filling'
    BY <1>1, <1>0 DEF Numeric, Filling
  <2> QED
    BY <2>1, <2>2
<1>5. Cells'
  <2>1. \A n \in Nat : Done' <= n => Done <= n
    BY <1>1, <1>0 DEF Numeric
  <2> QED
    BY <2>1 DEF Cells
<1> QED
  BY <1>1, <1>3, <1>4, <1>5 DEF Fetched

\* The invariant holds in every behaviour.
THEOREM ByteInvariance == ByteSpec => []ByteInv
<1>1. ByteInv /\ [ByteNext]_byteVars => ByteInv'
  <2> SUFFICES ASSUME ByteInv, [ByteNext]_byteVars PROVE ByteInv'
    OBVIOUS
  <2>1. CASE UNCHANGED byteVars
    BY <2>1 DEF byteVars, ByteInv, Types, Positions, Filling, Cells, Fetched, Done
  <2> QED
    BY <2>1, WriteBeginInv, WriteByteInv, WritePublishInv, ReadBeginInv, ReadByteInv, ReadPublishInv DEF ByteNext
<1> QED
  BY <1>1, InitBytes, PTL DEF ByteSpec

\* Type correctness: among others, never more than Size - 1 bytes seem to be in
\* the ring.
THEOREM ByteTypes == ByteSpec => []ByteTypeOK
<1>1. ByteInv => ByteTypeOK
  <2> SUFFICES ASSUME ByteInv PROVE ByteTypeOK
    OBVIOUS
  <2>1. Numeric
    BY Numbers DEF ByteInv
  <2>2. Sub(write_pos, read_pos) <= Size - 1
    BY <2>1 DEF ByteInv, Numeric, Filling
  <2>3. write_pos \in 0 .. Modulus - 1 /\ read_pos \in 0 .. Modulus - 1
    BY <2>1, ByteRingAssumption DEF ByteInv, Numeric, Positions
  <2> QED
    BY <2>2, <2>3 DEF ByteInv, Types, ByteTypeOK
<1> QED
  BY <1>1, ByteInvariance, PTL

-----------------------------------------------------------------------------
(* The ring is a queue.                                                    *)

\* The bytes in the ring, by their numbers.
Bytes == [i \in 1 .. total - Done |-> Done + i]

\* A function on 1 .. n is a sequence.
LEMMA FunctionSequence ==
  ASSUME NEW n \in Nat, NEW S, NEW f \in [1 .. n -> S]
  PROVE  f \in Seq(S) /\ Len(f) = n
<1>1. f \in Seq(S)
  BY SeqDef
<1>2. Len(f) \in Nat /\ DOMAIN f = 1 .. Len(f)
  BY <1>1, LenProperties
<1> QED
  BY <1>1, <1>2

\* The bytes in the ring are a sequence of numbers.
LEMMA BytesFacts ==
  ByteInv => /\ Bytes \in Seq(Nat) /\ Len(Bytes) = total - Done
          /\ \A i \in 1 .. total - Done : Bytes[i] = Done + i
<1> SUFFICES ASSUME ByteInv
             PROVE  /\ Bytes \in Seq(Nat) /\ Len(Bytes) = total - Done
                    /\ \A i \in 1 .. total - Done : Bytes[i] = Done + i
  OBVIOUS
<1>1. Numeric /\ Done <= total
  BY Numbers DEF ByteInv, Filling
<1>2. total - Done \in Nat
  BY <1>1 DEF Numeric
<1>3. Bytes \in [1 .. total - Done -> Nat]
  BY <1>1 DEF Numeric, Bytes
<1> QED
  BY <1>2, <1>3, FunctionSequence DEF Bytes

\* The cells from the position of the reader on hold the bytes by their numbers.
LEMMA ContentsNumbers == ByteInv => Contents = Bytes
<1> SUFFICES ASSUME ByteInv PROVE Contents = Bytes
  OBVIOUS
<1>1. Numeric /\ Done <= total
  BY Numbers DEF ByteInv, Filling
<1>2. ASSUME NEW i \in 1 .. total - Done
      PROVE  buffer[Index(read_pos + i - 1)] = Done + i
  <2> DEFINE n == Done + (i - 1)
  <2>1. i \in Nat /\ i - 1 \in Nat /\ n \in Nat /\ Done <= n /\ n < total /\ n + 1 = Done + i
    BY <1>1 DEF Numeric
  <2>2. Index((Done % Modulus) + (i - 1)) = n % Size
    BY <1>1, <2>1, IndexPosition DEF Numeric
  <2>3. read_pos + i - 1 = (Done % Modulus) + (i - 1)
    <3>1. read_pos = Done % Modulus /\ read_pos \in Int
      BY <1>1, ByteRingAssumption DEF ByteInv, Positions, Numeric
    <3> QED
      BY <3>1, <2>1
  <2>4. buffer[n % Size] = n + 1
    BY <2>1 DEF ByteInv, Cells
  <2> HIDE DEF n
  <2> QED
    BY <2>1, <2>2, <2>3, <2>4
<1>3. Sub(write_pos, read_pos) = total - Done
  BY <1>1 DEF Numeric
<1> QED
  BY <1>2, <1>3 DEF Contents, Bytes

\* When write_pos_ is stored, the bytes of the call are appended.
LEMMA WriteAppends ==
  ASSUME ByteInv, WritePublish, Bytes' \in Seq(Nat), Len(Bytes') = total' - Done',
         \A i \in 1 .. total' - Done' : Bytes'[i] = Done' + i
  PROVE  /\ len \in 1 .. MaxLen /\ Len(Bytes) + len <= Size - 1
         /\ Bytes' = Bytes \o [i \in 1 .. len |-> total + i]
         /\ total' = total + len /\ received' = received
<1> DEFINE new == [i \in 1 .. len |-> total + i]
<1>1. Numeric /\ Done <= total /\ wpc = "copy" /\ len >= 1 /\ total + len - Done <= Size - 1
  BY Numbers DEF ByteInv, Filling, WritePublish
<1>2. total' = total + len /\ received' = received /\ Done' = Done
  BY DEF WritePublish, reading, Done
<1>3. len \in 1 .. MaxLen /\ Len(Bytes) + len <= Size - 1
  BY <1>1, BytesFacts DEF ByteInv, Types, Numeric
<1>4. new \in Seq(Nat) /\ Len(new) = len /\ \A i \in 1 .. len : new[i] = total + i
  <2>1. new \in [1 .. len -> Nat] /\ len \in Nat
    BY <1>1 DEF Numeric
  <2> QED
    BY <2>1, FunctionSequence
<1> HIDE DEF new
<1>5. /\ Bytes \o new \in Seq(Nat) /\ Len(Bytes \o new) = (total - Done) + len
      /\ \A i \in 1 .. (total - Done) + len :
            (Bytes \o new)[i] = IF i <= total - Done THEN Bytes[i] ELSE new[i - (total - Done)]
  <2>1. Bytes \in Seq(Nat) /\ Len(Bytes) = total - Done
    BY BytesFacts
  <2>2. /\ Bytes \o new \in Seq(Nat) /\ Len(Bytes \o new) = Len(Bytes) + Len(new)
        /\ \A i \in 1 .. Len(Bytes) + Len(new) :
              (Bytes \o new)[i] = IF i <= Len(Bytes) THEN Bytes[i] ELSE new[i - Len(Bytes)]
    BY <1>4, <2>1, ConcatProperties
  <2> QED
    BY <1>4, <2>1, <2>2
<1>6. Len(Bytes') = Len(Bytes \o new)
  BY <1>1, <1>2, <1>5 DEF Numeric
<1>7. ASSUME NEW i \in 1 .. Len(Bytes') PROVE Bytes'[i] = (Bytes \o new)[i]
  <2>1. i \in 1 .. (total - Done) + len /\ Bytes'[i] = Done + i /\ i \in Nat
    BY <1>1, <1>2 DEF Numeric
  <2>2. CASE i <= total - Done
    <3>1. i \in 1 .. total - Done
      BY <1>1, <2>1, <2>2 DEF Numeric
    <3> QED
      BY <1>5, <2>1, <2>2, <3>1, BytesFacts
  <2>3. CASE ~(i <= total - Done)
    <3>1. i - (total - Done) \in 1 .. len /\ total + (i - (total - Done)) = Done + i
      BY <1>1, <2>1, <2>3 DEF Numeric
    <3> QED
      BY <1>4, <1>5, <2>1, <2>3, <3>1
  <2> QED
    BY <2>2, <2>3
<1>8. Bytes' = Bytes \o new
  BY <1>5, <1>6, <1>7, SeqEqual
<1> QED
  BY <1>2, <1>3, <1>8 DEF new

\* When read_pos_ is stored, the bytes copied are taken from the front.
LEMMA ReadTakes ==
  ASSUME ByteInv, ReadPublish, Bytes' \in Seq(Nat), Len(Bytes') = total' - Done',
         \A i \in 1 .. total' - Done' : Bytes'[i] = Done' + i
  PROVE  /\ avail \in 1 .. Len(Bytes)
         /\ Bytes' = SubSeq(Bytes, avail + 1, Len(Bytes))
         /\ received' = received \o SubSeq(Bytes, 1, avail)
         /\ total' = total
<1>1. Numeric /\ Done <= total /\ rpc = "copy" /\ avail >= 1 /\ Done + avail <= total /\ Len(fetched) = avail
  BY Numbers DEF ByteInv, Filling, ReadPublish
<1>2. total' = total /\ received' = received \o fetched /\ Done' = Done + avail
  BY ReadPublishInv DEF ReadPublish, writing
<1>3. avail \in 1 .. Len(Bytes) /\ Len(Bytes) = total - Done /\ Len(Bytes) \in Nat
  BY <1>1, BytesFacts DEF Numeric
<1>4. \A i \in 1 .. Len(Bytes) : Bytes[i] \in Nat
  <2>1. Bytes \in Seq(Nat)
    BY BytesFacts
  <2> QED
    BY <2>1, ElementOfSeq
<1>5. fetched = SubSeq(Bytes, 1, avail)
  <2> DEFINE front == SubSeq(Bytes, 1, avail)
  <2>1. \A i \in 1 .. avail : Bytes[i] \in Nat
    BY <1>3, <1>4
  <2>2. /\ front \in Seq(Nat) /\ Len(front) = avail
        /\ \A i \in 1 .. avail - 1 + 1 : front[i] = Bytes[1 + i - 1]
    BY <1>1, <2>1, SubSeqProperties DEF Numeric
  <2>3. \A i \in 1 .. avail : front[i] = Done + i
    <3> SUFFICES ASSUME NEW i \in 1 .. avail PROVE front[i] = Done + i
      OBVIOUS
    <3>1. i \in 1 .. avail - 1 + 1 /\ 1 + i - 1 = i /\ i \in 1 .. total - Done
      BY <1>1, <1>3 DEF Numeric
    <3> QED
      BY <2>2, <3>1, BytesFacts
  <2>4. fetched \in Seq(Nat)
    <3>1. fetched \in Seq(0 .. MaxBytes)
      BY DEF ByteInv, Types
    <3>2. 0 .. MaxBytes \subseteq Nat
      OBVIOUS
    <3> QED
      BY <3>1, <3>2, SeqMonotonic
  <2>5. \A i \in 1 .. Len(fetched) : fetched[i] = front[i]
    BY <1>1, <2>3 DEF ByteInv, Fetched
  <2> HIDE DEF front
  <2>6. fetched = front
    BY <1>1, <2>2, <2>4, <2>5, SeqEqual
  <2> QED
    BY <2>6 DEF front
<1>6. Bytes' = SubSeq(Bytes, avail + 1, Len(Bytes))
  <2> DEFINE rest == SubSeq(Bytes, avail + 1, Len(Bytes))
             m == Len(Bytes) - avail
  <2>1. \A i \in avail + 1 .. Len(Bytes) : Bytes[i] \in Nat
    BY <1>1, <1>3, <1>4 DEF Numeric
  <2>2. /\ rest \in Seq(Nat)
        /\ Len(rest) = IF avail + 1 <= Len(Bytes) THEN Len(Bytes) - (avail + 1) + 1 ELSE 0
        /\ \A i \in 1 .. Len(Bytes) - (avail + 1) + 1 : rest[i] = Bytes[avail + 1 + i - 1]
    BY <1>1, <1>3, <2>1, SubSeqProperties DEF Numeric
  <2>3. Len(rest) = m /\ m \in Nat
    BY <1>1, <1>3, <2>2 DEF Numeric
  <2>4. Len(Bytes') = m
    BY <1>1, <1>2, <1>3 DEF Numeric
  <2>5. ASSUME NEW i \in 1 .. m PROVE Bytes'[i] = rest[i]
    <3>1. /\ i \in 1 .. Len(Bytes) - (avail + 1) + 1 /\ avail + 1 + i - 1 = avail + i
          /\ avail + i \in 1 .. total - Done /\ i \in 1 .. total' - Done'
          /\ Done' + i = Done + (avail + i)
      BY <1>1, <1>2, <1>3, <2>3 DEF Numeric
    <3>2. rest[i] = Done + (avail + i)
      BY <2>2, <3>1, BytesFacts
    <3> QED
      BY <3>1, <3>2
  <2> HIDE DEF rest, m
  <2>6. Bytes' = rest
    BY <2>2, <2>3, <2>4, <2>5, SeqEqual
  <2> QED
    BY <2>6 DEF rest
<1> QED
  BY <1>2, <1>3, <1>5, <1>6

\* What is between the positions, in a form that can be primed.
BytesRight ==
    /\ Contents = Bytes
    /\ Bytes \in Seq(Nat) /\ Len(Bytes) = total - Done
    /\ \A i \in 1 .. total - Done : Bytes[i] = Done + i

\* The invariant determines the contents of the ring.
LEMMA ByteInvRight == ByteInv => BytesRight
  BY ContentsNumbers, BytesFacts DEF BytesRight

\* SPSCRingBuffer implements the queue of bytes: a write happens when write_pos_
\* is stored, a read when read_pos_ is stored, and nothing else changes it.
THEOREM ByteRefinement == ByteSpec => ImplementsQueue
<1>1. ByteInit => Queue!Init
  <2> SUFFICES ASSUME ByteInit PROVE Queue!Init
    OBVIOUS
  <2>1. ByteInv /\ total = 0 /\ received = <<>> /\ Done = 0
    BY InitBytes DEF ByteInit, Done
  <2>2. Contents = Bytes /\ Bytes \in Seq(Nat) /\ Len(Bytes) = 0
    BY <2>1, ContentsNumbers, BytesFacts
  <2>3. Bytes = <<>>
    BY <2>2, EmptySeq
  <2> QED
    BY <2>1, <2>2, <2>3 DEF Queue!Init
<1>2. ByteInv' => BytesRight'
  BY ByteInvRight, PTL
<1>3. ByteInv /\ ByteInv' /\ [ByteNext]_byteVars => [Queue!Next]_<<Contents, total, received>>
  <2> SUFFICES ASSUME ByteInv, ByteInv', [ByteNext]_byteVars
               PROVE  Queue!Next \/ UNCHANGED <<Contents, total, received>>
    OBVIOUS
  <2>1. /\ Contents = Bytes /\ Contents' = Bytes'
        /\ Bytes' \in Seq(Nat) /\ Len(Bytes') = total' - Done'
        /\ \A i \in 1 .. total' - Done' : Bytes'[i] = Done' + i
    BY <1>2, ByteInvRight DEF BytesRight
  <2>2. CASE WritePublish
    <3>1. /\ len \in 1 .. MaxLen /\ Len(Bytes) + len <= Size - 1
          /\ Bytes' = Bytes \o [i \in 1 .. len |-> total + i]
          /\ total' = total + len /\ received' = received
      BY <2>1, <2>2, WriteAppends
    <3> QED
      BY <2>1, <3>1 DEF Queue!Next, Queue!Write
  <2>3. CASE ReadPublish
    <3>1. /\ avail \in 1 .. Len(Bytes)
          /\ Bytes' = SubSeq(Bytes, avail + 1, Len(Bytes))
          /\ received' = received \o SubSeq(Bytes, 1, avail)
          /\ total' = total
      BY <2>1, <2>3, ReadTakes
    <3> QED
      BY <2>1, <3>1 DEF Queue!Next, Queue!Read
  <2>4. CASE UNCHANGED <<total, received>>
    BY <2>1, <2>4 DEF Bytes, Done
  <2>5. (\E n \in 1 .. MaxLen : WriteBegin(n) \/ ReadBegin(n)) \/ WriteByte \/ ReadByte \/ UNCHANGED byteVars
        => UNCHANGED <<total, received>>
    BY DEF WriteBegin, ReadBegin, WriteByte, ReadByte, byteVars, reading, writing
  <2> QED
    BY <2>2, <2>3, <2>4, <2>5 DEF ByteNext
<1> QED
  BY <1>1, <1>3, ByteInvariance, PTL DEF ByteSpec, ImplementsQueue, Queue!Spec

=============================================================================
