----------------------------- MODULE ReplyRing ------------------------------
(***************************************************************************)
(* The reply buffers of game_data/writer/writer.cpp and                    *)
(* game_data/reader/reader.cpp, through which the writer and the reader    *)
(* thread send results back to the game thread.  They have no semaphores:  *)
(* the producer compares the pointers to see whether there is room, the    *)
(* game thread compares them to see whether there is something to fetch.   *)
(* The two buffers differ in what a producer does when it finds no room.   *)
(***************************************************************************)
EXTENDS Integers, Sequences

CONSTANTS
    Capacity,       \* NARRAY(ReplyBuffer)
    Discards,       \* TRUE: writer.cpp discards; FALSE: reader.cpp waits
    MaxReplies      \* bound on the replies the producer makes

ASSUME RingAssumption ==
    /\ Capacity \in Nat \ {0}
    /\ Discards \in BOOLEAN
    /\ MaxReplies \in Nat

VARIABLES
    ReplyBuffer, ReplyPointerWrite, ReplyPointerRead,
    ppc, reply, Replies,    \* producer: control, number of the reply, its count
    cpc, taken,             \* game thread: control, the reply it has copied
    accepted, processed     \* history: inserted and processed replies

replyVars == <<ReplyBuffer, ReplyPointerWrite, ReplyPointerRead, ppc, reply, Replies,
               cpc, taken, accepted, processed>>
ring == <<ReplyBuffer, ReplyPointerWrite, ReplyPointerRead>>
producer == <<ppc, reply, Replies, accepted>>
consumer == <<cpc, taken, processed>>

ReplyTypeOK ==
    /\ ReplyBuffer \in [0 .. Capacity - 1 -> 0 .. MaxReplies]
    /\ ReplyPointerWrite \in Nat /\ ReplyPointerRead \in Nat
    /\ ppc \in {"idle", "check", "write", "advance"}
    /\ reply \in 0 .. MaxReplies
    /\ Replies \in Nat
    /\ cpc \in {"test", "copy", "advance", "process"}
    /\ taken \in 0 .. MaxReplies
    /\ accepted \in Seq(1 .. MaxReplies) /\ processed \in Seq(0 .. MaxReplies)

ReplyInit ==
    /\ ReplyBuffer = [i \in 0 .. Capacity - 1 |-> 0]
    /\ ReplyPointerWrite = 0 /\ ReplyPointerRead = 0
    /\ ppc = "idle" /\ reply = 0 /\ Replies = 0
    /\ cpc = "test" /\ taken = 0
    /\ accepted = <<>> /\ processed = <<>>

-----------------------------------------------------------------------------
(* insert_reply                                                            *)

CountReplies ==
    /\ ppc = "idle" /\ reply < MaxReplies
    /\ reply' = reply + 1
    /\ Replies' = ReplyPointerWrite - ReplyPointerRead
    /\ ppc' = "check"
    /\ UNCHANGED <<ring, accepted, consumer>>

\* Mutant: the comparison of the reader's buffer in the writer's.
BugNoRoom == Replies > Capacity

\* The two comparisons of the code.
NoRoom == IF Discards THEN Replies >= Capacity ELSE Replies > Capacity

\* Without room the writer drops the reply; the reader stays in its loop,
\* which does not compute Replies again.
CheckRoom ==
    /\ ppc = "check"
    /\ ppc' = IF NoRoom THEN (IF Discards THEN "idle" ELSE "check") ELSE "write"
    /\ UNCHANGED <<ring, reply, Replies, accepted, consumer>>

WriteReply ==
    /\ ppc = "write" /\ ppc' = "advance"
    /\ ReplyBuffer' = [ReplyBuffer EXCEPT ![ReplyPointerWrite % Capacity] = reply]
    /\ UNCHANGED <<ReplyPointerWrite, ReplyPointerRead, reply, Replies, accepted, consumer>>

AdvanceWrite ==
    /\ ppc = "advance" /\ ppc' = "idle"
    /\ ReplyPointerWrite' = ReplyPointerWrite + 1
    /\ accepted' = Append(accepted, reply)
    /\ UNCHANGED <<ReplyBuffer, ReplyPointerRead, reply, Replies, consumer>>

-----------------------------------------------------------------------------
(* get_reply, called by the game thread until it returns false             *)

TestReply ==
    /\ cpc = "test" /\ cpc' = "copy"
    /\ ReplyPointerRead < ReplyPointerWrite
    /\ UNCHANGED <<ring, producer, taken, processed>>

CopyReply ==
    /\ cpc = "copy" /\ cpc' = "advance"
    /\ taken' = ReplyBuffer[ReplyPointerRead % Capacity]
    /\ UNCHANGED <<ring, producer, processed>>

AdvanceRead ==
    /\ cpc = "advance" /\ cpc' = "process"
    /\ ReplyPointerRead' = ReplyPointerRead + 1
    /\ UNCHANGED <<ReplyBuffer, ReplyPointerWrite, producer, taken, processed>>

ProcessReply ==
    /\ cpc = "process" /\ cpc' = "test"
    /\ processed' = Append(processed, taken)
    /\ UNCHANGED <<ring, producer, taken>>

-----------------------------------------------------------------------------
Produce == CountReplies \/ CheckRoom \/ WriteReply \/ AdvanceWrite
Consume == TestReply \/ CopyReply \/ AdvanceRead \/ ProcessReply

ReplyNext == Produce \/ Consume

ReplySpec == ReplyInit /\ [][ReplyNext]_replyVars

-----------------------------------------------------------------------------
\* The game thread processes the replies that were inserted, in their order,
\* each once and unchanged: no reply is overwritten before it is fetched.
ProcessedInOrder ==
    /\ Len(processed) <= Len(accepted)
    /\ \A i \in 1 .. Len(processed) : processed[i] = accepted[i]

=============================================================================
