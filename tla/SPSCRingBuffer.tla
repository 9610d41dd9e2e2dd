--------------------------- MODULE SPSCRingBuffer ---------------------------
(***************************************************************************)
(* common/spsc_ring_buffer/spsc_ring_buffer.h: the lock-free ring between  *)
(* the WebSocket event loop and a communication thread.  One producer, one *)
(* consumer; each publishes its position with a release store after it has *)
(* copied its bytes, and loads the other's with acquire.  Positions are    *)
(* unsigned and wrap around at Modulus (2^32 in the code), so that         *)
(* write_pos_ may be smaller than read_pos_.  Bytes are copied one at a    *)
(* time, in the order of memcpy, at the index the mask gives.              *)
(***************************************************************************)
EXTENDS Integers, Sequences

CONSTANTS
    Size,           \* template parameter, a power of two
    Modulus,        \* positions are unsigned modulo this multiple of Size
    MaxLen,         \* largest len or max_len of a call
    MaxBytes        \* bound on the bytes written

ASSUME ByteRingAssumption ==
    /\ Size \in Nat /\ Size >= 2
    /\ Modulus \in Nat /\ Modulus >= Size /\ Modulus % Size = 0
    /\ MaxLen \in Nat
    /\ MaxBytes \in Nat

\* The n-th byte ever written has the value n, so every confusion of bytes
\* can be seen.
VARIABLES
    buffer, write_pos, read_pos,
    wpc, len, put,          \* producer: control, length of the call, bytes copied
    rpc, avail, fetched,    \* consumer: control, bytes to fetch, bytes copied
    total, received         \* history: bytes published; bytes returned by read

byteVars == <<buffer, write_pos, read_pos, wpc, len, put, rpc, avail, fetched, total, received>>
writing == <<wpc, len, put, total>>
reading == <<rpc, avail, fetched, received>>

Sub(a, b) == (a - b + Modulus) % Modulus      \* unsigned a - b
Plus(a, b) == (a + b) % Modulus
Index(p) == p % Size                          \* p & MASK_

ByteTypeOK ==
    /\ buffer \in [0 .. Size - 1 -> 0 .. MaxBytes]
    /\ write_pos \in 0 .. Modulus - 1 /\ read_pos \in 0 .. Modulus - 1
    /\ wpc \in {"idle", "copy"} /\ len \in 0 .. MaxLen /\ put \in 0 .. len
    /\ rpc \in {"idle", "copy"} /\ avail \in 0 .. MaxLen
    /\ fetched \in Seq(0 .. MaxBytes) /\ Len(fetched) <= avail
    /\ total \in 0 .. MaxBytes
    /\ received \in Seq(0 .. MaxBytes)
    /\ Sub(write_pos, read_pos) <= Size - 1

ByteInit ==
    /\ buffer = [i \in 0 .. Size - 1 |-> 0]
    /\ write_pos = 0 /\ read_pos = 0
    /\ wpc = "idle" /\ len = 0 /\ put = 0
    /\ rpc = "idle" /\ avail = 0 /\ fetched = <<>>
    /\ total = 0 /\ received = <<>>

FreeSpace(w, r) == (Size - 1) - Sub(w, r)

-----------------------------------------------------------------------------
(* write                                                                   *)

\* The call loads both positions and goes on only if all bytes fit.
WriteBegin(n) ==
    /\ wpc = "idle"
    /\ total + n <= MaxBytes
    /\ n <= FreeSpace(write_pos, read_pos)
    /\ wpc' = "copy" /\ len' = n /\ put' = 0
    /\ UNCHANGED <<buffer, write_pos, read_pos, total, reading>>

WriteByte ==
    /\ wpc = "copy" /\ put < len
    /\ buffer' = [buffer EXCEPT ![Index(write_pos + put)] = total + put + 1]
    /\ put' = put + 1
    /\ UNCHANGED <<write_pos, read_pos, wpc, len, total, reading>>

\* Mutant: the position is published before the bytes are in place.
BugWritePublish ==
    /\ wpc = "copy" /\ put <= len
    /\ write_pos' = Plus(write_pos, len) /\ total' = total + len
    /\ wpc' = "idle"
    /\ UNCHANGED <<buffer, read_pos, len, put, reading>>

WritePublish ==
    /\ wpc = "copy" /\ put = len
    /\ write_pos' = Plus(write_pos, len) /\ total' = total + len
    /\ wpc' = "idle"
    /\ UNCHANGED <<buffer, read_pos, len, put, reading>>

-----------------------------------------------------------------------------
(* read                                                                    *)

ReadBegin(max) ==
    /\ rpc = "idle"
    /\ Sub(write_pos, read_pos) # 0
    /\ avail' = IF Sub(write_pos, read_pos) > max THEN max ELSE Sub(write_pos, read_pos)
    /\ rpc' = "copy" /\ fetched' = <<>>
    /\ UNCHANGED <<buffer, write_pos, read_pos, received, writing>>

ReadByte ==
    /\ rpc = "copy" /\ Len(fetched) < avail
    /\ fetched' = Append(fetched, buffer[Index(read_pos + Len(fetched))])
    /\ UNCHANGED <<buffer, write_pos, read_pos, rpc, avail, received, writing>>

ReadPublish ==
    /\ rpc = "copy" /\ Len(fetched) = avail
    /\ read_pos' = Plus(read_pos, avail)
    /\ received' = received \o fetched
    /\ rpc' = "idle"
    /\ UNCHANGED <<buffer, write_pos, avail, fetched, writing>>

-----------------------------------------------------------------------------
ByteNext ==
    \/ \E n \in 1 .. MaxLen : WriteBegin(n) \/ ReadBegin(n)
    \/ WriteByte \/ WritePublish \/ ReadByte \/ ReadPublish

ByteSpec == ByteInit /\ [][ByteNext]_byteVars

-----------------------------------------------------------------------------
\* The ring implements the queue: a write appears to happen when write_pos_ is
\* stored, a read when read_pos_ is stored, and the reader gets the bytes in the
\* order in which they were written, without gap or repetition, also across the
\* end of the array and the wrap-around of the positions.
Contents == [i \in 1 .. Sub(write_pos, read_pos) |-> buffer[Index(read_pos + i - 1)]]
Queue == INSTANCE ByteQueue WITH queue <- Contents
ImplementsQueue == Queue!Spec

=============================================================================
