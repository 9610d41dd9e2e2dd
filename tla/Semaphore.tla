----------------------------- MODULE Semaphore ------------------------------
(***************************************************************************)
(* class Semaphore (threads/semaphore/semaphore.cpp): a counter guarded by *)
(* a pthread mutex, with a condition variable that `up' signals after it   *)
(* has given the mutex back.  Every bounded buffer of the server and the   *)
(* mutex of the player pool are built from it.                             *)
(***************************************************************************)
EXTENDS Integers, FiniteSets

CONSTANTS
    Thread, NoThread,
    Value,          \* initial value
    Calls           \* bound on the calls of a thread

ASSUME SemaphoreAssumption ==
    /\ NoThread \notin Thread
    /\ IsFiniteSet(Thread)
    /\ Value \in Nat
    /\ Calls \in Nat

VARIABLES
    value,
    mutex,          \* holder of the pthread mutex
    waiting,        \* threads inside pthread_cond_wait
    pc,             \* where a thread is in down or up
    calls           \* calls a thread has begun

vars == <<value, mutex, waiting, pc, calls>>

TypeOK ==
    /\ value \in Nat
    /\ mutex \in Thread \cup {NoThread}
    /\ waiting \in SUBSET Thread
    /\ pc \in [Thread -> {"idle", "down", "test", "wait", "leave", "up", "add", "unlock", "signal"}]
    /\ calls \in [Thread -> 0 .. Calls]

Init ==
    /\ value = Value
    /\ mutex = NoThread
    /\ waiting = {}
    /\ pc = [t \in Thread |-> "idle"]
    /\ calls = [t \in Thread |-> 0]

Goto(t, from, to) ==
    /\ pc[t] = from
    /\ pc' = [pc EXCEPT ![t] = to]

Call(t) ==
    /\ calls[t] < Calls
    /\ calls' = [calls EXCEPT ![t] = @ + 1]
    /\ Goto(t, "idle", "down") \/ Goto(t, "idle", "up")
    /\ UNCHANGED <<value, mutex, waiting>>

-----------------------------------------------------------------------------
(* down                                                                    *)

LockDown(t) ==
    /\ Goto(t, "down", "test")
    /\ mutex = NoThread
    /\ mutex' = t
    /\ UNCHANGED <<value, waiting, calls>>

\* pthread_cond_wait gives the mutex back and goes to sleep in one step.
Wait(t) ==
    /\ Goto(t, "test", "wait")
    /\ value <= 0
    /\ waiting' = waiting \cup {t}
    /\ mutex' = NoThread
    /\ UNCHANGED <<value, calls>>

\* A thread that was woken takes the mutex and tests the value again.
Wake(t) ==
    /\ Goto(t, "wait", "test")
    /\ t \notin waiting
    /\ mutex = NoThread
    /\ mutex' = t
    /\ UNCHANGED <<value, waiting, calls>>

\* pthread_cond_wait may return without a signal.
SpuriousWakeup(t) ==
    /\ t \in waiting
    /\ waiting' = waiting \ {t}
    /\ UNCHANGED <<value, mutex, pc, calls>>

\* Mutant: the value is not tested.
BugTake(t) ==
    /\ Goto(t, "test", "leave")
    /\ value' = value - 1
    /\ UNCHANGED <<mutex, waiting, calls>>

Take(t) ==
    /\ Goto(t, "test", "leave")
    /\ value > 0
    /\ value' = value - 1
    /\ UNCHANGED <<mutex, waiting, calls>>

UnlockDown(t) ==
    /\ Goto(t, "leave", "idle")
    /\ mutex' = NoThread
    /\ UNCHANGED <<value, waiting, calls>>

Down(t) == LockDown(t) \/ Wait(t) \/ Wake(t) \/ Take(t) \/ UnlockDown(t)

-----------------------------------------------------------------------------
(* up                                                                      *)

LockUp(t) ==
    /\ Goto(t, "up", "add")
    /\ mutex = NoThread
    /\ mutex' = t
    /\ UNCHANGED <<value, waiting, calls>>

Add(t) ==
    /\ Goto(t, "add", "unlock")
    /\ value' = value + 1
    /\ UNCHANGED <<mutex, waiting, calls>>

UnlockUp(t) ==
    /\ Goto(t, "unlock", "signal")
    /\ mutex' = NoThread
    /\ UNCHANGED <<value, waiting, calls>>

\* Mutant: nobody is woken.
BugSignal(t) ==
    /\ Goto(t, "signal", "idle")
    /\ UNCHANGED <<value, mutex, waiting, calls>>

\* pthread_cond_signal wakes one waiting thread, if there is one.
Signal(t) ==
    /\ Goto(t, "signal", "idle")
    /\ \/ waiting = {} /\ UNCHANGED waiting
       \/ \E u \in waiting : waiting' = waiting \ {u}
    /\ UNCHANGED <<value, mutex, calls>>

Up(t) == LockUp(t) \/ Add(t) \/ UnlockUp(t) \/ Signal(t)

-----------------------------------------------------------------------------
Next == \E t \in Thread : Call(t) \/ SpuriousWakeup(t) \/ Down(t) \/ Up(t)

Spec == Init /\ [][Next]_vars

-----------------------------------------------------------------------------
Critical(t) == pc[t] \in {"test", "leave", "add", "unlock"}

\* At most one thread is between lock and unlock, and only such a thread is
\* the holder of the mutex.
Exclusion == \A t \in Thread : Critical(t) <=> mutex = t

\* Semaphore is a counting semaphore: the value only moves by one step of
\* down or up at a time, and down never takes it below zero, whatever the
\* interleaving and whichever waits return without a signal.
Abstract == INSTANCE CountingSemaphore
Implements == Abstract!Spec

\* Threads that have yet to signal or to test the value.
Stirring == {t \in Thread : pc[t] \in {"unlock", "signal", "test"} \/ (pc[t] = "wait" /\ t \notin waiting)}

\* No wakeup is lost, although `up' signals after it has given the mutex back:
\* while a thread sleeps, for every unit there is somebody who has yet to signal
\* it or to test the value.
NoLostWakeup == waiting # {} => value <= Cardinality(Stirring)

=============================================================================
