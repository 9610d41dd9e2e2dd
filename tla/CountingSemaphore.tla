------------------------- MODULE CountingSemaphore --------------------------
(***************************************************************************)
(* What threads/semaphore promises: a counter that never goes below zero,  *)
(* that Down takes one from and Up adds one to, each in a single step.     *)
(***************************************************************************)
EXTENDS Integers

CONSTANT Value          \* the value given to the constructor

VARIABLE value

Init == value = Value

Down == value > 0 /\ value' = value - 1

Up == value' = value + 1

Next == Down \/ Up

Spec == Init /\ [][Next]_value

=============================================================================
