------------------------------ MODULE MCQueues ------------------------------
(* Queues: three threads at a semaphore, a reply buffer of three cells, a  *)
(* ring of four bytes whose positions wrap around after eight, one         *)
(* creature with four levels, four objects that expire, three visitors of  *)
(* an NPC, and a field of five by three.                                   *)
EXTENDS Queues
=============================================================================
