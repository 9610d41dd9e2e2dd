---------------------------- MODULE MCPlayerPool ----------------------------
(* PlayerPool on small instances.                                          *)
EXTENDS PlayerPool, TLC

Symmetry == Permutations(Comm) \cup Permutations(Char)

=============================================================================
