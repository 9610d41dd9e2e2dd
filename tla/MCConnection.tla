---------------------------- MODULE MCConnection ----------------------------
(* Connection with one client, or with two that use the entry in turn.     *)
EXTENDS Connection, TLC

Symmetry == Permutations(Client)

=============================================================================
