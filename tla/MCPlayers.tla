----------------------------- MODULE MCPlayers ------------------------------
(* Players with a few characters.  The sets of players with special rights *)
(* are given by the configuration, so that only players without are alike. *)
EXTENDS Players, TLC

Symmetry == Permutations(Premium \cap Trusted)

=============================================================================
