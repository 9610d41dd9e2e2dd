----------------------------- MODULE MCCreatures -----------------------------
(* Creatures on small instances.  One attacker, the master of a summoned   *)
(* one, is of a low level.                                                 *)
EXTENDS Creatures, TLC

MCLevel == [a \in Attacker |-> IF a = Master THEN 1 ELSE VictimLevel]

MCPrices == {[mana |-> 1, soul |-> 1]}

\* A connection is named for its player, and the creatures are monsters: both
\* are permuted with them.
Symmetry == Permutations(Monster) \cup Permutations(Person)

=============================================================================
