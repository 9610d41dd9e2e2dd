----------------------------- MODULE MCObjects ------------------------------
(* Objects on small instances: an empty access list and one that has an    *)
(* exception, and the purse of a person.                                   *)
EXTENDS Objects, TLC

CONSTANTS p1, p2

MCLists == {<<>>, <<[negate |-> TRUE, who |-> {p2}], [negate |-> FALSE, who |-> {p1, p2}]>>}
MCPurse == [gold |-> 0, platinum |-> 2, crystal |-> 1]

Symmetry == Permutations(Coin) \cup Permutations(Bag) \cup Permutations(Trader) \cup Permutations(Field)

=============================================================================
