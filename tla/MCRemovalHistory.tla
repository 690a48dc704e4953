-------------------------- MODULE MCRemovalHistory --------------------------
(* RemovalHistory with two paths and two objects. *)
EXTENDS RemovalHistory

CONSTANTS a1, a2, p1, p2, o1, o2

Symmetry == Permutations(Actors) \cup Permutations(Paths) \cup Permutations(Objects)
=============================================================================
