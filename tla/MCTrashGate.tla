---------------------------- MODULE MCTrashGate ----------------------------
(* TrashGate on a volume of three or four paths. *)
EXTENDS TrashGate, TLC

CONSTANTS p1, p2, p3, i1, i2, i3, i4, x, y

\* No reference root, or one of the paths.
NoneOrOne == {{}} \cup {{p} : p \in Paths}

NoRefs == {{}}

\* Everywhere but between a check and the call that relies on it.
OutsideWindows == Points \ VictimWindows

\* Trusted inodes behave alike; so do the others.
Symmetry == Permutations(Paths) \cup Permutations(Trusted)
=============================================================================
