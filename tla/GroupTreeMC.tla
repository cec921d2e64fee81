---------------------------- MODULE GroupTreeMC ----------------------------
(* Model values for GroupTree: one or two databases and their roots.       *)
EXTENDS GroupTree, TLC

CONSTANTS r1, r2, d1, d2

OneRoot == d1 :> r1
TwoRoots == (d1 :> r1) @@ (d2 :> r2)

\* The other groups and the entries are interchangeable.
Symmetry == Permutations(Groups \ {r1, r2}) \cup Permutations(Entries)
=============================================================================
