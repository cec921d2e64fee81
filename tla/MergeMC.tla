------------------------------ MODULE MergeMC ------------------------------
(* Model values for Merge: the groups and the entries are interchangeable.  *)
EXTENDS Merge, TLC

Symmetry == Permutations(Groups) \cup Permutations(Entries)
=============================================================================
