--------------------------- MODULE CustomIconsMC ---------------------------
(* Two databases that look alike, and icons that do.  Blank is the second  *)
(* image.  Images come back unchanged from the file; that they may change  *)
(* is left to the proofs, which hold for every AsRead.                     *)
EXTENDS CustomIcons, TLC

Alike == Permutations(Icons) \cup Permutations(Databases)

Unchanged == [i \in Images \cup {Blank} |-> i]

=============================================================================
