-------------------------- MODULE DatabaseSessionMC --------------------------
(***************************************************************************)
(* The tab for TLC: nothing tells one change from another.                 *)
(***************************************************************************)
EXTENDS DatabaseSession, TLC

Symmetry == Permutations(Changes)
=============================================================================
