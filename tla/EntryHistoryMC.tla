--------------------------- MODULE EntryHistoryMC ---------------------------
(* Model values for EntryHistory.                                          *)
EXTENDS EntryHistory, TLC

CONSTANTS small, medium, large

Sizes == [x \in Values |-> CASE x = small -> 0 [] x = medium -> 1 [] x = large -> 2]
Limits == {-1, 0, 2}
Unlimited == {-1}
=============================================================================
