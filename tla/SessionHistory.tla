--------------------------- MODULE SessionHistory ---------------------------
(***************************************************************************)
(* DatabaseSession with a history variable, for what must come of a change *)
(* in the end.                                                             *)
(***************************************************************************)
EXTENDS DatabaseSession

\* The unwritten change that left memory last was dropped without an answer,
\* when the 150 ms of m_timer were over; FALSE again with the next change.
VARIABLE lost

DroppedLate == unsaved /\ ~unsaved' /\ file' # mem /\ ~Discarded /\ ~InTheTimerWindow

ChangedAnew == unsaved' /\ mem' # mem

Remember == lost' = (DroppedLate \/ (lost /\ ~ChangedAnew))

HistorySpec ==
  /\ Init /\ lost = FALSE
  /\ [][Next /\ Remember]_<<vars, lost>>
  /\ Fairness

(***************************************************************************)
(* With the default settings every change comes to be written, shown as    *)
(* unsaved in the tab, or discarded by the user's answer, even if every    *)
(* save fails: whatever stops the modified timer has told the tab.  Only a *)
(* lock, a close or a reload within the timer's 150 ms drops it unseen     *)
(* (LossIsExplained); after them it is not dropped before it was shown.    *)
(***************************************************************************)
EditsSurface ==
  unsaved ~> \/ tabModified
             \/ ~unsaved /\ ~lost
             \/ mode = "undefined"
=============================================================================
