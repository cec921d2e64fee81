\* Two tabs, so that a dialog may lose one match and keep the other; two
\* dialogs, so that a second one can be seen.
CONSTANTS
  Tabs = {t1, t2}
  Dialogs = {d1, d2}
  None = None
SPECIFICATION Spec
INVARIANTS NoLockIsStuck GuardWorks OfferedEntriesAreAlive
PROPERTIES MarkStaysWhileUnlocked
CHECK_DEADLOCK FALSE
