\* Automatic saving, also on exit; reloading asks.
CONSTANTS
  Changes = {c1, c2}
  Absent = Absent
  MaxFrames = 1
  AutoSave = {TRUE}
  AutoReload = {FALSE}
  AutoSaveOnExit = {TRUE}
  RelockAutoType = {FALSE}
SPECIFICATION Spec
PROPERTIES LockedIsNeverSaved
CHECK_DEADLOCK FALSE
