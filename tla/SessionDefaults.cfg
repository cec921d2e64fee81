\* The settings of a new installation (core/Config.cpp).
CONSTANTS
  Changes = {c1, c2}
  Absent = Absent
  MaxFrames = 1
  AutoSave = {TRUE}
  AutoReload = {TRUE}
  AutoSaveOnExit = {FALSE}
  RelockAutoType = {FALSE}
SPECIFICATION HistorySpec
INVARIANTS Tracked LockedIsEmpty
PROPERTIES EditsSurface
CHECK_DEADLOCK FALSE
