\* Every setting may be switched at any time; questions nest two deep.
\* A run ends where the program uses a deleted object.
CONSTANTS
  Changes = {c1, c2}
  Absent = Absent
  MaxFrames = 2
  AutoSave = {TRUE, FALSE}
  AutoReload = {TRUE, FALSE}
  AutoSaveOnExit = {TRUE, FALSE}
  RelockAutoType = {TRUE, FALSE}
SPECIFICATION Spec
SYMMETRY Symmetry
PROPERTIES StaysTracked LossIsExplained DanglingIsExplained MissedIsExplained WatchEndsOnlyWhenLockedOrAbsent
CHECK_DEADLOCK FALSE
