\* Two databases with two groups and two entries that are dragged between
\* them; either group may be below the other and be a recycle bin.
CONSTANTS
  r1 = r1
  r2 = r2
  d1 = d1
  d2 = d2
  Groups = {r1, r2, a, b}
  Entries = {e, f}
  Databases = {d1, d2}
  Root <- TwoRoots
  None = None
SPECIFICATION Spec
SYMMETRY Symmetry
INVARIANTS HangsOnARoot ListsAgree DatabaseAgrees GoneIsRecorded BinIsHereOrDeleted
PROPERTY DestructionReachesTheBin
CHECK_DEADLOCK FALSE
