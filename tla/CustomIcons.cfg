CONSTANTS
  Databases = {d1, d2}
  Groups = {g}
  Entries = {e}
  Icons = {u, v}
  Images = {i}
  Blank = Blank
  AsRead <- Unchanged
  NoIcon = NoIcon
SYMMETRY Alike
SPECIFICATION Spec
INVARIANTS
  StoreIsConsistent
  ImagesAreFound
  ReferencesResolve
  HistoryResolves
