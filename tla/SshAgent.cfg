\* Three tabs whose entries may hold the same two keys.
CONSTANTS
  Tabs = {t1, t2, t3}
  Keys = {k1, k2}
SYMMETRY Alike
SPECIFICATION Spec
INVARIANTS OwedKeysAreRemembered LockedTookBack
CHECK_DEADLOCK FALSE
