\* Two groups and an entry, every edit, three edits in all.
CONSTANTS
  Groups = {a, b}
  Entries = {e}
  Root = Root
  None = None
  Edits = {"move group", "rename group", "change settings", "create group",
           "move entry", "update entry", "create entry", "delete entry"}
  MaxEdits = 3
SPECIFICATION Spec
SYMMETRY Symmetry
INVARIANTS TypeOK EntriesAreMerged GroupsAreMerged CopiesConverge HangsOnlyOnCrossMoves
CHECK_DEADLOCK FALSE
