----------------------------- MODULE GroupTree -----------------------------
(***************************************************************************)
(* The groups and entries of the open databases: who is in which list,     *)
(* who points to which parent, which database an object thinks it is in,   *)
(* where the recycle bins are, and which deletions are recorded.           *)
(*                                                                         *)
(* core/Group.cpp and core/Entry.cpp keep each relation twice (m_parent    *)
(* and m_children, m_group and m_entries) and m_db a third time, in every  *)
(* group; the operations below are those of gui/DatabaseWidget.cpp,        *)
(* gui/group/GroupModel.cpp and core/Database.cpp that change them.  A     *)
(* drag between two tabs moves objects between databases.                  *)
(*                                                                         *)
(* The order of siblings is left out (a list is a set here), and so are    *)
(* icons and location times.                                               *)
(***************************************************************************)
EXTENDS Functions, FiniteSets

CONSTANTS
  Groups,      \* identities (UUIDs) of groups
  Entries,     \* identities of entries
  Databases,   \* the open databases
  Root,        \* the root group of each database
  None         \* a null pointer

ASSUME RootAssumption ==
  /\ Root \in [Databases -> Groups]
  /\ \A d, e \in Databases : Root[d] = Root[e] => d = e

ASSUME NoneAssumption == None \notin Groups \cup Databases

ASSUME KindAssumption == Groups \cap Entries = {}

VARIABLES
  parent,      \* Group::m_parent (and the QObject parent, set with it)
  children,    \* Group::m_children
  db,          \* Group::m_db
  group,       \* Entry::m_group
  entries,     \* Group::m_entries
  bin,         \* Metadata::m_recycleBin, a QPointer
  binEnabled,  \* Metadata::recycleBinEnabled
  deleted,     \* Database::m_deletedObjects
  was          \* history: every object that was ever in the database

tree == <<parent, children, db, group, entries>>
vars == <<tree, bin, binEnabled, deleted, was>>

Objects == Groups \cup Entries

----------------------------------------------------------------------------
(* Reading the tree. *)

Live == {g \in Groups : db[g] # None}
Placed == {e \in Entries : group[e] # None}

\* The groups the recursions over m_children reach from g, g included.
Subtree(g) ==
  LET closed == {S \in SUBSET Groups : g \in S /\ \A x \in S : children[x] \subseteq S}
  IN  {h \in Groups : \A S \in closed : h \in S}

EntriesBelow(g) == UNION {entries[h] : h \in Subtree(g)}

\* Tools::hasChild, for a group and for an entry.
HasChild(g, h) == g # None /\ h \in Subtree(g) /\ h # g
HasEntry(g, e) == g # None /\ e \in EntriesBelow(g)

DatabaseOf(e) == db[group[e]]

Contents(d) == {g \in Groups : db[g] = d} \cup {e \in Placed : DatabaseOf(e) = d}

\* UUIDs that no object had so far.
Fresh(S) == S \ UNION {was[d] : d \in Databases}

\* Database::metadata()->recycleBin() with everything below it.
InBin(d) ==
  IF bin[d] = None THEN {} ELSE Subtree(bin[d]) \cup EntriesBelow(bin[d])

----------------------------------------------------------------------------
(* The primitives of Group and Entry: next-state relations of the tree     *)
(* that name the lists they leave, enter and record.                       *)

\* cleanupParent() and children().insert(): out of one list, into the other.
ListsAfterMove(g, p) ==
  [x \in Groups |-> IF x = p THEN children[x] \cup {g} ELSE children[x] \ {g}]

\* Seeded fault: recSetDatabase forgets the children.
DatabasesAfterMoveShallow(g, p) ==
  [x \in Groups |-> IF x = g THEN db[p] ELSE db[x]]

\* recSetDatabase(): the whole subtree follows.
DatabasesAfterMove(g, p) ==
  [x \in Groups |-> IF x \in Subtree(g) THEN db[p] ELSE db[x]]

\* Seeded fault: the group itself is not recorded.
RecordedByMoveBelow(g, p) ==
  IF db[g] = db[p] THEN {} ELSE (Subtree(g) \ {g}) \cup EntriesBelow(g)

\* recCreateDelObjects(), when the group leaves its database: every group and
\* entry of the subtree.
RecordedByMove(g, p) ==
  IF db[g] = db[p] THEN {} ELSE Subtree(g) \cup EntriesBelow(g)

RecordDeleted(d, S) == deleted' = [deleted EXCEPT ![d] = @ \cup S]

WasIn(d, S) == was' = [was EXCEPT ![d] = @ \cup S]

\* Seeded fault: the list of the old parent is not cleaned up.
SetParentLeavingOldList(g, p) ==
  /\ parent' = [parent EXCEPT ![g] = p]
  /\ children' = [children EXCEPT ![p] = @ \cup {g}]
  /\ db' = DatabasesAfterMove(g, p)
  /\ RecordDeleted(db[g], RecordedByMove(g, p))
  /\ WasIn(db[p], Subtree(g) \cup EntriesBelow(g))
  /\ UNCHANGED <<group, entries>>

\* Group::setParent(Group*) of a group that is in a database.
SetParent(g, p) ==
  /\ parent' = [parent EXCEPT ![g] = p]
  /\ children' = ListsAfterMove(g, p)
  /\ db' = DatabasesAfterMove(g, p)
  /\ RecordDeleted(db[g], RecordedByMove(g, p))
  /\ WasIn(db[p], Subtree(g) \cup EntriesBelow(g))
  /\ UNCHANGED <<group, entries>>

\* Entry::setGroup of the entries es of database d.
SetGroup(d, es, g) ==
  /\ group' = [e \in Entries |-> IF e \in es THEN g ELSE group[e]]
  /\ entries' = [x \in Groups |-> IF x = g THEN entries[x] \cup es ELSE entries[x] \ es]
  /\ RecordDeleted(d, IF db[g] = d THEN {} ELSE es)
  /\ WasIn(db[g], es)
  /\ UNCHANGED <<parent, children, db>>

\* Seeded fault: the destructor of an entry records nothing.
GroupsOnly(gs, es) == gs

\* Every destructor records its own object.
DestructorsRecord(gs, es) == gs \cup es

\* ~Group and ~Entry: the groups gs and the entries es of database d are
\* destroyed, taken off every list and recorded; QPointers to them become null.
Destroy(d, gs, es) ==
  /\ parent' = [g \in Groups |-> IF g \in gs THEN None ELSE parent[g]]
  /\ children' = [g \in Groups |-> IF g \in gs THEN {} ELSE children[g] \ gs]
  /\ db' = [g \in Groups |-> IF g \in gs THEN None ELSE db[g]]
  /\ group' = [e \in Entries |-> IF e \in es THEN None ELSE group[e]]
  /\ entries' = [g \in Groups |-> IF g \in gs THEN {} ELSE entries[g] \ es]
  /\ bin' = [x \in Databases |-> IF bin[x] \in gs THEN None ELSE bin[x]]
  /\ RecordDeleted(d, DestructorsRecord(gs, es))
  /\ UNCHANGED <<binEnabled, was>>

DestroyGroup(g) == Destroy(db[g], Subtree(g), EntriesBelow(g))

----------------------------------------------------------------------------
(* Creating. *)

Init ==
  /\ parent = [g \in Groups |-> None]
  /\ children = [g \in Groups |-> {}]
  /\ db = [g \in Groups |->
             IF \E d \in Databases : Root[d] = g
             THEN CHOOSE d \in Databases : Root[d] = g ELSE None]
  /\ group = [e \in Entries |-> None]
  /\ entries = [g \in Groups |-> {}]
  /\ bin = [d \in Databases |-> None]
  /\ binEnabled \in [Databases -> BOOLEAN]
  /\ deleted = [d \in Databases |-> {}]
  /\ was = [d \in Databases |-> {Root[d]}]

\* A new group g, first without children, gets the parent p.
AddGroup(g, p) ==
  /\ parent' = [parent EXCEPT ![g] = p]
  /\ children' = [children EXCEPT ![p] = @ \cup {g}]
  /\ db' = [db EXCEPT ![g] = db[p]]

\* DatabaseWidget::createGroup, accepted in the editor.
CreateGroup(g, p) ==
  /\ g \in Fresh(Groups)
  /\ p \in Live
  /\ AddGroup(g, p)
  /\ WasIn(db[p], {g})
  /\ UNCHANGED <<group, entries, bin, binEnabled, deleted>>

\* DatabaseWidget::createEntry, accepted in the editor; the browser
\* integration and the command line add entries in the same way.
CreateEntry(e, g) ==
  /\ e \in Fresh(Entries)
  /\ g \in Live
  /\ group' = [group EXCEPT ![e] = g]
  /\ entries' = [entries EXCEPT ![g] = @ \cup {e}]
  /\ WasIn(db[g], {e})
  /\ UNCHANGED <<parent, children, db, bin, binEnabled, deleted>>

----------------------------------------------------------------------------
(* Drag and drop: GroupModel::dropMimeData. *)

\* Moving a group, also to a group of another database.
DropGroup(g, p) ==
  /\ g \in Live
  /\ p \in Live
  /\ parent[g] # None
  /\ p \notin Subtree(g)
  /\ parent[g] # p
  /\ SetParent(g, p)
  /\ UNCHANGED <<bin, binEnabled>>

\* Copying a group: cg and ce give the copies of its groups and entries.
CopyGroup(g, p, cg, ce) ==
  LET copies == Range(cg) \cup Range(ce) IN
  /\ g \in Live
  /\ p \in Live
  /\ parent[g] # None
  /\ p \notin Subtree(g)
  /\ parent' = [x \in Groups |->
                  IF x = cg[g] THEN p
                  ELSE IF x \in Range(cg) THEN cg[parent[AntiFunction(cg)[x]]]
                  ELSE parent[x]]
  /\ children' = [x \in Groups |->
                    IF x = p THEN children[x] \cup {cg[g]}
                    ELSE IF x \in Range(cg)
                         THEN {cg[y] : y \in children[AntiFunction(cg)[x]]}
                    ELSE children[x]]
  /\ db' = [x \in Groups |-> IF x \in Range(cg) THEN db[p] ELSE db[x]]
  /\ group' = [e \in Entries |->
                 IF e \in Range(ce) THEN cg[group[AntiFunction(ce)[e]]] ELSE group[e]]
  /\ entries' = [x \in Groups |->
                   IF x \in Range(cg)
                   THEN {ce[e] : e \in entries[AntiFunction(cg)[x]]} ELSE entries[x]]
  /\ WasIn(db[p], copies)
  /\ UNCHANGED <<bin, binEnabled, deleted>>

\* Moving an entry, also to a group of another database.  A copied entry is
\* a new one: CreateEntry.
DropEntry(e, g) ==
  /\ e \in Placed
  /\ g \in Live
  /\ group[e] # g
  /\ SetGroup(DatabaseOf(e), {e}, g)
  /\ UNCHANGED <<bin, binEnabled>>

----------------------------------------------------------------------------
(* Deleting, with and without the recycle bin. *)

\* DatabaseSettingsWidget: recycleBinEnabledCheckBox.
ToggleRecycleBin(d) ==
  /\ binEnabled' = [binEnabled EXCEPT ![d] = ~@]
  /\ UNCHANGED <<tree, bin, deleted, was>>

\* recycleEntry, of each of the entries es, and recycleGroup when the bin exists.
RecycleEntries(d, es) ==
  /\ bin[d] # None
  /\ SetGroup(d, es, bin[d])
  /\ UNCHANGED <<bin, binEnabled>>

RecycleGroup(d, g) ==
  /\ bin[d] # None
  /\ SetParent(g, bin[d])
  /\ UNCHANGED <<bin, binEnabled>>

\* createRecycleBin() and then the move into it.
RecycleEntriesIntoNew(d, es, b) ==
  /\ bin[d] = None
  /\ b \in Fresh(Groups)
  /\ AddGroup(b, Root[d])
  /\ group' = [e \in Entries |-> IF e \in es THEN b ELSE group[e]]
  /\ entries' = [x \in Groups |-> IF x = b THEN es ELSE entries[x] \ es]
  /\ bin' = [bin EXCEPT ![d] = b]
  /\ WasIn(d, {b})
  /\ UNCHANGED <<binEnabled, deleted>>

RecycleGroupIntoNew(d, g, b) ==
  /\ bin[d] = None
  /\ b \in Fresh(Groups)
  /\ parent' = [parent EXCEPT ![b] = Root[d], ![g] = b]
  /\ children' = [x \in Groups |->
                    IF x = b THEN {g}
                    ELSE IF x = Root[d] THEN (children[x] \ {g}) \cup {b}
                    ELSE children[x] \ {g}]
  /\ db' = [db EXCEPT ![b] = d]
  /\ bin' = [bin EXCEPT ![d] = b]
  /\ WasIn(d, {b})
  /\ UNCHANGED <<group, entries, binEnabled, deleted>>

\* Seeded fault: a database without a bin yet deletes at once.
EntryIsRecycledIntoBin(d, e) == binEnabled[d] /\ bin[d] # None /\ ~HasEntry(bin[d], e)

\* DatabaseWidget::deleteEntries: the question whether e is deleted for good.
EntryIsRecycled(d, e) == binEnabled[d] /\ ~HasEntry(bin[d], e)

\* DatabaseWidget::deleteEntries of the selected entries es: the first of them
\* decides for all whether they are recycled or deleted for good.  A search can
\* select entries of several groups.  The command line's rm deletes one entry.
DeleteEntries(d, es, first) ==
  /\ es \subseteq {e \in Placed : DatabaseOf(e) = d}
  /\ first \in es
  /\ IF EntryIsRecycled(d, first)
     THEN RecycleEntries(d, es) \/ \E b \in Groups : RecycleEntriesIntoNew(d, es, b)
     ELSE Destroy(d, {}, es)

\* Seeded fault: the deletion of a group above the bin is not special.
GroupIsRecycledAlsoAboveBin(d, g) ==
  binEnabled[d] /\ ~HasChild(bin[d], g) /\ g # bin[d]

\* DatabaseWidget::deleteGroup: the question whether g is deleted for good.
GroupIsRecycled(d, g) ==
  binEnabled[d] /\ ~HasChild(bin[d], g) /\ g # bin[d] /\ ~HasChild(g, bin[d])

DeleteGroup(g) ==
  /\ g \in Live
  /\ parent[g] # None
  /\ IF GroupIsRecycled(db[g], g)
     THEN RecycleGroup(db[g], g) \/ \E b \in Groups : RecycleGroupIntoNew(db[g], g, b)
     ELSE DestroyGroup(g)

\* DatabaseWidget::emptyRecycleBin: only for the bin selected in the tree of
\* its own database.
EmptyRecycleBin(d) ==
  /\ bin[d] # None
  /\ binEnabled[d]
  /\ db[bin[d]] = d
  /\ Destroy(d, Subtree(bin[d]) \ {bin[d]}, EntriesBelow(bin[d]))

----------------------------------------------------------------------------
(* Specification. *)

Next ==
  \/ \E g, p \in Groups : CreateGroup(g, p)
  \/ \E e \in Entries, g \in Groups : CreateEntry(e, g)
  \/ \E g, p \in Groups : DropGroup(g, p)
  \/ \E g, p \in Groups :
       /\ g \in Live
       /\ \E cg \in Injection(Subtree(g), Fresh(Groups)) :
            \E ce \in Injection(EntriesBelow(g), Fresh(Entries)) : CopyGroup(g, p, cg, ce)
  \/ \E e \in Entries, g \in Groups : DropEntry(e, g)
  \/ \E d \in Databases : ToggleRecycleBin(d)
  \/ \E d \in Databases, es \in SUBSET Entries, e \in Entries : DeleteEntries(d, es, e)
  \/ \E g \in Groups : DeleteGroup(g)
  \/ \E d \in Databases : EmptyRecycleBin(d)

Spec == Init /\ [][Next]_vars

----------------------------------------------------------------------------
(* Properties. *)

TypeOK ==
  /\ parent \in [Groups -> Groups \cup {None}]
  /\ children \in [Groups -> SUBSET Groups]
  /\ db \in [Groups -> Databases \cup {None}]
  /\ group \in [Entries -> Groups \cup {None}]
  /\ entries \in [Groups -> SUBSET Entries]
  /\ bin \in [Databases -> Groups \cup {None}]
  /\ binEnabled \in [Databases -> BOOLEAN]
  /\ deleted \in [Databases -> SUBSET Objects]
  /\ was \in [Databases -> SUBSET Objects]

\* The two ends of each relation agree: a group is in the list of its parent
\* and in no other, an entry in the list of its group and in no other, also
\* after drops between databases and recursive deletions (Group::m_children,
\* Group::m_entries against m_parent and m_group).
ListsAgree ==
  /\ \A g, p \in Groups : g \in children[p] <=> parent[g] = p
  /\ \A e \in Entries, g \in Groups : e \in entries[g] <=> group[e] = g

\* Every group knows the database of the tree it is in, and what has no
\* database has no place in a tree (Group::m_db after recSetDatabase).
DatabaseAgrees ==
  /\ \A g \in Groups : parent[g] # None => db[g] = db[parent[g]] /\ db[g] # None
  /\ \A e \in Placed : db[group[e]] # None

\* No group is its own ancestor: there is no set of groups that each have
\* their parent in the set.
NoCycles ==
  \A S \in SUBSET Groups : (\A g \in S : parent[g] \in S) => S = {}

OnlyRootsOnTop ==
  \A g \in Live : parent[g] = None => \E d \in Databases : g = Root[d] /\ db[g] = d

\* Every group of a database hangs, over its parents, on the root of that
\* database.  Groups on a cycle would be out of the database, and out of the
\* file with its next save, with all their entries and without a question
\* (recycling a group above the recycle bin, dropping a group below itself).
HangsOnARoot == NoCycles /\ OnlyRootsOnTop

\* Whatever was in a database and is not any more is among its deleted
\* objects, however it left: deleted for good, emptied from the bin, or
\* dragged to another database, alone or below a group.
GoneIsRecorded ==
  \A d \in Databases : was[d] \ Contents(d) \subseteq deleted[d]

\* The recycle bin of a database is in that database, or the database
\* recorded its deletion (it was dragged to another database, where later
\* deletions follow it).
BinIsHereOrDeleted ==
  \A d \in Databases :
    bin[d] # None => bin[d] \in Live /\ (db[bin[d]] = d \/ bin[d] \in deleted[d])

Destroyed(d) == {x \in Contents(d) : x \notin UNION {Contents(c)' : c \in Databases}}

\* While the recycle bin is enabled, a step that destroys something that was
\* not in the bin destroys something of the bin too, or the bin itself: the
\* questions "for good" of deleteEntries and deleteGroup are asked about the
\* bin, everything else is recycled first.
DestructionReachesTheBin ==
  [][\A d \in Databases :
       binEnabled[d] /\ Destroyed(d) # {} => Destroyed(d) \cap InBin(d) # {}]_vars
=============================================================================
