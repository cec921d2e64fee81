---------------------------- MODULE CustomIcons ----------------------------
(***************************************************************************)
(* Custom icons: the store of each database with its index of images, the  *)
(* objects that refer to icons by UUID, and what keeps the two together    *)
(* when icons are added and removed in an editor, objects move to another  *)
(* database, databases are merged, locked and read again                   *)
(* (core/Metadata.cpp, gui/EditWidgetIcons.cpp, gui/entry/EditEntryWidget. *)
(* cpp, gui/group/EditGroupWidget.cpp, gui/group/GroupModel.cpp).          *)
(*                                                                         *)
(* Two icons with one image are equal byte for byte.  An image may come    *)
(* back from a file with other bytes: KdbxXmlWriter writes it as a PNG, and *)
(* the index is of the bytes in memory.  Groups lie directly in a database, *)
(* entries in a database or in a group.  History items are added and never *)
(* truncated.                                                              *)
(***************************************************************************)
EXTENDS Naturals, Sequences, FiniteSets, SequencesExt

CONSTANTS
  Databases, Groups, Entries,
  Icons,      \* bound: UUIDs of icons that may be in use at a time
  Images,
  Blank,      \* the image of an icon that was looked up in vain
  AsRead,     \* what an image is after it was written as a PNG and read
  NoIcon      \* a null UUID, or the default icon of an object

ASSUME IconAssumption ==
  IsFiniteSet(Icons) /\ NoIcon \notin Icons \cup Images \cup {Blank}

ASSUME ReadAssumption == AsRead \in [Images \cup {Blank} -> Images \cup {Blank}]

ASSUME ObjectAssumption ==
  /\ NoIcon \notin Groups \cup Entries
  /\ Groups \cap Databases = {} /\ Groups \cap Entries = {}

VARIABLES
  image,      \* per database, m_customIcons: the image of each icon, NoIcon if absent
  order,      \* per database, m_customIconsOrder
  hashes,     \* per database, m_customIconsHashes: image to UUID
  parent,     \* where each group and entry lies
  icon,       \* iconUuid of each group and entry
  past,       \* per entry: the icons its history items refer to
  editor,     \* the object being edited and the icon chosen; bound: in one tab at a time
  dropped,    \* history variable: objects whose editor was closed by a lock
              \* while their icon was missing
  strayed,    \* history variable: <<entry, icon>>, the icon was lost to the
              \* history by a move, by saving an edited entry or by an update
  lost        \* history variable, per database: images whose hash record went
              \* with one icon while another icon has them

store == <<image, order, hashes, lost>>
objects == <<parent, icon, past>>
excuses == <<dropped, strayed>>
vars == <<store, objects, editor, excuses>>

Objects == Groups \cup Entries
Closed == [object |-> NoIcon, choice |-> NoIcon]

TypeOK ==
  /\ image \in [Databases -> [Icons -> Images \cup {Blank, NoIcon}]]
  /\ order \in [Databases -> Seq(Icons)]
  /\ hashes \in [Databases -> [Images \cup {Blank} -> Icons \cup {NoIcon}]]
  /\ parent \in [Objects -> Databases \cup Groups]
  /\ icon \in [Objects -> Icons \cup {NoIcon}]
  /\ past \in [Entries -> SUBSET Icons]
  /\ editor \in [object : Objects \cup {NoIcon}, choice : Icons \cup {NoIcon}]
  /\ dropped \in SUBSET Objects
  /\ strayed \in SUBSET (Entries \X Icons)
  /\ lost \in [Databases -> SUBSET (Images \cup {Blank})]

Home(o) == IF parent[o] \in Databases THEN parent[o] ELSE parent[parent[o]]
Has(d, u) == image[d][u] # NoIcon
Edited(o) == editor.object = o
InEditor(d) == editor # Closed /\ Home(editor.object) = d
Missing(o) == icon[o] # NoIcon /\ ~Has(Home(o), icon[o])

Init ==
  /\ image = [d \in Databases |-> [u \in Icons |-> NoIcon]]
  /\ order = [d \in Databases |-> <<>>]
  /\ hashes = [d \in Databases |-> [i \in Images \cup {Blank} |-> NoIcon]]
  /\ parent \in [Objects -> Databases]
  /\ icon = [o \in Objects |-> NoIcon]
  /\ past = [e \in Entries |-> {}]
  /\ editor = Closed
  /\ dropped = {} /\ strayed = {}
  /\ lost = [d \in Databases |-> {}]

----------------------------------------------------------------------------
(* The store *)

\* The last icon of list with image i, or the record there was.
LastWith(list, of, i, before) ==
  LET at == {n \in DOMAIN list : of[list[n]] = i}
  IN IF at = {} THEN before ELSE list[CHOOSE n \in at : \A m \in at : m <= n]

\* addCustomIcon for every icon of list, with the images of.
AddCustomIcons(d, list, of) ==
  /\ image' = [image EXCEPT ![d] =
                 [u \in Icons |-> IF u \in ToSet(list) THEN of[u] ELSE image[d][u]]]
  /\ order' = [order EXCEPT ![d] = @ \o list]
  /\ hashes' = [hashes EXCEPT ![d] =
                  [i \in Images \cup {Blank} |-> LastWith(list, of, i, hashes[d][i])]]
  /\ lost' = [lost EXCEPT ![d] = @ \ {of[u] : u \in ToSet(list)}]

\* QList::removeAll
Without(list, u) ==
  LET kept == {n \in DOMAIN list : list[n] # u}
      Place(n) == Cardinality({k \in kept : k <= n})
  IN [m \in 1..Cardinality(kept) |-> list[CHOOSE n \in kept : Place(n) = m]]

\* Seeded fault: the record is kept.
RemoveKeepingRecord(d, u) ==
  /\ image' = [image EXCEPT ![d][u] = NoIcon]
  /\ order' = [order EXCEPT ![d] = Without(@, u)]
  /\ UNCHANGED <<hashes, lost>>

\* Seeded fault: the record goes, whichever icon it is of.
RemoveAnyRecord(d, u) ==
  LET i == image[d][u]
  IN /\ image' = [image EXCEPT ![d][u] = NoIcon]
     /\ order' = [order EXCEPT ![d] = Without(@, u)]
     /\ hashes' = [hashes EXCEPT ![d][i] = NoIcon]
     /\ lost' = IF hashes[d][i] = u /\ \E v \in Icons \ {u} : image[d][v] = i
                THEN [lost EXCEPT ![d] = @ \cup {i}]
                ELSE lost

\* removeCustomIcon
RemoveCustomIcon(d, u) ==
  LET i == image[d][u]
  IN /\ image' = [image EXCEPT ![d][u] = NoIcon]
     /\ order' = [order EXCEPT ![d] = Without(@, u)]
     /\ hashes' = IF hashes[d][i] = u THEN [hashes EXCEPT ![d][i] = NoIcon] ELSE hashes
     /\ lost' = IF hashes[d][i] = u /\ \E v \in Icons \ {u} : image[d][v] = i
                THEN [lost EXCEPT ![d] = @ \cup {i}]
                ELSE lost

\* The images of a database that is read from its file.
ImagesRead(d) == [u \in Icons |-> IF Has(d, u) THEN AsRead[image[d][u]] ELSE NoIcon]

\* copyCustomIcons, Database::merge: what is copied.  copyCustomIcons asserts
\* that the source has every icon of the list and skips, in a release build,
\* those it has not (Unresolved).
Lacking(d, from) == {u \in Icons : Has(from, u) /\ ~Has(d, u)}

\* A new UUID: one that nothing refers to.
Fresh(u) ==
  /\ \A d \in Databases : ~Has(d, u) /\ editor.choice # u
  /\ \A o \in Objects : icon[o] # u
  /\ \A e \in Entries : u \notin past[e] /\ <<e, u>> \notin strayed

----------------------------------------------------------------------------
(* The editors of entries and groups *)

\* The icon the editor selects for a reference that may be missing.
Selected(d, u) == IF u # NoIcon /\ Has(d, u) THEN u ELSE NoIcon

\* loadEntry, loadGroup
StartEdit(o) ==
  /\ editor = Closed
  /\ editor' = [object |-> o, choice |-> Selected(Home(o), icon[o])]
  /\ UNCHANGED <<store, objects, excuses>>

\* A click on an icon of the two lists.
Choose(d, u) ==
  /\ InEditor(d)
  /\ u # NoIcon => Has(d, u)
  /\ editor' = [editor EXCEPT !.choice = u]
  /\ UNCHANGED <<store, objects, excuses>>

\* restoreHistoryEntry fills the forms from a history item.
RestoreHistory(d, u) ==
  /\ InEditor(d)
  /\ editor.object \in Entries
  /\ u \in past[editor.object]
  /\ editor' = [editor EXCEPT !.choice = Selected(d, u)]
  /\ UNCHANGED <<store, objects, excuses>>

\* EditWidgetIcons::addCustomIcon selects the icon that has the image i.
AddIcon(d, i) ==
  /\ InEditor(d)
  /\ \/ /\ hashes[d][i] # NoIcon
        /\ editor' = [editor EXCEPT !.choice = hashes[d][i]]
        /\ UNCHANGED store
     \/ /\ hashes[d][i] = NoIcon
        /\ \E u \in Icons :
             /\ Fresh(u)
             /\ AddCustomIcons(d, <<u>>, [v \in Icons |-> i])
             /\ editor' = [editor EXCEPT !.choice = u]
  /\ UNCHANGED <<objects, excuses>>

\* EditWidgetIcons::removeCustomIcon, confirmed.  The object in the editor
\* keeps its reference: the editor's choice decides when it is applied.  The
\* history items are listed before the question that is asked when other
\* objects use the icon; an entry of the icon that the browser extension
\* updates under it makes an item that is not on the list.  (A lock under it,
\* which frees what is listed, is left out.)
RemoveIcon(d) ==
  /\ InEditor(d)
  /\ editor.choice # NoIcon
  /\ LET u == editor.choice
         users == {o \in Objects : Home(o) = d /\ icon[o] = u}
         asked == users \ {editor.object} # {}
     IN \E updated \in SUBSET {e \in users \cap Entries : asked} :
          /\ RemoveCustomIcon(d, u)
          /\ icon' = [o \in Objects |->
                        IF o \in users \ {editor.object} THEN NoIcon ELSE icon[o]]
          /\ past' = [e \in Entries |->
                        IF e \in updated THEN past[e] \cup {u}
                        ELSE IF Home(e) = d THEN past[e] \ {u} ELSE past[e]]
          /\ dropped' = dropped \ users
          /\ strayed' = strayed \cup {<<e, u>> : e \in updated}
  /\ editor' = [editor EXCEPT !.choice = NoIcon]
  /\ UNCHANGED parent

\* commitEntry, EditGroupWidget::apply: an object that had the icon old gets
\* the chosen one; the history item of an entry keeps the old one.
Commit(d, o, old) ==
  /\ icon' = [icon EXCEPT ![o] = editor.choice]
  /\ IF o \in Entries /\ old \notin {NoIcon, editor.choice}
     THEN /\ past' = [past EXCEPT ![o] = @ \cup {old}]
          /\ strayed' = IF Has(d, old) THEN strayed ELSE strayed \cup {<<o, old>>}
     ELSE UNCHANGED <<past, strayed>>
  /\ dropped' = dropped \ {o}

\* Apply and OK.
ApplyEdit(d) ==
  /\ InEditor(d)
  /\ Commit(d, editor.object, icon[editor.object])
  /\ editor' \in {editor, Closed}
  /\ UNCHANGED <<store, parent>>

\* Seeded fault: the object keeps the icon that was removed.
CancelEditKeeping(d) ==
  /\ InEditor(d)
  /\ dropped' = dropped \ {editor.object}
  /\ editor' = Closed
  /\ UNCHANGED <<store, objects, strayed>>

\* EditEntryWidget::cancel, EditGroupWidget::cancel: a missing icon becomes the
\* default one before an entry's unsaved changes are saved, discarded or kept.
CancelEdit(d) ==
  /\ InEditor(d)
  /\ LET o == editor.object
         old == IF Missing(o) THEN NoIcon ELSE icon[o]
     IN \/ /\ icon' = [icon EXCEPT ![o] = old]
           /\ dropped' = dropped \ {o}
           /\ editor' \in {Closed} \cup {keep \in {editor} : o \in Entries}
           /\ UNCHANGED <<past, strayed>>
        \/ /\ o \in Entries
           /\ Commit(d, o, old)
           /\ editor' = Closed
  /\ UNCHANGED <<store, parent>>

\* Entry::beginUpdate and endUpdate outside the editor (BrowserService, setTotp):
\* the entry's version becomes a history item, whatever its icon is.
UpdateEntry(e) ==
  /\ past' = [past EXCEPT ![e] = @ \cup ({icon[e]} \ {NoIcon})]
  /\ strayed' = IF Missing(e) THEN strayed \cup {<<e, icon[e]>>} ELSE strayed
  /\ UNCHANGED <<store, parent, icon, editor, dropped>>

----------------------------------------------------------------------------
(* Between databases, and through the file *)

\* GroupModel::dropMimeData and Entry::setGroup.  The icon is copied, those of
\* the history items are not; an icon that is missing is copied as a null image.
MoveEntry(e, to) ==
  /\ parent[e] # to
  /\ LET from == Home(e)
         d == IF to \in Databases THEN to ELSE parent[to]
     IN /\ ~InEditor(from) /\ ~InEditor(d)
        /\ IF d # from /\ icon[e] # NoIcon /\ ~Has(d, icon[e])
           THEN AddCustomIcons(d, <<icon[e]>>,
                  [u \in Icons |-> IF Has(from, u) THEN image[from][u] ELSE Blank])
           ELSE UNCHANGED store
        /\ strayed' = IF d = from THEN strayed
                      ELSE strayed \cup {<<e, u>> : u \in {v \in past[e] : ~Has(d, v)}}
        /\ dropped' = IF d = from THEN dropped ELSE dropped \ {e}
  /\ parent' = [parent EXCEPT ![e] = to]
  /\ UNCHANGED <<icon, past, editor>>

\* Seeded fault: the icons of history items are left behind.
IconsInTree(g) == {icon[g]} \cup {icon[e] : e \in {f \in Entries : parent[f] = g}}

\* customIconsRecursive
IconsIn(g) ==
  {icon[g]} \cup {icon[e] : e \in {f \in Entries : parent[f] = g}}
            \cup UNION {past[e] : e \in {f \in Entries : parent[f] = g}}

\* The icons that customIconsRecursive lists and the database has not: the
\* assertion of copyCustomIcons fails when a group with one is moved.
Unresolved(g) == {u \in IconsIn(g) \ {NoIcon} : ~Has(parent[g], u)}

\* GroupModel::dropMimeData, copyCustomIcons and Group::setParent, in a build
\* without assertions.
MoveGroup(g, to) ==
  LET from == parent[g]
      copied == IconsIn(g) \cap Lacking(to, from)
  IN /\ from # to
     /\ ~InEditor(from) /\ ~InEditor(to)
     /\ \E list \in SetToSeqs(copied) : AddCustomIcons(to, list, image[from])
     /\ parent' = [parent EXCEPT ![g] = to]
     /\ UNCHANGED <<icon, past, editor, excuses>>

\* Database::merge with the file of another database.  An object of d may be
\* replaced by another version, with any reference there is in that file, and
\* becomes a history item (Group::merge).
MergeInto(d, from) ==
  /\ d # from
  /\ ~InEditor(d)
  /\ \E list \in SetToSeqs(Lacking(d, from)) :
       AddCustomIcons(d, list, ImagesRead(from))
  /\ \/ UNCHANGED <<icon, past, dropped, strayed>>
     \/ \E o \in Objects, v \in Objects :
          /\ Home(o) = d /\ Home(v) = from
          /\ o \in Entries <=> v \in Entries
          /\ icon' = [icon EXCEPT ![o] = icon[v]]
          /\ past' = IF o \in Entries
                     THEN [past EXCEPT ![o] = @ \cup past[v] \cup ({icon[o]} \ {NoIcon})]
                     ELSE past
          /\ dropped' = IF Missing(v) /\ ~Has(d, icon[v]) THEN dropped \cup {o} ELSE dropped \ {o}
          /\ strayed' =
               IF o \in Entries
               THEN strayed \cup {<<o, u>> : u \in {w \in past[v] : ~Has(from, w)}}
                            \cup (IF Missing(o) THEN {<<o, icon[o]>>} ELSE {})
               ELSE strayed
  /\ UNCHANGED <<parent, editor>>

\* The database is saved, locked and unlocked: KdbxXmlWriter writes the icons
\* in their order, KdbxXmlReader adds them again, and the editor is closed
\* without its cancel (DatabaseWidget::lock, clearAllWidgets).
Relock(d) ==
  /\ image' = [image EXCEPT ![d] = ImagesRead(d)]
  /\ hashes' = [hashes EXCEPT ![d] =
                  [i \in Images \cup {Blank} |-> LastWith(order[d], ImagesRead(d), i, NoIcon)]]
  /\ lost' = [lost EXCEPT ![d] = {}]
  /\ editor' = IF InEditor(d) THEN Closed ELSE editor
  /\ dropped' = dropped \cup {o \in Objects : Edited(o) /\ Home(o) = d /\ Missing(o)}
  /\ UNCHANGED <<order, objects, strayed>>

EditorStep(d) ==
  \/ \E u \in Icons \cup {NoIcon} : Choose(d, u) \/ RestoreHistory(d, u)
  \/ \E i \in Images : AddIcon(d, i)
  \/ RemoveIcon(d) \/ ApplyEdit(d) \/ CancelEdit(d)

Next ==
  \/ \E o \in Objects : StartEdit(o)
  \/ \E d \in Databases : EditorStep(d) \/ Relock(d)
  \/ \E e \in Entries : UpdateEntry(e)
  \/ \E e \in Entries, to \in Databases \cup Groups : MoveEntry(e, to)
  \/ \E g \in Groups, to \in Databases : MoveGroup(g, to)
  \/ \E d \in Databases, from \in Databases : MergeInto(d, from)

Spec == Init /\ [][Next]_vars

----------------------------------------------------------------------------
(* Properties *)

\* The list that is shown and saved holds every icon once, whatever was copied
\* from other databases (the assertions of addCustomIcon, removeCustomIcon).
IconsAreListed ==
  \A d \in Databases :
    /\ ToSet(order[d]) = {u \in Icons : Has(d, u)}
    /\ \A m, n \in DOMAIN order[d] : order[d][m] = order[d][n] => m = n

\* A hash record never outlives its icon, so adding an image never selects an
\* icon that is gone.
RecordsAreIcons ==
  \A d \in Databases, i \in Images \cup {Blank} :
    hashes[d][i] # NoIcon => image[d][hashes[d][i]] = i

\* Three structures of Metadata describe the icons and are updated apart on
\* every path: the map, the list and the index of images.
StoreIsConsistent == TypeOK /\ IconsAreListed /\ RecordsAreIcons

\* An image that a database has, with the bytes it came back with from the
\* file, is found and so not added again, unless several icons had it and the
\* one with the record was removed since the database was read.
ImagesAreFound ==
  \A d \in Databases, u \in Icons :
    Has(d, u) => hashes[d][image[d][u]] # NoIcon \/ image[d][u] \in lost[d]

\* Groups and entries refer to icons their database has, across removals,
\* moves and merges.  The object in an editor may wait for the editor's end;
\* an editor that a lock closes leaves the reference dangling for good.
ReferencesResolve ==
  \A o \in Objects : Missing(o) => Edited(o) \/ o \in dropped

\* History items too, but for the ways that forget them: the item made of a
\* version whose icon is gone, when the editor that removed the icon is saved,
\* when the browser extension updates the entry before that, under the question
\* about the removal or for good after a lock, or when a merge replaces it; the
\* items such an entry brings along in a merge; and those of an entry that is
\* moved alone to another database.  With ReferencesResolve this names every
\* icon for which the assertion of copyCustomIcons fails.
HistoryResolves ==
  \A e \in Entries : \A u \in past[e] : Has(Home(e), u) \/ <<e, u>> \in strayed

=============================================================================
