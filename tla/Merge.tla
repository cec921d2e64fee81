------------------------------- MODULE Merge -------------------------------
(***************************************************************************)
(* Two copies of a database that were edited apart are merged.             *)
(*                                                                         *)
(* Database::merge walks the other tree from its root: Group::merge does   *)
(* the entries of a group, then each child group and everything below it.  *)
(* Entries and groups are found by UUID anywhere in the tree that is       *)
(* merged into; what was moved later is moved, what was modified later is  *)
(* taken over.  A step of the model is one entry or one group of a loop.   *)
(* The order in which the lists are walked is any order.                   *)
(*                                                                         *)
(* No program ever sets a merge mode, so it is KeepNewer.  An edit gets a  *)
(* time of its own; the time of the last edit stands for the contents of   *)
(* an entry.  The fields of a group are two: what resolveGroupConflict     *)
(* takes over (name, notes, icon, expiry time: "name"), and what only a    *)
(* clone gets (whether the group expires at all, auto-type, searching,     *)
(* custom data, and a change to the icon number 0: "settings").  For that  *)
(* icon the code calls setIcon with a null UUID: a build with assertions   *)
(* stops at Group.cpp:293, the others keep the icon they have.  Which of   *)
(* the two a custom icon falls back to, and the root's own fields, are     *)
(* left out.                                                               *)
(***************************************************************************)
EXTENDS Naturals, Sequences

CONSTANTS
  Groups,    \* identities (UUIDs) of groups, without the root
  Entries,   \* identities of entries
  Root,      \* the root group
  None,      \* not in a copy
  Edits,     \* the kinds of edits explored
  MaxEdits   \* bound on the edits of both copies together

ASSUME NamesAssumption == Root \notin Groups /\ None \notin Groups \cup {Root}

ASSUME BoundAssumption == MaxEdits \in Nat

Copies == {"ours", "theirs"}
Other(c) == IF c = "ours" THEN "theirs" ELSE "ours"

VARIABLES
  parent,    \* in each copy, Group::m_parent; None if the copy has no such group
  placed,    \* TimeInfo::locationChanged of groups
  name,      \* what resolveGroupConflict takes over: the time it was set
  settings,  \* the fields of groups that it leaves: the time they were set
  touched,   \* TimeInfo::lastModificationTime of groups
  group,     \* Entry::m_group; None if the copy has no such entry
  moved,     \* TimeInfo::locationChanged of entries
  body,      \* contents of entries, and their lastModificationTime
  history,   \* contents of the history items of entries
  clock,     \* the current time
  status,    \* "apart", "merging", "merged", or "hung"
  into,      \* the copy that the running or last merge goes into
  stack,     \* the calls of Group::merge that are running, innermost first
  before,    \* history variable: the copy merged into, as the merge found it
  rounds     \* history variable: the merges started since the last edit

groups == <<parent, placed, name, settings, touched>>
entries == <<group, moved, body, history>>
merging == <<status, into, stack, before, rounds>>
vars == <<groups, entries, clock, merging>>

----------------------------------------------------------------------------
(* Reading a copy. *)

\* The groups below g in a tree with the parents p.
Below(p, g) ==
  LET closed == {S \in SUBSET Groups : \A h \in Groups : p[h] \in S \cup {g} => h \in S}
  IN  {h \in Groups : \A S \in closed : h \in S}

IsTree(p) == \A g \in Groups : p[g] # None => g \in Below(p, Root)

GroupsOf(c) == {g \in Groups : parent[c][g] # None}
EntriesOf(c) == {e \in Entries : group[c][e] # None}

Snapshot(c) ==
  [parent |-> parent[c], placed |-> placed[c], name |-> name[c], settings |-> settings[c],
   touched |-> touched[c], group |-> group[c], moved |-> moved[c], body |-> body[c], history |-> history[c]]

----------------------------------------------------------------------------
(* Two equal copies, with any tree, before the first edit. *)

Init ==
  /\ \E p \in [Groups -> Groups \cup {Root, None}] : IsTree(p) /\ parent = [c \in Copies |-> p]
  /\ \E w \in [Entries -> Groups \cup {Root, None}] :
       /\ \A e \in Entries : w[e] \in Groups => parent["ours"][w[e]] # None
       /\ group = [c \in Copies |-> w]
  /\ placed = [c \in Copies |-> [g \in Groups |-> 0]]
  /\ name = placed
  /\ settings = placed
  /\ touched = placed
  /\ moved = [c \in Copies |-> [e \in Entries |-> 0]]
  /\ body = moved
  /\ history = [c \in Copies |-> [e \in Entries |-> {}]]
  /\ clock = 0
  /\ status = "apart"
  /\ into = "ours"
  /\ stack = <<>>
  /\ before = Snapshot("ours")
  /\ rounds = <<>>

----------------------------------------------------------------------------
(* Edits of the copy c, each at a time of its own. *)

\* Group::updateTimeinfo of the groups gs, at their modified signals; the root
\* is never compared, so its time is left out.
Touched(c, gs, now) ==
  [touched EXCEPT ![c] = [g \in Groups |-> IF g \in gs THEN now ELSE touched[c][g]]]

Edit(kind) ==
  /\ kind \in Edits
  /\ status = "apart"
  /\ clock < MaxEdits
  /\ clock' = clock + 1
  /\ UNCHANGED merging

\* Seeded fault: a group may be dropped below itself.
MoveGroupAnywhere(c, g, p) ==
  /\ Edit("move group")
  /\ g \in GroupsOf(c)
  /\ p \in (GroupsOf(c) \cup {Root}) \ {g, parent[c][g]}
  /\ parent' = [parent EXCEPT ![c][g] = p]
  /\ placed' = [placed EXCEPT ![c][g] = clock']
  /\ touched' = Touched(c, {g}, clock')
  /\ UNCHANGED <<name, settings, entries>>

\* Group::setParent
MoveGroup(c, g, p) ==
  /\ Edit("move group")
  /\ g \in GroupsOf(c)
  /\ p \in (GroupsOf(c) \cup {Root}) \ (Below(parent[c], g) \cup {g, parent[c][g]})
  /\ parent' = [parent EXCEPT ![c][g] = p]
  /\ placed' = [placed EXCEPT ![c][g] = clock']
  /\ touched' = Touched(c, {g}, clock')
  /\ UNCHANGED <<name, settings, entries>>

\* Group::setName, setNotes, setIcon, setExpiryTime
RenameGroup(c, g) ==
  /\ Edit("rename group")
  /\ g \in GroupsOf(c)
  /\ name' = [name EXCEPT ![c][g] = clock']
  /\ touched' = Touched(c, {g}, clock')
  /\ UNCHANGED <<parent, placed, settings, entries>>

\* Group::setExpires, setAutoTypeEnabled, setSearchingEnabled, ...
ChangeSettings(c, g) ==
  /\ Edit("change settings")
  /\ g \in GroupsOf(c)
  /\ settings' = [settings EXCEPT ![c][g] = clock']
  /\ touched' = Touched(c, {g}, clock')
  /\ UNCHANGED <<parent, placed, name, entries>>

\* A new Group under p.
CreateGroup(c, g, p) ==
  /\ Edit("create group")
  /\ g \notin GroupsOf("ours") \cup GroupsOf("theirs")
  /\ p \in GroupsOf(c) \cup {Root}
  /\ parent' = [parent EXCEPT ![c][g] = p]
  /\ placed' = [placed EXCEPT ![c][g] = clock']
  /\ name' = [name EXCEPT ![c][g] = clock']
  /\ settings' = [settings EXCEPT ![c][g] = clock']
  /\ touched' = Touched(c, {g}, clock')
  /\ UNCHANGED entries

\* Entry::setGroup
MoveEntry(c, e, g) ==
  /\ Edit("move entry")
  /\ e \in EntriesOf(c)
  /\ g \in (GroupsOf(c) \cup {Root}) \ {group[c][e]}
  /\ group' = [group EXCEPT ![c][e] = g]
  /\ moved' = [moved EXCEPT ![c][e] = clock']
  /\ touched' = Touched(c, {g, group[c][e]}, clock')
  /\ UNCHANGED <<parent, placed, name, settings, body, history>>

\* beginUpdate .. endUpdate
UpdateEntry(c, e) ==
  /\ Edit("update entry")
  /\ e \in EntriesOf(c)
  /\ body' = [body EXCEPT ![c][e] = clock']
  /\ history' = [history EXCEPT ![c][e] = @ \cup {body[c][e]}]
  /\ UNCHANGED <<groups, group, moved>>

\* A new Entry in g.
CreateEntry(c, e, g) ==
  /\ Edit("create entry")
  /\ e \notin EntriesOf("ours") \cup EntriesOf("theirs")
  /\ g \in GroupsOf(c) \cup {Root}
  /\ group' = [group EXCEPT ![c][e] = g]
  /\ moved' = [moved EXCEPT ![c][e] = clock']
  /\ body' = [body EXCEPT ![c][e] = clock']
  /\ history' = [history EXCEPT ![c][e] = {}]
  /\ touched' = Touched(c, {g}, clock')
  /\ UNCHANGED <<parent, placed, name, settings>>

\* ~Entry
DeleteEntry(c, e) ==
  /\ Edit("delete entry")
  /\ e \in EntriesOf(c)
  /\ group' = [group EXCEPT ![c][e] = None]
  /\ touched' = Touched(c, {group[c][e]}, clock')
  /\ UNCHANGED <<parent, placed, name, settings, moved, body, history>>

----------------------------------------------------------------------------
(* Group::merge, in the copy "into"; the other copy is only read. *)

from == Other(into)
this == Head(stack).group

\* A call of Group::merge for the group g of the copy c, before its loops.
Call(c, g) ==
  [group |-> g,
   entries |-> {e \in Entries : group[c][e] = g},
   children |-> {h \in Groups : parent[c][h] = g}]

StartMerge(c) ==
  /\ status \in {"apart", "merged"}
  /\ Len(rounds) < 2
  /\ status' = "merging"
  /\ into' = c
  /\ stack' = <<Call(Other(c), Root)>>
  /\ before' = Snapshot(c)
  /\ rounds' = Append(rounds, c)
  /\ clock' = clock + 1
  /\ UNCHANGED <<groups, entries>>

TakeEntry(e) ==
  /\ status = "merging"
  /\ e \in Head(stack).entries
  /\ stack' = <<[Head(stack) EXCEPT !.entries = @ \ {e}]>> \o Tail(stack)
  /\ UNCHANGED <<clock, status, into, before, rounds>>

\* Seeded fault: the entry is cloned without its history.
AddEntryOnly(e) ==
  /\ TakeEntry(e)
  /\ e \notin EntriesOf(into)
  /\ group' = [group EXCEPT ![into][e] = this]
  /\ moved' = [moved EXCEPT ![into][e] = clock]
  /\ body' = [body EXCEPT ![into][e] = body[from][e]]
  /\ touched' = Touched(into, {this}, clock)
  /\ UNCHANGED <<parent, placed, name, settings, history>>

\* An entry that is not in the tree is cloned with its history, into this group.
AddEntry(e) ==
  /\ TakeEntry(e)
  /\ e \notin EntriesOf(into)
  /\ group' = [group EXCEPT ![into][e] = this]
  /\ moved' = [moved EXCEPT ![into][e] = clock]
  /\ body' = [body EXCEPT ![into][e] = body[from][e]]
  /\ history' = [history EXCEPT ![into][e] = history[from][e]]
  /\ touched' = Touched(into, {this}, clock)
  /\ UNCHANGED <<parent, placed, name, settings>>

\* Seeded fault: the entry goes where the other copy has it, moved or not.
EntryRelocatedAlways(e) == group[into][e] # this

\* locationChanged, and not here yet.
EntryRelocated(e) == moved[into][e] < moved[from][e] /\ group[into][e] # this

\* resolveEntryConflict, KeepNewer
EntryNewer(e) == body[into][e] < body[from][e]

\* An entry that is in the tree is moved to this group, and replaced by a clone
\* of the other with the other's history; a clone is placed now.
MergeEntry(e) ==
  LET home == IF EntryRelocated(e) THEN this ELSE group[into][e]
  IN  /\ TakeEntry(e)
      /\ e \in EntriesOf(into)
      /\ group' = [group EXCEPT ![into][e] = home]
      /\ moved' = IF EntryRelocated(e) \/ EntryNewer(e)
                  THEN [moved EXCEPT ![into][e] = clock] ELSE moved
      /\ body' = IF EntryNewer(e) THEN [body EXCEPT ![into][e] = body[from][e]] ELSE body
      /\ history' = IF EntryNewer(e)
                    THEN [history EXCEPT ![into][e] = history[from][e]] ELSE history
      /\ touched' = Touched(into, (IF EntryRelocated(e) THEN {home, group[into][e]} ELSE {})
                                    \cup (IF EntryNewer(e) THEN {home} ELSE {}), clock)
      /\ UNCHANGED <<parent, placed, name, settings>>

\* A child group, now in the group p, is done with all below it; a call in a tree
\* that has become a cycle never finds the root (the loop that Group::merge
\* starts with).
TakeGroup(k, p) ==
  /\ status = "merging"
  /\ Head(stack).entries = {}
  /\ k \in Head(stack).children
  /\ stack' = <<Call(from, k), [Head(stack) EXCEPT !.children = @ \ {k}]>> \o Tail(stack)
  /\ parent' = [parent EXCEPT ![into][k] = p]
  /\ status' = IF k \in Below(parent'[into], k) THEN "hung" ELSE "merging"
  /\ UNCHANGED <<clock, into, before, rounds, entries>>

\* A group that is not in the tree is cloned without its contents.
AddGroup(k) ==
  /\ TakeGroup(k, this)
  /\ k \notin GroupsOf(into)
  /\ placed' = [placed EXCEPT ![into][k] = clock]
  /\ name' = [name EXCEPT ![into][k] = name[from][k]]
  /\ settings' = [settings EXCEPT ![into][k] = settings[from][k]]
  /\ touched' = Touched(into, {k}, clock)

\* Seeded fault: a later move here is undone.
GroupRelocatedAlways(k) == parent[into][k] # this

\* Seeded fault: the modification times are compared.
GroupModified(k) == touched[into][k] < touched[from][k] /\ parent[into][k] # this

\* locationChanged, and not here yet.
GroupRelocated(k) == placed[into][k] < placed[from][k] /\ parent[into][k] # this

\* The condition of resolveGroupConflict, after a move has set the modification
\* time.
GroupNewer(k) == ~GroupRelocated(k) /\ touched[into][k] < touched[from][k]

\* The assignments of resolveGroupConflict: none of them is for the settings.
TakenOver(k) == [name EXCEPT ![into][k] = name[from][k]]

\* A group that is in the tree is moved to this group, and the conflict with the
\* other copy's fields is resolved; the setters touch it if a field changes.
MergeGroup(k) ==
  /\ TakeGroup(k, IF GroupRelocated(k) THEN this ELSE parent[into][k])
  /\ k \in GroupsOf(into)
  /\ placed' = IF GroupRelocated(k) THEN [placed EXCEPT ![into][k] = clock] ELSE placed
  /\ name' = IF GroupNewer(k) THEN TakenOver(k) ELSE name
  /\ touched' = IF GroupRelocated(k) \/ name' # name THEN Touched(into, {k}, clock) ELSE touched
  /\ UNCHANGED settings

\* The end of Group::merge: emit modified().
Return ==
  /\ status = "merging"
  /\ Head(stack).entries = {} /\ Head(stack).children = {}
  /\ stack' = Tail(stack)
  /\ status' = IF Tail(stack) = <<>> THEN "merged" ELSE "merging"
  /\ touched' = Touched(into, {this}, clock)
  /\ UNCHANGED <<parent, placed, name, settings, entries, clock, into, before, rounds>>

Next ==
  \/ \E c \in Copies, g \in Groups, p \in Groups \cup {Root} :
       MoveGroup(c, g, p) \/ CreateGroup(c, g, p)
  \/ \E c \in Copies, g \in Groups : RenameGroup(c, g) \/ ChangeSettings(c, g)
  \/ \E c \in Copies, e \in Entries, g \in Groups \cup {Root} :
       MoveEntry(c, e, g) \/ CreateEntry(c, e, g)
  \/ \E c \in Copies, e \in Entries : UpdateEntry(c, e) \/ DeleteEntry(c, e)
  \/ \E c \in Copies : StartMerge(c)
  \/ \E e \in Entries : AddEntry(e) \/ MergeEntry(e)
  \/ \E k \in Groups : AddGroup(k) \/ MergeGroup(k)
  \/ Return

Spec == Init /\ [][Next]_vars

----------------------------------------------------------------------------
(* Properties *)

Places == Groups \cup {Root, None}
Calls == [group : Groups \cup {Root}, entries : SUBSET Entries, children : SUBSET Groups]

\* Type correctness; outside a cycle both copies are trees with the entries in
\* their groups, also in the middle of a merge.
TypeOK ==
  /\ parent \in [Copies -> [Groups -> Places]]
  /\ group \in [Copies -> [Entries -> Places]]
  /\ \A f \in {placed, name, settings, touched} : f \in [Copies -> [Groups -> 0 .. clock]]
  /\ \A f \in {moved, body} : f \in [Copies -> [Entries -> 0 .. clock]]
  /\ history \in [Copies -> [Entries -> SUBSET (0 .. clock)]]
  /\ clock \in 0 .. MaxEdits + 2
  /\ status \in {"apart", "merging", "merged", "hung"}
  /\ into \in Copies
  /\ stack \in Seq(Calls)
  /\ rounds \in Seq(Copies) /\ Len(rounds) <= 2
  /\ status # "hung" => \A c \in Copies :
       IsTree(parent[c]) /\ \A e \in EntriesOf(c) : group[c][e] \in GroupsOf(c) \cup {Root}

\* What the merge makes of an entry, stated without the walk: it is where it was
\* moved to last and has the contents and the history of the later version; an
\* entry of one copy only is kept as it is (Group::merge, resolveEntryConflict).
EntriesAreMerged ==
  status = "merged" =>
    \A e \in Entries :
      LET known == before.group[e] # None
          other == group[from][e] # None
          newer == other /\ (~known \/ before.body[e] < body[from][e])
          later == other /\ (~known \/ before.moved[e] < moved[from][e])
      IN  /\ group[into][e] = IF later THEN group[from][e] ELSE before.group[e]
          /\ body[into][e] = IF newer THEN body[from][e] ELSE before.body[e]
          /\ history[into][e] = IF newer THEN history[from][e] ELSE before.history[e]

\* What the merge makes of a group: it is where it was moved to last, with name,
\* notes, icon and expiry time of the copy that changed it last.  The times are
\* compared in the middle of the walk, so newer ones are lost if the merge has just
\* moved the group, or has taken an entry out of it that the other copy has
\* elsewhere.  The other fields (settings) are never taken over, however new: a
\* group that both copies have keeps its own, and the other copy's change is lost
\* (Group::merge, resolveGroupConflict).
GroupsAreMerged ==
  status = "merged" =>
    \A k \in Groups :
      LET known == before.parent[k] # None
          other == parent[from][k] # None
          later == other /\ (~known \/ before.placed[k] < placed[from][k])
          newer == other /\ (~known \/ before.touched[k] < touched[from][k])
          lost == \/ known /\ later
                  \/ \E e \in Entries : before.group[e] = k /\ group[from][e] \notin {k, None}
      IN  /\ parent[into][k] = IF later THEN parent[from][k] ELSE before.parent[k]
          /\ settings[into][k] = IF known \/ ~other THEN before.settings[k]
                                                     ELSE settings[from][k]
          /\ ~newer => name[into][k] = before.name[k]
          /\ newer /\ ~lost => name[into][k] = name[from][k]

\* After a merge in each direction both copies are the same tree with the same
\* contents and histories; the fields of groups may differ (GroupsAreMerged).
CopiesConverge ==
  status = "merged" /\ Len(rounds) = 2 /\ rounds[1] # rounds[2] =>
    /\ parent["ours"] = parent["theirs"]
    /\ group["ours"] = group["theirs"]
    /\ \A e \in EntriesOf("ours") :
         body["ours"][e] = body["theirs"][e] /\ history["ours"][e] = history["theirs"][e]

\* A merge gets caught in a cycle only when both copies moved groups, and never
\* when the result of a merge is merged back.
HangsOnlyOnCrossMoves ==
  status = "hung" =>
    /\ Len(rounds) = 1
    /\ \E g, h \in Groups :
         g # h /\ before.placed[g] > placed[from][g] /\ placed[from][h] > before.placed[h]
=============================================================================
