# KeePassXC in TLA+

A verification development for KeePassXC (the Qt password manager in `src/`,
version 2.3): modules that model the parts of the program whose correctness
depends on the order of things, TLC configurations that check them, and proofs
that TLAPS checks. Paths below are relative to `src/src/` unless they say
otherwise.

## 1. The system and its parts

| Part | State it keeps | Operations | What is hard about it |
|---|---|---|---|
| **Saving** `core/Database.cpp` (`saveToFile`, `writeDatabase`, `backupDatabase`), `gui/DatabaseTabWidget.cpp` (`saveDatabase`) | the file, its backup, a temporary file; `modified` and `saveAttempts` of the tab; the setting `UseAtomicSaves` | open, write, back up, commit or remove-and-copy; the question after three failures | every file-system call may fail, the process may die between two of them, results are ignored |
| **Database tab** `gui/DatabaseTabWidget.cpp`, `gui/DatabaseWidget.cpp`, the modified timer of `core/Database.cpp` | mode of the widget, two "modified" flags, the modified timer, file watcher with two timers, editors, `m_dbPendingLock` | change, edit, delete, save, lock, unlock, relock, close, reload, merge | message boxes spin nested event loops; timers, the watcher and the browser integration run inside them, on state the waiting handler read before |
| **Group tree** `core/Group.cpp`, `core/Entry.cpp`, `core/Database.cpp` | groups and entries with parent pointers and child lists, the recycle bin, `DeletedObjects` | `setParent`, `setGroup`, delete, recycle, empty the bin, move between databases | parent pointers, lists and deleted-object records must agree after every operation |
| **Entry history** `core/Entry.cpp`, `gui/entry/EditEntryWidget.cpp` | an entry's data, its `m_tmpHistoryItem`, the history, the editor's form and history page | `beginUpdate`, `endUpdate`, `truncateHistory`, `removeHistoryItems`, commit, cancel | two limits that interact, a second writer while the editor is open, pointers to items that are truncated |
| **Merging** `core/Group.cpp` (`merge`, `resolveEntryConflict`, `resolveGroupConflict`) | two trees with modification and location times | merge one tree into the other | moves against moves, edits against edits, times the merge itself sets |
| **Metadata and icons** `core/Metadata.cpp`, `gui/EditWidgetIcons.cpp` | custom icons: map, list and index of images; references of groups, entries and history items | add, remove, choose, copy icons; move and merge objects | three structures updated apart; references that cross databases |
| **Block streams** `streams/HashedBlockStream.cpp`, `streams/HmacBlockStream.cpp` | buffer, block number, error | write, reset, close, read | calls of any size, a device that fails and recovers, results of `close` nobody sees |
| **Auto-Type** `autotype/*` | two try-locks, selection dialogs, the pending relock | start, choose, type, reject | re-entrance while typing processes events |
| **SSH agent** `sshagent/*` | keys lent to the agent, per database | add and remove on show, lock, close, quit | tabs that share keys, reloads that change the key of the map, an agent that refuses |
| **File format** `format/*` | readers and writers for KDB, KDBX 2/3/4 | read, write | malformed input |
| **Keys** `keys/*`, `crypto/*` | composite key, key file, challenge-response | transform, compare | order and failure of components |
| **Search, placeholders, references** `core/EntrySearcher.cpp`, `core/Entry.cpp`, `totp/*` | none | resolve | recursion limits, unknown references |
| **Browser integration** `browser/*`, `proxy/*` | clients with keys, confirmation lists | messages by native messaging, changing entries | requests while a dialog is open |
| **Clipboard and inactivity** `gui/Clipboard.cpp`, `core/InactivityTimer.cpp` | copied text, timers | copy, clear, lock | a timer against a second copy |
| **Command line** `cli/*` | none of its own | add, edit, remove, merge, extract | one-shot programs over the same core |
| **Widgets and models** `gui/entry/*`, `gui/group/*` | Qt models of a group or a search | signals about rows | rows announced before and after a change |
| **Imports and exports** `format/Csv*`, `core/CsvParser.*` | parser position | parse | malformed input |

The tab owns the database; `Database::modified` (150 ms after the last change)
calls `DatabaseTabWidget::modified`, which saves or sets the flags. Saving blocks
the file watcher of the widget for the time of the save and 500 ms more. The
watcher starts a 500 ms timer, the timer reloads, and `replaceDatabase` tells the
tab with `databaseChanged`. Locking is a `replaceDatabase` with an empty database.
Each lock, reload and close reaches the other parts: a change of the widget's mode makes
`SSHAgent` add or take back keys, deleted databases take their entries out of open
Auto-Type dialogs, and a finished Auto-Type locks again what it had unlocked.
`PROJECT.json` lists the hazards of every part at the line where they bite.

What makes each modelled part correct:

- *Saving*: at every moment, through failures and crashes, a readable database is
  at the path (atomic saves); what the tab shows as saved is on disk; a backup is
  an earlier version.
- *Database tab*: a change is never forgotten; every way it can be lost is known,
  and every way the tab misses what another program wrote; a database that was
  replaced during a question is not used; a locked tab is empty; the file stays
  watched.
- *Group tree*: the two ends of each relation agree; all hangs on a root; what
  leaves a database is recorded as deleted; only the bin is destroyed.
- *Entry history*: versions leave only by the limits, oldest first, or by the
  user; input in the editor is not dropped; no pointer outlives an item.
- *Merging*: the later change wins, both copies become the same tree, merging ends.
- *Icons*: map, list and index agree; what refers to an icon finds it, in the
  database it is in now and in its history.
- *Block streams*: what is read is what was written; an end is reported only
  after all of it, or after the writer was told; no error without a cause.
- *Auto-Type*: no lock is held for nothing or released twice; a dialog offers
  only entries that exist; what was unlocked for typing is locked again.
- *SSH agent*: a key that must leave the agent is remembered until it has; a
  locked database has taken its keys back.

## 2. Modules

| Module | Models | Checked by |
|---|---|---|
| `SaveToFile` | saving, one action per file-system call, with failures and crashes | `Save.cfg` |
| `DurableRegister` | abstract specification: what a save promises the user | as `RegisterSpec` in `Save.cfg` |
| `DatabaseSession`, `DatabaseSessionMC` | one tab, its file, its timers and its questions | `SessionAnySettings.cfg`, `SessionLockedSave.cfg` |
| `SessionHistory` | `DatabaseSession` with a history variable for its liveness property | `SessionDefaults.cfg` |
| `DatabaseSessionProofs` | theorems about `DatabaseSession` | TLAPS |
| `GroupTree`, `GroupTreeMC` | groups, entries, bins and deleted objects of two databases | `GroupTree.cfg` |
| `GroupTreeProofs` | theorems about `GroupTree` | TLAPS |
| `EntryHistory`, `EntryHistoryMC` | an entry, its history, the editor and the browser integration | `EntryHistory.cfg` |
| `EntryHistoryProofs` | theorems about `EntryHistory` | TLAPS |
| `Merge`, `MergeMC` | two copies edited apart and merged | `Merge.cfg` |
| `MergeProofs` | theorems about `Merge` | TLAPS |
| `CustomIcons`, `CustomIconsMC` | the icon stores of two databases, their users and the editors | `CustomIcons.cfg` |
| `CustomIconsProofs` | theorems about `CustomIcons` | TLAPS |
| `BlockStream` | a block stream's writer and reader, the device and the file between | `BlockStream.cfg` |
| `ByteChannel` | abstract specification: what a stream promises | as `IsAChannel` in `BlockStream.cfg` |
| `FileProofs` | theorems about `SaveToFile` and `BlockStream` | TLAPS |
| `AutoType` | both try-locks, dialogs, typing and relocking over several tabs | `AutoType.cfg` |
| `AutoTypeProofs` | theorems about `AutoType` | TLAPS |
| `SshAgent`, `SshAgentMC` | keys lent by several tabs to one agent | `SshAgent.cfg`, `SshAgentClosed.cfg` |
| `SshAgentProofs` | theorems about `SshAgent` | TLAPS |

The modules meet at named seams. `DatabaseSession` saves in one step that
succeeds, fails, or waits in the question after three failures; `SaveToFile` is that step call by call, and its theorem
`AtomicSaveIsOneStep` says that with atomic saves one step is right.
`DatabaseSession` merges by a union of changes; `Merge` is that union on trees.
`GroupTree` and `Merge` share the tree: `GroupTree` has the two ends of every
relation, `Merge` has one end (`ListsAgree` is why one is enough) and the times.
`updateEntry` of the browser integration appears twice: as a second writer of an
entry in `EntryHistory`, and as a handler that waits with a pointer in
`DatabaseSession`. `SshAgent` and `AutoType` have several tabs, each reduced to the
mode of its widget and the identity of its database: a lock, a reload and a close
there are the `Lock`, `Reloaded` and `Close` of `DatabaseSession`. `AutoType` has the
mark `m_dbPendingLock` in full; `DatabaseSession` has it as the cause of `Relock`.
`CustomIcons` has the moves of `GroupTree` that cross databases and the merge's
copy of icons, and `updateEntry` as a writer of history items.

Names follow the code (`saveAttempts`, `m_dbPendingLock` as `pendingLock`). An
operator named with "Seeded fault" in its comment is not part of a specification:
it is the definition after it with a plausible bug, used to see that a property
notices. Every checked property has one. `SaveToFile` names its specification
`SaveSpec` (`SaveInit`, `SaveNext`, `SaveTypeOK`), so that `FileProofs` can extend it
together with `BlockStream`. A variable called a history variable
records what happened for a property and decides nothing.

## 3. State and actions

### SaveToFile

`file`, `backup` and `temp` are what the three paths hold: a version, a torn
file or nothing. `pc` is the call that comes next in
`DatabaseTabWidget::saveDatabase` and `Database::saveToFile`: open the temporary
file, write, then remove and copy the backup and commit (atomic), or close the
temporary file, back up, remove and copy. Each may fail; failures to remove, to back
up and to close are ignored as in the code. `temp` counts what `QFile` still buffers
as written, because the commit flushes and looks at the result; the close without
atomic saves (`CloseTemp`) flushes too, but nobody looks, so it may leave a torn file
and the save goes on. `unflushed` is the history variable for that.
`Crash` may come before any call, and leaves a copy that was under way torn;
`Restart` opens the file again. `useAtomicSaves` may be switched in the settings
and by the question after three failures; `wasOff` records that it was, so that one
run checks both the promise of atomic saves and what is left without them. The
editor cannot run during a save, which never returns to the event loop.

### DatabaseSession

A content is a set of changes. `mode` is `DatabaseWidget::currentMode` with the
two kinds of editing; `timer` is the 150 ms timer of `Database::startModifiedTimer`;
`tabModified` and `widgetModified` are the two flags; `watch` is the file watcher
with its reload and unblock timers and `m_ignoreAutoReload`. `frames` is the stack
of handlers that wait in a message box: while one waits, timers, the watcher and
the browser integration go on, other user commands do not. A frame
keeps what the handler captured: whether its database is still the current one,
`closeDatabase`'s copy of the flag, and the database a reload has read.
`AskDelete` is `deleteEntries` and `deleteGroup`, which hold the selected objects;
`AskUpdate` is `updateEntry`, which holds an entry and may ask over any other
question. `askApply`, `askSequence` and `askDiscard` are the questions of
`commitEntry` and `cancel`, which go on with `m_entry`. The `Retries` are "Disable
safe saves?", asked over whatever handler called `saveDatabase`: the menu or the
timer, a lock, a close, or a reload that could not read or was declined; each goes
on in its own way with the database it holds. A step that would use a deleted object
ends in `mode = "undefined"`, and one that shows the empty database of the locked state in
`mode = "emptied"`; the run ends with it. Settings may be any value of a set at each use, so a run can fix
them or let them change.

### GroupTree

`parent`/`children` and `group`/`entries` are both ends of the relations, `db` is
`Group::m_db`; lists are sets. `SetParent`, `SetGroup` and `Destroy` are the bodies
of `Group::setParent`, `Entry::setGroup` and the destructors; the actions are the
operations of the widgets that call them: creating, `DropGroup`/`DropEntry`
(`GroupModel::dropMimeData`, also between two databases), `CopyGroup`,
`DeleteEntries` and `DeleteGroup` with their choice between recycling and
destroying, `EmptyRecycleBin`. `was` is a history variable.

### EntryHistory

`history` maps the number of the version an item was made from to its contents.
`Truncated` is `truncateHistory` with both limits; `CommitToEntry` is what
`commitEntry` does to the entry (mark, `beginUpdate`, copy the form,
`endUpdate`, truncate). `rows` and `doomed` are the pointers the editor's history
page holds. `EditForm` is input that a widget reports (`setUnsavedChanges`),
`EditQuietly` input that none does: plugin data that is removed and an attribute that is
renamed in place; `loaded` and `quiet` are the history variables for what was put in.
`UpdateEntry` is the browser integration. `CommitStale` and
`ReadStaleRow` are the editor meeting an item that was freed: the run ends there.

### Merge

Per copy: the parent and the location time of each group, the time of its fields
(`name`), the fields no merge takes over (`settings`) and its modification time
(`touched`); the group, the location time, the
contents and the history of each entry. `stack` holds the running calls of
`Group::merge`; a step is one iteration of one of its two loops, in any order of
the lists. `Touched` is `updateTimeinfo`, which every `modified()` of a group
reaches and which the merge's own steps reach too. `status = "hung"` is the loop at
the start of `Group::merge` in a cycle. Times are unique: an edit takes the next one.

### CustomIcons

Per database, `image`, `order` and `hashes` are `m_customIcons`,
`m_customIconsOrder` and `m_customIconsHashes`; `icon` and `past` are the references
of objects and of history items; `editor` is the object in the one open editor and
the icon chosen there. The actions are those of the icon page (choose, add,
remove with its walk over all references), applying and cancelling the editor,
moving an entry or a group to the other database (each copies icons in its own
way), merging, and `Relock`: saving, locking and unlocking, which closes the editor
without its cancel and builds the store anew from the file. An image is written as a
PNG and read with other bytes, perhaps (`AsRead`); the index is of bytes. `UpdateEntry`
is another writer of an entry, which makes a history item at any time, and `RemoveIcon`
has the updates under its own question. `Blank` is the image that
`Metadata::customIcon` returns for an unknown UUID, and that a copy may store.
`dropped`, `strayed` and `lost` are history variables for the named exceptions.

### BlockStream

`offered` counts the bytes handed to `write`; the n-th byte is n. `WriteCall` begins
a `write` of any size and `WriteLoop` is one turn of its loop; a full buffer becomes
a block, in one write of the device that succeeds, or fails leaving nothing or a piece.
`Reset` and `Close` write what is left and the final empty block. Then the file
may be damaged (a block changed, missing, doubled, exchanged) and is read in calls of
any size, one turn of the loop at a time. A check of a block is what it finds: the
block is as written and has the next number. `ByteChannel` is what a caller may
believe: received bytes are a prefix of those sent, "end" comes after all of them or
after the sender was told of a failure, and damage ends in "error".

### AutoType

`inAutoType` and `inGlobal` are the two try-locks. `GlobalShortcut` takes the second,
finds no entry, one entry or several, and starts typing or shows a dialog; typing
takes the first and waits in the event loop until `TypingEnds`. `dialog` holds the
selection dialogs and the rows they list: locking, reloading or closing a
database, or deleting an entry, takes the rows out (`AutoTypeMatchModel::
entryAboutToRemove`), and a dialog that loses its last row is rejected, also when it is
hidden because its choice is being typed. Rows of entries in the recycle bin stay:
the model does not connect to that group; such a row, and the entry that `reading`
holds, are marked as freed. `StartTyping` takes the lock and may ask about the sequence
(`asking`), `Proceed` reads the entry after that. Using a freed one, in `Proceed` or
when the list is painted (`RowPainted`), ends the run in a `status`. `pendingLock` is set when the unlock dialog is shown and used when typing ends.

### SshAgent

`agent` is what the agent holds. `m_keys` is split into `keys`, what it has under
the UUID of a tab's present database, and `orphans`, under UUIDs of databases that are
gone: every `Database` object has a new UUID, so nothing looks these up before the
program ends. What the entries of a database want added and removed is read only
when the database is shown, so it may be anything there. The agent may refuse an addition, fail a removal, lose
keys, or be used by others. An addition by hand whose reply is lost leaves the key there and
nothing remembered, which is `AddByHand` of a key that need not be removed. `owed`, `strayed` and `missed` are history variables:
keys that were lent and must be taken back, those of them added by hand or before a
reload, and removals that were tried and failed.

## 4. Runs

| Run | Question | Bounds, and why they are enough |
|---|---|---|
| `save` | is a readable version at the path through every failure and crash while atomic saves stay on, and is a save one step; without them, is "saved" true but for a close that fails unseen, the backup older, the file removed last? | 3 versions tell stored, working and backup apart; 4 failures reach the question after the third and one more |
| `session_any_settings` | all settings switch at any time: what can make the tab forget a change, lose one, hold a dead pointer, miss a foreign change, stop watching? | 2 changes: one of the user's, one of another program's; 2 questions nest (a reload or an update asks inside a lock, a close, a deletion or a failed save); symmetric in the changes; 1.8 million states |
| `session_defaults` | the settings of a new installation: is a change always known, does it come to be saved, shown or answered for, is a locked tab empty? | 2 changes, 1 question, with fairness; 0.2 million states |
| `session_locked_save` | see section 7 | 1 question |
| `group_tree` | two databases with dragging and bins: lists, databases, cycles, records, deletions that are not asked about | 2 roots and 2 groups, which can be above each other and be bins; 2 entries so that a first selected one can decide for another; symmetric in them |
| `entry_history` | does a version survive truncation and a stale form, are limits kept, is input dropped, when do pointers dangle? | contents of sizes 0, 1 and 2 under no limit or tight ones; 4 versions: more than the limits hold; 0.8 million states |
| `merge` | what does a merge make of entries and groups, do copies converge, when does it hang? | 2 groups can be moved below each other, an entry can be in either or the root; three edits are two of one copy against one of the other; two merges in any directions; 1.9 million states |
| `ssh_agent` | is what must leave the agent remembered, and gone after a lock? | 3 tabs that share 2 keys, symmetric in both; entries that ask to add, to remove, or both; 0.3 million states |
| `ssh_agent_closed` | see section 7 | as above |
| `auto_type` | are the try-locks released once and in time, are dialogs alive, is the mark kept? | 2 tabs with an entry in a group and one in the bin, so a dialog may lose one match and keep another; 2 dialogs, so that a second one would be seen; 0.7 million states |
| `custom_icons` | do the structures agree, do references resolve? | 2 databases to move and merge between, a group and an entry, 2 icons that may share the one image besides `Blank`, and images that come back as they were (the proofs have any `AsRead`); 1.0 million states |
| `block_stream` | is a stream the channel, and does it read what it wrote? | blocks of 2 bytes, 6 bytes, calls of up to 5: calls inside, across and over several blocks; 2 faults: one before and one in the retry; 0.2 million states |

All but `custom_icons` do not check deadlock: a program that was closed, crashed
without a readable file, ran into a failed assertion or a deleted object, or a
model that reached a bound, stops. Type correctness is proved for `SaveToFile`,
`DatabaseSession`, `GroupTree`, `EntryHistory`, `Merge`, `SshAgent`, `AutoType`,
`BlockStream` and `CustomIcons` (in `StoreIsConsistent`).

## 5. Fairness

Only `session_defaults` has liveness. `Fairness`, in `HistorySpec`, is weak for single-shot
timers that run (the modified timer, the reload and unblock timers of the
watcher), to a queued notification of the watcher, and to the answer of a
message box as a whole: the event loop serves timers and the watcher also inside
a message box, and a modal question blocks the user until it is answered. There is no
fairness on edits, locks, saves or other programs, and none on the outcome of a save:
every save may fail. `startModifiedTimer` restarts the timer with each change, so
a stream of changes faster than 150 ms would put it off; edits are bounded, so
the run does not have such a stream. `EditsSurface` does not count an edit that was
dropped in silence as surfaced: `lost` remembers one that was dropped after its 150 ms
were over, until there is a new one. What is dropped within them is `LossIsExplained`'s.

## 6. Proofs

TLAPS checks these for all values of the constants under the assumptions named in
the modules: no bound on groups, versions, failures, limits, tabs, keys, block
sizes or the depth of questions. Every property of a passing run has its theorem
but one, `EditsSurface`. Each module names its inductive invariant `IInv` (`SaveInv`
for saving) and proves it once, with a lemma per action; an action property follows
from the invariant and one look at each action.

- `FileProofs`, saving: type correctness, `AtomicSavesAreSafe`,
  `UnmodifiedIsOnDisk`, `BackupsAreEarlier`, the action property
  `FileOutlivesTemp`, and the refinement `AtomicSaveIsOneStep`. The
  invariant adds to the properties what each `pc` knows: that `temp` is complete
  from `AfterWrite` on unless its close has failed unseen, and that an unmodified tab is
  on disk unless a save has given the file up or has copied such a torn file.
- `FileProofs`, streams: type correctness, the refinement `StreamIsAChannel`, and
  `NothingIsFalselyRejected`. The invariant says that until damage the device holds the
  bytes in place, one full block after another and only the last one short
  (`InPlace`, `ShortIsLast`), what the writer still owes or has been told
  (`WriterGoesOn`, `WriterIsDone`), and that the reader's bytes are the first ones
  (`ReadIsSent`, `ReaderGoesOn`). That a reader reports no error without a cause needs
  more, `FileIsWhole`: where no call failed and nothing was damaged, the blocks are
  numbered without a gap, only the last one is empty, and the reader stands between
  two of them.
- `DatabaseSessionProofs`: type correctness, and every property of the two passing
  runs but the liveness one: `ChangesStayTracked`, `LossesAreExplained`,
  `DanglingIsAlwaysExplained`, `MissesAreExplained`, `WatchEndsOnlyThere` for any
  settings; `LockedTabsAreEmpty` when locking again after Auto-Type is off;
  `ChangesAreTracked` with automatic saving and reloading on. The invariant
  says how questions nest (`AskedFirst`: only a reload, the browser or a failed save asks over
  another question), that a closed tab has nothing running, that a locked one holds
  no current database, that unsaved changes are in memory, and when
  `m_newParent` is set. It is what makes a handler's captured database the
  present one, or known to be gone. `ChangesAreTracked` needs one thing more, by an
  invariant of its own: with these settings nobody is ever asked to merge.
- `GroupTreeProofs`: type correctness, `ListsAlwaysAgree`,
  `DatabasesAlwaysAgree`, `EverythingHangsOnARoot`, `DeletionsAreRecorded`,
  `BinsAreTracked`, and the action property `NothingSkipsTheBin`. The inductive invariant needs all of these together,
  and that every object in use is in `was`: a move keeps the lists only because
  the target is not below the moved group, which needs the absence of cycles, which
  needs the lists. The absence of cycles is stated without recursion: no
  nonempty set of groups has all its parents in itself. The lemmas say what a
  subtree is (`SubtreeClosed`, `SubtreeLeast`, `SubtreeParents`) and that each of
  `SetParent`, `SetGroup` and `Destroy` keeps the tree. For `NothingSkipsTheBin`,
  `NothingDestroyed` and `DestroyTakes` say which steps destroy and exactly what; the
  three that do are then measured against the bin (`DeletingEntriesReachesTheBin`,
  `DeletingAGroupReachesTheBin`, `EmptyingReachesTheBin`).
- `EntryHistoryProofs`: type correctness, `NoVersionIsLost`, and the action
  properties `LimitsHold`, `InputIsSaved` and `OnlyOthersMakeStale`. The lemma
  `TruncationKeepsNewest` says that a truncation by any limits leaves a suffix
  of the history, and `TruncationFits` that the suffix is within both: its oldest
  item was kept because everything from it on fits. For `InputIsSaved`, what differs from
  `loaded` was reported or is `quiet` (`InputReported`). The invariant adds that what
  users deleted is older than the current version. `WhatUpdateLeaves` has what the
  three action properties need of an update.
- `MergeProofs`: every property of the run `merge`, for any trees, any number of groups
  and entries and any edits: `MergeTypeCorrect`, `EntriesMerge`, `GroupsMerge`,
  `MergingBothWaysConverges`, `MergeHangsOnlyOnCrossMoves`. Below a group is the least
  closed set, so lemmas about it need no induction (`BelowIsLeast`, `TreeHasNoCycle`,
  `MoveKeepsTree`). `WalkOK` says that the running calls are for a group of the copy
  that is read, its parent, and so on up to the root, and that what they have still
  to do was not done before; the lemmas `StartWalk`, `TakeWalk`, `PushWalk` and
  `PopWalk` keep it. `Progress` says that what the walk has not reached is as the merge
  found it, except for modification times of groups that lose an entry, and that the
  rest is as the merge is to leave it. `Related` compares the two copies: what has
  the same time is the same in both (`Consistent`), and after a first merge one of
  them has all of the other and only later times where they differ (`Follows`); that
  is why copies converge. A merge that hangs has moved a group below itself;
  with `GroupsLead` nothing is moved, and with `GroupsFollow` the groups of the running
  calls are already where the other copy has them (`FollowingMakesNoCycle`).
- `CustomIconsProofs`: `StoresAgree`, `ImagesHaveRecords`, `IconsResolve` and
  `PastIconsResolve`, each with the exceptions it names, and `CopiedIconsExist`. `AllFit` says that map, list and
  index of a store fit each other, with each icon once in the list; `AddedFits`,
  `RemovedFits` and `RereadFits` are about one store after `addCustomIcon`,
  `removeCustomIcon` and reading the file, for any store and any icon. `ChoiceExists`
  says that the editor's choice is in the store of the edited object's database. The
  images a file gives back may be any (`AsRead`). `CopiedIconsExist` says for which groups
  the assertion of `copyCustomIcons` can fail when they are moved: those with an object
  that lost its icon in one of the ways the two reference properties name. The
  proof needs no induction over lists: `Without` is the list of the places that stay, and the last record of
  an image is the greatest of a set of positions (`LastPosition`).
- `AutoTypeProofs`: type correctness, `AutoTypeIsNeverStuck`,
  `DialogsOfferLivingEntries`, `OneDialogAtATime`, and the action property
  `TheMarkStays`. A row is of a living entry or lies in the bin, and what the typing
  will read is explained in the same way (`RowsAreAlive`, `ReadIsExplained`; `WithoutKeeps`
  for the entries that go). `OneAtATime` adds that the guard has one reason at a time: a shown
  dialog, a choice being typed or a single match, until it was released early. For the
  mark, a database that was unlocked for Auto-Type is open (`UnlockedAreOpen`).
- `SshAgentProofs`: type correctness, `KeysToRemoveAreRemembered`,
  `LockingTakesKeysBack`. The invariant adds that owed keys are in the agent, that
  only shown databases have keys remembered, and where each owed key is remembered.

Only model-checked: `EditsSurface`, which is a liveness property and needs reasoning
about fairness that the installed provers do not do. The two violated properties of
section 7 are, of course, not theorems.

What a sum over a set or a fold computes would need induction over data, which is out
of reach too. No theorem needs it: `TruncationFits` compares the sum of a history with
itself, and needs only that the sum over nothing is 0 (`NoItemsNoSize`).

## 7. What disagrees with the code's own words

| Run | What the code says | What happens |
|---|---|---|
| `session_locked_save` | `gui/DatabaseTabWidget.cpp:317`: never allow saving a locked database | after a declined reload the stale `m_databaseModified` marks the locked tab, and closing it saves |
| `ssh_agent_closed` | `gui/entry/EditEntryWidgetSSHAgent.ui:76`: remove the key when the database is closed or locked | a tab that is closed without being locked leaves its keys in the agent until the program ends |

Two comments and two assertions meet such a disagreement in a passing run, as
exceptions of the properties below: `core/Database.cpp:537` ("flush to disk") and
`:548` ("successfully saved") of a temporary file whose flush may have failed
(`SavedMeansOnDisk`, `RemovedOnlyAfterWritten`); `gui/entry/EditEntryWidget.cpp:268`
("Properties and History tabs don't need extra connections"), where plugin data is
removed without a report (`InputSurvivesClosing`); the assertion of `core/Metadata.cpp:442`
that a source has the icons to be copied (`HistoryResolves`, `CopiedIconsExist`); and that
of `core/Group.cpp:293`, which a merge fails for a newer group whose icon is number 0.

Passing properties name further exceptions that the code really has; the
comment of each tells how it comes about:

- `LossIsExplained`: the 150 ms in which the tab does not know of a change, locking
  again after Auto-Type, and a reload after an automatic save failed.
- `StaysTracked`: an answer to "merge?" after the reason for asking has gone.
- `SavedMeansOnDisk`, `RemovedOnlyAfterWritten`: without atomic saves, a close of the
  temporary file that fails unseen lets a torn file replace the good one.
- `EditsSurface`: only after the 150 ms; a lock, close or reload within them drops
  the change.
- `DanglingIsExplained`: a reload, or the lock after Auto-Type, under a question (of
  `lockDatabases`, `closeDatabase`, `saveDatabase`, `deleteEntries`, `deleteGroup`,
  `updateEntry`, `commitEntry`, `cancel`) or an editor leaves it with an object that is
  gone, and so does a lock while a new entry is edited. After a lock under
  `cancel`'s question, Discard shows the empty database of the locked state as if it were
  open; the run ends there.
- `MissedIsExplained`: among others, a failed save stops the timer of a reload that
  was due.
- `WatchEndsOnlyWhenLockedOrAbsent`: a file replaced while the database was locked is
  not watched after unlocking.
- `StaleOnlyByOthers`: an update by the browser integration truncates the history
  of the entry in the editor.
- `InputSurvivesClosing`: Save, answered with different passwords in the form, closes
  the editor and drops the input; so does Cancel, without a question, for input that no
  widget reports.
- `HangsOnlyOnCrossMoves`: each copy moved one of two groups below the other, the
  merge makes a cycle and does not end.
- `GroupsAreMerged`: a renamed group keeps its old name if the same merge moved it, or
  moved an entry out of it before. Whether a group expires, its Auto-Type and search
  settings and its custom data are never taken over from the newer copy.
- `EntriesAreMerged`: the older version of an entry edited in both copies is dropped with
  its history.
- `ReferencesResolve`, `HistoryResolves`: an editor that a lock closes keeps a
  removed icon; saving an editor that removed the icon, an update from the browser before
  that or under the question about the removal, or moving an entry alone, leaves a
  history item without its icon, and a merge passes both on.
- `OfferedEntriesAreAlive`: entries of the recycle bin, and an entry whose sequence is
  being asked about, may be destroyed and still be painted, chosen or typed.
- `ImagesAreFound`: one of two icons with one image takes the index record of the
  other along.
- `IsAChannel`: a stream may fail in `close` without telling, which leaves no end
  marker, so the reader notices. `NoFalseAlarm`: a stream to which nothing was written
  has no end marker either.
- `GuardWorks`: a hidden dialog that loses its last row while its choice is typed
  releases the guard a first time, before the typing that needs it has ended.
- `MarkStaysWhileUnlocked`: the mark is set before the database is unlocked, so a
  cancelled dialog leaves it, and a database unlocked by hand is then locked again.

## 8. What is left

Parts that are not modelled, with reasons, are listed under "components" in
`PROJECT.json`. Inside the modelled parts, these are left out:

- `DatabaseSession`: locking when the window is minimised or hidden
  (`gui/MainWindow.cpp`, `security/lockdatabaseminimize`), which does not look for
  an open question; the browser's message that locks the database without asking
  (`browser/BrowserService.cpp:89`, off by default), one more way to lose changes
  and to pull the database from under a question; quitting by a signal or from
  the tray; `removeStoredPermissions` with its progress dialog; saving under another
  name, read-only databases, a second tab on the same file, imports and
  search. The lists of `LossIsExplained` and `DanglingIsExplained` are complete
  for what is modelled.
- `GroupTree`: the order of siblings and paths; a selection that mixes entries of the
  bin with others is modelled, but no property is about it.
- `EntryHistory`: attachments and Auto-Type pages of the editor, adding a new
  entry; what a history item is made of (`beginUpdate` does not copy custom data).
- `Merge`: the modes that no program sets; the icon number 0, for which a build with
  assertions stops; that an entry replaced by a newer clone lives on outside the tree.
- `CustomIcons`: a lock under the question about a removal, nested groups, copies made by a drag, new entries, truncation of the
  history, the download of icons, more than one editor at a time.
- `BlockStream`: the cipher stream above it, and the hashes themselves; a second stream
  on the same object after a reset, which only a test writes.
- `AutoType`: which entries match a window, sequences, plugins. `SshAgent`: the wire
  format, decryption of keys, confirmation and lifetime.

What a continuation would take, in this order: `BrowserSession` (clients, association,
access control and its dialog, sockets, and calls that run on two threads);
`Placeholders` (the mutually recursive resolvers with their depth limit against a
reference); `TreeModels` (rows announced against lists, with the order of siblings);
`KdbxTree` (the reader's two passes over objects known by reference); the
clipboard and inactivity timers; and in `DatabaseSession` the locks named above.
