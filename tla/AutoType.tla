------------------------------ MODULE AutoType ------------------------------
(***************************************************************************)
(* Auto-Type: two try-locks, the dialog that asks which entry to type, and *)
(* databases that are locked, reloaded and closed meanwhile                *)
(* (autotype/AutoType.cpp, autotype/AutoTypeSelectDialog.cpp,              *)
(* gui/entry/AutoTypeMatchModel.cpp, gui/DatabaseTabWidget.cpp).           *)
(*                                                                         *)
(* All of it is in one thread, but typing waits by processing events, so   *)
(* every other handler runs while it waits.  The sequence of an entry is   *)
(* turned into keys before the first wait of the typing, but a sequence    *)
(* that is wrong or slow is asked about before that, in an event loop too. *)
(* A dialog that was accepted stays alive, hidden, until the handler of    *)
(* the click returns, which is after the typing.                           *)
(*                                                                         *)
(* Entries lie in a group that the dialog's model is connected to, or      *)
(* directly in the recycle bin, which it is not connected to.  Those of a  *)
(* bin are offered if its group's setting allows it; a bin that KeePassXC  *)
(* has made starts with Auto-Type switched off.  A pointer to an entry     *)
(* that was destroyed is marked as freed, wherever it is held.             *)
(***************************************************************************)
EXTENDS Naturals, FiniteSets

CONSTANTS
  Tabs,    \* database tabs, each with an entry that may match in a group and in the bin
  Dialogs, \* bound: select dialogs that may exist at a time
  None     \* no tab, no entry

Places == {"a group", "the bin"}

\* Pointers to entries.
Entry == [tab : Tabs, place : Places, freed : BOOLEAN]

ASSUME TabAssumption == None \notin Tabs \cup Entry

VARIABLES
  mode,          \* per tab: "closed", "locked" or "open"
  inAutoType,    \* AutoType::m_inAutoType is locked
  inGlobal,      \* AutoType::m_inGlobalAutoTypeDialog is locked
  typing,        \* who called executeAutoTypeActions that is waiting, or "nobody"
  asking,        \* it waits for the answer to verifyAutoTypeSyntax
  reading,       \* the entry whose sequence it is about to read, or None
  dialog,        \* the AutoTypeSelectDialogs with the matches they list
  unlockDialog,  \* the tab whose UnlockDatabaseDialog is shown, or None
  pendingLock,   \* DatabaseTabWidget::m_dbPendingLock
  status,        \* "fine", or what has gone wrong
  unlockedFor,   \* history variable: tabs unlocked by the dialog of Auto-Type
  early          \* history variable: a dialog was rejected while its choice was typed

mutexes == <<inAutoType, inGlobal>>
databases == <<mode, unlockedFor>>
sequence == <<asking, reading>>
relocking == <<unlockDialog, pendingLock>>
vars == <<databases, mutexes, typing, sequence, dialog, relocking, status, early>>

NoDialog == [state |-> "none", rows |-> {}]
Callers == {"the entry's command", "a single match", "a dialog"}

TypeOK ==
  /\ mode \in [Tabs -> {"closed", "locked", "open"}]
  /\ inAutoType \in BOOLEAN /\ inGlobal \in BOOLEAN
  /\ typing \in Callers \cup {"nobody"}
  /\ asking \in BOOLEAN
  /\ reading \in Entry \cup {None}
  /\ dialog \in [Dialogs -> [state : {"none", "shown", "accepted", "rejected"},
                             rows : SUBSET Entry]]
  /\ unlockDialog \in Tabs \cup {None}
  /\ pendingLock \in Tabs \cup {None}
  /\ status \in {"fine", "mutex unlocked twice", "freed entry read"}
  /\ unlockedFor \in SUBSET Tabs
  /\ early \in BOOLEAN

Alive(e) == ~e.freed /\ mode[e.tab] = "open"
EntriesOf(ts) == [tab : ts, place : Places, freed : {FALSE}]

Init ==
  /\ mode = [t \in Tabs |-> "closed"]
  /\ inAutoType = FALSE /\ inGlobal = FALSE
  /\ typing = "nobody"
  /\ asking = FALSE /\ reading = None
  /\ dialog = [d \in Dialogs |-> NoDialog]
  /\ unlockDialog = None
  /\ pendingLock = None
  /\ status = "fine"
  /\ unlockedFor = {}
  /\ early = FALSE

----------------------------------------------------------------------------
(* Starting to type *)

\* executeAutoTypeActions, up to its first wait: verifyAutoTypeSyntax asks or
\* complains, or parseActions reads the entry, which may have been freed.
StartTyping(caller, e) ==
  /\ ~inAutoType
  /\ inAutoType' = TRUE
  /\ typing' = caller
  /\ \/ asking' = TRUE /\ reading' = e /\ UNCHANGED status
     \/ asking' = FALSE /\ reading' = None /\ UNCHANGED status
     \/ e.freed /\ asking' = FALSE /\ reading' = e /\ status' = "freed entry read"

\* The question of verifyAutoTypeSyntax is answered with yes: parseActions reads
\* the entry (for good if the sequence has no placeholder).
Proceed ==
  /\ status = "fine"
  /\ asking
  /\ \/ asking' = FALSE /\ reading' = None /\ UNCHANGED status
     \/ reading.freed /\ status' = "freed entry read" /\ UNCHANGED sequence
  /\ UNCHANGED <<databases, mutexes, typing, dialog, relocking, early>>

\* Seeded fault: the shortcut is served while a dialog is open.
PerformGlobalUnguarded(entries, dialogs, guard, entry) ==
  /\ inGlobal' = TRUE
  /\ \E d \in Dialogs, matches \in (SUBSET entries) \ {{}} :
       /\ dialogs[d] = NoDialog
       /\ dialog' = [dialogs EXCEPT ![d] = [state |-> "shown", rows |-> matches]]
  /\ reading' = entry
  /\ UNCHANGED <<inAutoType, typing, asking, status>>

\* performGlobalAutoType, given the dialogs, the guard and the entry being read
\* that there are.  It does nothing that lasts when another one is going on, no
\* entry matches or somebody is typing.
PerformGlobal(entries, dialogs, guard, entry) ==
  \/ /\ dialog' = dialogs
     /\ inGlobal' = guard
     /\ reading' = entry
     /\ UNCHANGED <<inAutoType, typing, asking, status>>
  \/ /\ ~guard
     /\ \E e \in entries : StartTyping("a single match", e)
     /\ inGlobal' = TRUE
     /\ dialog' = dialogs
  \/ /\ ~guard
     /\ inGlobal' = TRUE
     /\ \E d \in Dialogs, matches \in (SUBSET entries) \ {{}} :
          /\ dialogs[d] = NoDialog
          /\ dialog' = [dialogs EXCEPT ![d] = [state |-> "shown", rows |-> matches]]
     /\ reading' = entry
     /\ UNCHANGED <<inAutoType, typing, asking, status>>

\* DatabaseTabWidget::performGlobalAutoType: the unlocked databases are
\* searched; when all are locked one is to be unlocked first.
GlobalShortcut ==
  /\ status = "fine"
  /\ LET unlocked == {t \in Tabs : mode[t] = "open"}
     IN \/ /\ unlocked # {}
           /\ PerformGlobal(EntriesOf(unlocked), dialog, inGlobal, reading)
           /\ UNCHANGED relocking
        \/ /\ unlocked = {}
           /\ \E t \in Tabs :
                /\ mode[t] = "locked"
                /\ pendingLock' = t
                /\ unlockDialog' = t
           /\ UNCHANGED <<mutexes, typing, sequence, dialog, status>>
  /\ UNCHANGED <<databases, early>>

\* performAutoType, the command of an entry in the main window.
EntryCommand(t) ==
  /\ status = "fine"
  /\ mode[t] = "open"
  /\ \E e \in EntriesOf({t}) : StartTyping("the entry's command", e)
  /\ UNCHANGED <<databases, inGlobal, dialog, relocking, early>>

\* AutoTypeSelectDialog::emitMatchActivated, performAutoTypeFromGlobal.  When
\* nothing can be typed the dialog is deleted and the guard released at once.
MatchActivated(d) ==
  /\ status = "fine"
  /\ dialog[d].state = "shown"
  /\ \/ /\ \E e \in dialog[d].rows : StartTyping("a dialog", e)
        /\ dialog' = [dialog EXCEPT ![d].state = "accepted"]
        /\ UNCHANGED inGlobal
     \/ /\ dialog' = [dialog EXCEPT ![d] = NoDialog]
        /\ inGlobal' = FALSE
        /\ UNCHANGED <<inAutoType, typing, sequence, status>>
  /\ UNCHANGED <<databases, relocking, early>>

\* AutoTypeMatchModel::data, whenever the list is painted.
RowPainted(d) ==
  /\ status = "fine"
  /\ dialog[d].state = "shown"
  /\ \E e \in dialog[d].rows : e.freed /\ reading' = e
  /\ asking' = FALSE
  /\ status' = "freed entry read"
  /\ UNCHANGED <<databases, mutexes, typing, dialog, relocking, early>>

\* reject, autoTypeRejectedFromGlobal
DialogRejected(d) ==
  /\ status = "fine"
  /\ dialog[d].state = "shown"
  /\ dialog' = [dialog EXCEPT ![d] = NoDialog]
  /\ inGlobal' = FALSE
  /\ UNCHANGED <<databases, inAutoType, typing, sequence, relocking, status, early>>

----------------------------------------------------------------------------
(* A database goes while dialogs list its entries *)

\* The entries of the tab t in the places ps are destroyed: a pointer to one.
Freed(e, t, ps) ==
  IF e.tab = t /\ e.place \in ps THEN [e EXCEPT !.freed = TRUE] ELSE e

\* What its group tells the model of: setMatchList connects every group of the
\* database but the recycle bin.
IsTold(e, t, ps) == e.tab = t /\ e.place \in ps /\ e.place # "the bin"

\* The rows that AutoTypeMatchModel::entryAboutToRemove leaves.
RowsWithout(rows, t, ps) == {Freed(e, t, ps) : e \in {r \in rows : ~IsTold(r, t, ps)}}

\* Dialogs whose last row goes: matchRemoved rejects them.
Emptied(t, ps) ==
  {d \in Dialogs : dialog[d].rows # {} /\ RowsWithout(dialog[d].rows, t, ps) = {}}

\* Seeded fault: the model is not told of the entries that go.
DialogsKeepingRows(t, ps) ==
  [d \in Dialogs |-> [dialog[d] EXCEPT !.rows = {Freed(e, t, ps) : e \in @}]]

\* The dialogs after the entries have gone.  A dialog that was accepted has not
\* been rejected yet, so it is rejected too.
DialogsWithout(t, ps) ==
  [d \in Dialogs |->
     CASE d \in Emptied(t, ps) /\ dialog[d].state = "shown" -> NoDialog
       [] d \in Emptied(t, ps) /\ dialog[d].state = "accepted" ->
            [state |-> "rejected", rows |-> {}]
       [] OTHER -> [dialog[d] EXCEPT !.rows = RowsWithout(@, t, ps)]]

\* Seeded fault: the dialog closes without its signal.
GuardWithoutSignal(t, ps) == inGlobal

\* The guard after the dialogs of Emptied(t, ps) have emitted rejected.
GuardWithout(t, ps) == inGlobal /\ Emptied(t, ps) = {}

\* executeAutoTypeActions keeps its pointer to the entry.
ReadingWithout(t, ps) == IF reading = None THEN None ELSE Freed(reading, t, ps)

EarlyWithout(t, ps) == early \/ \E d \in Emptied(t, ps) : dialog[d].state = "accepted"

\* replaceDatabase, or the end of the tab: t goes to mode m.
Becomes(t, m) ==
  /\ mode' = [mode EXCEPT ![t] = m]
  /\ early' = EarlyWithout(t, Places)

Replace(t, m) ==
  /\ Becomes(t, m)
  /\ dialog' = DialogsWithout(t, Places)
  /\ inGlobal' = GuardWithout(t, Places)
  /\ reading' = ReadingWithout(t, Places)

\* deleteEntries and emptyRecycleBin: the entries of t in the place p are destroyed
\* or, unless they are in the bin, moved there, which their groups tell as well.
EntriesGo(t, p) ==
  /\ status = "fine"
  /\ mode[t] = "open"
  /\ dialog' = DialogsWithout(t, {p})
  /\ inGlobal' = GuardWithout(t, {p})
  /\ early' = EarlyWithout(t, {p})
  /\ \/ reading' = ReadingWithout(t, {p})
     \/ p # "the bin" /\ UNCHANGED reading
  /\ UNCHANGED <<databases, inAutoType, typing, asking, relocking, status>>

\* DatabaseWidget::lock, by the user, inactivity or minimising the window.
Lock(t) ==
  /\ status = "fine"
  /\ mode[t] = "open"
  /\ Replace(t, "locked")
  /\ unlockedFor' = unlockedFor \ {t}
  /\ UNCHANGED <<inAutoType, typing, asking, relocking, status>>

\* reloadDatabaseFile
Reload(t) ==
  /\ status = "fine"
  /\ mode[t] = "open"
  /\ Replace(t, "open")
  /\ UNCHANGED <<unlockedFor, inAutoType, typing, asking, relocking, status>>

\* openDatabase, and unlockDatabase by the widget in the tab.
Show(t) ==
  /\ status = "fine"
  /\ mode[t] \in {"closed", "locked"}
  /\ Replace(t, "open")
  /\ UNCHANGED <<unlockedFor, inAutoType, typing, asking, relocking, status>>

\* deleteDatabase.  m_dbPendingLock is a QPointer to the widget that goes.
Close(t) ==
  /\ status = "fine"
  /\ mode[t] # "closed"
  /\ Replace(t, "closed")
  /\ unlockedFor' = unlockedFor \ {t}
  /\ unlockDialog' = IF unlockDialog = t THEN None ELSE unlockDialog
  /\ pendingLock' = IF pendingLock = t THEN None ELSE pendingLock
  /\ UNCHANGED <<inAutoType, typing, asking, status>>

\* DatabaseWidget::unlockDatabase by the dialog, also when the database was
\* unlocked in its tab meanwhile.  The new database is searched at once.
UnlockDialogAccepted ==
  /\ status = "fine"
  /\ unlockDialog # None
  /\ LET t == unlockDialog
     IN /\ Becomes(t, "open")
        /\ unlockedFor' = unlockedFor \cup {t}
        /\ PerformGlobal(EntriesOf({t}), DialogsWithout(t, Places), GuardWithout(t, Places),
                         ReadingWithout(t, Places))
  /\ unlockDialog' = None
  /\ UNCHANGED pendingLock

\* UnlockDatabaseDialog::reject; nobody is told.
UnlockDialogRejected ==
  /\ status = "fine"
  /\ unlockDialog # None
  /\ unlockDialog' = None
  /\ UNCHANGED <<databases, mutexes, typing, sequence, dialog, pendingLock, status, early>>

----------------------------------------------------------------------------
(* Typing ends *)

\* The guard is released by the caller of executeAutoTypeActions: with a plain
\* unlock after a single match, with tryLock and unlock after a dialog.
Release(guard) ==
  CASE typing = "a single match" ->
         /\ inGlobal' = FALSE
         /\ status' = IF guard THEN "fine" ELSE "mutex unlocked twice"
    [] typing = "a dialog" -> inGlobal' = FALSE /\ status' = "fine"
    [] OTHER -> inGlobal' = guard /\ status' = "fine"

\* The accepted dialog is deleted when the handler of the click returns.
Deleted(dialogs) ==
  IF typing = "a dialog"
  THEN [d \in Dialogs |->
          IF dialogs[d].state \in {"accepted", "rejected"} THEN NoDialog ELSE dialogs[d]]
  ELSE dialogs

\* Seeded fault: the mark is cleared also when nothing was typed.
TypingEndsClearing ==
  /\ status = "fine"
  /\ typing # "nobody"
  /\ inAutoType' = FALSE
  /\ typing' = "nobody"
  /\ asking' = FALSE /\ reading' = None
  /\ Release(inGlobal)
  /\ dialog' = Deleted(dialog)
  /\ pendingLock' = None
  /\ UNCHANGED <<databases, unlockDialog, early>>

\* The syntax is wrong, the question was answered with no, or another window
\* became active: autotypeRejected, which nobody listens to.  Also
\* autotypePerformed when there is nothing to lock again.
TypingEnds ==
  /\ status = "fine"
  /\ typing # "nobody"
  /\ inAutoType' = FALSE
  /\ typing' = "nobody"
  /\ asking' = FALSE /\ reading' = None
  /\ Release(inGlobal)
  /\ dialog' = Deleted(dialog)
  /\ \/ pendingLock' = pendingLock
     \/ /\ ~asking /\ pendingLock \in Tabs /\ mode[pendingLock] # "open"
        /\ pendingLock' = None
  /\ UNCHANGED <<databases, unlockDialog, early>>

\* autotypePerformed, relockPendingDatabase with the setting relockautotype.
TypingEndsRelocking ==
  /\ status = "fine"
  /\ typing # "nobody" /\ ~asking
  /\ pendingLock \in Tabs
  /\ mode[pendingLock] = "open"
  /\ LET t == pendingLock
     IN /\ mode' = [mode EXCEPT ![t] = "locked"]
        /\ unlockedFor' = unlockedFor \ {t}
        /\ Release(GuardWithout(t, Places))
        /\ dialog' = Deleted(DialogsWithout(t, Places))
  /\ inAutoType' = FALSE
  /\ typing' = "nobody"
  /\ asking' = FALSE /\ reading' = None
  /\ pendingLock' = None
  /\ UNCHANGED <<unlockDialog, early>>

TabStep(t) ==
  \/ EntryCommand(t) \/ Lock(t) \/ Reload(t) \/ Show(t) \/ Close(t)
  \/ \E p \in Places : EntriesGo(t, p)
DialogStep(d) == MatchActivated(d) \/ RowPainted(d) \/ DialogRejected(d)
Finish == TypingEnds \/ TypingEndsRelocking

Next ==
  \/ GlobalShortcut \/ UnlockDialogAccepted \/ UnlockDialogRejected \/ Proceed \/ Finish
  \/ \E t \in Tabs : TabStep(t)
  \/ \E d \in Dialogs : DialogStep(d)

Spec == Init /\ [][Next]_vars

----------------------------------------------------------------------------
(* Properties *)

\* Every path out of executeAutoTypeActions releases m_inAutoType.
TypingHoldsItsMutex == inAutoType <=> typing # "nobody"

\* m_inGlobalAutoTypeDialog is held for a dialog or for the typing of its choice.
GuardIsHeldForAReason ==
  inGlobal => \/ \E d \in Dialogs : dialog[d].state = "shown"
              \/ typing \in {"a single match", "a dialog"}

\* No lock is held for nothing, which would end Auto-Type or its shortcut for
\* good: every end of a dialog, of the typing or of the database whose entries
\* a dialog lists releases what its beginning took.
NoLockIsStuck == TypingHoldsItsMutex /\ GuardIsHeldForAReason

\* The guard does its work: one select dialog at a time, and a mutex is
\* unlocked only while it is locked.  The exception is real: the database of
\* a chosen entry is locked while the entry is typed, the hidden dialog loses
\* its last row, is rejected and releases the guard a first time.
GuardWorks ==
  \/ early
  \/ /\ Cardinality({d \in Dialogs : dialog[d].state = "shown"}) <= 1
     /\ status # "mutex unlocked twice"

\* A dialog offers only entries that exist, whatever was locked, reloaded,
\* deleted or closed since it was shown, but for entries of a recycle bin, whose
\* group the list is not connected to; and executeAutoTypeActions reads a freed
\* entry only if it is such a one, or if it has asked a question first
\* (setMatchList, verifyAutoTypeSyntax).
OfferedEntriesAreAlive ==
  /\ \A d \in Dialogs : dialog[d].state = "shown" =>
       \A e \in dialog[d].rows : Alive(e) \/ e.place = "the bin"
  /\ status = "freed entry read" => asking \/ reading.place = "the bin"

\* A database that was unlocked for a global Auto-Type stays marked to be
\* locked again, whatever is rejected, reloaded or typed first, as long as it
\* is unlocked (m_dbPendingLock).  The mark is set before the question, so
\* neither converse holds: a database unlocked by hand after a cancelled dialog
\* has the mark, and a dialog accepted after the mark was used sets none.
MarkStaysWhileUnlocked ==
  [][\A t \in unlockedFor \cap unlockedFor' : pendingLock = t => pendingLock' = t]_vars

=============================================================================
