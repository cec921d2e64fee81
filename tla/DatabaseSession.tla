--------------------------- MODULE DatabaseSession ---------------------------
(***************************************************************************)
(* One database tab (DatabaseTabWidget, DatabaseWidget, Database) and the  *)
(* file it was opened from.  Everything runs on the GUI thread, but a      *)
(* message box spins a nested event loop: while a question is open, timers *)
(* fire, the file watcher reports and the browser integration changes      *)
(* entries.  `frames' is the stack of handlers waiting for an answer.      *)
(*                                                                         *)
(* A content is a set of changes; saving replaces the file's content by    *)
(* memory's, merging takes the union.  The database is writable; what a    *)
(* failing save does to the file, and how failures are counted, are in     *)
(* SaveToFile.tla.                                                         *)
(***************************************************************************)
EXTENDS Naturals, Sequences

CONSTANTS
  Changes,         \* the changes users and other programs can make
  Absent,          \* the file does not exist
  MaxFrames,       \* bound: questions open at the same time
  AutoSave,        \* values of AutoSaveAfterEveryChange during the run
  AutoReload,      \* values of AutoReloadOnChange
  AutoSaveOnExit,  \* values of AutoSaveOnExit
  RelockAutoType   \* values of security/relockautotype

ASSUME SettingsAssumption ==
  /\ AutoSave \in (SUBSET BOOLEAN) \ {{}}
  /\ AutoReload \in (SUBSET BOOLEAN) \ {{}}
  /\ AutoSaveOnExit \in (SUBSET BOOLEAN) \ {{}}
  /\ RelockAutoType \in (SUBSET BOOLEAN) \ {{}}

ASSUME ContentAssumption == \A content \in SUBSET Changes : content # Absent

ASSUME BoundAssumption == MaxFrames \in Nat

VARIABLES
  mode,            \* DatabaseWidget::currentMode, with what EditMode edits
  mem,             \* content of m_db
  unsaved,         \* m_db holds a change of the user that was never written
  file,            \* content of the file, or Absent
  timer,           \* Database::m_timer runs
  tabModified,     \* DatabaseManagerStruct::modified
  widgetModified,  \* DatabaseWidget::m_databaseModified
  watch,           \* the file watcher and its two timers
  frames,          \* handlers waiting for an answer, innermost first
  editorStale,     \* m_editEntryWidget's entry was deleted under it
  newParent,       \* m_newParent: "none", "current" or "stale"
  pendingLock      \* m_dbPendingLock is set

vars == <<mode, mem, unsaved, file, timer, tabModified, widgetModified, watch,
          frames, editorStale, newParent, pendingLock>>

EditModes == {"edit", "create"}
Unlocked == {"view"} \cup EditModes

\* "undefined": the program went on with an object that no longer exists;
\* "emptied": the main view shows the empty database that locking put in place
\* of m_db.  The model follows neither any further.
Modes == Unlocked \cup {"locked", "closed", "undefined", "emptied"}

\* "Disable safe saves?", by the handler that called saveDatabase: the menu or
\* modified(), lockDatabases, closeDatabase, and modified() as called by a reload
\* that could not open the file or was declined.
Retries == {"retrySave", "retryLock", "retryClose", "retryUnread", "retryDeclined"}

Questions == {"lockEdit", "lockSave", "closeEdit", "closeSave", "askReload", "askMerge",
              "askDelete", "askUpdate", "askApply", "askSequence", "askDiscard"} \cup Retries

Watches == [watched : BOOLEAN,       \* the path is in m_fileWatcher
            notified : BOOLEAN,      \* fileChanged is on its way
            reloadTimer : BOOLEAN,   \* m_fileWatchTimer runs
            unblockTimer : BOOLEAN,  \* m_fileWatchUnblockTimer runs
            ignored : BOOLEAN]       \* m_ignoreAutoReload

Frames == [kind : Questions,
           current : BOOLEAN,            \* the captured db or entry is still m_db's
           modified : BOOLEAN,           \* close: its copy of the tab's flag
           content : SUBSET Changes]     \* askMerge: the database just read

TypeOK ==
  /\ mode \in Modes
  /\ mem \subseteq Changes
  /\ file = Absent \/ file \subseteq Changes
  /\ unsaved \in BOOLEAN /\ timer \in BOOLEAN
  /\ tabModified \in BOOLEAN /\ widgetModified \in BOOLEAN
  /\ watch \in Watches
  /\ frames \in Seq(Frames) /\ Len(frames) <= MaxFrames
  /\ editorStale \in BOOLEAN
  /\ newParent \in {"none", "current", "stale"}
  /\ pendingLock \in BOOLEAN
  /\ mode = "create" => newParent # "none"
  /\ watch.ignored => watch.unblockTimer

FreshWatch == [watched |-> TRUE, notified |-> FALSE, reloadTimer |-> FALSE,
               unblockTimer |-> FALSE, ignored |-> FALSE]

\* A tab whose database has just been opened.
Init ==
  /\ mode = "view" /\ mem = {} /\ file = {}
  /\ unsaved = FALSE /\ timer = FALSE
  /\ tabModified = FALSE /\ widgetModified = FALSE
  /\ watch = FreshWatch
  /\ frames = << >>
  /\ editorStale = FALSE /\ newParent = "none"
  /\ pendingLock = FALSE

-----------------------------------------------------------------------------
(* Handlers that return at once, as sets of outcomes *)

Now == [file |-> file, timer |-> timer, unsaved |-> unsaved, tab |-> tabModified,
        widget |-> widgetModified, watch |-> watch]

Becomes(o) ==
  /\ file' = o.file /\ timer' = o.timer /\ unsaved' = o.unsaved
  /\ tabModified' = o.tab /\ widgetModified' = o.widget /\ watch' = o.watch

\* blockAutoReload(true) and, after the save, blockAutoReload(false).
Blocked(w) == [w EXCEPT !.reloadTimer = FALSE, !.unblockTimer = TRUE, !.ignored = TRUE]

\* The new file takes the watched one's place, which ends the watch and reports
\* a change, the program's own.
Renewed(w) == [Blocked(w) EXCEPT !.watched = FALSE, !.notified = @ \/ w.watched]

\* saveDatabase succeeds.
Saved(o) ==
  [o EXCEPT !.file = mem, !.timer = FALSE, !.unsaved = FALSE, !.tab = FALSE, !.widget = FALSE,
            !.watch = Renewed(@)]

\* Seeded fault: a failed save does not mark the tab.
SaveFailedUnmarked(o) ==
  {[o EXCEPT !.timer = t, !.watch = Blocked(@)] : t \in {o.timer, FALSE}}

\* saveDatabase fails, after or before writeDatabase stopped the timer.
SaveFailed(o) ==
  {[o EXCEPT !.timer = t, !.tab = TRUE, !.watch = Blocked(@)] : t \in {o.timer, FALSE}}

\* A locked database is not saved, and saveDatabase reports success.
SaveDatabase(o) == IF mode = "locked" THEN {o} ELSE {Saved(o)} \cup SaveFailed(o)
SaveSucceeded(o) == mode = "locked" \/ ~o.tab

\* DatabaseTabWidget::modified
Modified(o) ==
  UNION {IF auto THEN SaveDatabase(o)
         ELSE {[o EXCEPT !.tab = TRUE, !.widget = @ \/ ~o.tab]} : auto \in AutoSave}

\* Seeded fault: the path is not watched again.
RewatchedNot(o) == o

\* m_fileWatcher.addPath(m_filePath): only a file that exists can be watched.
Rewatched(o) == [o EXCEPT !.watch.watched = (o.file # Absent)]

\* Seeded fault: the new database is taken for a saved one.
ReplaceAsSaved(o, content, waiting) ==
  /\ Becomes([o EXCEPT !.timer = FALSE, !.tab = FALSE])
  /\ mem' = content
  /\ frames' = [i \in DOMAIN waiting |-> [waiting[i] EXCEPT !.current = FALSE]]
  /\ newParent' = IF newParent = "none" THEN "none" ELSE "stale"

\* replaceDatabase and changeDatabase: the old database is deleted, with its
\* timer; whoever captured it is left with a dangling pointer.
Replace(o, content, waiting) ==
  /\ Becomes([o EXCEPT !.timer = FALSE, !.tab = o.widget])
  /\ mem' = content
  /\ frames' = [i \in DOMAIN waiting |-> [waiting[i] EXCEPT !.current = FALSE]]
  /\ newParent' = IF newParent = "none" THEN "none" ELSE "stale"

Push(kind, flag, content, waiting) ==
  /\ Len(waiting) < MaxFrames
  /\ frames' = <<[kind |-> kind, current |-> TRUE, modified |-> flag, content |-> content]>>
               \o waiting

Keep == UNCHANGED <<mode, mem, editorStale, newParent, pendingLock>>

\* A failed save may be the third in a row with atomic saves, which asks whether
\* to go on without them; saveAttempts, which counts them, is left out.
AskRetry(kind, o, p, waiting) ==
  p \in SaveFailed(o) /\ mode # "locked" /\ Push(kind, FALSE, {}, waiting)

End(last) == mode' = last /\ frames' = << >> /\ UNCHANGED <<mem, unsaved, file, timer,
                       tabModified, widgetModified, watch, editorStale, newParent, pendingLock>>

\* Using a deleted object: anything may happen next, so the run ends.
Undefined == End("undefined")

Alive == mode \in Unlocked \cup {"locked"}

-----------------------------------------------------------------------------
(* Changing the database *)

\* Not the content of anything yet; a change that was dropped may be redone.
Fresh(c) == c \notin mem /\ (file # Absent => c \notin file)
            /\ \A i \in DOMAIN frames : c \notin frames[i].content

\* Seeded fault: the object that changes does not emit modified().
ChangeUnannounced(c) ==
  /\ mode \in Unlocked /\ Fresh(c)
  /\ mem' = mem \cup {c} /\ unsaved' = TRUE
  /\ UNCHANGED <<mode, file, timer, tabModified, widgetModified, watch, frames,
                 editorStale, newParent, pendingLock>>

\* m_db changes, and emits modified().
Changed(c) ==
  /\ Fresh(c)
  /\ mem' = mem \cup {c} /\ unsaved' = TRUE /\ timer' = TRUE
  /\ UNCHANGED <<mode, file, tabModified, widgetModified, watch,
                 editorStale, newParent, pendingLock>>

\* A change in the main view, or by the browser integration at any time.
Change(c) == mode \in Unlocked /\ Changed(c) /\ UNCHANGED frames

Idle == frames = << >>
Top == Head(frames)
Waiting == Tail(frames)
Asked(kind) == ~Idle /\ Top.kind = kind

\* switchToEntryEdit, and createEntry or createGroup.
OpenEditor ==
  /\ mode = "view" /\ Idle
  /\ \/ mode' = "edit" /\ UNCHANGED newParent
     \/ mode' = "create" /\ newParent' = "current"
  /\ UNCHANGED <<mem, unsaved, file, timer, tabModified, widgetModified, watch,
                 frames, editorStale, pendingLock>>

\* The editor closes: switchToView.
Finished(waiting) ==
  /\ mode' = "view" /\ newParent' = "none" /\ editorStale' = FALSE
  /\ frames' = waiting /\ UNCHANGED pendingLock

\* The form is written to the entry, and switchToView puts a new entry or group
\* into the group it was meant for.  An unusual auto-type sequence is asked about
\* when the rest of the entry is written.
CommitEdit(c, waiting) ==
  IF (mode = "edit" /\ editorStale) \/ newParent = "stale"
  THEN Undefined
  ELSE /\ Fresh(c)
       /\ mem' = mem \cup {c} /\ unsaved' = TRUE /\ timer' = TRUE
       /\ UNCHANGED <<file, tabModified, widgetModified, watch>>
       /\ \/ Finished(waiting)
          \/ /\ mode = "edit" /\ Push("askSequence", FALSE, {}, waiting)
             /\ UNCHANGED <<mode, editorStale, newParent, pendingLock>>

\* Before it uses m_entry commitEntry may ask whether to take the generated
\* password.  A new entry, in no database yet, may as well be asked about here.
AskApply(waiting) == Push("askApply", FALSE, {}, waiting) /\ Becomes(Now) /\ Keep

AcceptEdit(c) == mode \in EditModes /\ Idle /\ (CommitEdit(c, << >>) \/ AskApply(<< >>))

\* A lock under the question has cleared m_entry, a reload has freed it.
ApplyEdit(c) ==
  /\ Asked("askApply")
  /\ IF Top.current THEN CommitEdit(c, Waiting) ELSE Undefined

\* The sequence is set or left as it is.
SequenceEdit(c) ==
  /\ Asked("askSequence")
  /\ IF ~Top.current THEN Undefined
     ELSE \/ CommitEdit(c, Waiting)
          \/ /\ Finished(Waiting)
             /\ UNCHANGED <<mem, unsaved, file, timer, tabModified, widgetModified, watch>>

\* cancel() reads the entry's icon, then asks if there is input.
CancelEdit ==
  /\ mode \in EditModes /\ Idle
  /\ IF mode = "edit" /\ editorStale
     THEN Undefined
     ELSE \/ /\ Finished(<< >>)
             /\ UNCHANGED <<mem, unsaved, file, timer, tabModified, widgetModified, watch>>
          \/ Push("askDiscard", FALSE, {}, << >>) /\ Becomes(Now) /\ Keep

\* "Save" in that question.
CancelSave(c) ==
  /\ Asked("askDiscard")
  /\ IF mode = "locked" THEN Undefined ELSE CommitEdit(c, Waiting) \/ AskApply(Waiting)

\* "Discard": switchToView does not look whether the database was locked meanwhile.
CancelDiscard ==
  /\ Asked("askDiscard")
  /\ IF mode = "locked" THEN End("emptied")
     ELSE /\ Finished(Waiting)
          /\ UNCHANGED <<mem, unsaved, file, timer, tabModified, widgetModified, watch>>

\* deleteEntries and deleteGroup take the selected objects, then ask; updateEntry
\* of the browser integration, at any time, does so with the entry to update.
AskDelete == mode = "view" /\ Idle /\ Push("askDelete", FALSE, {}, << >>) /\ Becomes(Now) /\ Keep
AskUpdate == mode \in Unlocked /\ Push("askUpdate", FALSE, {}, frames) /\ Becomes(Now) /\ Keep

DeleteOrUpdate(c) ==
  /\ ~Idle /\ Top.kind \in {"askDelete", "askUpdate"}
  /\ IF Top.current THEN Changed(c) /\ frames' = Waiting ELSE Undefined

\* The 150 ms of startModifiedTimer are over.
ModifiedTimeout ==
  /\ Alive /\ timer
  /\ LET o == [Now EXCEPT !.timer = FALSE] IN
     \E p \in Modified(o) :
       Becomes(p) /\ (UNCHANGED frames \/ AskRetry("retrySave", o, p, frames))
  /\ Keep

\* "Save" in the menu, enabled by canSave.
UserSave ==
  /\ mode = "view" /\ Idle /\ tabModified
  /\ \E p \in SaveDatabase(Now) :
       Becomes(p) /\ (UNCHANGED frames \/ AskRetry("retrySave", Now, p, << >>))
  /\ Keep

-----------------------------------------------------------------------------
(* Locking *)

\* Seeded fault: the old database and its timer live on until the event loop runs.
LockDeletingLater(o, waiting) ==
  /\ Becomes([o EXCEPT !.unsaved = FALSE, !.tab = o.widget])
  /\ mem' = {} /\ frames' = waiting /\ newParent' = "none"
  /\ mode' = "locked" /\ editorStale' = FALSE

Lock(o, waiting) ==
  /\ Replace([o EXCEPT !.unsaved = FALSE], {}, waiting)
  /\ mode' = "locked" /\ editorStale' = FALSE

\* Seeded fault: the widget's flag decides instead of the tab's.
LockUnlessWidgetModified(waiting) ==
  IF widgetModified
  THEN /\ Push("lockSave", FALSE, {}, waiting) /\ Becomes(Now) /\ Keep
  ELSE /\ Lock(Now, waiting) /\ UNCHANGED pendingLock

\* lockDatabases, after the question about the editor.
LockUnlessModified(waiting) ==
  IF tabModified
  THEN /\ Push("lockSave", FALSE, {}, waiting) /\ Becomes(Now) /\ Keep
  ELSE /\ Lock(Now, waiting) /\ UNCHANGED pendingLock

\* Seeded fault: inactivity locks also while a question is open.
LockDatabasesAnyTime ==
  /\ mode \in Unlocked
  /\ \/ /\ mode \in EditModes
        /\ IF mode = "edit" /\ editorStale
           THEN Undefined
           ELSE Push("lockEdit", FALSE, {}, frames) /\ Becomes(Now) /\ Keep
     \/ mode \in {"view", "edit"} /\ ~editorStale /\ LockUnlessModified(frames)

\* The menu, inactivity, the screen lock: never while a question is open.
\* Locking a window that is minimised or hidden, and the browser's message to
\* lock, which do not look for a question, are left out.
\* Whether the entry editor is modified is found out by reading its entry.
LockDatabases ==
  /\ mode \in Unlocked /\ Idle
  /\ \/ /\ mode \in EditModes
        /\ IF mode = "edit" /\ editorStale
           THEN Undefined
           ELSE Push("lockEdit", FALSE, {}, << >>) /\ Becomes(Now) /\ Keep
     \/ mode \in {"view", "edit"} /\ ~editorStale /\ LockUnlessModified(<< >>)

Cancelable == {"lockEdit", "lockSave", "closeEdit", "closeSave", "askDelete", "askUpdate",
               "askDiscard"}

Cancel(kinds) ==
  /\ ~Idle /\ Top.kind \in kinds
  /\ frames' = Waiting /\ Becomes(Now) /\ Keep

\* m_dbList[db] of a deleted db makes a record without a widget.
LockEditDiscard ==
  /\ Asked("lockEdit")
  /\ IF Top.current THEN LockUnlessModified(Waiting) ELSE Undefined

LockSave ==
  /\ Asked("lockSave")
  /\ IF ~Top.current THEN Undefined
     ELSE \E o \in SaveDatabase(Now) :
            IF SaveSucceeded(o)
            THEN Lock(o, Waiting) /\ UNCHANGED pendingLock
            ELSE /\ Becomes(o) /\ Keep
                 /\ frames' = Waiting \/ AskRetry("retryLock", Now, o, Waiting)

LockDiscard ==
  /\ Asked("lockSave")
  /\ IF ~Top.current THEN Undefined
     ELSE /\ Lock([Now EXCEPT !.tab = FALSE, !.widget = FALSE], Waiting)
          /\ UNCHANGED pendingLock

\* relockPendingDatabase: an auto-type sequence was performed.
Relock ==
  /\ pendingLock /\ TRUE \in RelockAutoType /\ mode \in Unlocked \cup {"locked"}
  /\ pendingLock' = FALSE
  /\ IF mode = "locked"
     THEN UNCHANGED <<mode, mem, frames, editorStale, newParent>> /\ Becomes(Now)
     ELSE Lock(Now, frames)

\* unlockDatabase; a global auto-type that asked for it marks the tab.
Unlock ==
  /\ mode = "locked" /\ Idle /\ file # Absent
  /\ Replace(Now, file, frames)
  /\ mode' = "view" /\ UNCHANGED editorStale
  /\ pendingLock' \in {pendingLock, TRUE}

-----------------------------------------------------------------------------
(* Closing and opening *)

Close(o) ==
  /\ Becomes([o EXCEPT !.timer = FALSE, !.unsaved = FALSE])
  /\ mode' = "closed" /\ mem' = {} /\ frames' = << >>
  /\ UNCHANGED <<editorStale, newParent, pendingLock>>

\* closeDatabase, after the question about the editor.  It works on a copy
\* of the tab's record that it took before that question.
CloseUnlessModified(flag, current, waiting) ==
  \/ /\ flag /\ TRUE \in AutoSaveOnExit
     /\ IF ~current THEN Undefined
        ELSE \E o \in SaveDatabase(Now) :
               IF SaveSucceeded(o) THEN Close(o)
               ELSE /\ Becomes(o) /\ Keep
                    /\ frames' = waiting \/ AskRetry("retryClose", Now, o, waiting)
  \/ /\ flag /\ FALSE \in AutoSaveOnExit /\ mode # "locked"
     /\ Len(waiting) < MaxFrames
     /\ frames' = <<[kind |-> "closeSave", current |-> current, modified |-> flag,
                     content |-> {}]>> \o waiting
     /\ Becomes(Now) /\ Keep
  \/ /\ ~flag \/ (FALSE \in AutoSaveOnExit /\ mode = "locked")
     /\ IF current THEN Close(Now) ELSE Undefined

CloseDatabase ==
  /\ mode \in Unlocked \cup {"locked"} /\ Idle
  /\ \/ /\ mode \in EditModes
        /\ IF mode = "edit" /\ editorStale
           THEN Undefined
           ELSE Push("closeEdit", tabModified, {}, << >>) /\ Becomes(Now) /\ Keep
     \/ /\ mode # "create" /\ ~editorStale
        /\ CloseUnlessModified(tabModified, TRUE, << >>)

CloseEditDiscard ==
  /\ Asked("closeEdit")
  /\ CloseUnlessModified(Top.modified, Top.current, Waiting)

CloseSave ==
  /\ Asked("closeSave")
  /\ IF ~Top.current THEN Undefined
     ELSE \E o \in SaveDatabase(Now) :
            IF SaveSucceeded(o) THEN Close(o)
            ELSE /\ Becomes(o) /\ Keep
                 /\ frames' = Waiting \/ AskRetry("retryClose", Now, o, Waiting)

CloseDiscard ==
  /\ Asked("closeSave")
  /\ IF Top.current THEN Close(Now) ELSE Undefined

\* The file is opened in a new tab.
OpenDatabase ==
  /\ mode = "closed" /\ file # Absent
  /\ mode' = "view" /\ mem' = file /\ watch' = FreshWatch
  /\ tabModified' = FALSE /\ widgetModified' = FALSE
  /\ editorStale' = FALSE /\ newParent' = "none" /\ pendingLock' = FALSE
  /\ UNCHANGED <<file, unsaved, timer, frames>>

-----------------------------------------------------------------------------
(* The file watcher *)

\* Another program writes the file, in place or by replacing it, ...
ExternalWrite(c) ==
  /\ Fresh(c)
  /\ file' = {c} \cup (IF file = Absent THEN {} ELSE file)
  /\ \E inPlace \in BOOLEAN :
       watch' = [watch EXCEPT !.notified = @ \/ watch.watched, !.watched = @ /\ inPlace]
  /\ UNCHANGED <<timer, unsaved, tabModified, widgetModified, frames>> /\ Keep

\* ... or removes it.
ExternalRemove ==
  /\ file # Absent
  /\ file' = Absent
  /\ watch' = [watch EXCEPT !.notified = @ \/ watch.watched, !.watched = FALSE]
  /\ UNCHANGED <<timer, unsaved, tabModified, widgetModified, frames>> /\ Keep

OnWatchedFileChanged ==
  /\ Alive /\ watch.notified
  /\ watch' = [watch EXCEPT !.notified = FALSE, !.reloadTimer = @ \/ ~watch.ignored]
  /\ UNCHANGED <<file, timer, unsaved, tabModified, widgetModified, frames>> /\ Keep

\* updateFilePath(m_filePath): the path is watched anew.
UnblockAutoReload ==
  /\ Alive /\ watch.unblockTimer
  /\ watch' = [watch EXCEPT !.unblockTimer = FALSE, !.ignored = FALSE,
                            !.watched = (file # Absent)]
  /\ UNCHANGED <<file, timer, unsaved, tabModified, widgetModified, frames>> /\ Keep

\* Memory now holds `content', read from the file, merged or not.
Reloaded(o, content, waiting) ==
  /\ Replace(Rewatched(o), content, waiting)
  /\ editorStale' = (mode \in EditModes)
  /\ UNCHANGED <<mode, pendingLock>>

\* reloadDatabaseFile from the reading of the file on.
ReadFile(o, waiting) ==
  \/ /\ Keep                                                   \* cannot be opened
     /\ \E p \in Modified(o) :
          \/ Becomes(Rewatched(p)) /\ frames' = waiting
          \/ Becomes(p) /\ AskRetry("retryUnread", o, p, waiting)
  \/ /\ file # Absent                                           \* cannot be read
     /\ Becomes(Rewatched(o)) /\ frames' = waiting /\ Keep
  \/ /\ file # Absent /\ mode # "locked" /\ o.widget
     /\ Push("askMerge", FALSE, file, waiting) /\ Becomes(o) /\ Keep
  \/ /\ file # Absent /\ mode # "locked" /\ ~o.widget
     /\ Reloaded([o EXCEPT !.unsaved = FALSE], file, waiting)

ReloadDatabaseFile ==
  /\ Alive /\ watch.reloadTimer
  /\ LET o == [Now EXCEPT !.watch.reloadTimer = FALSE] IN
     \/ mode = "locked" /\ Becomes(o) /\ UNCHANGED frames /\ Keep
     \/ /\ mode # "locked" /\ FALSE \in AutoReload
        /\ Push("askReload", FALSE, {}, frames) /\ Becomes(o) /\ Keep
     \/ mode # "locked" /\ TRUE \in AutoReload /\ ReadFile(o, frames)

ReloadYes == Asked("askReload") /\ ReadFile(Now, Waiting)

ReloadNo ==
  /\ Asked("askReload")
  /\ \E p \in Modified(Now) :
       \/ Becomes(Rewatched([p EXCEPT !.widget = TRUE])) /\ frames' = Waiting
       \/ Becomes(p) /\ AskRetry("retryDeclined", Now, p, Waiting)
  /\ Keep

\* Seeded fault: the merged database is not the one that is shown.
MergeYesKeepingMine == Asked("askMerge") /\ Reloaded(Now, mem, Waiting)

MergeYes == Asked("askMerge") /\ Reloaded(Now, Top.content \cup mem, Waiting)

MergeNo ==
  /\ Asked("askMerge")
  /\ Reloaded([Now EXCEPT !.widget = FALSE, !.unsaved = FALSE], Top.content, Waiting)

-----------------------------------------------------------------------------
(* "Disable safe saves?" *)

\* saveDatabase returns to its caller, with `saved'.
Return(o, saved) ==
  \/ saved /\ Top.kind = "retryLock" /\ Lock(o, Waiting) /\ UNCHANGED pendingLock
  \/ saved /\ Top.kind = "retryClose" /\ Close(o)
  \/ /\ Top.kind \in {"retryLock", "retryClose"} => ~saved
     /\ Becomes(CASE Top.kind = "retryUnread" -> Rewatched(o)
                  [] Top.kind = "retryDeclined" -> Rewatched([o EXCEPT !.widget = TRUE])
                  [] OTHER -> o)
     /\ frames' = Waiting /\ Keep

\* saveDatabase goes on with db and its reference into m_dbList, both gone if the
\* database was replaced: "Yes" saves once more, "No" resets saveAttempts.
Retry ==
  /\ ~Idle /\ Top.kind \in Retries
  /\ IF ~Top.current THEN Undefined
     ELSE \/ \E o \in SaveDatabase(Now) : Return(o, SaveSucceeded(o))
          \/ Return(Now, FALSE)

-----------------------------------------------------------------------------

Answer ==
  \/ Cancel(Cancelable)
  \/ LockEditDiscard \/ LockSave \/ LockDiscard
  \/ CloseEditDiscard \/ CloseSave \/ CloseDiscard
  \/ ReloadYes \/ ReloadNo \/ MergeYes \/ MergeNo
  \/ CancelDiscard \/ Retry
  \/ \E c \in Changes : DeleteOrUpdate(c) \/ ApplyEdit(c) \/ SequenceEdit(c) \/ CancelSave(c)

External == ExternalRemove \/ \E c \in Changes : ExternalWrite(c)

User ==
  \/ \E c \in Changes : Change(c) \/ AcceptEdit(c)
  \/ OpenEditor \/ CancelEdit \/ UserSave \/ AskDelete \/ AskUpdate
  \/ LockDatabases \/ Unlock \/ CloseDatabase \/ OpenDatabase

Next ==
  \/ User \/ Answer \/ External \/ Relock
  \/ ModifiedTimeout \/ OnWatchedFileChanged \/ UnblockAutoReload \/ ReloadDatabaseFile

Spec == Init /\ [][Next]_vars

\* Timers fire, the watcher reports and a question is answered in the end.
Fairness ==
  /\ WF_vars(ModifiedTimeout) /\ WF_vars(OnWatchedFileChanged)
  /\ WF_vars(UnblockAutoReload) /\ WF_vars(ReloadDatabaseFile)
  /\ WF_vars(Answer)

-----------------------------------------------------------------------------
(* Properties *)

(***************************************************************************)
(* A change that was never written is known to the tab, or the modified    *)
(* timer that will tell it still runs.  With the default settings this     *)
(* holds whatever fails and whatever happens while a question is open.     *)
(***************************************************************************)
Tracked == mode \in Unlocked /\ unsaved => tabModified \/ timer

(***************************************************************************)
(* Saves that fail, reloads and nested questions never make the tab forget *)
(* an unwritten change.  The one exception is an answer to "merge your     *)
(* changes?" that comes after the reason for asking, m_databaseModified,   *)
(* has gone: replaceDatabase then takes the merged changes for saved ones. *)
(***************************************************************************)
StaysTracked ==
  [][Tracked /\ ~Tracked' => Asked("askMerge") /\ ~widgetModified]_vars

(***************************************************************************)
(* The ways unwritten changes leave memory without the user's saving or    *)
(* discarding them (all, but for the browser's lock message, which is left *)
(* out and loses them, too): the 150 ms in which the tab does not know of the    *)
(* change, also when closeDatabase copied the flag then; locking again     *)
(* after auto-type; and a reload after an automatic save failed, which     *)
(* sets DatabaseManagerStruct::modified but not m_databaseModified.        *)
(***************************************************************************)
Discarded == ~Idle /\ Len(frames') < Len(frames)
             /\ Top.kind \in {"lockSave", "closeSave", "askMerge"}
InTheTimerWindow == timer
CopiedTooEarly == Asked("closeEdit") /\ ~Top.modified
Relocked == pendingLock /\ ~pendingLock'
AutoSaveHadFailed == tabModified /\ ~widgetModified /\ mode' # "locked" /\ mode' # "closed"

LossIsExplained ==
  [][unsaved /\ ~unsaved' =>
       \/ file' = mem
       \/ Discarded \/ InTheTimerWindow \/ CopiedTooEarly \/ Relocked
       \/ AutoSaveHadFailed \/ ~Tracked]_vars

(***************************************************************************)
(* The file is watched, or something is under way that will watch it again *)
(* (README: "Automatic reload when the database changed on disk").  The    *)
(* steps that end this for good: a reload that finds the database locked,  *)
(* and watching a path while no file is there.                             *)
(***************************************************************************)
Unattended ==
  /\ Alive
  /\ ~watch.watched /\ ~watch.notified /\ ~watch.reloadTimer /\ ~watch.unblockTimer
  /\ \A i \in DOMAIN frames :
       frames[i].kind \notin {"askReload", "askMerge", "retryUnread", "retryDeclined"}

WatchEndsOnlyWhenLockedOrAbsent ==
  [][~Unattended /\ Unattended' => mode = "locked" \/ file' = Absent]_vars

(***************************************************************************)
(* All the ways the tab comes to show a database that lacks what another   *)
(* program wrote, with nothing under way that would find it: the file was  *)
(* written while it was not watched, its change was reported while saving  *)
(* blocks reports, m_fileWatchTimer was stopped by a save that failed or   *)
(* ended in a file that could not be read, or the user was asked and       *)
(* declined, or answered after the file changed once more.                 *)
(***************************************************************************)
Missed ==
  /\ mode \in Unlocked /\ file # Absent /\ ~(file \subseteq mem)
  /\ ~watch.notified /\ ~watch.reloadTimer
  /\ \A i \in DOMAIN frames : frames[i].kind \notin {"askReload", "askMerge"}

WrittenUnwatched == file' # file /\ ~watch.watched
ReportedWhileBlocked == watch.ignored /\ watch.notified /\ ~watch'.notified
TimerStopped == watch.reloadTimer /\ ~watch'.reloadTimer /\ mem' = mem
AnsweredLate == Asked("askMerge") /\ file # Top.content

MissedIsExplained ==
  [][~Missed /\ Missed' =>
       \/ WrittenUnwatched \/ ReportedWhileBlocked \/ TimerStopped
       \/ Asked("askReload") \/ AnsweredLate]_vars

(***************************************************************************)
(* All the ways the tab comes to keep a pointer into a database that is    *)
(* gone, in a handler that waits for an answer (closeDatabase,             *)
(* lockDatabases and saveDatabase hold the database, deleteEntries,        *)
(* deleteGroup and updateEntry entries and groups of it, commitEntry and   *)
(* cancel the entry), the editor or m_newParent: a reload or the lock      *)
(* after auto-type, under either, and locking while a new entry or group   *)
(* is edited, which leaves m_newParent set.  Locking and closing by        *)
(* question never pull the database from under another handler, also when  *)
(* they go on only after "Disable safe saves?".                            *)
(***************************************************************************)
Dangling == newParent = "stale" \/ editorStale \/ \E i \in DOMAIN frames : ~frames[i].current

DanglingIsExplained ==
  [][~Dangling /\ Dangling' =>
       \/ mode \in Unlocked /\ mode' = mode
       \/ Relocked
       \/ mode = "create" /\ mode' = "locked"]_vars

(***************************************************************************)
(* A locked tab holds no entry and has no modified timer, when locking     *)
(* again after auto-type is off: LockDatabases never runs while a question *)
(* is open, so no reload can be waiting for an answer under it.            *)
(***************************************************************************)
LockedIsEmpty == mode = "locked" => mem = {} /\ ~timer /\ ~unsaved

-----------------------------------------------------------------------------
(* What the repository says of itself and the code does not keep *)

(***************************************************************************)
(* DatabaseTabWidget.cpp:317, "Never allow saving a locked database": the  *)
(* Q_ASSERT of saveDatabase, for the save of a modified tab that closes.   *)
(***************************************************************************)
LockedIsNeverSaved ==
  [][mode = "locked" /\ mode' = "closed" /\ AutoSaveOnExit = {TRUE} => ~tabModified]_vars
=============================================================================
