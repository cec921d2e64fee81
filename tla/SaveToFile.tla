----------------------------- MODULE SaveToFile -----------------------------
(***************************************************************************)
(* Writing a database to its file: DatabaseTabWidget::saveDatabase and the *)
(* Database::saveToFile, writeDatabase and backupDatabase it calls, one    *)
(* action per file-system call, so that a call may fail and the process    *)
(* may be killed between any two of them.                                  *)
(*                                                                         *)
(* A version of the database is a number; a file holds a complete version, *)
(* is Torn (partly written) or is Absent.  The temporary file is taken     *)
(* with what QFile still buffers for it, until it is closed or committed.  *)
(* The save runs on the GUI thread without returning to the event loop, so *)
(* the database in memory does not change while it runs.                   *)
(*                                                                         *)
(* The formulas of the specification are named Save..., so that FileProofs *)
(* can extend this module together with BlockStream.                       *)
(***************************************************************************)
EXTENDS Naturals

CONSTANTS
  Absent,          \* content of a name no file has
  Torn,            \* content of a file that was not completely written
  MaxVersion,      \* bound: number of changes made in memory
  MaxAttempts,     \* bound: failed saves counted by saveAttempts
  BackupChoices    \* values BackupBeforeSave may have when a save starts

ASSUME ContentAssumption ==
  /\ Absent \notin Nat
  /\ Torn \notin Nat
  /\ Absent # Torn

ASSUME BoundAssumption ==
  /\ MaxVersion \in Nat
  /\ MaxAttempts \in Nat
  /\ BackupChoices \subseteq BOOLEAN

VARIABLES
  mem,             \* version of the database in memory
  file,            \* content of the file at the database's path
  backup,          \* content of <name>.old.kdbx
  temp,            \* content of the temporary file of the running save,
                   \* with what its QFile has not written out yet
  pc,              \* next call of the running save, "idle" when none runs
  atomic,          \* the save's useAtomicSaves
  withBackup,      \* the save's BackupBeforeSave
  useAtomicSaves,  \* the setting UseAtomicSaves
  modified,        \* DatabaseManagerStruct::modified
  saveAttempts,    \* DatabaseManagerStruct::saveAttempts
  unflushed,       \* history variable: the running or last save closed its
                   \* temporary file without all of it being written out
  wasOff           \* history variable: UseAtomicSaves has been switched off

disk == <<file, backup, temp>>
call == <<atomic, withBackup, unflushed>>
tab  == <<modified, saveAttempts>>
settings == <<useAtomicSaves, wasOff>>
saveVars == <<mem, disk, pc, call, settings, tab>>

Content == Nat \cup {Absent, Torn}

\* A content from which the database can be opened again.
Complete(c) == c \in Nat

Steps == {"open", "write", "closeTemp", "removeBackup", "copyBackup",
          "commit", "removeFile", "copyFile", "succeeded", "failed", "ask"}

SaveTypeOK ==
  /\ mem \in Nat
  /\ file \in Content /\ backup \in Content /\ temp \in Content
  /\ pc \in Steps \cup {"idle", "crashed"}
  /\ atomic \in BOOLEAN /\ withBackup \in BOOLEAN
  /\ useAtomicSaves \in BOOLEAN
  /\ modified \in BOOLEAN
  /\ saveAttempts \in Nat
  /\ unflushed \in BOOLEAN /\ wasOff \in BOOLEAN

\* A database that was just opened from a file nobody has saved yet.
SaveInit ==
  /\ mem = 0 /\ file = 0
  /\ backup = Absent /\ temp = Absent
  /\ pc = "idle"
  /\ atomic = TRUE /\ withBackup = FALSE
  /\ useAtomicSaves = TRUE
  /\ modified = FALSE /\ saveAttempts = 0
  /\ unflushed = FALSE /\ wasOff = FALSE

-----------------------------------------------------------------------------
(* The user and the settings *)

\* A change; Database::modified has been delivered to the tab.
Edit ==
  /\ pc = "idle" /\ mem < MaxVersion
  /\ mem' = mem + 1
  /\ modified' = TRUE
  /\ UNCHANGED <<disk, pc, call, settings, saveAttempts>>

\* UseAtomicSaves is changed in the settings dialog.
ToggleAtomicSaves ==
  /\ pc = "idle"
  /\ useAtomicSaves' = ~useAtomicSaves
  /\ wasOff' = TRUE
  /\ UNCHANGED <<mem, disk, pc, call, tab>>

\* saveDatabase reads the settings and calls saveToFile.
SaveDatabase ==
  /\ pc = "idle" /\ saveAttempts < MaxAttempts
  /\ \E b \in BackupChoices : withBackup' = b
  /\ atomic' = useAtomicSaves /\ unflushed' = FALSE
  /\ pc' = "open"
  /\ UNCHANGED <<mem, disk, settings, tab>>

-----------------------------------------------------------------------------
(* saveToFile *)

Goto(step) ==
  /\ pc' = step
  /\ UNCHANGED <<mem, call, settings, tab>>

\* An error return: the destructor of the temporary file removes it.
Fail == Goto("failed") /\ temp' = Absent /\ UNCHANGED <<file, backup>>

\* Both branches open a temporary file first.
OpenTemp ==
  /\ pc = "open"
  /\ \/ Goto("write") /\ temp' = Torn /\ UNCHANGED <<file, backup>>
     \/ Fail

\* Seeded fault: the file is always removed before it is written anew.
AfterFlushRemoveFirst == IF withBackup THEN "removeBackup" ELSE "removeFile"

\* The call that replaces the file, after the backup if one is made.
AfterFlush == IF withBackup THEN "removeBackup"
              ELSE IF atomic THEN "commit" ELSE "removeFile"

\* Only the branch without atomic saves closes its file; a QSaveFile is
\* flushed by its commit.
AfterWrite == IF atomic THEN AfterFlush ELSE "closeTemp"

\* Seeded fault: the writer's error is not looked at.
WriteDatabaseUnchecked ==
  /\ pc = "write"
  /\ Goto(AfterWrite) /\ temp' \in {mem, Torn} /\ UNCHANGED <<file, backup>>

WriteDatabase ==
  /\ pc = "write"
  /\ \/ Goto(AfterWrite) /\ temp' = mem /\ UNCHANGED <<file, backup>>
     \/ Fail

\* QTemporaryFile::close writes the rest of the buffer out.  That may fail,
\* as on a full disk; nobody looks at the result.
CloseTemp ==
  /\ pc = "closeTemp"
  /\ \/ temp' = temp /\ unflushed' = unflushed
     \/ temp' = Torn /\ unflushed' = TRUE
  /\ pc' = AfterFlush
  /\ UNCHANGED <<mem, file, backup, atomic, withBackup, settings, tab>>

\* backupDatabase: QFile::remove(backupFilePath), its result ignored.
RemoveBackup ==
  /\ pc = "removeBackup"
  /\ Goto("copyBackup")
  /\ backup' \in {backup, Absent}
  /\ UNCHANGED <<file, temp>>

\* Seeded fault: the backup is made of the new version.
CopyBackupOfTemp ==
  /\ pc = "copyBackup"
  /\ Goto(IF atomic THEN "commit" ELSE "removeFile")
  /\ backup' \in IF backup = Absent THEN {Absent, temp} ELSE {backup}
  /\ UNCHANGED <<file, temp>>

\* backupDatabase: QFile::copy never overwrites and needs a source; the
\* caller ignores its result.
CopyBackup ==
  /\ pc = "copyBackup"
  /\ Goto(IF atomic THEN "commit" ELSE "removeFile")
  /\ backup' \in IF backup = Absent THEN {Absent, file} ELSE {backup}
  /\ UNCHANGED <<file, temp>>

\* QSaveFile::commit flushes the temporary file, and renames it over the
\* database file unless that failed.
Commit ==
  /\ pc = "commit"
  /\ \/ Goto("succeeded") /\ file' = temp /\ temp' = Absent
        /\ UNCHANGED backup
     \/ Fail

\* Without atomic saves: QFile::remove(filePath), its result ignored ...
RemoveFile ==
  /\ pc = "removeFile"
  /\ Goto("copyFile")
  /\ file' \in {file, Absent}
  /\ UNCHANGED <<backup, temp>>

\* ... then the temporary file is copied (or moved) to the free name.
CopyFile ==
  /\ pc = "copyFile"
  /\ \/ /\ file = Absent
        /\ Goto("succeeded") /\ file' = temp /\ temp' = Absent
        /\ UNCHANGED backup
     \/ Fail

-----------------------------------------------------------------------------
(* saveDatabase, after saveToFile has returned *)

Succeeded ==
  /\ pc = "succeeded"
  /\ modified' = FALSE /\ saveAttempts' = 0
  /\ pc' = "idle"
  /\ UNCHANGED <<mem, disk, call, settings>>

\* Seeded fault: a failed save does not mark the tab as modified.
FailedUnmarked ==
  /\ pc = "failed"
  /\ modified' = modified /\ saveAttempts' = saveAttempts + 1
  /\ pc' = IF saveAttempts + 1 > 2 /\ atomic THEN "ask" ELSE "idle"
  /\ UNCHANGED <<mem, disk, call, settings>>

\* The third failure in a row asks whether to switch atomic saves off.
Failed ==
  /\ pc = "failed"
  /\ modified' = TRUE /\ saveAttempts' = saveAttempts + 1
  /\ pc' = IF saveAttempts + 1 > 2 /\ atomic THEN "ask" ELSE "idle"
  /\ UNCHANGED <<mem, disk, call, settings>>

\* "Yes": saveDatabase calls itself, now without atomic saves.
DisableSafeSaves ==
  /\ pc = "ask"
  /\ useAtomicSaves' = FALSE /\ atomic' = FALSE
  /\ wasOff' = TRUE
  /\ \E b \in BackupChoices : withBackup' = b
  /\ pc' = "open"
  /\ UNCHANGED <<mem, disk, tab, unflushed>>

KeepSafeSaves ==
  /\ pc = "ask"
  /\ saveAttempts' = 0 /\ pc' = "idle"
  /\ UNCHANGED <<mem, disk, call, settings, modified>>

-----------------------------------------------------------------------------
(* Crash and restart *)

\* What a killed call leaves behind: a copy may be cut short, everything
\* else has happened or not.  No destructor runs, the temporary file stays.
Crash ==
  /\ pc # "crashed"
  /\ file' \in IF pc = "copyFile" /\ file = Absent THEN {Absent, Torn} ELSE {file}
  /\ backup' \in IF pc = "copyBackup" /\ backup = Absent THEN {Absent, Torn} ELSE {backup}
  /\ pc' = "crashed"
  /\ UNCHANGED <<mem, temp, call, settings, tab>>

\* The database is opened again from its path, if it can be read.
Restart ==
  /\ pc = "crashed" /\ Complete(file)
  /\ mem' = file /\ temp' = Absent
  /\ modified' = FALSE /\ saveAttempts' = 0
  /\ pc' = "idle"
  /\ UNCHANGED <<file, backup, call, settings>>

SaveStep ==
  \/ OpenTemp \/ WriteDatabase \/ CloseTemp \/ RemoveBackup \/ CopyBackup
  \/ Commit \/ RemoveFile \/ CopyFile \/ Succeeded \/ Failed

SaveNext ==
  \/ Edit \/ ToggleAtomicSaves \/ SaveDatabase
  \/ SaveStep \/ DisableSafeSaves \/ KeepSafeSaves
  \/ Crash \/ Restart

SaveSpec == SaveInit /\ [][SaveNext]_saveVars

-----------------------------------------------------------------------------
(* Properties *)

(***************************************************************************)
(* While atomic saves stay on there is a readable database at the path at  *)
(* every moment, through every failed call and every crash, and it is      *)
(* never newer than what the user has (QSaveFile, and the order write -    *)
(* backup - commit of saveToFile).                                         *)
(***************************************************************************)
AtomicNeverLoses ==
  ~wasOff => Complete(file) /\ file <= mem

(***************************************************************************)
(* A tab that is idle and not marked modified shows a database that is on  *)
(* disk as a whole, whichever calls failed before and however often the    *)
(* save was retried (the two assignments to dbStruct.modified).  The one   *)
(* exception: a save without atomic saves reports success after its        *)
(* temporary file could not be written out at tempFile.close(), "flush to  *)
(* disk", and then what is at the path cannot be read.                     *)
(***************************************************************************)
SavedMeansOnDisk ==
  pc = "idle" /\ ~modified =>
    \/ file = mem
    \/ ~atomic /\ unflushed /\ file = Torn

(***************************************************************************)
(* The database file is given up only by a save without atomic saves, and  *)
(* only while the new version stands complete in the temporary file        *)
(* (saveToFile writes and backs up first and removes last) - or after the  *)
(* close of that file failed unseen.                                       *)
(***************************************************************************)
RemovedOnlyAfterWritten ==
  [][Complete(file) /\ ~Complete(file')
       => ~atomic /\ (temp' = mem \/ unflushed)]_saveVars

(***************************************************************************)
(* A readable backup is an earlier version of the file, never a later one  *)
(* (backupDatabase runs before the file is replaced).                      *)
(***************************************************************************)
BackupIsEarlier ==
  Complete(backup) =>
    /\ backup <= mem
    /\ Complete(file) => backup <= file

(***************************************************************************)
(* While atomic saves stay on, to the user a save is one step: saveToFile  *)
(* implements a durable register.                                          *)
(***************************************************************************)
Register == INSTANCE DurableRegister WITH stored <- file, working <- mem
RegisterSpec == Register!Init /\ [][~wasOff' => Register!Next]_(Register!vars)
=============================================================================
