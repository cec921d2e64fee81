\* UseAtomicSaves may be switched off, in the settings or after three failures.
\* A crash that leaves no readable file ends the run: nothing can be reopened.
CONSTANTS
  Absent = Absent
  Torn = Torn
  MaxVersion = 3
  MaxAttempts = 4
  BackupChoices = {TRUE, FALSE}
SPECIFICATION SaveSpec
INVARIANTS AtomicNeverLoses SavedMeansOnDisk BackupIsEarlier
PROPERTIES RemovedOnlyAfterWritten RegisterSpec
CHECK_DEADLOCK FALSE
