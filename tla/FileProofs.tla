----------------------------- MODULE FileProofs -----------------------------
(***************************************************************************)
(* The file of a database.  Saving it is safe for every number of changes, *)
(* failures and crashes (SaveToFile), and the block stream inside it is a  *)
(* channel, for any size of the blocks and the calls, any number of faults *)
(* and every damage of the model (BlockStream).                            *)
(***************************************************************************)
EXTENDS SaveToFile, BlockStream, SequenceTheorems, TLAPS

(***************************************************************************)
(*                          Saving to the file                             *)
(***************************************************************************)

\* The steps between the complete temporary file and its renaming.
AfterWriting == {"closeTemp", "removeBackup", "copyBackup", "commit", "removeFile", "copyFile"}

TempIsWritten == pc \in AfterWriting => temp = mem \/ (unflushed /\ temp = Torn)

\* Only without atomic saves is the temporary file closed and the file removed.
OnlyClosedIsRemoved ==
  unflushed \/ pc \in {"closeTemp", "removeFile", "copyFile"} => ~atomic

FileIsEarlier == Complete(file) => file <= mem

OnDisk ==
  /\ pc = "succeeded" => file = mem \/ (~atomic /\ unflushed /\ file = Torn)
  /\ pc = "ask" => modified
  /\ SavedMeansOnDisk

\* Without the setting's ever being off, the file is never removed.
Atomically ==
  ~wasOff =>
    /\ useAtomicSaves /\ atomic
    /\ Complete(file)

SaveInv ==
  /\ SaveTypeOK
  /\ TempIsWritten /\ OnlyClosedIsRemoved
  /\ FileIsEarlier /\ BackupIsEarlier /\ OnDisk /\ Atomically

(***************************************************************************)
(* Every variable keeps its type.                                          *)
(***************************************************************************)
LEMMA SaveTypeStep == SaveTypeOK /\ [SaveNext]_saveVars => SaveTypeOK'
<1>1. SUFFICES ASSUME SaveTypeOK, [SaveNext]_saveVars PROVE SaveTypeOK'
  OBVIOUS
<1> USE ContentAssumption, BoundAssumption
    DEF SaveTypeOK, Content, Steps, Complete
<1>2. CASE Edit BY <1>1, <1>2 DEF Edit, disk, settings, call
<1>3. CASE ToggleAtomicSaves BY <1>1, <1>3 DEF ToggleAtomicSaves, disk, call, settings, tab
<1>4. CASE SaveDatabase BY <1>1, <1>4 DEF SaveDatabase, disk, settings, tab
<1>5. CASE OpenTemp BY <1>1, <1>5 DEF OpenTemp, Goto, Fail, call, settings, tab
<1>6. CASE WriteDatabase BY <1>1, <1>6 DEF WriteDatabase, AfterWrite, AfterFlush, Goto, Fail, call, settings, tab
<1>7. CASE RemoveBackup BY <1>1, <1>7 DEF RemoveBackup, Goto, call, settings, tab
<1>8. CASE CopyBackup BY <1>1, <1>8 DEF CopyBackup, Goto, call, settings, tab
<1>9. CASE Commit BY <1>1, <1>9 DEF Commit, Goto, Fail, call, settings, tab
<1>10. CASE RemoveFile BY <1>1, <1>10 DEF RemoveFile, Goto, call, settings, tab
<1>11. CASE CopyFile BY <1>1, <1>11 DEF CopyFile, Goto, Fail, call, settings, tab
<1>12. CASE Succeeded BY <1>1, <1>12 DEF Succeeded, disk, settings, call
<1>13. CASE Failed BY <1>1, <1>13 DEF Failed, disk, settings, call
<1>14. CASE DisableSafeSaves BY <1>1, <1>14 DEF DisableSafeSaves, disk, settings, tab
<1>15. CASE KeepSafeSaves BY <1>1, <1>15 DEF KeepSafeSaves, disk, settings, call
<1>16. CASE Crash BY <1>1, <1>16 DEF Crash, call, settings, tab
<1>17. CASE Restart BY <1>1, <1>17 DEF Restart, settings, call
<1>18. CASE CloseTemp BY <1>1, <1>18 DEF CloseTemp, AfterFlush, settings, tab
<1>19. CASE UNCHANGED saveVars BY <1>1, <1>19 DEF saveVars, disk, call, settings, tab
<1> QED
  BY <1>1, <1>2, <1>3, <1>4, <1>5, <1>6, <1>7, <1>8, <1>9, <1>10, <1>11, <1>12,
     <1>13, <1>14, <1>15, <1>16, <1>17, <1>18, <1>19 DEF SaveNext, SaveStep

(***************************************************************************)
(* The inductive invariant: the temporary file is complete whenever the    *)
(* old file may be touched, versions only grow from the backup over the    *)
(* file to memory, and the tab knows when they differ.                     *)
(***************************************************************************)
LEMMA SaveInvStep == SaveInv /\ [SaveNext]_saveVars => SaveInv'
<1>1. SUFFICES ASSUME SaveInv, [SaveNext]_saveVars PROVE SaveInv'
  OBVIOUS
<1>2. SaveTypeOK'
  BY <1>1, SaveTypeStep DEF SaveInv
<1> USE ContentAssumption, BoundAssumption
    DEF SaveInv, SaveTypeOK, Content, Steps, Complete, TempIsWritten, AfterWriting,
        OnlyClosedIsRemoved, FileIsEarlier,
        BackupIsEarlier, OnDisk, SavedMeansOnDisk, Atomically
<1>3. CASE Edit BY <1>1, <1>2, <1>3 DEF Edit, disk, settings, call
<1>4. CASE ToggleAtomicSaves BY <1>1, <1>2, <1>4 DEF ToggleAtomicSaves, disk, call, settings, tab
<1>5. CASE SaveDatabase BY <1>1, <1>2, <1>5 DEF SaveDatabase, disk, settings, tab
<1>6. CASE OpenTemp BY <1>1, <1>2, <1>6 DEF OpenTemp, Goto, Fail, call, settings, tab
<1>7. CASE WriteDatabase
  BY <1>1, <1>2, <1>7 DEF WriteDatabase, AfterWrite, AfterFlush, Goto, Fail, call, settings, tab
<1>8. CASE RemoveBackup BY <1>1, <1>2, <1>8 DEF RemoveBackup, Goto, call, settings, tab
<1>9. CASE CopyBackup BY <1>1, <1>2, <1>9 DEF CopyBackup, Goto, call, settings, tab
<1>10. CASE Commit BY <1>1, <1>2, <1>10 DEF Commit, Goto, Fail, call, settings, tab
<1>11. CASE RemoveFile BY <1>1, <1>2, <1>11 DEF RemoveFile, Goto, call, settings, tab
<1>12. CASE CopyFile BY <1>1, <1>2, <1>12 DEF CopyFile, Goto, Fail, call, settings, tab
<1>13. CASE Succeeded BY <1>1, <1>2, <1>13 DEF Succeeded, disk, settings, call
<1>14. CASE Failed BY <1>1, <1>2, <1>14 DEF Failed, disk, settings, call
<1>15. CASE DisableSafeSaves BY <1>1, <1>2, <1>15 DEF DisableSafeSaves, disk, settings, tab
<1>16. CASE KeepSafeSaves BY <1>1, <1>2, <1>16 DEF KeepSafeSaves, disk, settings, call
<1>17. CASE Crash BY <1>1, <1>2, <1>17 DEF Crash, call, settings, tab
<1>18. CASE Restart BY <1>1, <1>2, <1>18 DEF Restart, settings, call
<1>19. CASE CloseTemp BY <1>1, <1>2, <1>19 DEF CloseTemp, AfterFlush, settings, tab
<1>20. CASE UNCHANGED saveVars BY <1>1, <1>2, <1>20 DEF saveVars, disk, call, settings, tab
<1> QED
  BY <1>1, <1>3, <1>4, <1>5, <1>6, <1>7, <1>8, <1>9, <1>10, <1>11, <1>12,
     <1>13, <1>14, <1>15, <1>16, <1>17, <1>18, <1>19, <1>20 DEF SaveNext, SaveStep

LEMMA SaveInitInv == SaveInit => SaveInv
<1>1. SaveInit => SaveTypeOK
  <2>1. SaveInit => /\ atomic \in BOOLEAN /\ withBackup \in BOOLEAN
                /\ useAtomicSaves \in BOOLEAN /\ modified \in BOOLEAN
                /\ unflushed \in BOOLEAN /\ wasOff \in BOOLEAN
    BY Zenon DEF SaveInit
  <2>2. SaveInit => /\ mem \in Nat /\ saveAttempts \in Nat
                /\ file \in Content /\ backup \in Content /\ temp \in Content
                /\ pc \in Steps \cup {"idle", "crashed"}
    BY DEF SaveInit, Content
  <2> QED
    BY <2>1, <2>2 DEF SaveTypeOK
<1>2. SaveInit => TempIsWritten /\ OnlyClosedIsRemoved /\ OnDisk
  BY DEF SaveInit, TempIsWritten, AfterWriting, OnlyClosedIsRemoved, OnDisk, SavedMeansOnDisk
<1>3. SaveInit => FileIsEarlier /\ BackupIsEarlier
  BY ContentAssumption DEF SaveInit, FileIsEarlier, BackupIsEarlier, Complete
<1>4. SaveInit => Atomically
  BY DEF SaveInit, Atomically, Complete
<1> QED
  BY <1>1, <1>2, <1>3, <1>4 DEF SaveInv

LEMMA SaveInvariance == SaveSpec => []SaveInv
  BY SaveInitInv, SaveInvStep, PTL DEF SaveSpec

(***************************************************************************)
(* Type correctness of the save.                                           *)
(***************************************************************************)
THEOREM SaveTypeCorrect == SaveSpec => []SaveTypeOK
<1>1. SaveInv => SaveTypeOK BY DEF SaveInv
<1> QED BY <1>1, SaveInvariance, PTL

(***************************************************************************)
(* With atomic saves a readable database is at the path at all times.      *)
(***************************************************************************)
THEOREM AtomicSavesAreSafe == SaveSpec => []AtomicNeverLoses
<1>1. SaveInv => AtomicNeverLoses
  BY DEF SaveInv, Atomically, FileIsEarlier, AtomicNeverLoses
<1> QED BY <1>1, SaveInvariance, PTL

(***************************************************************************)
(* A tab not marked as modified is on disk, with or without atomic saves,  *)
(* unless the close of a save's temporary file failed unseen.         *)
(***************************************************************************)
THEOREM UnmodifiedIsOnDisk == SaveSpec => []SavedMeansOnDisk
<1>1. SaveInv => SavedMeansOnDisk BY DEF SaveInv, OnDisk
<1> QED BY <1>1, SaveInvariance, PTL

(***************************************************************************)
(* The backup is never newer than the database file.                       *)
(***************************************************************************)
THEOREM BackupsAreEarlier == SaveSpec => []BackupIsEarlier
<1>1. SaveInv => BackupIsEarlier BY DEF SaveInv
<1> QED BY <1>1, SaveInvariance, PTL

(***************************************************************************)
(* The database file is only ever given up for a new version that was      *)
(* written completely, and closed with or without success.                 *)
(***************************************************************************)
THEOREM FileOutlivesTemp == SaveSpec => RemovedOnlyAfterWritten
<1> DEFINE GivenUp == ~atomic /\ (temp' = mem \/ unflushed)
<1>1. SaveInv /\ [SaveNext]_saveVars => (Complete(file) /\ ~Complete(file') => GivenUp)
  <2>1. SUFFICES ASSUME SaveInv, [SaveNext]_saveVars, Complete(file), ~Complete(file')
                 PROVE  GivenUp
    OBVIOUS
  <2>2. file' # file
    BY <2>1
  <2>3. Commit \/ RemoveFile \/ CopyFile \/ Crash
    BY <2>1, <2>2
    DEF SaveNext, SaveStep, Edit, ToggleAtomicSaves, SaveDatabase, OpenTemp, WriteDatabase,
        CloseTemp, RemoveBackup, CopyBackup, Succeeded, Failed, DisableSafeSaves,
        KeepSafeSaves, Restart, Fail, saveVars, disk
  <2>4. CASE Commit
    BY <2>1, <2>2, <2>4
    DEF Commit, Fail, SaveInv, SaveTypeOK, TempIsWritten, OnlyClosedIsRemoved, AfterWriting,
        Complete
  <2>5. CASE RemoveFile
    BY <2>1, <2>5 DEF RemoveFile, SaveInv, TempIsWritten, OnlyClosedIsRemoved, AfterWriting
  <2>6. CASE CopyFile
    BY <2>1, <2>2, <2>6, ContentAssumption DEF CopyFile, Fail, Complete
  <2>7. CASE Crash
    BY <2>1, <2>2, <2>7, ContentAssumption DEF Crash, Complete
  <2> QED
    BY <2>3, <2>4, <2>5, <2>6, <2>7
<1>2. SaveInv /\ [SaveNext]_saveVars
      => [Complete(file) /\ ~Complete(file') => ~atomic /\ (temp' = mem \/ unflushed)]_saveVars
  BY <1>1
<1> QED
  BY <1>2, SaveInvariance, PTL DEF SaveSpec, RemovedOnlyAfterWritten

(***************************************************************************)
(* As long as atomic saves stay on, saving implements the durable          *)
(* register: to the user a save happens at once or not at all.             *)
(***************************************************************************)
THEOREM AtomicSaveIsOneStep == SaveSpec => RegisterSpec
<1>1. SaveInit => Register!Init
  BY DEF SaveInit, Register!Init
<1>2. SaveInv /\ [SaveNext]_saveVars => [~wasOff' => Register!Next]_(Register!vars)
  <2>1. SUFFICES ASSUME SaveInv, [SaveNext]_saveVars, ~wasOff'
                 PROVE  [Register!Next]_(Register!vars)
    OBVIOUS
  <2> USE DEF Register!Next, Register!vars
  <2>2. CASE Edit
    BY <2>2 DEF Edit, settings, disk, Register!Change
  <2>3. CASE Commit
    BY <2>1, <2>3
    DEF Commit, Fail, Goto, settings, SaveInv, TempIsWritten, OnlyClosedIsRemoved,
        Atomically, AfterWriting, Register!Store
  <2>4. CASE Restart
    BY <2>4 DEF Restart, Register!Reopen
  <2>5. CASE Crash
    BY <2>1, <2>5, ContentAssumption DEF Crash, settings, SaveInv, Atomically, Complete
  <2>6. CASE RemoveFile \/ CopyFile
    BY <2>1, <2>6 DEF RemoveFile, CopyFile, Goto, Fail, settings, SaveInv,
        OnlyClosedIsRemoved, Atomically
  <2>7. CASE OpenTemp \/ WriteDatabase \/ CloseTemp \/ RemoveBackup \/ CopyBackup
    BY <2>7 DEF OpenTemp, WriteDatabase, CloseTemp, RemoveBackup, CopyBackup, Fail, Goto
  <2>8. CASE ToggleAtomicSaves \/ SaveDatabase \/ Succeeded \/ Failed
             \/ DisableSafeSaves \/ KeepSafeSaves \/ UNCHANGED saveVars
    BY <2>8 DEF ToggleAtomicSaves, SaveDatabase, Succeeded, Failed, DisableSafeSaves,
                KeepSafeSaves, saveVars, disk
  <2> QED
    BY <2>1, <2>2, <2>3, <2>4, <2>5, <2>6, <2>7, <2>8 DEF SaveNext, SaveStep
<1> QED
  BY <1>1, <1>2, SaveInvariance, PTL DEF SaveSpec, RegisterSpec

----------------------------------------------------------------------------
(***************************************************************************)
(*                           The block stream                              *)
(***************************************************************************)

\* The position of the first byte of a block in the stream.
Start(number) == number * BlockSize

\* bytes are the ones that follow the first m.
Follow(bytes, m) == \A i \in 1..Len(bytes) : bytes[i] = m + i

\* The blocks of a file that a reader may accept.
SoundIn(blocks) == {blocks[n] : n \in {k \in DOMAIN blocks : blocks[k].sound}}
Sound == SoundIn(device)

----------------------------------------------------------------------------
(* The inductive invariant *)

\* A block holds the bytes its number stands for.
InPlaceIn(blocks, sent) ==
  \A b \in blocks :
    /\ Len(b.data) <= BlockSize
    /\ Follow(b.data, Start(b.index))
    /\ b.data # <<>> => Start(b.index) + Len(b.data) <= sent

\* A block that is not full is the last with bytes, and an empty one comes
\* after all of them, unless the writer was told of a failure.
ShortIsLastIn(blocks, sent, failed) ==
  \A b \in blocks :
    /\ b.data # <<>> /\ Len(b.data) < BlockSize =>
         failed \/ Start(b.index) + Len(b.data) = sent
    /\ b.data = <<>> => failed \/ sent <= Start(b.index)
    /\ Len(b.data) < BlockSize =>
         \A c \in blocks : c.index > b.index => c.data = <<>>

InPlace == InPlaceIn(Sound, offered)
ShortIsLast == ShortIsLastIn(Sound, offered, told)

\* The writer's buffer goes on where the file ends.  After a failed final
\* block the file may end with a short block, and nothing is added.
WriterGoesOn ==
  phase = "writing" =>
    /\ \A b \in Sound : b.index < index /\ b.data # <<>>
    /\ Follow(buffer, Start(index))
    /\ buffer # <<>> => Start(index) + Len(buffer) <= offered
    /\ ~error => Start(index) + Len(buffer) + calling = offered
    /\ error => told /\ calling = 0
    /\ \A b \in Sound :
         Len(b.data) < BlockSize => error /\ buffer = <<>> /\ index = b.index + 1

WriterIsDone ==
  /\ phase = "reset" => buffer = <<>> /\ index = 0
  /\ phase # "writing" => calling = 0

ReaderWaits ==
  phase # "closed" =>
    received = <<>> /\ copied = <<>> /\ unread = <<>> /\ next = 0 /\ wanted = 0 /\ verdict = "more"

\* What was read, and before an error what was copied and what is buffered,
\* are the first bytes of the stream.
ReadIsSent == Follow(received, 0) /\ Len(received) <= offered

Position == Len(received) + Len(copied) + Len(unread)

ReaderGoesOn ==
  verdict # "error" =>
    /\ Follow(copied, Len(received))
    /\ Follow(unread, Len(received) + Len(copied))
    /\ Position <= offered
    /\ \/ Position = Start(next)
       \/ /\ told \/ Position = offered
          /\ \A b \in Sound : b.index >= next => b.data = <<>>

ReaderIsAsked ==
  /\ verdict # "more" => wanted = 0
  /\ wanted = 0 => copied = <<>>

IInv ==
  /\ TypeOK
  /\ InPlace /\ ShortIsLast
  /\ WriterGoesOn /\ WriterIsDone
  /\ ReaderWaits /\ ReadIsSent /\ ReaderGoesOn /\ ReaderIsAsked


----------------------------------------------------------------------------
(* Sequences, positions and blocks *)

LEMMA StartStep ==
  ASSUME NEW n \in Nat
  PROVE  Start(n) \in Nat /\ Start(n + 1) = Start(n) + BlockSize /\ Start(0) = 0
BY SizeAssumption, SMT DEF Start

LEMMA FollowConcat ==
  ASSUME NEW S, NEW s \in Seq(S), NEW t \in Seq(S), NEW m \in Nat,
         Follow(s, m), Follow(t, m + Len(s))
  PROVE  Follow(s \o t, m)
<1> SUFFICES ASSUME NEW i \in 1..Len(s \o t) PROVE (s \o t)[i] = m + i
  BY DEF Follow
<1>1. /\ Len(s) \in Nat /\ Len(t) \in Nat /\ Len(s \o t) = Len(s) + Len(t)
      /\ (s \o t)[i] = IF i <= Len(s) THEN s[i] ELSE t[i - Len(s)]
  BY ConcatProperties, LenProperties
<1>2. CASE i <= Len(s)
  BY <1>1, <1>2 DEF Follow
<1>3. CASE i > Len(s)
  <2>1. i - Len(s) \in 1..Len(t)
    BY <1>1, <1>3
  <2>2. t[i - Len(s)] = m + Len(s) + (i - Len(s))
    BY <2>1 DEF Follow
  <2> QED
    BY <1>1, <1>3, <2>1, <2>2
<1> QED
  BY <1>1, <1>2, <1>3

LEMMA FollowPart ==
  ASSUME NEW S, NEW s \in Seq(S), NEW m \in Nat, Follow(s, m),
         NEW j \in 1..(Len(s) + 1), NEW k \in 0..Len(s), k >= j - 1
  PROVE  /\ SubSeq(s, j, k) \in Seq(S)
         /\ Len(SubSeq(s, j, k)) = k - j + 1
         /\ Follow(SubSeq(s, j, k), m + (j - 1))
<1>1. Len(s) \in Nat /\ \A i \in 1..Len(s) : s[i] \in S
  BY LenProperties, ElementOfSeq
<1>2. /\ SubSeq(s, j, k) \in Seq(S)
      /\ Len(SubSeq(s, j, k)) = IF j <= k THEN k - j + 1 ELSE 0
      /\ \A i \in 1..(k - j + 1) : SubSeq(s, j, k)[i] = s[j + i - 1]
  <2>1. \A i \in j..k : s[i] \in S
    BY <1>1
  <2> QED
    BY <1>1, <2>1, SubSeqProperties
<1>3. Len(SubSeq(s, j, k)) = k - j + 1
  BY <1>1, <1>2
<1>4. ASSUME NEW i \in 1..(k - j + 1) PROVE SubSeq(s, j, k)[i] = m + (j - 1) + i
  <2>1. j + i - 1 \in 1..Len(s)
    BY <1>1
  <2>2. s[j + i - 1] = m + (j + i - 1)
    BY <2>1 DEF Follow
  <2> QED
    BY <1>1, <1>2, <2>2
<1> QED
  BY <1>2, <1>3, <1>4 DEF Follow

LEMMA FromFollows ==
  ASSUME NEW m \in Nat, NEW n \in Nat, m + n <= Bytes
  PROVE  From(m, n) \in Seq(1..Bytes) /\ Len(From(m, n)) = n /\ Follow(From(m, n), m)
BY SizeAssumption DEF From, Follow

LEMMA FollowIsFirst ==
  ASSUME NEW s \in Seq(1..Bytes), Follow(s, 0)
  PROVE  s = Channel!FirstBytes(Len(s))
BY LenProperties DEF Follow, Channel!FirstBytes

LEMMA EmptyFollows == \A m \in Nat : Follow(<<>>, m)
BY DEF Follow

LEMMA EmptyIsShort ==
  ASSUME NEW S, NEW s \in Seq(S)
  PROVE  /\ Len(s) \in Nat
         /\ s = <<>> <=> Len(s) = 0
BY EmptySeq, LenProperties

LEMMA SoundConcat ==
  ASSUME NEW s \in Seq(Block), NEW t \in Seq(Block)
  PROVE  SoundIn(s \o t) = SoundIn(s) \cup SoundIn(t)
<1>1. /\ Len(s) \in Nat /\ Len(t) \in Nat
      /\ DOMAIN s = 1..Len(s) /\ DOMAIN t = 1..Len(t)
      /\ s \o t \in Seq(Block)
      /\ Len(s \o t) = Len(s) + Len(t)
      /\ \A i \in 1..(Len(s) + Len(t)) : (s \o t)[i] = IF i <= Len(s) THEN s[i] ELSE t[i - Len(s)]
  BY ConcatProperties, LenProperties
<1>2. DOMAIN (s \o t) = 1..(Len(s) + Len(t))
  BY <1>1, LenProperties
<1>3. ASSUME NEW b \in SoundIn(s \o t) PROVE b \in SoundIn(s) \cup SoundIn(t)
  <2>1. PICK n \in 1..(Len(s) + Len(t)) : b = (s \o t)[n] /\ b.sound
    BY <1>2 DEF SoundIn
  <2>2. CASE n <= Len(s)
    BY <1>1, <2>1, <2>2 DEF SoundIn
  <2>3. CASE n > Len(s)
    <3>1. n - Len(s) \in DOMAIN t /\ b = t[n - Len(s)]
      BY <1>1, <2>1, <2>3
    <3> QED
      BY <2>1, <3>1 DEF SoundIn
  <2> QED
    BY <1>1, <2>2, <2>3
<1>4. ASSUME NEW b \in SoundIn(s) PROVE b \in SoundIn(s \o t)
  <2>1. PICK n \in 1..Len(s) : b = s[n] /\ b.sound
    BY <1>1 DEF SoundIn
  <2>2. n \in DOMAIN (s \o t) /\ (s \o t)[n] = b
    BY <1>1, <1>2, <2>1
  <2> QED
    BY <2>1, <2>2 DEF SoundIn
<1>5. ASSUME NEW b \in SoundIn(t) PROVE b \in SoundIn(s \o t)
  <2>1. PICK n \in 1..Len(t) : b = t[n] /\ b.sound
    BY <1>1 DEF SoundIn
  <2>2. n + Len(s) \in DOMAIN (s \o t) /\ (s \o t)[n + Len(s)] = b
    BY <1>1, <1>2, <2>1
  <2> QED
    BY <2>1, <2>2 DEF SoundIn
<1> QED
  BY <1>3, <1>4, <1>5

LEMMA SoundAreBlocks ==
  ASSUME NEW s \in Seq(Block)
  PROVE  \A b \in SoundIn(s) : b \in Block /\ b.sound
BY LenProperties, ElementOfSeq DEF SoundIn

----------------------------------------------------------------------------
(* One block more *)

Written(data, number) == [index |-> number, data |-> data, sound |-> TRUE]

LEMMA OutcomeProperties ==
  ASSUME TypeOK, NEW data \in Seq(1..Bytes), NEW number \in Nat,
         NEW o \in Outcomes(data, number)
  PROVE  /\ o.ok \in BOOLEAN
         /\ o.adds \in Seq(Block)
         /\ o.ok => SoundIn(o.adds) = {Written(data, number)}
         /\ ~o.ok => SoundIn(o.adds) = {} /\ faults < MaxFaults
<1> DEFINE piece == [index |-> number, data |-> data, sound |-> FALSE]
<1>1. Written(data, number) \in Block /\ piece \in Block
  BY DEF Written, Block
<1>2. \A b \in Block : /\ <<b>> \in Seq(Block)
                       /\ SoundIn(<<b>>) = IF b.sound THEN {b} ELSE {}
  BY DEF SoundIn
<1>3. <<>> \in Seq(Block) /\ SoundIn(<<>>) = {}
  BY DEF SoundIn
<1>4. Written(data, number).sound /\ ~piece.sound
  BY DEF Written
<1>5. CASE o = [adds |-> <<Written(data, number)>>, ok |-> TRUE]
  BY <1>1, <1>2, <1>4, <1>5
<1>6. CASE \E p \in {<<>>, <<piece>>} : faults < MaxFaults /\ o = [adds |-> p, ok |-> FALSE]
  <2>1. PICK p \in {<<>>, <<piece>>} : faults < MaxFaults /\ o = [adds |-> p, ok |-> FALSE]
    BY <1>6
  <2>2. p \in Seq(Block) /\ SoundIn(p) = {}
    BY <1>1, <1>2, <1>3, <1>4
  <2> QED
    BY <2>1, <2>2
<1> QED
  BY <1>5, <1>6 DEF Outcomes, Written

\* The outcome of writing nothing, in reset and close.
LEMMA NothingToWrite ==
  LET o == [adds |-> <<>>, ok |-> TRUE]
  IN o.ok = TRUE /\ o.adds \in Seq(Block) /\ SoundIn(o.adds) = {}
BY DEF SoundIn

LEMMA AddBlock ==
  ASSUME NEW S \in SUBSET Block, NEW sent \in Nat, NEW failed \in BOOLEAN,
         InPlaceIn(S, sent), ShortIsLastIn(S, sent, failed),
         NEW data \in Seq(1..Bytes), NEW number \in Nat,
         Len(data) <= BlockSize, Follow(data, Start(number)),
         data # <<>> => Start(number) + Len(data) <= sent,
         data # <<>> /\ Len(data) < BlockSize => failed \/ Start(number) + Len(data) = sent,
         data = <<>> => failed \/ sent <= Start(number),
         \A b \in S : b.index < number,
         \A b \in S : Len(b.data) < BlockSize => data = <<>>
  PROVE  /\ InPlaceIn(S \cup {Written(data, number)}, sent)
         /\ ShortIsLastIn(S \cup {Written(data, number)}, sent, failed)
<1> DEFINE new == Written(data, number)
<1>1. new.index = number /\ new.data = data
  BY DEF Written
<1>2. InPlaceIn(S \cup {new}, sent)
  BY <1>1 DEF InPlaceIn
<1> HIDE DEF new
<1>3. ASSUME NEW b \in S
      PROVE  /\ b.data # <<>> /\ Len(b.data) < BlockSize =>
                  failed \/ Start(b.index) + Len(b.data) = sent
             /\ b.data = <<>> => failed \/ sent <= Start(b.index)
             /\ Len(b.data) < BlockSize =>
                  \A c \in S \cup {new} : c.index > b.index => c.data = <<>>
  BY <1>1 DEF ShortIsLastIn
<1>4. \A c \in S \cup {new} : ~(c.index > new.index)
  BY <1>1 DEF Block
<1>5. ShortIsLastIn(S \cup {new}, sent, failed)
  <2> SUFFICES ASSUME NEW b \in S \cup {new}
      PROVE  /\ b.data # <<>> /\ Len(b.data) < BlockSize =>
                  failed \/ Start(b.index) + Len(b.data) = sent
             /\ b.data = <<>> => failed \/ sent <= Start(b.index)
             /\ Len(b.data) < BlockSize =>
                  \A c \in S \cup {new} : c.index > b.index => c.data = <<>>
    BY DEF ShortIsLastIn
  <2>1. CASE b \in S
    BY <1>3, <2>1
  <2>2. CASE b = new
    BY <1>1, <1>4, <2>2
  <2> QED
    BY <2>1, <2>2
<1> QED
  BY <1>2, <1>5 DEF new

\* The facts about the file survive the loss of blocks and a reported failure.
LEMMA FewerBlocks ==
  ASSUME NEW S, NEW T \in SUBSET S, NEW sent, NEW failed,
         InPlaceIn(S, sent), ShortIsLastIn(S, sent, failed)
  PROVE  InPlaceIn(T, sent) /\ ShortIsLastIn(T, sent, failed) /\ ShortIsLastIn(T, sent, TRUE)
BY DEF InPlaceIn, ShortIsLastIn

----------------------------------------------------------------------------
(* The invariant holds at first, and through every step of the writer *)

LEMMA InitInvariant == Init => IInv
<1> SUFFICES ASSUME Init PROVE IInv
  OBVIOUS
<1>1. TypeOK
  <2>1. /\ <<>> \in Seq(1..Bytes) /\ <<>> \in Seq(Block) /\ Len(<<>>) = 0
    BY EmptySeq
  <2>2. error \in BOOLEAN /\ told \in BOOLEAN /\ damaged \in BOOLEAN
    BY Zenon DEF Init
  <2>3. Len(buffer) <= BlockSize /\ Len(buffer) # BlockSize /\ Len(unread) <= BlockSize
    BY <2>1, SizeAssumption DEF Init
  <2>4. /\ offered \in 0..Bytes /\ calling \in 0..MaxCall /\ calling <= offered
        /\ index \in Nat /\ faults \in 0..MaxFaults /\ next \in Nat
        /\ wanted \in 0..MaxCall /\ Len(copied) + wanted <= MaxCall
    BY <2>1, SizeAssumption DEF Init
  <2> QED
    BY <2>1, <2>2, <2>3, <2>4 DEF Init, TypeOK
<1>2. Sound = {}
  BY DEF Init, Sound, SoundIn
<1>3. InPlace /\ ShortIsLast
  BY <1>2 DEF InPlace, ShortIsLast, InPlaceIn, ShortIsLastIn
<1>4. WriterGoesOn /\ WriterIsDone
  BY <1>2, StartStep, EmptyFollows DEF Init, WriterGoesOn, WriterIsDone
<1>5. ReaderWaits /\ ReadIsSent /\ ReaderGoesOn /\ ReaderIsAsked
  BY StartStep, EmptyFollows
     DEF Init, ReaderWaits, ReadIsSent, ReaderGoesOn, ReaderIsAsked, Position
<1> QED
  BY <1>1, <1>3, <1>4, <1>5 DEF IInv

\* As long as it is written, nothing has been read.
LEMMA ReaderStillWaits ==
  ASSUME TypeOK, ReaderWaits, phase # "closed", UNCHANGED reader, offered' \in Nat
  PROVE  ReaderWaits' /\ ReadIsSent' /\ ReaderGoesOn' /\ ReaderIsAsked'
<1>1. /\ received' = <<>> /\ copied' = <<>> /\ unread' = <<>>
      /\ next' = 0 /\ wanted' = 0 /\ verdict' = "more"
  BY DEF ReaderWaits, reader
<1>2. Position' = 0 /\ Start(0) = 0
  BY <1>1, StartStep DEF Position
<1> QED
  BY <1>1, <1>2, EmptyFollows
     DEF ReaderWaits, ReadIsSent, ReaderGoesOn, ReaderIsAsked, Start

LEMMA WriteCallStep ==
  ASSUME IInv, NEW n \in 1..MaxCall, WriteCall(n)
  PROVE  IInv'
<1> USE DEF IInv
<1>1. TypeOK'
  <2>1. offered' \in 0..Bytes /\ calling' \in 0..MaxCall /\ calling' <= offered'
    BY SizeAssumption DEF WriteCall, TypeOK
  <2>2. told' \in BOOLEAN
    BY Zenon DEF WriteCall, TypeOK
  <2> QED
    BY <2>1, <2>2 DEF WriteCall, TypeOK, reader
<1>2. Sound' = Sound /\ \A b \in Sound : b \in Block /\ b.sound
  BY SoundAreBlocks DEF WriteCall, Sound, TypeOK
<1>3. offered' = offered + n /\ offered \in Nat /\ phase = "writing"
  BY DEF WriteCall, TypeOK
<1>4. InPlace'
  <2> SUFFICES ASSUME NEW b \in Sound
               PROVE  /\ Len(b.data) <= BlockSize
                      /\ Follow(b.data, Start(b.index))
                      /\ b.data # <<>> => Start(b.index) + Len(b.data) <= offered'
    BY <1>2 DEF InPlace, InPlaceIn
  <2>1. Start(b.index) \in Nat /\ Len(b.data) \in Nat
    BY <1>2, StartStep, LenProperties DEF Block
  <2> QED
    BY <1>3, <2>1 DEF InPlace, InPlaceIn
<1>5. error => told /\ told'
  BY <1>3 DEF WriteCall, WriterGoesOn
<1>6. ShortIsLast'
  <2> SUFFICES ASSUME NEW b \in Sound
               PROVE  /\ b.data # <<>> /\ Len(b.data) < BlockSize => told'
                      /\ b.data # <<>>
                      /\ Len(b.data) < BlockSize =>
                           \A c \in Sound : c.index > b.index => c.data = <<>>
    BY <1>2 DEF ShortIsLast, ShortIsLastIn
  <2> QED
    BY <1>3, <1>5 DEF WriterGoesOn, ShortIsLast, ShortIsLastIn
<1>7. WriterGoesOn'
  <2>1. UNCHANGED <<phase, buffer, index, error>> /\ index \in Nat /\ Len(buffer) \in Nat
    BY LenProperties DEF WriteCall, TypeOK
  <2>2. Start(index) \in Nat
    BY <2>1, StartStep
  <2>3. /\ \A b \in Sound : b.index < index /\ b.data # <<>>
        /\ Follow(buffer, Start(index))
        /\ \A b \in Sound :
             Len(b.data) < BlockSize => error /\ buffer = <<>> /\ index = b.index + 1
    BY <1>3 DEF WriterGoesOn
  <2>4. buffer # <<>> => Start(index) + Len(buffer) <= offered'
    BY <1>3, <2>1, <2>2 DEF WriterGoesOn
  <2>5. ~error => Start(index) + Len(buffer) + calling' = offered'
    BY <1>3, <2>1, <2>2 DEF WriterGoesOn, WriteCall
  <2>6. error => told' /\ calling' = 0
    BY <1>5 DEF WriteCall
  <2> QED
    BY <1>2, <2>1, <2>3, <2>4, <2>5, <2>6 DEF WriterGoesOn
<1>8. WriterIsDone'
  BY DEF WriteCall, WriterIsDone
<1>9. ReaderWaits' /\ ReadIsSent' /\ ReaderGoesOn' /\ ReaderIsAsked'
  BY <1>3, ReaderStillWaits DEF WriteCall
<1> QED
  BY <1>1, <1>4, <1>6, <1>7, <1>8, <1>9

LEMMA WriteLoopStep ==
  ASSUME IInv, WriteLoop
  PROVE  IInv'
<1> USE DEF IInv
<1> DEFINE n == BytesToCopy
           full == buffer \o From(offered - calling, n)
<1>1. /\ phase = "writing" /\ ~error /\ calling > 0
      /\ phase' = phase /\ offered' = offered
  <2>1. calling > 0 /\ phase' = phase /\ offered' = offered
    BY DEF WriteLoop
  <2> QED
    BY <2>1 DEF WriterIsDone, WriterGoesOn
<1>a. buffer \in Seq(1..Bytes) /\ Len(buffer) \in Nat
  BY LenProperties DEF TypeOK
<1>2. /\ offered \in Nat /\ calling \in Nat /\ calling <= offered /\ offered <= Bytes
      /\ Bytes \in Nat /\ BlockSize \in Nat /\ BlockSize > 0
      /\ index \in Nat /\ Start(index) \in Nat
      /\ Len(buffer) < BlockSize
  <2>1. /\ offered \in 0..Bytes /\ calling \in 0..MaxCall /\ calling <= offered
        /\ index \in Nat /\ Len(buffer) <= BlockSize
        /\ Len(buffer) # BlockSize
    BY <1>1 DEF TypeOK
  <2>2. Start(index) \in Nat
    BY <2>1, StartStep
  <2>3. Len(buffer) < BlockSize
    BY <1>a, <2>1, SizeAssumption
  <2> QED
    BY <2>1, <2>2, <2>3, SizeAssumption
<1>3. Start(index) + Len(buffer) + calling = offered /\ Follow(buffer, Start(index))
  BY <1>1 DEF WriterGoesOn
<1>4. /\ n \in Nat /\ n <= calling /\ n <= BlockSize - Len(buffer)
      /\ n = calling \/ n = BlockSize - Len(buffer)
      /\ n > 0
  BY <1>1, <1>2 DEF BytesToCopy, Least
<1> HIDE DEF n
<1>5. /\ From(offered - calling, n) \in Seq(1..Bytes)
      /\ Len(From(offered - calling, n)) = n
      /\ Follow(From(offered - calling, n), Start(index) + Len(buffer))
  <2>1. offered - calling \in Nat /\ offered - calling + n <= Bytes
        /\ offered - calling = Start(index) + Len(buffer)
    BY <1>2, <1>3, <1>4
  <2> QED
    BY <1>4, <2>1, FromFollows
<1>6. /\ full \in Seq(1..Bytes) /\ Len(full) = Len(buffer) + n
      /\ Follow(full, Start(index))
  <2>1. full \in Seq(1..Bytes) /\ Len(full) = Len(buffer) + n
    BY <1>a, <1>5, ConcatProperties
  <2>2. Follow(full, Start(index))
    BY <1>a, <1>2, <1>3, <1>5, FollowConcat
  <2> QED
    BY <2>1, <2>2
<1>7. full # <<>> /\ Len(full) <= BlockSize /\ Start(index) + Len(full) <= offered
  BY <1>2, <1>3, <1>4, <1>6, EmptyIsShort
<1> HIDE DEF full
<1>8. /\ Sound \in SUBSET Block /\ InPlaceIn(Sound, offered) /\ ShortIsLastIn(Sound, offered, told)
      /\ \A b \in Sound : b.index < index /\ b.data # <<>> /\ ~(Len(b.data) < BlockSize)
  BY <1>1, SoundAreBlocks DEF Sound, TypeOK, InPlace, ShortIsLast, WriterGoesOn
<1>9. UNCHANGED reader /\ UNCHANGED <<phase, offered, damaged>>
  BY DEF WriteLoop
<1>10. ReaderWaits' /\ ReadIsSent' /\ ReaderGoesOn' /\ ReaderIsAsked'
  BY <1>1, <1>2, <1>9, ReaderStillWaits
<1>11. WriterIsDone'
  BY <1>1 DEF WriterIsDone
<1>12. CASE Len(full) # BlockSize
  <2>1. /\ buffer' = full /\ calling' = calling - n
        /\ UNCHANGED <<index, error, told, device, faults>>
    BY <1>12 DEF WriteLoop, full, n
  <2>2. n = calling /\ calling' = 0 /\ Len(full) < BlockSize
    BY <1>2, <1>4, <1>6, <1>7, <1>12, <2>1
  <2>3. TypeOK'
    BY <1>2, <1>6, <1>7, <1>9, <1>12, <2>1, <2>2, SizeAssumption DEF TypeOK, reader
  <2>4. Sound' = Sound
    BY <2>1 DEF Sound
  <2>5. InPlace' /\ ShortIsLast'
    BY <1>1, <1>8, <2>1, <2>4 DEF InPlace, ShortIsLast
  <2>6. Start(index) + Len(full) + calling' = offered
    BY <1>2, <1>3, <1>6, <2>2
  <2>7. WriterGoesOn'
    BY <1>1, <1>6, <1>7, <1>8, <2>1, <2>4, <2>6 DEF WriterGoesOn
  <2> QED
    BY <1>10, <1>11, <2>3, <2>5, <2>7
<1>13. CASE Len(full) = BlockSize
  <2>1. PICK o \in Outcomes(full, index) :
           /\ device' = device \o o.adds
           /\ index' = After(index, o)
           /\ IF o.ok
              THEN /\ buffer' = <<>> /\ calling' = calling - n
                   /\ UNCHANGED <<error, told, faults>>
              ELSE /\ buffer' = full /\ calling' = 0
                   /\ error' = TRUE /\ told' = TRUE /\ faults' = faults + 1
    BY <1>13 DEF WriteLoop, full, n
  <2>2. /\ o.ok \in BOOLEAN
        /\ o.adds \in Seq(Block)
        /\ o.ok => SoundIn(o.adds) = {Written(full, index)}
        /\ ~o.ok => SoundIn(o.adds) = {} /\ faults < MaxFaults
    BY <1>2, <1>6, OutcomeProperties
  <2>3. device \in Seq(Block) /\ device' \in Seq(Block)
    BY <2>1, <2>2, ConcatProperties DEF TypeOK
  <2>4. Sound' = Sound \cup SoundIn(o.adds)
    BY <2>1, <2>2, <2>3, SoundConcat DEF Sound
  <2>5. CASE o.ok
    <3>1. /\ buffer' = <<>> /\ calling' = calling - n
          /\ UNCHANGED <<error, told, faults>>
          /\ index' = index + 1
      BY <2>1, <2>5 DEF After
    <3>2. calling' \in 0..MaxCall /\ calling' <= offered
      <4>1. calling \in 0..MaxCall
        BY DEF TypeOK
      <4>2. calling' = calling - n
        BY <3>1
      <4> QED
        BY <1>2, <1>4, <4>1, <4>2, SizeAssumption
    <3>3. buffer' \in Seq(1..Bytes) /\ Len(buffer') = 0
      BY <3>1
    <3>4. TypeOK'
      BY <1>2, <1>9, <2>3, <3>1, <3>2, <3>3, SizeAssumption DEF TypeOK, reader
    <3>5. told \in BOOLEAN
      BY DEF TypeOK
    <3>6. InPlace' /\ ShortIsLast'
      <4>1. /\ InPlaceIn(Sound \cup {Written(full, index)}, offered)
            /\ ShortIsLastIn(Sound \cup {Written(full, index)}, offered, told)
        <5>1. /\ Len(full) <= BlockSize /\ ~(Len(full) < BlockSize)
              /\ \A b \in Sound : b.index < index /\ ~(Len(b.data) < BlockSize)
          BY <1>2, <1>7, <1>8, <1>13
        <5>2. full \in Seq(1..Bytes) /\ Follow(full, Start(index)) /\ full # <<>>
              /\ Start(index) + Len(full) <= offered
          BY <1>6, <1>7
        <5>3. index \in Nat /\ offered \in Nat /\ Sound \in SUBSET Block
              /\ InPlaceIn(Sound, offered) /\ ShortIsLastIn(Sound, offered, told)
          BY <1>2, <1>8
        <5> QED
          BY <3>5, <5>1, <5>2, <5>3, AddBlock
      <4> QED
        BY <1>1, <2>2, <2>4, <2>5, <3>1, <4>1 DEF InPlace, ShortIsLast
    <3>7. Start(index + 1) = Start(index) + BlockSize
      BY <1>2, StartStep
    <3>8. Start(index') + Len(buffer') + calling' = offered
      <4>1. calling' = calling - n /\ Start(index') = Start(index) + BlockSize
        BY <3>1, <3>7
      <4>2. Len(buffer) + n = BlockSize
        BY <1>6, <1>13
      <4> QED
        BY <1>a, <1>2, <1>3, <1>4, <3>3, <4>1, <4>2
    <3>9. \A b \in Sound' : b.index < index' /\ b.data # <<>> /\ ~(Len(b.data) < BlockSize)
      <4>1. Sound' = Sound \cup {Written(full, index)}
        BY <2>2, <2>4, <2>5
      <4>2. Written(full, index).index = index /\ Written(full, index).data = full
        BY DEF Written
      <4>3. \A b \in Sound : b.index \in Nat
        BY <1>8 DEF Block
      <4> QED
        BY <1>2, <1>7, <1>8, <1>13, <3>1, <4>1, <4>2, <4>3
    <3>10. Follow(buffer', Start(index'))
      BY <3>1 DEF Follow
    <3>11. WriterGoesOn'
      BY <1>1, <3>1, <3>8, <3>9, <3>10 DEF WriterGoesOn
    <3> QED
      BY <1>10, <1>11, <3>4, <3>6, <3>11
  <2>6. CASE ~o.ok
    <3>1. /\ buffer' = full /\ calling' = 0
          /\ error' = TRUE /\ told' = TRUE /\ faults' = faults + 1
          /\ index' = index
      BY <2>1, <2>6 DEF After
    <3>2. faults' \in 0..MaxFaults
      BY <2>2, <2>6, <3>1, SizeAssumption DEF TypeOK
    <3>3. TypeOK'
      BY <1>2, <1>6, <1>7, <1>9, <2>3, <3>1, <3>2, SizeAssumption DEF TypeOK, reader
    <3>4. Sound' = Sound
      BY <2>2, <2>4, <2>6
    <3>5. InPlace' /\ ShortIsLast'
      BY <1>1, <1>8, <3>1, <3>4, FewerBlocks DEF InPlace, ShortIsLast
    <3>6. WriterGoesOn'
      BY <1>1, <1>6, <1>7, <1>8, <3>1, <3>4 DEF WriterGoesOn
    <3> QED
      BY <1>10, <1>11, <3>3, <3>5, <3>6
  <2> QED
    BY <2>2, <2>5, <2>6
<1> QED
  BY <1>12, <1>13

\* What reset and close write first: the bytes in the buffer.
Rests == IF buffer = <<>> THEN {[adds |-> <<>>, ok |-> TRUE]} ELSE Outcomes(buffer, index)

NumberAfter(rest) == IF buffer = <<>> THEN index ELSE After(index, rest)

LEMMA RestProperties ==
  ASSUME IInv, phase = "writing", calling = 0, NEW rest \in Rests
  PROVE  /\ rest.ok \in BOOLEAN /\ rest.adds \in Seq(Block)
         /\ NumberAfter(rest) \in Nat
         /\ ~rest.ok => /\ buffer # <<>> /\ SoundIn(rest.adds) = {} /\ faults < MaxFaults
                        /\ NumberAfter(rest) = index
         /\ rest.ok =>
              LET S == Sound \cup SoundIn(rest.adds)
              IN /\ S \in SUBSET Block
                 /\ InPlaceIn(S, offered) /\ ShortIsLastIn(S, offered, told)
                 /\ told \/ offered <= Start(NumberAfter(rest))
                 /\ \A b \in S : b.index < NumberAfter(rest) /\ b.data # <<>>
                 /\ \A b \in S : Len(b.data) < BlockSize => NumberAfter(rest) = b.index + 1
<1> USE DEF IInv
<1>a. buffer \in Seq(1..Bytes) /\ Len(buffer) \in Nat /\ (buffer = <<>> <=> Len(buffer) = 0)
  BY EmptyIsShort DEF TypeOK
<1>1. /\ index \in Nat /\ offered \in Nat /\ Start(index) \in Nat
      /\ Start(index + 1) = Start(index) + BlockSize
      /\ BlockSize \in Nat /\ Len(buffer) <= BlockSize
      /\ told \in BOOLEAN
  <2>1. index \in Nat /\ offered \in Nat /\ Len(buffer) <= BlockSize
    BY SizeAssumption DEF TypeOK
  <2>2. told \in BOOLEAN
    BY DEF TypeOK
  <2> QED
    BY <2>1, <2>2, SizeAssumption, StartStep
<1>2. /\ \A b \in Sound : b.index < index /\ b.data # <<>>
      /\ Follow(buffer, Start(index))
      /\ buffer # <<>> => Start(index) + Len(buffer) <= offered
      /\ error \/ Start(index) + Len(buffer) = offered
      /\ error => told
      /\ \A b \in Sound :
           Len(b.data) < BlockSize => error /\ buffer = <<>> /\ index = b.index + 1
  <2>1. ~error => Start(index) + Len(buffer) + 0 = offered
    BY DEF WriterGoesOn
  <2>2. error \/ Start(index) + Len(buffer) = offered
    BY <1>a, <1>1, <2>1
  <2> QED
    BY <2>2 DEF WriterGoesOn
<1>3. Sound \in SUBSET Block /\ InPlaceIn(Sound, offered) /\ ShortIsLastIn(Sound, offered, told)
  BY SoundAreBlocks DEF Sound, TypeOK, InPlace, ShortIsLast
<1>4. CASE buffer = <<>>
  <2>1. rest = [adds |-> <<>>, ok |-> TRUE] /\ NumberAfter(rest) = index
    BY <1>4 DEF Rests, NumberAfter
  <2>2. rest.ok /\ rest.ok \in BOOLEAN /\ rest.adds \in Seq(Block) /\ SoundIn(rest.adds) = {}
    BY <2>1, NothingToWrite
  <2>3. told \/ offered <= Start(index)
    BY <1>a, <1>1, <1>2, <1>4
  <2> QED
    BY <1>1, <1>2, <1>3, <2>1, <2>2, <2>3
<1>5. CASE buffer # <<>>
  <2>1. rest \in Outcomes(buffer, index) /\ NumberAfter(rest) = After(index, rest)
    BY <1>5 DEF Rests, NumberAfter
  <2>2. /\ rest.ok \in BOOLEAN /\ rest.adds \in Seq(Block)
        /\ rest.ok => SoundIn(rest.adds) = {Written(buffer, index)}
        /\ ~rest.ok => SoundIn(rest.adds) = {} /\ faults < MaxFaults
    BY <1>a, <1>1, <2>1, OutcomeProperties
  <2>3. CASE ~rest.ok
    BY <1>1, <1>5, <2>1, <2>2, <2>3 DEF After
  <2>4. CASE rest.ok
    <3> DEFINE S == Sound \cup SoundIn(rest.adds)
    <3>1. S = Sound \cup {Written(buffer, index)} /\ NumberAfter(rest) = index + 1
      BY <2>1, <2>2, <2>4 DEF After
    <3>2. /\ Written(buffer, index).index = index /\ Written(buffer, index).data = buffer
          /\ Written(buffer, index) \in Block
      BY <1>a, <1>1 DEF Written, Block
    <3>3. /\ InPlaceIn(Sound \cup {Written(buffer, index)}, offered)
          /\ ShortIsLastIn(Sound \cup {Written(buffer, index)}, offered, told)
      <4>1. told \/ Start(index) + Len(buffer) = offered
        BY <1>2
      <4>2. \A b \in Sound : b.index < index /\ (Len(b.data) < BlockSize => buffer = <<>>)
        BY <1>2
      <4> QED
        BY <1>a, <1>1, <1>2, <1>3, <1>5, <4>1, <4>2, AddBlock
    <3>4. told \/ offered <= Start(index + 1)
      BY <1>a, <1>1, <1>2
    <3>5. ASSUME NEW b \in S
          PROVE  /\ b.index < index + 1 /\ b.data # <<>>
                 /\ Len(b.data) < BlockSize => index + 1 = b.index + 1
      <4>1. CASE b \in Sound
        <5>1. b.index \in Nat /\ b.index < index /\ b.data # <<>> /\ ~(Len(b.data) < BlockSize)
          BY <1>2, <1>3, <1>5, <4>1 DEF Block
        <5> QED
          BY <1>1, <5>1
      <4>2. CASE b = Written(buffer, index)
        BY <1>1, <1>5, <3>2, <4>2
      <4> QED
        BY <3>1, <4>1, <4>2
    <3>6. S \in SUBSET Block
      BY <1>3, <3>1, <3>2
    <3> HIDE DEF S
    <3>7. /\ InPlaceIn(S, offered) /\ ShortIsLastIn(S, offered, told)
      BY <3>1, <3>3
    <3>8. /\ told \/ offered <= Start(NumberAfter(rest))
          /\ \A b \in S : b.index < NumberAfter(rest) /\ b.data # <<>>
          /\ \A b \in S : Len(b.data) < BlockSize => NumberAfter(rest) = b.index + 1
      BY <1>5, <3>1, <3>4, <3>5
    <3>9. NumberAfter(rest) \in Nat
      BY <1>1, <3>1
    <3> QED
      BY <2>2, <2>4, <3>6, <3>7, <3>8, <3>9 DEF S
  <2> QED
    BY <2>2, <2>3, <2>4
<1> QED
  BY <1>4, <1>5

LEMMA FinalBlock ==
  ASSUME TypeOK, NEW S \in SUBSET Block, NEW number \in Nat,
         InPlaceIn(S, offered), ShortIsLastIn(S, offered, told),
         told \/ offered <= Start(number),
         \A b \in S : b.index < number,
         NEW last \in Outcomes(<<>>, number)
  PROVE  /\ last.ok \in BOOLEAN /\ last.adds \in Seq(Block)
         /\ ~last.ok => SoundIn(last.adds) = {} /\ faults < MaxFaults
         /\ InPlaceIn(S \cup SoundIn(last.adds), offered)
         /\ ShortIsLastIn(S \cup SoundIn(last.adds), offered, told)
<1>1. <<>> \in Seq(1..Bytes) /\ Len(<<>>) = 0
  BY EmptySeq
<1>2. /\ last.ok \in BOOLEAN /\ last.adds \in Seq(Block)
      /\ last.ok => SoundIn(last.adds) = {Written(<<>>, number)}
      /\ ~last.ok => SoundIn(last.adds) = {} /\ faults < MaxFaults
  BY <1>1, OutcomeProperties
<1>3. offered \in Nat /\ told \in BOOLEAN /\ Start(number) \in Nat /\ Len(<<>>) <= BlockSize
  <2>1. offered \in Nat
    BY SizeAssumption DEF TypeOK
  <2>2. told \in BOOLEAN
    BY DEF TypeOK
  <2> QED
    BY <1>1, <2>1, <2>2, StartStep, SizeAssumption
<1>4. /\ InPlaceIn(S \cup {Written(<<>>, number)}, offered)
      /\ ShortIsLastIn(S \cup {Written(<<>>, number)}, offered, told)
  BY <1>1, <1>3, EmptyFollows, AddBlock
<1> QED
  BY <1>2, <1>4

\* A writer that has been reset has nothing left to write.
LEMMA FinalOnlyWhileWriting ==
  ASSUME IInv, NeedsFinal, phase # "closed"
  PROVE  phase = "writing"
BY DEF IInv, TypeOK, NeedsFinal, WriterIsDone

LEMMA SoundAppended ==
  ASSUME device \in Seq(Block), NEW s \in Seq(Block), device' = device \o s
  PROVE  device' \in Seq(Block) /\ Sound' = Sound \cup SoundIn(s)
BY SoundConcat, ConcatProperties DEF Sound

LEMMA SoundAppendedTwice ==
  ASSUME device \in Seq(Block), NEW s \in Seq(Block), NEW t \in Seq(Block),
         device' = device \o s \o t
  PROVE  device' \in Seq(Block) /\ Sound' = Sound \cup SoundIn(s) \cup SoundIn(t)
<1>1. device \o s \in Seq(Block) /\ SoundIn(device \o s) = SoundIn(device) \cup SoundIn(s)
  BY SoundConcat, ConcatProperties
<1>2. /\ device' \in Seq(Block)
      /\ SoundIn(device') = SoundIn(device \o s) \cup SoundIn(t)
  BY <1>1, SoundConcat, ConcatProperties
<1> QED
  BY <1>1, <1>2 DEF Sound

LEMMA ResetStep ==
  ASSUME IInv, Reset
  PROVE  IInv'
<1> USE DEF IInv
<1>1. /\ UNCHANGED <<offered, calling, damaged, reader>>
      /\ calling = 0 /\ phase \in {"writing", "reset"}
  BY DEF Reset
<1>2. offered \in Nat /\ offered' \in Nat /\ device \in Seq(Block) /\ told \in BOOLEAN
  <2>1. offered \in Nat /\ device \in Seq(Block)
    BY SizeAssumption DEF TypeOK
  <2>2. told \in BOOLEAN
    BY DEF TypeOK
  <2> QED
    BY <1>1, <2>1, <2>2
<1>3. ReaderWaits' /\ ReadIsSent' /\ ReaderGoesOn' /\ ReaderIsAsked'
  BY <1>1, <1>2, ReaderStillWaits
<1>4. ASSUME buffer' \in Seq(1..Bytes), Len(buffer') <= BlockSize,
             Len(buffer') = BlockSize => error', index' \in Nat,
             error' \in BOOLEAN, told' \in BOOLEAN, device' \in Seq(Block),
             faults' \in 0..MaxFaults, phase' \in {"writing", "reset"}
      PROVE  TypeOK'
  BY <1>1, <1>4 DEF TypeOK, reader
<1>5. /\ buffer \in Seq(1..Bytes) /\ Len(buffer) <= BlockSize /\ index \in Nat
      /\ faults \in 0..MaxFaults
  BY DEF TypeOK
<1>6. CASE ~NeedsFinal
  <2>1. phase' = "reset" /\ error' = FALSE /\ UNCHANGED <<buffer, index, told, device, faults>>
    BY <1>6 DEF Reset
  <2>2. buffer = <<>> /\ index = 0
    BY <1>6 DEF NeedsFinal
  <2>3. Len(buffer) = 0 /\ BlockSize > 0
    BY <2>2, SizeAssumption
  <2>4. TypeOK'
    <3>1. error' \in BOOLEAN /\ told' \in BOOLEAN
      BY <1>2, <2>1, Zenon
    <3>2. Len(buffer') <= BlockSize /\ Len(buffer') # BlockSize
      BY <2>1, <2>3, SizeAssumption
    <3> QED
      BY <1>2, <1>4, <1>5, <2>1, <3>1, <3>2
  <2>5. InPlace' /\ ShortIsLast'
    BY <1>1, <2>1 DEF InPlace, ShortIsLast, Sound
  <2>6. WriterGoesOn' /\ WriterIsDone'
    BY <1>1, <2>1, <2>2 DEF WriterGoesOn, WriterIsDone
  <2> QED
    BY <1>3, <2>4, <2>5, <2>6
<1>7. CASE NeedsFinal
  <2>1. PICK rest \in Rests :
          IF ~rest.ok
          THEN /\ device' = device \o rest.adds
               /\ error' = TRUE /\ told' = TRUE /\ faults' = faults + 1
               /\ UNCHANGED <<phase, buffer, index>>
          ELSE \E last \in Outcomes(<<>>, NumberAfter(rest)) :
                 /\ device' = device \o rest.adds \o last.adds
                 /\ buffer' = <<>>
                 /\ IF last.ok
                    THEN /\ index' = 0 /\ error' = FALSE /\ phase' = "reset"
                         /\ UNCHANGED <<told, faults>>
                    ELSE /\ index' = NumberAfter(rest) /\ error' = TRUE /\ told' = TRUE
                         /\ faults' = faults + 1
                         /\ UNCHANGED phase
    BY <1>7 DEF Reset, Rests, NumberAfter
  <2>2. phase = "writing"
    BY <1>1, <1>7, FinalOnlyWhileWriting
  <2> DEFINE S == Sound \cup SoundIn(rest.adds)
  <2>3. /\ rest.ok \in BOOLEAN /\ rest.adds \in Seq(Block)
        /\ NumberAfter(rest) \in Nat
        /\ ~rest.ok => SoundIn(rest.adds) = {} /\ faults < MaxFaults
        /\ rest.ok =>
             /\ S \in SUBSET Block
             /\ InPlaceIn(S, offered) /\ ShortIsLastIn(S, offered, told)
             /\ told \/ offered <= Start(NumberAfter(rest))
             /\ \A b \in S : b.index < NumberAfter(rest) /\ b.data # <<>>
             /\ \A b \in S : Len(b.data) < BlockSize => NumberAfter(rest) = b.index + 1
    BY <1>1, <2>2, RestProperties
  <2> HIDE DEF S
  <2>4. CASE ~rest.ok
    <3>1. /\ device' = device \o rest.adds
          /\ error' = TRUE /\ told' = TRUE /\ faults' = faults + 1
          /\ UNCHANGED <<phase, buffer, index>>
      BY <2>1, <2>4
    <3>2. device' \in Seq(Block) /\ Sound' = Sound
      BY <1>2, <2>3, <2>4, <3>1, SoundAppended
    <3>3. faults' \in 0..MaxFaults
      BY <1>5, <2>3, <2>4, <3>1, SizeAssumption
    <3>4. TypeOK'
      BY <1>1, <1>4, <1>5, <3>1, <3>2, <3>3
    <3>5. InPlace' /\ ShortIsLast'
      BY <1>1, <3>1, <3>2, FewerBlocks DEF InPlace, ShortIsLast
    <3>6. WriterGoesOn' /\ WriterIsDone'
      BY <1>1, <2>2, <3>1, <3>2 DEF WriterGoesOn, WriterIsDone
    <3> QED
      BY <1>3, <3>4, <3>5, <3>6
  <2>5. CASE rest.ok
    <3>1. PICK last \in Outcomes(<<>>, NumberAfter(rest)) :
             /\ device' = device \o rest.adds \o last.adds
             /\ buffer' = <<>>
             /\ IF last.ok
                THEN /\ index' = 0 /\ error' = FALSE /\ phase' = "reset"
                     /\ UNCHANGED <<told, faults>>
                ELSE /\ index' = NumberAfter(rest) /\ error' = TRUE /\ told' = TRUE
                     /\ faults' = faults + 1
                     /\ UNCHANGED phase
      BY <2>1, <2>5
    <3>2. /\ last.ok \in BOOLEAN /\ last.adds \in Seq(Block)
          /\ ~last.ok => SoundIn(last.adds) = {} /\ faults < MaxFaults
          /\ InPlaceIn(S \cup SoundIn(last.adds), offered)
          /\ ShortIsLastIn(S \cup SoundIn(last.adds), offered, told)
      BY <2>3, <2>5, FinalBlock
    <3>3. device' \in Seq(Block) /\ Sound' = S \cup SoundIn(last.adds)
      BY <1>2, <2>3, <3>1, <3>2, SoundAppendedTwice DEF S
    <3>4. buffer' \in Seq(1..Bytes) /\ Len(buffer') = 0 /\ BlockSize > 0
      BY <3>1, SizeAssumption
    <3>5. CASE last.ok
      <4>1. index' = 0 /\ error' = FALSE /\ phase' = "reset" /\ UNCHANGED <<told, faults>>
        BY <3>1, <3>5
      <4>2. TypeOK'
        <5>1. error' \in BOOLEAN /\ told' \in BOOLEAN
          BY <1>2, <4>1, Zenon
        <5>2. Len(buffer') <= BlockSize /\ Len(buffer') # BlockSize
          BY <3>4, SizeAssumption
        <5> QED
          BY <1>4, <1>5, <3>3, <3>4, <4>1, <5>1, <5>2
      <4>3. InPlace' /\ ShortIsLast'
        BY <1>1, <3>2, <3>3, <4>1 DEF InPlace, ShortIsLast
      <4>4. WriterGoesOn' /\ WriterIsDone'
        BY <1>1, <3>1, <4>1 DEF WriterGoesOn, WriterIsDone
      <4> QED
        BY <1>3, <4>2, <4>3, <4>4
    <3>6. CASE ~last.ok
      <4>1. /\ index' = NumberAfter(rest) /\ error' = TRUE /\ told' = TRUE
            /\ faults' = faults + 1 /\ phase' = phase
        BY <3>1, <3>6
      <4>2. faults' \in 0..MaxFaults
        BY <1>5, <3>2, <3>6, <4>1, SizeAssumption
      <4>3. TypeOK'
        BY <1>1, <1>4, <2>3, <3>3, <3>4, <4>1, <4>2, SizeAssumption
      <4>4. Sound' = S
        BY <3>2, <3>3, <3>6
      <4>5. InPlace' /\ ShortIsLast'
        BY <1>1, <2>3, <2>5, <4>1, <4>4, FewerBlocks DEF InPlace, ShortIsLast
      <4>6. Follow(buffer', Start(index'))
        BY <3>1 DEF Follow
      <4>7. WriterGoesOn'
        BY <1>1, <2>3, <2>5, <3>1, <4>1, <4>4, <4>6 DEF WriterGoesOn
      <4>8. WriterIsDone'
        BY <1>1, <2>2, <4>1 DEF WriterIsDone
      <4> QED
        BY <1>3, <4>3, <4>5, <4>7, <4>8
    <3> QED
      BY <3>2, <3>5, <3>6
  <2> QED
    BY <2>3, <2>4, <2>5
<1> QED
  BY <1>6, <1>7

LEMMA CloseStep ==
  ASSUME IInv, Close
  PROVE  IInv'
<1> USE DEF IInv
<1>1. /\ UNCHANGED <<offered, calling, buffer, index, error, told, damaged, reader>>
      /\ phase # "closed" /\ calling = 0 /\ phase' = "closed"
  BY DEF Close
<1>2. offered \in Nat /\ offered' \in Nat /\ device \in Seq(Block) /\ faults \in 0..MaxFaults
  BY <1>1, SizeAssumption DEF TypeOK
<1>3. ReaderWaits' /\ ReadIsSent' /\ ReaderGoesOn' /\ ReaderIsAsked'
  BY <1>1, <1>2, ReaderStillWaits
<1>4. WriterGoesOn' /\ WriterIsDone'
  BY <1>1 DEF WriterGoesOn, WriterIsDone
<1>5. ASSUME device' \in Seq(Block), faults' \in 0..MaxFaults PROVE TypeOK'
  BY <1>1, <1>5 DEF TypeOK, reader
<1>6. CASE ~NeedsFinal
  <2>1. UNCHANGED <<device, faults>>
    BY <1>6 DEF Close
  <2>2. TypeOK'
    BY <1>2, <1>5, <2>1
  <2>3. InPlace' /\ ShortIsLast'
    BY <1>1, <2>1 DEF InPlace, ShortIsLast, Sound
  <2> QED
    BY <1>3, <1>4, <2>2, <2>3
<1>7. CASE NeedsFinal
  <2>0. PICK rest \in Rests :
          \E last \in Outcomes(IF rest.ok THEN <<>> ELSE buffer, NumberAfter(rest)) :
            /\ device' = device \o rest.adds \o last.adds
            /\ faults' = IF rest.ok /\ last.ok THEN faults ELSE Least(MaxFaults, faults + 1)
    BY <1>7 DEF Close, Rests, NumberAfter
  <2>1. PICK last \in Outcomes(IF rest.ok THEN <<>> ELSE buffer, NumberAfter(rest)) :
          /\ device' = device \o rest.adds \o last.adds
          /\ faults' = IF rest.ok /\ last.ok THEN faults ELSE Least(MaxFaults, faults + 1)
    BY <2>0
  <2>2. phase = "writing"
    BY <1>1, <1>7, FinalOnlyWhileWriting
  <2>3. faults' \in 0..MaxFaults
    BY <1>2, <2>1, SizeAssumption DEF Least
  <2> DEFINE S == Sound \cup SoundIn(rest.adds)
  <2>4. /\ rest.ok \in BOOLEAN /\ rest.adds \in Seq(Block)
        /\ NumberAfter(rest) \in Nat
        /\ ~rest.ok => buffer # <<>> /\ SoundIn(rest.adds) = {} /\ NumberAfter(rest) = index
        /\ rest.ok =>
             /\ S \in SUBSET Block
             /\ InPlaceIn(S, offered) /\ ShortIsLastIn(S, offered, told)
             /\ told \/ offered <= Start(NumberAfter(rest))
             /\ \A b \in S : b.index < NumberAfter(rest) /\ b.data # <<>>
    BY <1>1, <2>2, RestProperties
  <2>5. /\ last.adds \in Seq(Block)
        /\ InPlaceIn(S \cup SoundIn(last.adds), offered)
        /\ ShortIsLastIn(S \cup SoundIn(last.adds), offered, told)
    <3>1. CASE rest.ok
      <4> HIDE DEF S
      <4>1. last \in Outcomes(<<>>, NumberAfter(rest))
        BY <2>1, <3>1
      <4> QED
        BY <2>4, <3>1, <4>1, FinalBlock
    <3>2. CASE ~rest.ok
      <4>1. last \in Rests
        BY <2>1, <2>4, <3>2 DEF Rests
      <4>2. /\ last.ok \in BOOLEAN /\ last.adds \in Seq(Block)
            /\ ~last.ok => SoundIn(last.adds) = {}
            /\ last.ok => /\ InPlaceIn(Sound \cup SoundIn(last.adds), offered)
                          /\ ShortIsLastIn(Sound \cup SoundIn(last.adds), offered, told)
        BY <1>1, <2>2, <4>1, RestProperties
      <4>3. S = Sound
        BY <2>4, <3>2
      <4> HIDE DEF S
      <4>4. CASE last.ok
        BY <4>2, <4>3, <4>4
      <4>5. CASE ~last.ok
        <5>1. S \cup SoundIn(last.adds) = Sound
          BY <4>2, <4>3, <4>5
        <5> QED
          BY <4>2, <5>1 DEF InPlace, ShortIsLast
      <4> QED
        BY <4>2, <4>4, <4>5
    <3> QED
      BY <2>4, <3>1, <3>2
  <2>6. device' \in Seq(Block) /\ Sound' = S \cup SoundIn(last.adds)
    BY <1>2, <2>1, <2>4, <2>5, SoundAppendedTwice
  <2> HIDE DEF S
  <2>7. InPlace' /\ ShortIsLast'
    BY <1>1, <2>5, <2>6 DEF InPlace, ShortIsLast
  <2>8. TypeOK'
    BY <1>5, <2>3, <2>6
  <2> QED
    BY <1>3, <1>4, <2>7, <2>8
<1> QED
  BY <1>6, <1>7

----------------------------------------------------------------------------
(* Damage, and the steps of the reader *)

LEMMA SoundSubset ==
  ASSUME NEW s \in Seq(Block), NEW t \in Seq(Block),
         \A k \in 1..Len(t) : t[k].sound => \E j \in 1..Len(s) : s[j] = t[k]
  PROVE  SoundIn(t) \subseteq SoundIn(s)
BY LenProperties DEF SoundIn

\* Nothing in a damaged file is sound that was not in the file before.
LEMMA DamageAddsNothing ==
  ASSUME device \in Seq(Block), NEW m \in 1..Len(device), NEW n \in 1..Len(device),
         NEW t \in {Changed(n), Without(n), Twice(n), Swapped(m, n), SubSeq(device, 1, n - 1)}
  PROVE  t \in Seq(Block) /\ SoundIn(t) \subseteq SoundIn(device)
<1>1. /\ Len(device) \in Nat /\ DOMAIN device = 1..Len(device)
      /\ \A k \in 1..Len(device) : device[k] \in Block
  BY LenProperties, ElementOfSeq
<1>2. ASSUME NEW j \in Nat, NEW k \in Nat, j \in 1..(Len(device) + 1), k <= Len(device)
      PROVE  /\ SubSeq(device, j, k) \in Seq(Block)
             /\ Len(SubSeq(device, j, k)) = IF j <= k THEN k - j + 1 ELSE 0
             /\ \A i \in 1..(k - j + 1) : SubSeq(device, j, k)[i] = device[j + i - 1]
  <2>1. \A i \in j..k : device[i] \in Block
    BY <1>1, <1>2
  <2> QED
    BY <2>1, SubSeqProperties
<1>3. ASSUME NEW j \in Nat, NEW k \in Nat, j \in 1..(Len(device) + 1), k <= Len(device)
      PROVE  SoundIn(SubSeq(device, j, k)) \subseteq SoundIn(device)
  <2> DEFINE part == SubSeq(device, j, k)
  <2>1. /\ part \in Seq(Block) /\ Len(part) = IF j <= k THEN k - j + 1 ELSE 0
        /\ \A i \in 1..(k - j + 1) : part[i] = device[j + i - 1]
    BY <1>2, <1>3
  <2> HIDE DEF part
  <2>2. \A i \in 1..Len(part) : j + i - 1 \in 1..Len(device) /\ part[i] = device[j + i - 1]
    BY <1>1, <1>3, <2>1
  <2>3. SoundIn(part) \subseteq SoundIn(device)
    BY <2>1, <2>2, SoundSubset
  <2> QED
    BY <2>3 DEF part
<1>4. CASE t = Changed(n)
  <2>1. t = [device EXCEPT ![n] = [device[n] EXCEPT !.sound = FALSE]]
    BY <1>1, <1>4 DEF Changed
  <2>2. [device[n] EXCEPT !.sound = FALSE] \in Block /\ ~[device[n] EXCEPT !.sound = FALSE].sound
    BY <1>1 DEF Block
  <2>3. /\ t \in Seq(Block) /\ Len(t) = Len(device)
        /\ \A j \in 1..Len(device) :
             t[j] = IF j = n THEN [device[n] EXCEPT !.sound = FALSE] ELSE device[j]
    BY <2>1, <2>2, ExceptSeq
  <2> QED
    BY <2>2, <2>3, SoundSubset
<1>5. CASE t = Without(n)
  <2> DEFINE before == SubSeq(device, 1, n - 1)
             after == SubSeq(device, n + 1, Len(device))
  <2>1. /\ before \in Seq(Block) /\ SoundIn(before) \subseteq SoundIn(device)
        /\ after \in Seq(Block) /\ SoundIn(after) \subseteq SoundIn(device)
    <3>1. /\ 1 \in 1..(Len(device) + 1) /\ n - 1 \in Nat /\ n - 1 <= Len(device)
          /\ n + 1 \in Nat /\ n + 1 \in 1..(Len(device) + 1)
      BY <1>1
    <3> QED
      BY <1>1, <1>2, <1>3, <3>1
  <2>2. t = before \o after
    BY <1>5 DEF Without
  <2> HIDE DEF before, after
  <2> QED
    BY <2>1, <2>2, SoundConcat, ConcatProperties
<1>6. CASE t = Twice(n)
  <2> DEFINE before == SubSeq(device, 1, n)
             after == SubSeq(device, n, Len(device))
  <2>1. /\ before \in Seq(Block) /\ SoundIn(before) \subseteq SoundIn(device)
        /\ after \in Seq(Block) /\ SoundIn(after) \subseteq SoundIn(device)
    <3>1. /\ 1 \in 1..(Len(device) + 1) /\ n \in Nat /\ n <= Len(device)
          /\ n \in 1..(Len(device) + 1)
      BY <1>1
    <3> QED
      BY <1>1, <1>2, <1>3, <3>1
  <2>2. t = before \o after
    BY <1>6 DEF Twice
  <2> HIDE DEF before, after
  <2> QED
    BY <2>1, <2>2, SoundConcat, ConcatProperties
<1>7. CASE t = Swapped(m, n)
  <2> DEFINE half == [device EXCEPT ![m] = device[n]]
  <2>1. /\ half \in Seq(Block) /\ Len(half) = Len(device)
        /\ \A j \in 1..Len(device) : half[j] = IF j = m THEN device[n] ELSE device[j]
    BY <1>1, ExceptSeq
  <2>2. t = [half EXCEPT ![n] = device[m]]
    BY <1>7 DEF Swapped
  <2> HIDE DEF half
  <2>3. /\ t \in Seq(Block) /\ Len(t) = Len(device)
        /\ \A j \in 1..Len(device) : t[j] = IF j = n THEN device[m] ELSE half[j]
    BY <1>1, <2>1, <2>2, ExceptSeq
  <2> QED
    BY <2>1, <2>3, SoundSubset
<1>8. CASE t = SubSeq(device, 1, n - 1)
  <2>1. 1 \in 1..(Len(device) + 1) /\ n - 1 \in Nat /\ n - 1 <= Len(device)
    BY <1>1
  <2> QED
    BY <1>2, <1>3, <1>8, <2>1
<1> QED
  BY <1>4, <1>5, <1>6, <1>7, <1>8

\* The file keeps its sound blocks or loses some while it is read.
LEMMA FileStillGood ==
  ASSUME IInv, phase = "closed", Sound' \subseteq Sound,
         UNCHANGED <<phase, offered, calling, told, buffer, index>>
  PROVE  InPlace' /\ ShortIsLast' /\ WriterGoesOn' /\ WriterIsDone' /\ ReaderWaits'
<1>1. InPlace' /\ ShortIsLast'
  BY FewerBlocks DEF IInv, InPlace, ShortIsLast
<1> QED
  BY <1>1 DEF IInv, WriterGoesOn, WriterIsDone, ReaderWaits

LEMMA DamageStep ==
  ASSUME IInv, Damage
  PROVE  IInv'
<1> USE DEF IInv
<1>1. PICK m \in 1..Len(device), n \in 1..Len(device) :
         device' \in {Changed(n), Without(n), Twice(n), Swapped(m, n), SubSeq(device, 1, n - 1)}
  BY DEF Damage
<1>2. device' \in Seq(Block) /\ Sound' \subseteq Sound
  <2>1. device \in Seq(Block)
    BY DEF TypeOK
  <2> QED
    BY <1>1, <2>1, DamageAddsNothing DEF Sound
<1>3. phase = "closed" /\ damaged' = TRUE /\ UNCHANGED <<writer, reader>>
  BY DEF Damage
<1>4. TypeOK'
  <2>1. damaged' \in BOOLEAN
    BY <1>3
  <2> QED
    BY <1>2, <1>3, <2>1 DEF TypeOK, writer, reader
<1>5. InPlace' /\ ShortIsLast' /\ WriterGoesOn' /\ WriterIsDone' /\ ReaderWaits'
  BY <1>2, <1>3, FileStillGood DEF writer
<1>6. ReadIsSent' /\ ReaderGoesOn' /\ ReaderIsAsked'
  BY <1>2, <1>3 DEF ReadIsSent, ReaderGoesOn, ReaderIsAsked, Position, writer, reader
<1> QED
  BY <1>4, <1>5, <1>6

LEMMA ReadCallStep ==
  ASSUME IInv, NEW n \in 1..MaxCall, ReadCall(n)
  PROVE  IInv'
<1> USE DEF IInv
<1>1. /\ phase = "closed" /\ verdict = "more" /\ wanted = 0
      /\ wanted' = n /\ copied' = <<>>
      /\ UNCHANGED <<writer, device, damaged, unread, next, verdict, received>>
  BY DEF ReadCall
<1>2. copied = <<>>
  BY <1>1 DEF ReaderIsAsked
<1>3. TypeOK'
  <2>1. Len(copied') = 0 /\ wanted' \in 0..MaxCall /\ Len(copied') + wanted' <= MaxCall
    BY <1>1, SizeAssumption
  <2> QED
    BY <1>1, <1>2, <2>1 DEF TypeOK, writer
<1>4. InPlace' /\ ShortIsLast' /\ WriterGoesOn' /\ WriterIsDone' /\ ReaderWaits'
  <2>1. Sound' \subseteq Sound
    BY <1>1 DEF Sound
  <2> QED
    BY <1>1, <2>1, FileStillGood DEF writer
<1>5. ReadIsSent' /\ ReaderGoesOn'
  BY <1>1, <1>2 DEF ReadIsSent, ReaderGoesOn, Position, Sound, writer
<1>6. ReaderIsAsked'
  <2>1. wanted' # 0
    BY <1>1
  <2> QED
    BY <1>1, <2>1 DEF ReaderIsAsked
<1> QED
  BY <1>3, <1>4, <1>5, <1>6

\* Copying moves bytes from one part of the buffers to the next.
LEMMA CopyMoves ==
  ASSUME TypeOK, wanted > 0, NEW data \in Seq(1..Bytes), Len(data) <= BlockSize,
         Follow(received, 0), Follow(copied, Len(received)),
         Follow(data, Len(received) + Len(copied)),
         Copy(data)
  PROVE  /\ unread' \in Seq(1..Bytes) /\ Len(unread') <= BlockSize
         /\ wanted' \in 0..MaxCall
         /\ copied' \in Seq(1..Bytes) /\ Len(copied') + wanted' <= MaxCall
         /\ received' \in Seq(1..Bytes)
         /\ Follow(received', 0) /\ Follow(copied', Len(received'))
         /\ Follow(unread', Len(received') + Len(copied'))
         /\ Position' = Len(received) + Len(copied) + Len(data)
         /\ wanted' = 0 => copied' = <<>>
<1> DEFINE n == Least(wanted, Len(data))
           head == SubSeq(data, 1, n)
           now == copied \o head
<1>1. /\ received \in Seq(1..Bytes) /\ copied \in Seq(1..Bytes)
      /\ Len(received) \in Nat /\ Len(copied) \in Nat /\ Len(data) \in Nat
  BY LenProperties DEF TypeOK
<1>2. /\ wanted \in 1..MaxCall /\ MaxCall \in Nat /\ Len(copied) + wanted <= MaxCall
      /\ BlockSize \in Nat
  <2>1. wanted \in 0..MaxCall /\ Len(copied) + wanted <= MaxCall
    BY DEF TypeOK
  <2> QED
    BY <2>1, SizeAssumption
<1>3. n \in 0..Len(data) /\ n <= wanted
  BY <1>1, <1>2 DEF Least
<1> HIDE DEF n
<1>4. /\ head \in Seq(1..Bytes) /\ Len(head) = n
      /\ Follow(head, Len(received) + Len(copied))
  <2>1. /\ 1 \in 1..(Len(data) + 1) /\ n >= 1 - 1
        /\ Len(received) + Len(copied) \in Nat
        /\ Len(received) + Len(copied) + (1 - 1) = Len(received) + Len(copied)
        /\ n - 1 + 1 = n
    BY <1>1, <1>3
  <2>2. /\ SubSeq(data, 1, n) \in Seq(1..Bytes) /\ Len(SubSeq(data, 1, n)) = n - 1 + 1
        /\ Follow(SubSeq(data, 1, n), Len(received) + Len(copied) + (1 - 1))
    BY <1>3, <2>1, FollowPart
  <2> QED
    BY <2>1, <2>2
<1> DEFINE tail == SubSeq(data, n + 1, Len(data))
<1>5. /\ tail \in Seq(1..Bytes) /\ Len(tail) = Len(data) - n
      /\ Follow(tail, Len(received) + Len(copied) + n)
  <2>1. /\ n + 1 \in 1..(Len(data) + 1) /\ Len(data) \in 0..Len(data)
        /\ Len(data) >= (n + 1) - 1
        /\ Len(received) + Len(copied) \in Nat
        /\ Len(received) + Len(copied) + ((n + 1) - 1) = Len(received) + Len(copied) + n
        /\ Len(data) - (n + 1) + 1 = Len(data) - n
    BY <1>1, <1>3
  <2>2. /\ tail \in Seq(1..Bytes) /\ Len(tail) = Len(data) - (n + 1) + 1
        /\ Follow(tail, Len(received) + Len(copied) + ((n + 1) - 1))
    BY <2>1, FollowPart
  <2> QED
    BY <2>1, <2>2
<1> HIDE DEF head, tail
<1>6. /\ now \in Seq(1..Bytes) /\ Len(now) = Len(copied) + n
      /\ Follow(now, Len(received))
  BY <1>1, <1>4, FollowConcat, ConcatProperties
<1> HIDE DEF now
<1>7. /\ unread' = tail /\ wanted' = wanted - n
      /\ IF wanted = n THEN received' = received \o now /\ copied' = <<>>
                       ELSE copied' = now /\ received' = received
  BY DEF Copy, n, head, now, tail
<1>8. CASE wanted = n
  <2>1. received' = received \o now /\ copied' = <<>> /\ wanted' = 0
    BY <1>2, <1>7, <1>8
  <2>2. Len(received) + 0 = Len(received) /\ 0 + Len(received) = Len(received)
    BY <1>1
  <2>3. /\ received' \in Seq(1..Bytes) /\ Len(received') = Len(received) + (Len(copied) + n)
        /\ Follow(received', 0)
    <3>1. received \o now \in Seq(1..Bytes) /\ Len(received \o now) = Len(received) + Len(now)
      BY <1>1, <1>6, ConcatProperties
    <3>2. Follow(received \o now, 0)
      BY <1>1, <1>6, <2>2, FollowConcat
    <3> QED
      BY <1>6, <2>1, <3>1, <3>2
  <2>4. copied' \in Seq(1..Bytes) /\ Len(copied') = 0 /\ Follow(copied', Len(received'))
    BY <2>1 DEF Follow
  <2>5. /\ Len(received') + Len(copied') = Len(received) + Len(copied) + n
        /\ Len(tail) <= BlockSize
        /\ Len(received') + Len(copied') + Len(tail) = Len(received) + Len(copied) + Len(data)
    BY <1>1, <1>2, <1>3, <1>5, <2>3, <2>4
  <2>6. Follow(unread', Len(received') + Len(copied'))
    BY <1>5, <1>7, <2>5
  <2>7. wanted' \in 0..MaxCall /\ Len(copied') + wanted' <= MaxCall
    BY <1>2, <2>1, <2>4
  <2> QED
    BY <1>5, <1>7, <2>1, <2>3, <2>4, <2>5, <2>6, <2>7 DEF Position
<1>9. CASE wanted # n
  <2>1. copied' = now /\ received' = received /\ wanted' = wanted - n
    BY <1>7, <1>9
  <2>2. /\ Len(received') + Len(copied') = Len(received) + Len(copied) + n
        /\ Len(tail) <= BlockSize
        /\ Len(received') + Len(copied') + Len(tail) = Len(received) + Len(copied) + Len(data)
        /\ wanted' \in 0..MaxCall /\ Len(copied') + wanted' <= MaxCall /\ wanted' # 0
    <3>1. Len(received') = Len(received) /\ Len(copied') = Len(copied) + n
      BY <1>6, <2>1
    <3>2. Len(tail) = Len(data) - n /\ Len(data) <= BlockSize
      BY <1>5
    <3>3. n \in Nat /\ n <= Len(data) /\ n <= wanted
      BY <1>1, <1>3
    <3>4. wanted' = wanted - n
      BY <2>1
    <3>5. wanted' \in 0..MaxCall /\ Len(copied') + wanted' <= MaxCall /\ wanted' # 0
      BY <1>1, <1>2, <1>9, <3>1, <3>3, <3>4
    <3> QED
      BY <1>1, <1>2, <3>1, <3>2, <3>3, <3>5
  <2>3. Follow(unread', Len(received') + Len(copied'))
    BY <1>5, <1>7, <2>2
  <2> QED
    BY <1>1, <1>5, <1>6, <1>7, <2>1, <2>2, <2>3 DEF Position
<1> QED
  BY <1>8, <1>9

\* What has been copied and returned is within what was offered.
LEMMA CopyKeeps ==
  ASSUME IInv, phase = "closed", wanted > 0, NEW data \in Seq(1..Bytes),
         Len(data) <= BlockSize, Follow(data, Len(received) + Len(copied)),
         Len(received) + Len(copied) + Len(data) <= offered,
         Copy(data), device' \in Seq(Block), next' \in Nat, Sound' \subseteq Sound,
         UNCHANGED <<writer, damaged, verdict>>,
         \/ Len(received) + Len(copied) + Len(data) = Start(next')
         \/ /\ told \/ Len(received) + Len(copied) + Len(data) = offered
            /\ \A b \in Sound' : b.index >= next' => b.data = <<>>
  PROVE  IInv'
<1> USE DEF IInv
<1>1. verdict = "more" /\ wanted # 0
  BY DEF ReaderIsAsked, TypeOK
<1>2. Follow(received, 0) /\ Follow(copied, Len(received))
  BY <1>1 DEF ReadIsSent, ReaderGoesOn
<1>3. /\ unread' \in Seq(1..Bytes) /\ Len(unread') <= BlockSize
      /\ wanted' \in 0..MaxCall
      /\ copied' \in Seq(1..Bytes) /\ Len(copied') + wanted' <= MaxCall
      /\ received' \in Seq(1..Bytes)
      /\ Follow(received', 0) /\ Follow(copied', Len(received'))
      /\ Follow(unread', Len(received') + Len(copied'))
      /\ Position' = Len(received) + Len(copied) + Len(data)
      /\ wanted' = 0 => copied' = <<>>
  BY <1>2, CopyMoves
<1>4. TypeOK'
  BY <1>3 DEF TypeOK, writer
<1>5. InPlace' /\ ShortIsLast' /\ WriterGoesOn' /\ WriterIsDone' /\ ReaderWaits'
  BY FileStillGood DEF writer
<1>6. ReadIsSent'
  <2>1. /\ Len(received') \in Nat /\ Len(copied') \in Nat /\ Len(unread') \in Nat
        /\ offered \in Nat /\ offered' = offered
    BY <1>3, LenProperties, SizeAssumption DEF TypeOK, writer
  <2>2. Len(received') + Len(copied') + Len(unread') <= offered
    BY <1>3 DEF Position
  <2>3. Len(received') <= offered'
    BY <2>1, <2>2
  <2> QED
    BY <1>3, <2>3 DEF ReadIsSent
<1>7. ReaderGoesOn'
  BY <1>3 DEF ReaderGoesOn, writer
<1>8. ReaderIsAsked'
  BY <1>1, <1>3 DEF ReaderIsAsked
<1> QED
  BY <1>4, <1>5, <1>6, <1>7, <1>8

LEMMA CopyUnreadStep ==
  ASSUME IInv, CopyUnread
  PROVE  IInv'
<1> USE DEF IInv
<1>1. /\ wanted > 0 /\ unread # <<>> /\ Copy(unread)
      /\ UNCHANGED <<writer, device, damaged, next, verdict>>
  BY DEF CopyUnread
<1>2. verdict = "more"
  BY <1>1 DEF ReaderIsAsked, TypeOK
<1>3. /\ unread \in Seq(1..Bytes) /\ Len(unread) <= BlockSize
      /\ Follow(unread, Len(received) + Len(copied))
      /\ Len(received) + Len(copied) + Len(unread) <= offered
      /\ \/ Len(received) + Len(copied) + Len(unread) = Start(next)
         \/ /\ told \/ Len(received) + Len(copied) + Len(unread) = offered
            /\ \A b \in Sound : b.index >= next => b.data = <<>>
  BY <1>2 DEF ReaderGoesOn, Position, TypeOK
<1>4. phase = "closed"
  BY <1>1 DEF ReaderWaits
<1>5. device' \in Seq(Block) /\ next' \in Nat /\ Sound' = Sound
  BY <1>1 DEF TypeOK, Sound
<1> QED
  BY <1>1, <1>3, <1>4, <1>5, CopyKeeps

\* The head of the file, and what is left of it.
LEMMA HeadOfFile ==
  ASSUME device \in Seq(Block), device # <<>>
  PROVE  /\ Tail(device) \in Seq(Block)
         /\ SoundIn(Tail(device)) \subseteq Sound
         /\ Head(device) \in Block
         /\ Head(device).sound => Head(device) \in Sound
<1>1. /\ Head(device) \in Block /\ Tail(device) \in Seq(Block)
      /\ Len(Tail(device)) = Len(device) - 1
      /\ \A i \in 1..Len(Tail(device)) : Tail(device)[i] = device[i + 1]
  BY HeadTailProperties
<1>2. Len(device) \in Nat /\ Len(device) > 0 /\ DOMAIN device = 1..Len(device)
  BY EmptyIsShort, LenProperties
<1>3. SoundIn(Tail(device)) \subseteq Sound
  <2>1. \A k \in 1..Len(Tail(device)) : k + 1 \in 1..Len(device)
    BY <1>1, <1>2
  <2> QED
    BY <1>1, <2>1, SoundSubset DEF Sound
<1>4. Head(device) = device[1] /\ 1 \in DOMAIN device
  BY <1>2
<1> QED
  BY <1>1, <1>3, <1>4 DEF Sound, SoundIn

LEMMA CopyNextBlockStep ==
  ASSUME IInv, CopyNextBlock
  PROVE  IInv'
<1> USE DEF IInv
<1> DEFINE b == Head(device)
<1>1. /\ wanted > 0 /\ unread = <<>> /\ device # <<>>
      /\ b.sound /\ b.index = next /\ b.data # <<>>
      /\ Copy(b.data)
      /\ device' = Tail(device) /\ next' = next + 1
      /\ UNCHANGED <<writer, damaged, verdict>>
  BY DEF CopyNextBlock, Accepts
<1>2. verdict = "more"
  BY <1>1 DEF ReaderIsAsked, TypeOK
<1>3. phase = "closed"
  BY <1>1 DEF ReaderWaits
<1>4. device' \in Seq(Block) /\ Sound' \subseteq Sound /\ b \in Block /\ b \in Sound
  BY <1>1, HeadOfFile DEF Sound, TypeOK
<1> HIDE DEF b
<1>5. /\ b.data \in Seq(1..Bytes) /\ Len(b.data) \in Nat /\ next \in Nat /\ next' \in Nat
      /\ Len(received) \in Nat /\ Len(copied) \in Nat
  <2>1. b.data \in Seq(1..Bytes) /\ next \in Nat
    BY <1>4 DEF Block, TypeOK
  <2> QED
    BY <1>1, <2>1, LenProperties DEF TypeOK
<1>6. Len(received) + Len(copied) = Start(next)
  <2>1. b.index >= next /\ b.data # <<>>
    BY <1>1, <1>5
  <2>2. Position = Start(next)
    BY <1>2, <1>4, <2>1 DEF ReaderGoesOn
  <2>3. Len(unread) = 0
    BY <1>1
  <2> QED
    BY <1>5, <2>2, <2>3 DEF Position
<1>7. /\ Len(b.data) <= BlockSize
      /\ Follow(b.data, Start(next))
      /\ Start(next) + Len(b.data) <= offered
  BY <1>1, <1>4 DEF InPlace, InPlaceIn
<1>8. \/ Start(next) + Len(b.data) = Start(next + 1)
      \/ /\ told \/ Start(next) + Len(b.data) = offered
         /\ \A c \in Sound : c.index > next => c.data = <<>>
  <2>1. CASE Len(b.data) = BlockSize
    BY <1>5, <2>1, StartStep
  <2>2. CASE Len(b.data) < BlockSize
    BY <1>1, <1>4, <2>2 DEF ShortIsLast, ShortIsLastIn
  <2> QED
    BY <1>5, <1>7, <2>1, <2>2, SizeAssumption
<1>9. \A c \in Sound' : c \in Sound /\ c.index \in Nat
  BY <1>4, SoundAreBlocks DEF Sound, TypeOK, Block
<1>10. \A c \in Sound' : c.index >= next' => c.index > next
  BY <1>1, <1>5, <1>9
<1>11. \/ Len(received) + Len(copied) + Len(b.data) = Start(next')
       \/ /\ told \/ Len(received) + Len(copied) + Len(b.data) = offered
          /\ \A c \in Sound' : c.index >= next' => c.data = <<>>
  BY <1>1, <1>6, <1>8, <1>9, <1>10
<1>12. Follow(b.data, Len(received) + Len(copied))
       /\ Len(received) + Len(copied) + Len(b.data) <= offered
  BY <1>6, <1>7
<1>13. Copy(b.data)
  BY <1>1 DEF b
<1> QED
  BY <1>1, <1>3, <1>4, <1>5, <1>7, <1>11, <1>12, <1>13, CopyKeeps

LEMMA ReadEndStep ==
  ASSUME IInv, ReadEnd
  PROVE  /\ IInv'
         /\ received' = received \o copied
         /\ told \/ Len(received') = offered
<1> USE DEF IInv
<1> DEFINE b == Head(device)
<1>1. /\ wanted > 0 /\ unread = <<>> /\ device # <<>>
      /\ b.sound /\ b.index = next /\ b.data = <<>>
      /\ verdict' = "end" /\ received' = received \o copied
      /\ wanted' = 0 /\ copied' = <<>> /\ device' = Tail(device)
      /\ UNCHANGED <<writer, damaged, unread, next>>
  BY DEF ReadEnd, Accepts
<1>2. verdict = "more"
  BY <1>1 DEF ReaderIsAsked, TypeOK
<1>3. phase = "closed"
  BY <1>1 DEF ReaderWaits
<1>4. device' \in Seq(Block) /\ Sound' \subseteq Sound /\ b \in Block /\ b \in Sound
  BY <1>1, HeadOfFile DEF Sound, TypeOK
<1> HIDE DEF b
<1>5. /\ received \in Seq(1..Bytes) /\ copied \in Seq(1..Bytes)
      /\ Len(received) \in Nat /\ Len(copied) \in Nat /\ Len(unread) = 0
      /\ offered \in Nat /\ next \in Nat /\ offered' = offered /\ next' = next
  BY <1>1, LenProperties, SizeAssumption DEF TypeOK, writer
<1>6. /\ received' \in Seq(1..Bytes) /\ Len(received') = Len(received) + Len(copied)
      /\ Follow(received', 0)
  <2>1. Follow(received, 0) /\ Follow(copied, Len(received)) /\ 0 + Len(received) = Len(received)
    BY <1>2, <1>5 DEF ReadIsSent, ReaderGoesOn
  <2>2. /\ received \o copied \in Seq(1..Bytes)
        /\ Len(received \o copied) = Len(received) + Len(copied)
    BY <1>5, ConcatProperties
  <2>3. Follow(received \o copied, 0)
    BY <1>5, <2>1, FollowConcat
  <2> QED
    BY <1>1, <2>2, <2>3
<1>7. Len(copied') = 0 /\ copied' \in Seq(1..Bytes) /\ Len(unread') = 0
  BY <1>1
<1>8. /\ Position = Len(received') /\ Position' = Len(received')
      /\ Position <= offered
  BY <1>2, <1>5, <1>6, <1>7 DEF Position, ReaderGoesOn
<1>9. told \/ Len(received') = offered
  <2>1. told \/ offered <= Start(next)
    BY <1>1, <1>4 DEF ShortIsLast, ShortIsLastIn
  <2>2. Position = Start(next) \/ told \/ Position = offered
    BY <1>2 DEF ReaderGoesOn
  <2>3. Start(next) \in Nat
    BY <1>5, StartStep
  <2> QED
    BY <1>5, <1>6, <1>8, <2>1, <2>2, <2>3
<1>10. TypeOK'
  <2>1. wanted' \in 0..MaxCall /\ Len(copied') + wanted' <= MaxCall
    BY <1>1, <1>7, SizeAssumption
  <2> QED
    BY <1>1, <1>4, <1>6, <1>7, <2>1 DEF TypeOK, writer
<1>11. InPlace' /\ ShortIsLast' /\ WriterGoesOn' /\ WriterIsDone' /\ ReaderWaits'
  BY <1>1, <1>3, <1>4, FileStillGood DEF writer
<1>12. ReadIsSent'
  BY <1>5, <1>6, <1>8 DEF ReadIsSent
<1>13. ReaderGoesOn'
  <2>1. Follow(copied', Len(received')) /\ Follow(unread', Len(received') + Len(copied'))
    BY <1>1 DEF Follow
  <2>2. \/ Position' = Start(next')
        \/ /\ told' \/ Position' = offered'
           /\ \A c \in Sound' : c.index >= next' => c.data = <<>>
    BY <1>1, <1>2, <1>4, <1>5, <1>8 DEF ReaderGoesOn, writer
  <2> QED
    BY <1>5, <1>8, <2>1, <2>2 DEF ReaderGoesOn
<1>14. ReaderIsAsked'
  BY <1>1 DEF ReaderIsAsked
<1> QED
  BY <1>1, <1>9, <1>10, <1>11, <1>12, <1>13, <1>14

LEMMA ReadErrorStep ==
  ASSUME IInv, ReadError
  PROVE  IInv'
<1> USE DEF IInv
<1>1. /\ wanted > 0 /\ verdict' = "error" /\ wanted' = 0 /\ copied' = <<>>
      /\ UNCHANGED <<writer, device, damaged, unread, next, received>>
  BY DEF ReadError
<1>2. phase = "closed"
  BY <1>1 DEF ReaderWaits
<1>3. TypeOK'
  <2>1. copied' \in Seq(1..Bytes) /\ Len(copied') = 0
    BY <1>1
  <2>2. wanted' \in 0..MaxCall /\ Len(copied') + wanted' <= MaxCall
    BY <1>1, <2>1, SizeAssumption
  <2> QED
    BY <1>1, <2>1, <2>2 DEF TypeOK, writer
<1>4. InPlace' /\ ShortIsLast' /\ WriterGoesOn' /\ WriterIsDone' /\ ReaderWaits'
  BY <1>1, <1>2, FileStillGood DEF writer, Sound
<1>5. ReadIsSent' /\ ReaderGoesOn' /\ ReaderIsAsked'
  BY <1>1 DEF ReadIsSent, ReaderGoesOn, ReaderIsAsked, writer
<1> QED
  BY <1>3, <1>4, <1>5

----------------------------------------------------------------------------
(* A file nothing went wrong with *)

Clean == ~damaged /\ faults = 0

Numbered(blocks, first) ==
  \A n \in 1..Len(blocks) : blocks[n].sound /\ blocks[n].index = first + (n - 1)

OnlyLastIsEmpty(blocks) ==
  \A n \in 1..Len(blocks) : blocks[n].data = <<>> <=> n = Len(blocks)

\* The blocks are numbered without a gap.  As long as the stream is written
\* all hold bytes; then the last one, and only that, is empty, and the reader
\* takes them from the front until it has seen that one.
FileIsWhole ==
  Clean =>
    /\ ~error
    /\ phase = "writing" =>
         /\ Len(device) = index
         /\ Numbered(device, 0)
         /\ \A n \in 1..Len(device) : device[n].data # <<>>
    /\ phase # "writing" /\ offered > 0 =>
         /\ verdict # "error"
         /\ verdict = "more" =>
              /\ device # <<>>
              /\ Numbered(device, next)
              /\ OnlyLastIsEmpty(device)

LEMMA OneMoreBlock ==
  ASSUME NEW blocks \in Seq(Block), NEW b \in Block
  PROVE  /\ blocks \o <<b>> \in Seq(Block)
         /\ Len(blocks) \in Nat
         /\ Len(blocks \o <<b>>) = Len(blocks) + 1
         /\ blocks \o <<b>> # <<>>
         /\ \A n \in 1..(Len(blocks) + 1) :
              (blocks \o <<b>>)[n] = IF n <= Len(blocks) THEN blocks[n] ELSE b
<1>1. <<b>> \in Seq(Block) /\ Len(<<b>>) = 1 /\ <<b>>[1] = b
  OBVIOUS
<1>2. /\ Len(blocks) \in Nat
      /\ blocks \o <<b>> \in Seq(Block)
      /\ Len(blocks \o <<b>>) = Len(blocks) + 1
      /\ \A n \in 1..(Len(blocks) + 1) :
           (blocks \o <<b>>)[n] = IF n <= Len(blocks) THEN blocks[n] ELSE <<b>>[n - Len(blocks)]
  BY <1>1, ConcatProperties, LenProperties
<1>3. \A n \in 1..(Len(blocks) + 1) : ~(n <= Len(blocks)) => n - Len(blocks) = 1
  BY <1>2
<1> QED
  BY <1>1, <1>2, <1>3, EmptyIsShort

LEMMA NumberedOneMore ==
  ASSUME NEW blocks \in Seq(Block), Numbered(blocks, 0),
         NEW data \in Seq(1..Bytes)
  PROVE  Numbered(blocks \o <<Written(data, Len(blocks))>>, 0)
<1> DEFINE b == Written(data, Len(blocks))
<1>1. Len(blocks) \in Nat /\ b \in Block /\ b.sound /\ b.index = Len(blocks)
  BY LenProperties DEF Written, Block
<1> HIDE DEF b
<1>2. /\ Len(blocks \o <<b>>) = Len(blocks) + 1
      /\ \A n \in 1..(Len(blocks) + 1) :
           (blocks \o <<b>>)[n] = IF n <= Len(blocks) THEN blocks[n] ELSE b
  BY <1>1, OneMoreBlock
<1>3. \A n \in 1..(Len(blocks) + 1) : ~(n <= Len(blocks)) => 0 + (n - 1) = Len(blocks)
  BY <1>1
<1>4. \A n \in 1..(Len(blocks) + 1) : n <= Len(blocks) => n \in 1..Len(blocks)
  BY <1>1
<1>5. Numbered(blocks \o <<b>>, 0)
  BY <1>1, <1>2, <1>3, <1>4 DEF Numbered
<1> QED
  BY <1>5 DEF b

\* A block that was written without a failure.
LEMMA GoodOutcome ==
  ASSUME NEW data, NEW number, NEW o \in Outcomes(data, number), o.ok
  PROVE  o.adds = <<Written(data, number)>>
<1>1. CASE o \in {[adds |-> piece, ok |-> FALSE] :
                   piece \in {p \in {<<>>, <<[index |-> number, data |-> data, sound |-> FALSE]>>} :
                                faults < MaxFaults}}
  <2>1. PICK p : o = [adds |-> p, ok |-> FALSE]
    BY <1>1
  <2> QED
    BY <2>1
<1>2. CASE o = [adds |-> <<[index |-> number, data |-> data, sound |-> TRUE]>>, ok |-> TRUE]
  BY <1>2 DEF Written
<1> QED
  BY <1>1, <1>2 DEF Outcomes

LEMMA InitWhole == Init => FileIsWhole
<1> SUFFICES ASSUME Init PROVE FileIsWhole
  OBVIOUS
<1>1. phase = "writing" /\ ~error /\ device = <<>> /\ index = 0 /\ Len(device) = 0
  BY DEF Init
<1>2. 1..Len(device) = {}
  BY <1>1
<1> QED
  BY <1>1, <1>2 DEF FileIsWhole, Numbered, OnlyLastIsEmpty

\* What a failure of the device makes of the file does not matter.
LEMMA FaultySteps ==
  ASSUME TypeOK, faults' = faults + 1
  PROVE  FileIsWhole'
BY DEF FileIsWhole, Clean, TypeOK

LEMMA WriteLoopWhole ==
  ASSUME IInv, FileIsWhole, WriteLoop
  PROVE  FileIsWhole'
<1> DEFINE full == buffer \o From(offered - calling, BytesToCopy)
<1>1. phase = "writing" /\ ~error /\ calling > 0 /\ TypeOK
  BY DEF WriteLoop, IInv, WriterIsDone, WriterGoesOn
<1>2. UNCHANGED <<phase, offered, damaged>>
  BY DEF WriteLoop
<1>3. full \in Seq(1..Bytes)
  <2>1. /\ offered \in Nat /\ calling \in Nat /\ offered <= Bytes /\ calling <= offered
        /\ Len(buffer) \in Nat /\ BlockSize - Len(buffer) \in Nat
        /\ buffer \in Seq(1..Bytes)
    BY <1>1, LenProperties, SizeAssumption DEF TypeOK
  <2>2. BytesToCopy \in Nat /\ BytesToCopy <= calling
    BY <2>1 DEF BytesToCopy, Least
  <2>3. offered - calling \in Nat /\ (offered - calling) + BytesToCopy <= Bytes
    BY <2>1, <2>2, SizeAssumption
  <2>4. From(offered - calling, BytesToCopy) \in Seq(1..Bytes)
    BY <2>2, <2>3, FromFollows
  <2> QED
    BY <2>1, <2>4, ConcatProperties
<1> HIDE DEF full
<1>4. CASE Len(full) # BlockSize
  <2>1. UNCHANGED <<index, error, device, faults>>
    BY <1>4 DEF WriteLoop, full
  <2> QED
    BY <1>1, <1>2, <2>1 DEF FileIsWhole, Clean, Numbered, OnlyLastIsEmpty
<1>5. CASE Len(full) = BlockSize
  <2>1. PICK o \in Outcomes(full, index) :
          /\ device' = device \o o.adds
          /\ index' = After(index, o)
          /\ IF o.ok THEN UNCHANGED <<error, faults>> ELSE faults' = faults + 1
    BY <1>5 DEF WriteLoop, full
  <2>2. CASE ~o.ok
    BY <1>1, <2>1, <2>2, FaultySteps
  <2>3. CASE o.ok /\ Clean
    <3>1. /\ Len(device) = index /\ Numbered(device, 0)
          /\ \A n \in 1..Len(device) : device[n].data # <<>>
          /\ device \in Seq(Block)
      BY <1>1, <2>3 DEF FileIsWhole, TypeOK
    <3>2. device' = device \o <<Written(full, index)>> /\ index' = index + 1
      BY <2>1, <2>3, GoodOutcome DEF After
    <3>3. Written(full, index) \in Block /\ Written(full, index).data = full /\ full # <<>>
      BY <1>1, <1>3, <1>5, SizeAssumption, EmptyIsShort DEF Written, Block, TypeOK
    <3>4. Numbered(device', 0)
      BY <1>3, <3>1, <3>2, NumberedOneMore
    <3>5. Len(device') = index' /\ \A n \in 1..Len(device') : device'[n].data # <<>>
      <4>1. /\ Len(device') = Len(device) + 1 /\ Len(device) \in Nat
            /\ \A n \in 1..Len(device') :
                 device'[n] = IF n <= Len(device) THEN device[n] ELSE Written(full, index)
        BY <3>1, <3>2, <3>3, OneMoreBlock
      <4>2. \A n \in 1..Len(device') : n <= Len(device) => n \in 1..Len(device)
        BY <4>1
      <4> QED
        BY <3>1, <3>2, <3>3, <4>1, <4>2
    <3>6. phase' = "writing" /\ error' = FALSE
      BY <1>1, <1>2, <2>1, <2>3
    <3> QED
      BY <3>4, <3>5, <3>6 DEF FileIsWhole, Numbered, OnlyLastIsEmpty
  <2>4. CASE o.ok /\ ~Clean
    BY <1>2, <2>1, <2>4 DEF FileIsWhole, Clean
  <2> QED
    BY <2>2, <2>3, <2>4
<1> QED
  BY <1>4, <1>5

\* What reset and close leave when nothing fails: the rest of the bytes and an
\* empty block.
LEMMA FinalBlocks ==
  ASSUME IInv, FileIsWhole, Clean, phase = "writing",
         NEW rest, buffer = <<>> => rest = [adds |-> <<>>, ok |-> TRUE],
         buffer # <<>> => rest \in Outcomes(buffer, index),
         NEW number, buffer = <<>> => number = index,
         buffer # <<>> => number = After(index, rest),
         NEW last \in Outcomes(<<>>, number),
         rest.ok, last.ok,
         NEW blocks, blocks = device \o rest.adds \o last.adds
  PROVE  /\ blocks # <<>>
         /\ Numbered(blocks, 0)
         /\ OnlyLastIsEmpty(blocks)
<1> DEFINE most == device \o rest.adds
<1>1. /\ Len(device) = index /\ Numbered(device, 0)
      /\ \A n \in 1..Len(device) : device[n].data # <<>>
      /\ device \in Seq(Block) /\ buffer \in Seq(1..Bytes) /\ index \in Nat
  BY DEF FileIsWhole, IInv, TypeOK
<1>2. /\ most \in Seq(Block) /\ Len(most) = number /\ Numbered(most, 0)
      /\ \A n \in 1..Len(most) : most[n].data # <<>>
  <2>1. CASE buffer = <<>>
    <3>1. most = device
      BY <1>1, <2>1
    <3> QED
      BY <1>1, <2>1, <3>1
  <2>2. CASE buffer # <<>>
    <3>1. most = device \o <<Written(buffer, index)>> /\ number = index + 1
      BY <2>2, GoodOutcome DEF After
    <3>2. Written(buffer, index) \in Block /\ Written(buffer, index).data = buffer
      BY <1>1 DEF Written, Block
    <3>3. Numbered(most, 0)
      BY <1>1, <3>1, NumberedOneMore
    <3>4. /\ most \in Seq(Block) /\ Len(most) = Len(device) + 1 /\ Len(device) \in Nat
          /\ \A n \in 1..Len(most) :
               most[n] = IF n <= Len(device) THEN device[n] ELSE Written(buffer, index)
      BY <1>1, <3>1, <3>2, OneMoreBlock
    <3>5. \A n \in 1..Len(most) : n <= Len(device) => n \in 1..Len(device)
      BY <3>4
    <3> QED
      BY <1>1, <2>2, <3>1, <3>2, <3>3, <3>4, <3>5
  <2> QED
    BY <2>1, <2>2
<1>3. blocks = most \o <<Written(<<>>, number)>>
  BY GoodOutcome
<1> HIDE DEF most
<1>4. <<>> \in Seq(1..Bytes) /\ Len(most) \in Nat /\ number \in Nat
  BY <1>2, EmptySeq, LenProperties
<1>5. Written(<<>>, number) \in Block /\ Written(<<>>, number).data = <<>>
  BY <1>4 DEF Written, Block
<1>6. Numbered(blocks, 0)
  BY <1>2, <1>3, <1>4, NumberedOneMore
<1>7. /\ blocks # <<>> /\ Len(blocks) = Len(most) + 1
      /\ \A n \in 1..Len(blocks) :
           blocks[n] = IF n <= Len(most) THEN most[n] ELSE Written(<<>>, number)
  BY <1>2, <1>3, <1>5, OneMoreBlock
<1>8. OnlyLastIsEmpty(blocks)
  <2> SUFFICES ASSUME NEW n \in 1..Len(blocks)
               PROVE  blocks[n].data = <<>> <=> n = Len(blocks)
    BY DEF OnlyLastIsEmpty
  <2>1. CASE n <= Len(most)
    <3>1. n \in 1..Len(most) /\ n # Len(blocks)
      BY <1>4, <1>7, <2>1
    <3> QED
      BY <1>2, <1>7, <2>1, <3>1
  <2>2. CASE ~(n <= Len(most))
    <3>1. n = Len(blocks)
      BY <1>4, <1>7, <2>2
    <3> QED
      BY <1>5, <1>7, <2>2, <3>1
  <2> QED
    BY <2>1, <2>2
<1> QED
  BY <1>6, <1>7, <1>8

\* Only a stream that was never written to needs no final block.
LEMMA NothingWritten ==
  ASSUME IInv, FileIsWhole, Clean, phase = "writing", calling = 0, ~NeedsFinal
  PROVE  offered = 0
<1>1. ~error /\ buffer = <<>> /\ index = 0
  BY DEF FileIsWhole, NeedsFinal
<1>2. Start(0) + 0 + 0 = offered
  BY <1>1 DEF IInv, WriterGoesOn
<1> QED
  BY <1>2, StartStep

LEMMA ResetWhole ==
  ASSUME IInv, FileIsWhole, Reset
  PROVE  FileIsWhole'
<1>1. /\ TypeOK /\ UNCHANGED <<offered, damaged, next, verdict>>
      /\ phase \in {"writing", "reset"} /\ calling = 0
      /\ phase # "closed" => next = 0 /\ verdict = "more"
  BY DEF IInv, Reset, reader, ReaderWaits
<1>2. CASE ~NeedsFinal
  <2>1. phase' = "reset" /\ error' = FALSE /\ UNCHANGED <<device, faults>>
    BY <1>2 DEF Reset
  <2>2. CASE Clean /\ phase = "writing"
    <3>1. ~(offered' > 0)
      BY <1>1, <1>2, <2>2, NothingWritten
    <3> QED
      BY <2>1, <3>1 DEF FileIsWhole
  <2>3. CASE Clean /\ phase = "reset"
    BY <1>1, <2>1, <2>3 DEF FileIsWhole, Numbered, OnlyLastIsEmpty
  <2>4. CASE ~Clean
    BY <1>1, <2>1, <2>4 DEF FileIsWhole, Clean
  <2> QED
    BY <1>1, <2>2, <2>3, <2>4
<1>3. CASE NeedsFinal
  <2>1. phase = "writing"
    BY <1>1, <1>3 DEF NeedsFinal, IInv, WriterIsDone
  <2>2. PICK rest \in IF buffer = <<>> THEN {[adds |-> <<>>, ok |-> TRUE]}
                                      ELSE Outcomes(buffer, index) :
          LET number == IF buffer = <<>> THEN index ELSE After(index, rest)
          IN IF ~rest.ok
             THEN faults' = faults + 1
             ELSE \E last \in Outcomes(<<>>, number) :
                    /\ device' = device \o rest.adds \o last.adds
                    /\ IF last.ok
                       THEN error' = FALSE /\ phase' = "reset" /\ UNCHANGED faults
                       ELSE faults' = faults + 1
    BY <1>3 DEF Reset
  <2> DEFINE number == IF buffer = <<>> THEN index ELSE After(index, rest)
  <2>3. CASE ~rest.ok
    BY <1>1, <2>2, <2>3, FaultySteps
  <2>4. CASE rest.ok
    <3>1. PICK last \in Outcomes(<<>>, number) :
            /\ device' = device \o rest.adds \o last.adds
            /\ IF last.ok
               THEN error' = FALSE /\ phase' = "reset" /\ UNCHANGED faults
               ELSE faults' = faults + 1
      BY <2>2, <2>4
    <3>2. CASE ~last.ok
      BY <1>1, <3>1, <3>2, FaultySteps
    <3>3. CASE last.ok /\ ~Clean
      BY <1>1, <3>1, <3>3 DEF FileIsWhole, Clean
    <3>4. CASE last.ok /\ Clean
      <4>1. /\ device' # <<>> /\ Numbered(device', 0)
            /\ OnlyLastIsEmpty(device')
        <5>1. /\ buffer = <<>> => rest = [adds |-> <<>>, ok |-> TRUE]
              /\ buffer # <<>> => rest \in Outcomes(buffer, index)
              /\ buffer = <<>> => number = index
              /\ buffer # <<>> => number = After(index, rest)
          BY <2>2
        <5>2. last \in Outcomes(<<>>, number) /\ device' = device \o rest.adds \o last.adds
          BY <3>1
        <5> HIDE DEF number
        <5> QED
          BY <2>1, <2>4, <3>4, <5>1, <5>2, FinalBlocks
      <4>2. phase' = "reset" /\ error' = FALSE /\ next' = 0 /\ verdict' = "more"
        BY <1>1, <2>1, <3>1, <3>4
      <4> QED
        BY <4>1, <4>2 DEF FileIsWhole, Numbered, OnlyLastIsEmpty
    <3> QED
      BY <3>2, <3>3, <3>4
  <2> QED
    BY <2>3, <2>4
<1> QED
  BY <1>2, <1>3

LEMMA CloseWhole ==
  ASSUME IInv, FileIsWhole, Close
  PROVE  FileIsWhole'
<1>1. /\ TypeOK /\ UNCHANGED <<offered, damaged, error, next, verdict>>
      /\ phase \in {"writing", "reset"} /\ calling = 0 /\ phase' = "closed"
      /\ next = 0 /\ verdict = "more"
  BY DEF IInv, Close, reader, ReaderWaits, TypeOK
<1>2. CASE ~NeedsFinal
  <2>1. UNCHANGED <<device, faults>>
    BY <1>2 DEF Close
  <2>2. CASE Clean /\ phase = "writing"
    <3>1. ~(offered' > 0) /\ ~error
      BY <1>1, <1>2, <2>2, NothingWritten DEF FileIsWhole
    <3> QED
      BY <1>1, <3>1 DEF FileIsWhole
  <2>3. CASE Clean /\ phase = "reset"
    BY <1>1, <2>1, <2>3 DEF FileIsWhole, Numbered, OnlyLastIsEmpty
  <2>4. CASE ~Clean
    BY <1>1, <2>1, <2>4 DEF FileIsWhole, Clean
  <2> QED
    BY <1>1, <2>2, <2>3, <2>4
<1>3. CASE NeedsFinal
  <2>1. phase = "writing"
    BY <1>1, <1>3 DEF NeedsFinal, IInv, WriterIsDone
  <2>2. PICK rest \in IF buffer = <<>> THEN {[adds |-> <<>>, ok |-> TRUE]}
                                      ELSE Outcomes(buffer, index) :
          LET number == IF buffer = <<>> THEN index ELSE After(index, rest)
              data == IF rest.ok THEN <<>> ELSE buffer
          IN \E last \in Outcomes(data, number) :
               /\ device' = device \o rest.adds \o last.adds
               /\ faults' = IF rest.ok /\ last.ok THEN faults
                            ELSE Least(MaxFaults, faults + 1)
    BY <1>3 DEF Close
  <2> DEFINE number == IF buffer = <<>> THEN index ELSE After(index, rest)
             data == IF rest.ok THEN <<>> ELSE buffer
  <2>3. PICK last \in Outcomes(data, number) :
          /\ device' = device \o rest.adds \o last.adds
          /\ faults' = IF rest.ok /\ last.ok THEN faults
                       ELSE Least(MaxFaults, faults + 1)
    BY <2>2
  <2>4. CASE ~(rest.ok /\ last.ok)
    <3>1. faults < MaxFaults
      BY <2>2, <2>3, <2>4 DEF Outcomes
    <3>2. faults' = faults + 1
      BY <1>1, <2>3, <2>4, <3>1, SizeAssumption DEF Least, TypeOK
    <3> QED
      BY <1>1, <3>2, FaultySteps
  <2>5. CASE rest.ok /\ last.ok /\ ~Clean
    BY <1>1, <2>3, <2>5 DEF FileIsWhole, Clean
  <2>6. CASE rest.ok /\ last.ok /\ Clean
    <3>1. last \in Outcomes(<<>>, number)
      BY <2>3, <2>6
    <3>2. /\ device' # <<>> /\ Numbered(device', 0)
          /\ OnlyLastIsEmpty(device')
      <4>1. /\ buffer = <<>> => rest = [adds |-> <<>>, ok |-> TRUE]
            /\ buffer # <<>> => rest \in Outcomes(buffer, index)
            /\ buffer = <<>> => number = index
            /\ buffer # <<>> => number = After(index, rest)
        BY <2>2
      <4> HIDE DEF number
      <4> QED
        BY <2>1, <2>3, <2>6, <3>1, <4>1, FinalBlocks
    <3>3. ~error
      BY <2>6 DEF FileIsWhole
    <3> QED
      BY <1>1, <3>2, <3>3 DEF FileIsWhole, Numbered, OnlyLastIsEmpty
  <2> QED
    BY <2>4, <2>5, <2>6
<1> QED
  BY <1>2, <1>3

\* Taking the first block leaves the following ones, up to the last.
LEMMA RestIsWhole ==
  ASSUME NEW blocks \in Seq(Block), blocks # <<>>, NEW first \in Nat, Numbered(blocks, first),
         OnlyLastIsEmpty(blocks),
         Head(blocks).data # <<>>
  PROVE  /\ Tail(blocks) # <<>>
         /\ Numbered(Tail(blocks), first + 1)
         /\ OnlyLastIsEmpty(Tail(blocks))
<1>0. Len(blocks) \in Nat /\ Len(blocks) > 0
  BY EmptyIsShort
<1>1. /\ Tail(blocks) \in Seq(Block) /\ Len(Tail(blocks)) = Len(blocks) - 1
      /\ \A n \in 1..Len(Tail(blocks)) : Tail(blocks)[n] = blocks[n + 1]
      /\ Len(blocks) \in Nat /\ Len(blocks) > 0 /\ Head(blocks) = blocks[1]
  BY <1>0, HeadTailProperties
<1>2. Len(blocks) # 1
  <2>1. 1 \in 1..Len(blocks) /\ blocks[1].data # <<>>
    BY <1>1
  <2>2. blocks[1].data = <<>> <=> 1 = Len(blocks)
    BY <2>1, Zenon DEF OnlyLastIsEmpty
  <2> QED
    BY <2>1, <2>2
<1>3. Tail(blocks) # <<>>
  <2>1. Len(Tail(blocks)) # 0
    BY <1>1, <1>2
  <2> QED
    BY <2>1, EmptySeq
<1>4. \A n \in 1..Len(Tail(blocks)) : n + 1 \in 1..Len(blocks) /\ first + 1 + (n - 1) = first + (n + 1 - 1)
  BY <1>1
<1>5. \A n \in 1..Len(Tail(blocks)) : n + 1 = Len(blocks) <=> n = Len(Tail(blocks))
  BY <1>1
<1>6. Numbered(Tail(blocks), first + 1)
  BY <1>1, <1>4 DEF Numbered
<1>7. OnlyLastIsEmpty(Tail(blocks))
  BY <1>1, <1>4, <1>5 DEF OnlyLastIsEmpty
<1> QED
  BY <1>3, <1>6, <1>7

LEMMA CopyNextBlockWhole ==
  ASSUME IInv, FileIsWhole, CopyNextBlock
  PROVE  FileIsWhole'
<1>1. /\ device # <<>> /\ Head(device).data # <<>> /\ device' = Tail(device)
      /\ next' = next + 1 /\ wanted > 0
      /\ UNCHANGED <<phase, offered, error, damaged, faults, verdict>>
  BY DEF CopyNextBlock, writer
<1>2. verdict = "more" /\ phase = "closed" /\ device \in Seq(Block) /\ next \in Nat
  BY <1>1 DEF IInv, ReaderWaits, ReaderIsAsked, TypeOK
<1>3. CASE Clean /\ offered > 0
  <2>1. /\ Numbered(device, next) /\ ~error
        /\ OnlyLastIsEmpty(device)
    BY <1>2, <1>3 DEF FileIsWhole
  <2>2. /\ device' # <<>> /\ Numbered(device', next')
        /\ OnlyLastIsEmpty(device')
    BY <1>1, <1>2, <2>1, RestIsWhole
  <2> QED
    BY <1>1, <1>2, <2>1, <2>2 DEF FileIsWhole, Numbered, OnlyLastIsEmpty
<1>4. CASE ~(Clean /\ offered > 0)
  BY <1>1, <1>2, <1>4 DEF FileIsWhole, Clean
<1> QED
  BY <1>3, <1>4

\* The next block of such a file is there, sound and the one expected.
LEMMA ReadErrorWhole ==
  ASSUME IInv, FileIsWhole, ReadError
  PROVE  FileIsWhole'
<1>1. /\ device # <<>> => ~Accepts(Head(device))
      /\ wanted > 0
      /\ UNCHANGED <<phase, offered, error, damaged, faults>>
  BY DEF ReadError, writer
<1>2. verdict = "more" /\ phase = "closed" /\ device \in Seq(Block) /\ next \in Nat
  BY <1>1 DEF IInv, ReaderWaits, ReaderIsAsked, TypeOK
<1>3. ~(Clean /\ offered > 0)
  <2> SUFFICES ASSUME Clean, offered > 0 PROVE FALSE
    OBVIOUS
  <2>1. device # <<>> /\ Numbered(device, next)
    BY <1>2 DEF FileIsWhole
  <2>2. Head(device) = device[1] /\ 1 \in 1..Len(device)
    BY <1>2, <2>1, HeadTailProperties, EmptyIsShort
  <2>3. Accepts(Head(device))
    BY <1>2, <2>1, <2>2 DEF Numbered, Accepts
  <2> QED
    BY <1>1, <2>1, <2>3
<1> QED
  BY <1>1, <1>2, <1>3 DEF FileIsWhole, Clean

LEMMA WholeStep == IInv /\ FileIsWhole /\ [Next]_vars => FileIsWhole'
<1> SUFFICES ASSUME IInv, FileIsWhole, [Next]_vars PROVE FileIsWhole'
  OBVIOUS
<1>1. ASSUME NEW n \in 1..MaxCall, WriteCall(n) PROVE FileIsWhole'
  BY <1>1 DEF WriteCall, reader, FileIsWhole, Clean, Numbered, OnlyLastIsEmpty
<1>2. ASSUME NEW n \in 1..MaxCall, ReadCall(n) PROVE FileIsWhole'
  BY <1>2 DEF ReadCall, writer, FileIsWhole, Clean, Numbered, OnlyLastIsEmpty
<1>3. CASE WriteLoop
  BY <1>3, WriteLoopWhole
<1>4. CASE Reset
  BY <1>4, ResetWhole
<1>5. CASE Close
  BY <1>5, CloseWhole
<1>6. CASE Damage
  BY <1>6 DEF Damage, FileIsWhole, Clean
<1>7. CASE CopyUnread
  BY <1>7 DEF CopyUnread, writer, FileIsWhole, Clean, Numbered, OnlyLastIsEmpty
<1>8. CASE CopyNextBlock
  BY <1>8, CopyNextBlockWhole
<1>9. CASE ReadEnd
  <2>1. phase = "closed" /\ verdict' = "end" /\ UNCHANGED writer /\ UNCHANGED damaged
    BY <1>9 DEF ReadEnd, IInv, ReaderWaits
  <2>2. FileIsWhole => (Clean => ~error)
    BY DEF FileIsWhole
  <2> QED
    BY <2>1, <2>2 DEF writer, FileIsWhole, Clean
<1>10. CASE ReadError
  BY <1>10, ReadErrorWhole
<1>11. CASE UNCHANGED vars
  BY <1>11 DEF vars, writer, reader, FileIsWhole, Clean, Numbered, OnlyLastIsEmpty
<1> QED
  BY <1>1, <1>2, <1>3, <1>4, <1>5, <1>6, <1>7, <1>8, <1>9, <1>10, <1>11 DEF Next

----------------------------------------------------------------------------
(* The theorems *)

LEMMA InvariantStep == IInv /\ [Next]_vars => IInv'
<1> SUFFICES ASSUME IInv, [Next]_vars PROVE IInv'
  OBVIOUS
<1>1. CASE \E n \in 1..MaxCall : WriteCall(n) \/ ReadCall(n)
  BY <1>1, WriteCallStep, ReadCallStep
<1>2. CASE WriteLoop
  BY <1>2, WriteLoopStep
<1>3. CASE Reset
  BY <1>3, ResetStep
<1>4. CASE Close
  BY <1>4, CloseStep
<1>5. CASE Damage
  BY <1>5, DamageStep
<1>6. CASE CopyUnread
  BY <1>6, CopyUnreadStep
<1>7. CASE CopyNextBlock
  BY <1>7, CopyNextBlockStep
<1>8. CASE ReadEnd
  BY <1>8, ReadEndStep
<1>9. CASE ReadError
  BY <1>9, ReadErrorStep
<1>10. CASE UNCHANGED vars
  BY <1>10 DEF vars, writer, reader, IInv, TypeOK, InPlace, ShortIsLast, Sound, WriterGoesOn,
       WriterIsDone, ReaderWaits, ReadIsSent, ReaderGoesOn, ReaderIsAsked, Position
<1> QED
  BY <1>1, <1>2, <1>3, <1>4, <1>5, <1>6, <1>7, <1>8, <1>9, <1>10 DEF Next

\* Type correctness of the writer, the file and the reader.
THEOREM StreamTypeCorrect == Spec => []TypeOK
<1>1. IInv => TypeOK
  BY DEF IInv
<1> QED
  BY <1>1, InitInvariant, InvariantStep, PTL DEF Spec

LEMMA InitIsChannelInit == Init => Channel!Init
BY DEF Init, Channel!Init

\* What the reader has returned is a beginning of what was written.
LEMMA ReadIsFirst ==
  ASSUME IInv
  PROVE  received = Channel!FirstBytes(Len(received)) /\ Len(received) \in 0..offered
<1>1. received \in Seq(1..Bytes) /\ Follow(received, 0) /\ Len(received) <= offered
  BY DEF IInv, TypeOK, ReadIsSent
<1>2. Len(received) \in Nat /\ offered \in Nat
  BY <1>1, LenProperties, SizeAssumption DEF IInv, TypeOK
<1> QED
  BY <1>1, <1>2, FollowIsFirst

\* Each step of the stream is a step of the channel or invisible.
LEMMA StepIsChannelStep ==
  ASSUME IInv, IInv', [Next]_vars
  PROVE  [Channel!Next]_(Channel!vars)
<1>1. /\ received' = Channel!FirstBytes(Len(received')) /\ Len(received') \in 0..(offered')
      /\ offered \in Nat
  <2>1. offered \in Nat
    BY SizeAssumption DEF IInv, TypeOK
  <2>2. (received = Channel!FirstBytes(Len(received)) /\ Len(received) \in 0..offered)'
    BY ReadIsFirst, PTL
  <2> QED
    BY <2>1, <2>2 DEF Channel!FirstBytes
<1> USE DEF Channel!Next, Channel!vars
<1>2. CASE offered' \in Nat /\ offered' >= offered /\ told' \in {told, TRUE}
           /\ UNCHANGED <<received, verdict>>
  BY <1>2 DEF Channel!Send
<1>3. CASE verdict = "more" /\ verdict' = "more" /\ UNCHANGED <<offered, told>>
  <2>1. \E n \in 0..offered : received' = Channel!FirstBytes(n)
    BY <1>1, <1>3
  <2> QED
    BY <1>3, <2>1 DEF Channel!Receive
<1>4. ASSUME NEW n \in 1..MaxCall, WriteCall(n) PROVE [Channel!Next]_(Channel!vars)
  <2>1. offered' = offered + n /\ told' \in {told, TRUE} /\ UNCHANGED <<received, verdict>>
    BY <1>4 DEF WriteCall, reader
  <2>2. offered' \in Nat /\ offered' >= offered
    BY <1>1, <2>1
  <2> QED
    BY <1>2, <2>1, <2>2
<1>5. CASE WriteLoop \/ Reset
  <2>1. offered' = offered /\ UNCHANGED <<received, verdict>>
    BY <1>5 DEF WriteLoop, Reset, reader
  <2>2. told' \in {told, TRUE}
    <3>1. CASE WriteLoop
      BY <3>1 DEF WriteLoop
    <3>2. CASE Reset
      BY <3>2 DEF Reset
    <3> QED
      BY <1>5, <3>1, <3>2
  <2>3. offered' \in Nat /\ offered' >= offered
    BY <1>1, <2>1
  <2> QED
    BY <1>2, <2>1, <2>2, <2>3
<1>6. ASSUME NEW n \in 1..MaxCall, ReadCall(n) PROVE [Channel!Next]_(Channel!vars)
  BY <1>6 DEF ReadCall, writer
<1>7. CASE Close \/ Damage
  BY <1>7 DEF Close, Damage, writer, reader
<1>8. CASE CopyUnread \/ CopyNextBlock
  <2>1. wanted > 0 /\ UNCHANGED <<offered, told, verdict>>
    BY <1>8 DEF CopyUnread, CopyNextBlock, writer
  <2>2. verdict = "more"
    BY <2>1 DEF IInv, ReaderIsAsked, TypeOK
  <2> QED
    BY <1>3, <2>1, <2>2
<1>9. CASE ReadEnd
  <2>1. /\ wanted > 0 /\ verdict' = "end" /\ UNCHANGED <<offered, told>>
        /\ told \/ Len(received') = offered
    BY <1>9, ReadEndStep DEF ReadEnd, writer
  <2>2. verdict = "more"
    BY <2>1 DEF IInv, ReaderIsAsked, TypeOK
  <2>3. received' = Channel!FirstBytes(offered) \/ told
    BY <1>1, <2>1
  <2>4. \E n \in 0..offered : received' = Channel!FirstBytes(n)
    BY <1>1, <2>1
  <2> QED
    BY <2>1, <2>2, <2>3, <2>4 DEF Channel!Receive
<1>10. CASE ReadError
  <2>1. wanted > 0 /\ verdict' = "error" /\ UNCHANGED <<offered, told, received>>
    BY <1>10 DEF ReadError, writer
  <2>2. verdict = "more"
    BY <2>1 DEF IInv, ReaderIsAsked, TypeOK
  <2> QED
    BY <2>1, <2>2 DEF Channel!Break
<1>11. CASE UNCHANGED vars
  BY <1>11 DEF vars, writer, reader
<1> QED
  BY <1>4, <1>5, <1>6, <1>7, <1>8, <1>9, <1>10, <1>11 DEF Next

\* HashedBlockStream and HmacBlockStream implement a channel: what is read is
\* a beginning of what was written, through damage of the file and failures of
\* the device, and its end is reported only when all was read or a call of the
\* writer has failed.
THEOREM StreamIsAChannel == Spec => IsAChannel
BY InitInvariant, InvariantStep, InitIsChannelInit, StepIsChannelStep, PTL
   DEF Spec, IsAChannel, Channel!Spec

\* A file that was written without a failure and not damaged is read to its
\* end: the reader reports an error for it only if nothing was written at all.
THEOREM NothingIsFalselyRejected == Spec => []NoFalseAlarm
<1>1. IInv /\ FileIsWhole => NoFalseAlarm
  <2> SUFFICES ASSUME IInv, FileIsWhole, verdict = "error", Clean PROVE offered = 0
    BY DEF NoFalseAlarm, Clean, IInv, TypeOK
  <2>1. phase = "closed" /\ offered \in Nat
    BY SizeAssumption DEF IInv, ReaderWaits, TypeOK
  <2> QED
    BY <2>1 DEF FileIsWhole
<1> QED
  BY <1>1, InitInvariant, InvariantStep, InitWhole, WholeStep, PTL DEF Spec

=============================================================================
