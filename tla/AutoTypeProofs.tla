--------------------------- MODULE AutoTypeProofs ---------------------------
(***************************************************************************)
(* The locks and dialogs of Auto-Type, for any number of tabs and dialogs. *)
(***************************************************************************)
EXTENDS AutoType, FiniteSetTheorems, TLAPS

IInv ==
  /\ TypeOK
  /\ TypingHoldsItsMutex
  /\ GuardIsHeldForAReason
  /\ OfferedEntriesAreAlive

DialogRecord == [state : {"none", "shown", "accepted", "rejected"}, rows : SUBSET Entry]

\* The guard `guard` is held for a reason while `dialogs` are there.
Reason(dialogs, guard) ==
  guard => \/ \E d \in Dialogs : dialogs[d].state = "shown"
           \/ typing \in {"a single match", "a dialog"}

\* The two parts of OfferedEntriesAreAlive.
RowsAreAlive ==
  \A d \in Dialogs : dialog[d].state = "shown" =>
    \A e \in dialog[d].rows : Alive(e) \/ e.place = "the bin"

ReadIsExplained == status = "freed entry read" => asking \/ reading.place = "the bin"

LEMMA OfferedParts == OfferedEntriesAreAlive <=> RowsAreAlive /\ ReadIsExplained
  BY DEF OfferedEntriesAreAlive, RowsAreAlive, ReadIsExplained

----------------------------------------------------------------------------
(* Dialogs *)

\* A pointer to an entry that was destroyed points to the same place.
LEMMA FreedType ==
  ASSUME NEW e \in Entry, NEW t, NEW ps
  PROVE  /\ Freed(e, t, ps) \in Entry
         /\ Freed(e, t, ps).place = e.place
         /\ ~(e.tab = t /\ e.place \in ps) => Freed(e, t, ps) = e
  BY DEF Freed, Entry

LEMMA RowsWithoutType ==
  ASSUME NEW rows \in SUBSET Entry, NEW t, NEW ps
  PROVE  RowsWithout(rows, t, ps) \in SUBSET Entry
<1> SUFFICES ASSUME NEW r \in rows PROVE Freed(r, t, ps) \in Entry
  BY DEF RowsWithout
<1> QED
  BY FreedType

\* A dialog keeps its type when the entries of t leave it.
LEMMA DialogsWithoutType ==
  ASSUME TypeOK, NEW t \in Tabs, NEW ps \in SUBSET Places
  PROVE  DialogsWithout(t, ps) \in [Dialogs -> DialogRecord]
<1>1. dialog \in [Dialogs -> DialogRecord]
  BY DEF TypeOK, DialogRecord
<1>2. ASSUME NEW d \in Dialogs
      PROVE  DialogsWithout(t, ps)[d] \in DialogRecord
  <2>1. dialog[d] \in DialogRecord /\ RowsWithout(dialog[d].rows, t, ps) \in SUBSET Entry
    BY <1>1, RowsWithoutType DEF DialogRecord
  <2>2. CASE d \in Emptied(t, ps) /\ dialog[d].state = "shown"
    BY <2>2 DEF DialogsWithout, NoDialog, DialogRecord
  <2>3. CASE d \in Emptied(t, ps) /\ dialog[d].state = "accepted"
    BY <2>3 DEF DialogsWithout, DialogRecord
  <2>4. CASE ~(d \in Emptied(t, ps) /\ dialog[d].state \in {"shown", "accepted"})
    <3>1. DialogsWithout(t, ps)[d] = [dialog[d] EXCEPT !.rows = RowsWithout(@, t, ps)]
      BY <2>4 DEF DialogsWithout
    <3> QED
      BY <3>1, <2>1 DEF DialogRecord
  <2> QED
    BY <2>2, <2>3, <2>4
<1> QED
  BY <1>2 DEF DialogsWithout

\* The dialogs still shown list what they listed, without the entries of t.
LEMMA ShownWithout ==
  ASSUME TypeOK, NEW t \in Tabs, NEW ps \in SUBSET Places, NEW d \in Dialogs,
         DialogsWithout(t, ps)[d].state = "shown"
  PROVE  /\ dialog[d].state = "shown"
         /\ DialogsWithout(t, ps)[d].rows = RowsWithout(dialog[d].rows, t, ps)
<1>1. dialog[d] \in DialogRecord
  BY DEF TypeOK, DialogRecord
<1>2. ~(d \in Emptied(t, ps) /\ dialog[d].state = "shown")
  BY DEF DialogsWithout, NoDialog
<1>3. ~(d \in Emptied(t, ps) /\ dialog[d].state = "accepted")
  BY <1>2 DEF DialogsWithout
<1>4. DialogsWithout(t, ps)[d] = [dialog[d] EXCEPT !.rows = RowsWithout(@, t, ps)]
  BY <1>2, <1>3 DEF DialogsWithout
<1> QED
  BY <1>1, <1>4 DEF DialogRecord

\* The guard survives the end of a database only together with its reason.
LEMMA ReasonWithout ==
  ASSUME TypeOK, Reason(dialog, inGlobal), NEW t \in Tabs, NEW ps \in SUBSET Places
  PROVE  Reason(DialogsWithout(t, ps), GuardWithout(t, ps))
<1> SUFFICES ASSUME GuardWithout(t, ps)
             PROVE  \/ \E d \in Dialogs : DialogsWithout(t, ps)[d].state = "shown"
                    \/ typing \in {"a single match", "a dialog"}
  BY DEF Reason
<1>1. inGlobal /\ Emptied(t, ps) = {}
  BY DEF GuardWithout
<1>2. ASSUME NEW d \in Dialogs, dialog[d].state = "shown"
      PROVE  DialogsWithout(t, ps)[d].state = "shown"
  <2>1. DialogsWithout(t, ps)[d] = [dialog[d] EXCEPT !.rows = RowsWithout(@, t, ps)]
    BY <1>1 DEF DialogsWithout
  <2>2. dialog[d] \in DialogRecord
    BY DEF TypeOK, DialogRecord
  <2> QED
    BY <2>1, <2>2, <1>2 DEF DialogRecord
<1> QED
  BY <1>1, <1>2 DEF Reason

\* The entries that the dialogs still list exist after those of t have gone, all
\* of them or those in the places ps, or are in a bin.
LEMMA OfferedWithout ==
  ASSUME TypeOK, RowsAreAlive, NEW t \in Tabs, NEW ps \in SUBSET Places,
         \A u \in Tabs : u # t => mode'[u] = mode[u],
         ps = Places \/ mode'[t] = mode[t],
         NEW d \in Dialogs, DialogsWithout(t, ps)[d].state = "shown",
         NEW e \in DialogsWithout(t, ps)[d].rows
  PROVE  Alive(e)' \/ e.place = "the bin"
<1>1. dialog[d].state = "shown"
      /\ DialogsWithout(t, ps)[d].rows = RowsWithout(dialog[d].rows, t, ps)
  BY ShownWithout
<1>2. PICK r \in dialog[d].rows : e = Freed(r, t, ps) /\ ~IsTold(r, t, ps)
  BY <1>1 DEF RowsWithout
<1>3. r \in Entry
  BY <1>2 DEF TypeOK
<1>4. Alive(r) \/ r.place = "the bin"
  BY <1>1, <1>2 DEF RowsAreAlive
<1>5. CASE r.place = "the bin"
  BY <1>2, <1>3, <1>5, FreedType
<1>6. CASE r.place # "the bin"
  <2>1. ~(r.tab = t /\ r.place \in ps)
    BY <1>2, <1>6 DEF IsTold
  <2>2. e = r
    BY <1>2, <1>3, <2>1, FreedType
  <2>3. r.tab \in Tabs /\ r.place \in Places
    BY <1>3 DEF Entry
  <2>4. mode'[r.tab] = mode[r.tab]
    BY <2>1, <2>3
  <2> QED
    BY <1>4, <1>6, <2>2, <2>4 DEF Alive
<1> QED
  BY <1>5, <1>6

LEMMA ReadingWithoutType ==
  ASSUME TypeOK, NEW t \in Tabs, NEW ps \in SUBSET Places
  PROVE  ReadingWithout(t, ps) \in Entry \cup {None}
<1>1. CASE reading = None
  BY <1>1 DEF ReadingWithout
<1>2. CASE reading # None
  <2>1. reading \in Entry
    BY <1>2 DEF TypeOK
  <2> QED
    BY <1>2, <2>1, FreedType DEF ReadingWithout
<1> QED
  BY <1>1, <1>2

----------------------------------------------------------------------------
(* Starting and ending to type *)

\* Starting to type takes the lock.  A freed entry is read at once only if it is
\* one of a bin.
LEMMA StartTypingKeeps ==
  ASSUME NEW caller, NEW e \in Entry, StartTyping(caller, e), status = "fine",
         e.freed => e.place = "the bin"
  PROVE  /\ ~inAutoType /\ inAutoType' = TRUE /\ typing' = caller
         /\ asking' \in BOOLEAN /\ reading' \in Entry \cup {None}
         /\ status' \in {"fine", "freed entry read"}
         /\ ~e.freed => status' = "fine"
         /\ ReadIsExplained'
  BY DEF StartTyping, ReadIsExplained

\* A global Auto-Type among `entries`, when `dialogs`, `guard` and `entry` are
\* there, keeps both locks right and offers only these entries.
LEMMA PerformGlobalKeeps ==
  ASSUME TypingHoldsItsMutex, NEW entries \in SUBSET Entry, \A e \in entries : ~e.freed,
         NEW dialogs \in [Dialogs -> DialogRecord], NEW guard \in BOOLEAN,
         NEW entry \in Entry \cup {None},
         Reason(dialogs, guard), PerformGlobal(entries, dialogs, guard, entry),
         inAutoType \in BOOLEAN, typing \in Callers \cup {"nobody"}, asking \in BOOLEAN,
         status = "fine"
  PROVE  /\ TypingHoldsItsMutex' /\ GuardIsHeldForAReason'
         /\ inAutoType' \in BOOLEAN /\ inGlobal' \in BOOLEAN
         /\ typing' \in Callers \cup {"nobody"}
         /\ asking' \in BOOLEAN /\ reading' \in Entry \cup {None}
         /\ status' = "fine"
         /\ dialog' \in [Dialogs -> DialogRecord]
         /\ \A d \in Dialogs : \/ dialog'[d] = dialogs[d]
                               \/ dialog'[d].rows \subseteq entries
<1>1. CASE dialog' = dialogs /\ inGlobal' = guard /\ reading' = entry
           /\ UNCHANGED <<inAutoType, typing, asking, status>>
  <2>1. asking' \in BOOLEAN /\ inGlobal' \in BOOLEAN /\ inAutoType' \in BOOLEAN
    BY <1>1, Zenon
  <2>2. TypingHoldsItsMutex' /\ GuardIsHeldForAReason'
    BY <1>1 DEF TypingHoldsItsMutex, GuardIsHeldForAReason, Reason
  <2> QED
    BY <1>1, <2>1, <2>2
<1>2. ASSUME NEW e \in entries, StartTyping("a single match", e), inGlobal' = TRUE,
             dialog' = dialogs
      PROVE  /\ TypingHoldsItsMutex' /\ GuardIsHeldForAReason'
             /\ inAutoType' \in BOOLEAN /\ inGlobal' \in BOOLEAN
             /\ typing' \in Callers \cup {"nobody"}
             /\ asking' \in BOOLEAN /\ reading' \in Entry \cup {None}
             /\ status' = "fine"
  <2>1. /\ inAutoType' = TRUE /\ typing' = "a single match"
        /\ asking' \in BOOLEAN /\ reading' \in Entry \cup {None} /\ status' = "fine"
    BY <1>2, StartTypingKeeps
  <2> QED
    BY <1>2, <2>1 DEF TypingHoldsItsMutex, GuardIsHeldForAReason, Callers
<1>3. ASSUME NEW d \in Dialogs, NEW matches \in SUBSET entries,
             dialog' = [dialogs EXCEPT ![d] = [state |-> "shown", rows |-> matches]],
             inGlobal' = TRUE, reading' = entry,
             UNCHANGED <<inAutoType, typing, asking, status>>
      PROVE  /\ TypingHoldsItsMutex' /\ GuardIsHeldForAReason'
             /\ inAutoType' \in BOOLEAN /\ inGlobal' \in BOOLEAN
             /\ typing' \in Callers \cup {"nobody"}
             /\ asking' \in BOOLEAN /\ reading' \in Entry \cup {None}
             /\ status' = "fine"
             /\ dialog' \in [Dialogs -> DialogRecord]
             /\ \A c \in Dialogs : \/ dialog'[c] = dialogs[c]
                                   \/ dialog'[c].rows \subseteq entries
  <2>1. [state |-> "shown", rows |-> matches] \in DialogRecord
    BY DEF DialogRecord
  <2>2. dialog'[d] = [state |-> "shown", rows |-> matches]
    BY <1>3
  <2>3. dialog' \in [Dialogs -> DialogRecord]
    BY <1>3, <2>1
  <2>4. \A c \in Dialogs : dialog'[c] = dialogs[c] \/ dialog'[c].rows \subseteq entries
    BY <1>3, <2>2
  <2>5. TypingHoldsItsMutex' /\ GuardIsHeldForAReason'
    BY <1>3, <2>2 DEF TypingHoldsItsMutex, GuardIsHeldForAReason
  <2>6. asking' \in BOOLEAN /\ inGlobal' \in BOOLEAN /\ inAutoType' \in BOOLEAN
    BY <1>3, Zenon
  <2> QED
    BY <1>3, <2>3, <2>4, <2>5, <2>6
<1> QED
  BY <1>1, <1>2, <1>3 DEF PerformGlobal

\* Typing ends: its lock is released, and the guard with the dialog's.
LEMMA ReleaseKeeps ==
  ASSUME TypeOK, TypingHoldsItsMutex, NEW dialogs \in [Dialogs -> DialogRecord],
         NEW guard \in BOOLEAN, Reason(dialogs, guard), typing # "nobody",
         Release(guard), inAutoType' = FALSE, typing' = "nobody",
         dialog' = Deleted(dialogs)
  PROVE  /\ TypingHoldsItsMutex' /\ GuardIsHeldForAReason'
         /\ inGlobal' \in BOOLEAN
         /\ status' \in {"fine", "mutex unlocked twice"}
         /\ dialog' \in [Dialogs -> DialogRecord]
         /\ \A d \in Dialogs : dialog'[d] = dialogs[d] \/ dialog'[d] = NoDialog
<1>1. typing \in {"a single match", "a dialog", "the entry's command"}
  BY DEF TypeOK, Callers
<1>2. dialog' \in [Dialogs -> DialogRecord]
  BY DEF Deleted, DialogRecord, NoDialog
<1>3. \A d \in Dialogs : dialog'[d] = dialogs[d] \/ dialog'[d] = NoDialog
  BY DEF Deleted
<1>4. TypingHoldsItsMutex'
  BY DEF TypingHoldsItsMutex
<1>5. CASE typing = "a single match"
  <2>1. inGlobal' = FALSE /\ status' \in {"fine", "mutex unlocked twice"}
    BY <1>5 DEF Release
  <2> QED
    BY <1>2, <1>3, <1>4, <2>1 DEF GuardIsHeldForAReason
<1>6. CASE typing = "a dialog"
  <2>1. inGlobal' = FALSE /\ status' = "fine"
    BY <1>6 DEF Release
  <2> QED
    BY <1>2, <1>3, <1>4, <2>1 DEF GuardIsHeldForAReason
<1>7. CASE typing = "the entry's command"
  <2>1. inGlobal' = guard /\ status' = "fine" /\ dialog' = dialogs
    BY <1>7 DEF Release, Deleted
  <2>2. GuardIsHeldForAReason'
    BY <1>7, <2>1 DEF Reason, GuardIsHeldForAReason
  <2> QED
    BY <1>2, <1>3, <1>4, <2>1, <2>2
<1> QED
  BY <1>1, <1>5, <1>6, <1>7

----------------------------------------------------------------------------
(* The invariant *)

LEMMA InitInv == Init => IInv
<1> SUFFICES ASSUME Init PROVE IInv
  OBVIOUS
<1>1. TypingHoldsItsMutex /\ GuardIsHeldForAReason
  BY DEF Init, TypingHoldsItsMutex, GuardIsHeldForAReason
<1>2. OfferedEntriesAreAlive
  BY DEF Init, OfferedEntriesAreAlive, NoDialog
<1>3. /\ mode \in [Tabs -> {"closed", "locked", "open"}]
      /\ typing \in Callers \cup {"nobody"} /\ unlockDialog \in Tabs \cup {None}
      /\ dialog \in [Dialogs -> DialogRecord] /\ reading \in Entry \cup {None}
      /\ pendingLock \in Tabs \cup {None}
      /\ status \in {"fine", "mutex unlocked twice", "freed entry read"}
      /\ unlockedFor \in SUBSET Tabs
  BY DEF Init, NoDialog, DialogRecord
<1>4. inAutoType \in BOOLEAN /\ inGlobal \in BOOLEAN /\ early \in BOOLEAN
      /\ asking \in BOOLEAN
  BY Zenon DEF Init
<1>5. TypeOK
  BY <1>3, <1>4, Zenon DEF TypeOK, DialogRecord
<1> QED
  BY <1>1, <1>2, <1>5 DEF IInv

\* What TypeOK says of the variables that Auto-Type itself does not own.
TabsOK ==
  /\ mode \in [Tabs -> {"closed", "locked", "open"}]
  /\ unlockDialog \in Tabs \cup {None}
  /\ pendingLock \in Tabs \cup {None}
  /\ unlockedFor \in SUBSET Tabs

TypingOK ==
  /\ inAutoType \in BOOLEAN /\ inGlobal \in BOOLEAN
  /\ typing \in Callers \cup {"nobody"}
  /\ asking \in BOOLEAN
  /\ reading \in Entry \cup {None}
  /\ dialog \in [Dialogs -> DialogRecord]

HistoryOK ==
  /\ status \in {"fine", "mutex unlocked twice", "freed entry read"}
  /\ early \in BOOLEAN

LEMMA TypeParts == TypeOK <=> TabsOK /\ TypingOK /\ HistoryOK
  BY DEF TypeOK, TabsOK, TypingOK, HistoryOK, DialogRecord

LEMMA BecomesType ==
  ASSUME TypeOK, NEW t \in Tabs, NEW m \in {"closed", "locked", "open"}, Becomes(t, m)
  PROVE  /\ mode' \in [Tabs -> {"closed", "locked", "open"}]
         /\ early' \in BOOLEAN
         /\ \A u \in Tabs : u # t => mode'[u] = mode[u]
<1>1. /\ mode' \in [Tabs -> {"closed", "locked", "open"}]
      /\ \A u \in Tabs : u # t => mode'[u] = mode[u]
  BY DEF Becomes, TypeOK
<1>2. early' \in BOOLEAN
  BY Zenon DEF Becomes, EarlyWithout
<1> QED
  BY <1>1, <1>2

LEMMA ReasonNow == GuardIsHeldForAReason <=> Reason(dialog, inGlobal)
  BY DEF GuardIsHeldForAReason, Reason

\* The dialogs, the guard and the entry being read after entries of t have gone.
LEMMA WithoutKeeps ==
  ASSUME IInv, NEW t \in Tabs, NEW ps \in SUBSET Places,
         dialog' = DialogsWithout(t, ps), inGlobal' = GuardWithout(t, ps),
         reading' \in {ReadingWithout(t, ps), reading}, status = "fine",
         UNCHANGED <<inAutoType, typing, asking, status>>,
         \A u \in Tabs : u # t => mode'[u] = mode[u],
         ps = Places \/ mode'[t] = mode[t]
  PROVE  TypingOK' /\ TypingHoldsItsMutex' /\ GuardIsHeldForAReason' /\ OfferedEntriesAreAlive'
<1>1. TypeOK /\ Reason(dialog, inGlobal) /\ TypingOK /\ RowsAreAlive
  BY ReasonNow, TypeParts, OfferedParts DEF IInv
<1>2. Reason(DialogsWithout(t, ps), GuardWithout(t, ps))
  BY <1>1, ReasonWithout
<1>3. GuardIsHeldForAReason'
  BY <1>2 DEF GuardIsHeldForAReason, Reason
<1>4. inGlobal' \in BOOLEAN
  BY Zenon DEF GuardWithout
<1>5. reading' \in Entry \cup {None} /\ dialog' \in [Dialogs -> DialogRecord]
  BY <1>1, ReadingWithoutType, DialogsWithoutType DEF TypingOK
<1>6. TypingOK'
  BY <1>1, <1>4, <1>5 DEF TypingOK
<1>7. TypingHoldsItsMutex'
  BY DEF IInv, TypingHoldsItsMutex
<1>8. RowsAreAlive'
  <2> SUFFICES ASSUME NEW d \in Dialogs, dialog'[d].state = "shown",
                      NEW e \in dialog'[d].rows
               PROVE  Alive(e)' \/ e.place = "the bin"
    BY DEF RowsAreAlive
  <2> QED
    BY <1>1, OfferedWithout
<1>9. ReadIsExplained'
  BY DEF ReadIsExplained
<1> QED
  BY <1>3, <1>6, <1>7, <1>8, <1>9, OfferedParts DEF OfferedEntriesAreAlive, RowsAreAlive,
     ReadIsExplained, Alive

LEMMA ReplaceKeeps ==
  ASSUME IInv, NEW t \in Tabs, NEW m \in {"closed", "locked", "open"}, Replace(t, m),
         status = "fine", UNCHANGED <<inAutoType, typing, asking, status>>
  PROVE  /\ mode' \in [Tabs -> {"closed", "locked", "open"}]
         /\ early' \in BOOLEAN
         /\ TypingOK' /\ TypingHoldsItsMutex' /\ GuardIsHeldForAReason'
         /\ OfferedEntriesAreAlive'
<1>1. /\ Becomes(t, m) /\ dialog' = DialogsWithout(t, Places)
      /\ inGlobal' = GuardWithout(t, Places) /\ reading' = ReadingWithout(t, Places)
  BY DEF Replace
<1>2. /\ mode' \in [Tabs -> {"closed", "locked", "open"}]
      /\ early' \in BOOLEAN
      /\ \A u \in Tabs : u # t => mode'[u] = mode[u]
  BY <1>1, BecomesType DEF IInv
<1>3. Places \in SUBSET Places
  OBVIOUS
<1>4. /\ TypingOK' /\ TypingHoldsItsMutex' /\ GuardIsHeldForAReason'
      /\ OfferedEntriesAreAlive'
  BY <1>1, <1>2, <1>3, WithoutKeeps
<1> QED
  BY <1>2, <1>4

\* Only the tabs change: nothing that is offered is affected.
LEMMA SameDialogsKeep ==
  ASSUME IInv,
         UNCHANGED <<mode, inAutoType, inGlobal, typing, asking, reading, dialog, status>>
  PROVE  /\ TypingOK' /\ TypingHoldsItsMutex' /\ GuardIsHeldForAReason'
         /\ OfferedEntriesAreAlive'
<1>1. TypingOK'
  BY TypeParts DEF IInv, TypingOK
<1>2. TypingHoldsItsMutex' /\ GuardIsHeldForAReason'
  BY DEF IInv, TypingHoldsItsMutex, GuardIsHeldForAReason
<1>3. OfferedEntriesAreAlive'
  BY DEF IInv, OfferedEntriesAreAlive, Alive
<1> QED
  BY <1>1, <1>2, <1>3

LEMMA TabStepKeeps ==
  ASSUME IInv, NEW t \in Tabs, Lock(t) \/ Reload(t) \/ Show(t) \/ Close(t)
  PROVE  IInv'
<1>1. PICK m \in {"closed", "locked", "open"} : Replace(t, m)
  BY DEF Lock, Reload, Show, Close
<1>2. status = "fine" /\ UNCHANGED <<inAutoType, typing, asking, status>>
  BY DEF Lock, Reload, Show, Close
<1>3. /\ mode' \in [Tabs -> {"closed", "locked", "open"}]
      /\ early' \in BOOLEAN
      /\ TypingOK' /\ TypingHoldsItsMutex' /\ GuardIsHeldForAReason'
      /\ OfferedEntriesAreAlive'
  BY <1>1, <1>2, ReplaceKeeps
<1>4. TabsOK
  BY TypeParts DEF IInv
<1>5. /\ unlockDialog' \in Tabs \cup {None} /\ pendingLock' \in Tabs \cup {None}
      /\ unlockedFor' \in SUBSET Tabs
  <2>1. CASE Lock(t) \/ Reload(t) \/ Show(t)
    BY <1>4, <2>1 DEF Lock, Reload, Show, relocking, TabsOK
  <2>2. CASE Close(t)
    <3>1. /\ unlockDialog' \in {None, unlockDialog} /\ pendingLock' \in {None, pendingLock}
          /\ unlockedFor' = unlockedFor \ {t}
      BY <2>2 DEF Close
    <3> QED
      BY <1>4, <3>1 DEF TabsOK
  <2> QED
    BY <2>1, <2>2
<1>6. HistoryOK'
  BY <1>2, <1>3, TypeParts DEF IInv, HistoryOK
<1>7. TypeOK'
  BY <1>3, <1>5, <1>6, Zenon DEF TypeOK, TypingOK, HistoryOK, DialogRecord
<1> QED
  BY <1>3, <1>7 DEF IInv

LEMMA EntriesGoKeeps ==
  ASSUME IInv, NEW t \in Tabs, NEW p \in Places, EntriesGo(t, p)
  PROVE  IInv'
<1>1. /\ status = "fine" /\ dialog' = DialogsWithout(t, {p})
      /\ inGlobal' = GuardWithout(t, {p})
      /\ early' = EarlyWithout(t, {p})
      /\ reading' \in {ReadingWithout(t, {p}), reading}
      /\ UNCHANGED <<mode, unlockedFor, unlockDialog, pendingLock, inAutoType, typing, asking,
                     status>>
  BY DEF EntriesGo, databases, relocking
<1>2. {p} \in SUBSET Places
  OBVIOUS
<1>3. TypingOK' /\ TypingHoldsItsMutex' /\ GuardIsHeldForAReason' /\ OfferedEntriesAreAlive'
  BY <1>1, <1>2, WithoutKeeps
<1>4. early' \in BOOLEAN
  BY <1>1, Zenon DEF EarlyWithout
<1>5. TabsOK' /\ HistoryOK'
  BY <1>1, <1>4, TypeParts DEF IInv, TabsOK, HistoryOK
<1>6. TypeOK'
  BY <1>3, <1>5, Zenon DEF TypeOK, TabsOK, TypingOK, HistoryOK, DialogRecord
<1> QED
  BY <1>3, <1>6 DEF IInv

LEMMA EntryCommandKeeps ==
  ASSUME IInv, NEW t \in Tabs, EntryCommand(t)
  PROVE  IInv'
<1>1. PICK e \in EntriesOf({t}) : StartTyping("the entry's command", e)
  BY DEF EntryCommand
<1>2. e \in Entry /\ ~e.freed
  BY <1>1 DEF EntriesOf, Entry
<1>3. status = "fine"
      /\ UNCHANGED <<mode, unlockedFor, inGlobal, dialog, unlockDialog, pendingLock, early>>
  BY DEF EntryCommand, databases, relocking
<1>4. /\ ~inAutoType /\ inAutoType' = TRUE /\ typing' = "the entry's command"
      /\ asking' \in BOOLEAN /\ reading' \in Entry \cup {None} /\ status' = "fine"
      /\ ReadIsExplained'
  BY <1>1, <1>2, <1>3, StartTypingKeeps
<1>5. TypeOK'
  <2>1. typing' \in Callers \cup {"nobody"} /\ inAutoType' \in BOOLEAN
        /\ status' \in {"fine", "mutex unlocked twice", "freed entry read"}
    BY <1>4 DEF Callers
  <2> QED
    BY <1>3, <1>4, <2>1, Zenon DEF IInv, TypeOK
<1>6. typing = "nobody"
  BY <1>4 DEF IInv, TypingHoldsItsMutex
<1>7. TypingHoldsItsMutex' /\ GuardIsHeldForAReason'
  BY <1>3, <1>4, <1>6 DEF IInv, TypingHoldsItsMutex, GuardIsHeldForAReason
<1>8. OfferedEntriesAreAlive'
  BY <1>3, <1>4 DEF IInv, OfferedEntriesAreAlive, Alive
<1> QED
  BY <1>5, <1>7, <1>8 DEF IInv

\* The question of verifyAutoTypeSyntax explains whatever is read after it.
LEMMA ProceedKeeps ==
  ASSUME IInv, Proceed
  PROVE  IInv'
<1>1. /\ UNCHANGED <<mode, unlockedFor, inAutoType, inGlobal, typing, dialog, unlockDialog,
                     pendingLock, early>>
      /\ status' \in {"fine", "freed entry read"}
      /\ status' = "freed entry read" => asking'
  BY DEF Proceed, databases, mutexes, relocking, sequence
<1>2. reading' \in Entry \cup {None}
  BY DEF Proceed, sequence, IInv, TypeOK
<1>3. asking' \in BOOLEAN
  <2>1. asking' \in {asking, FALSE}
    BY Zenon DEF Proceed, sequence
  <2> QED
    BY <2>1, Zenon DEF IInv, TypeOK
<1>4. TypeOK'
  <2>1. status' \in {"fine", "mutex unlocked twice", "freed entry read"}
    BY <1>1
  <2> QED
    BY <1>1, <1>2, <1>3, <2>1, Zenon DEF IInv, TypeOK
<1>5. TypingHoldsItsMutex' /\ GuardIsHeldForAReason'
  BY <1>1 DEF IInv, TypingHoldsItsMutex, GuardIsHeldForAReason
<1>6. OfferedEntriesAreAlive'
  BY <1>1 DEF IInv, OfferedEntriesAreAlive, Alive
<1> QED
  BY <1>4, <1>5, <1>6 DEF IInv

\* Only entries of a bin are painted after they were freed.
LEMMA RowPaintedKeeps ==
  ASSUME IInv, NEW d \in Dialogs, RowPainted(d)
  PROVE  IInv'
<1>1. PICK e \in dialog[d].rows : e.freed /\ reading' = e
  BY DEF RowPainted
<1>2. /\ dialog[d].state = "shown" /\ status' = "freed entry read" /\ asking' = FALSE
      /\ UNCHANGED <<mode, unlockedFor, inAutoType, inGlobal, typing, dialog, unlockDialog,
                     pendingLock, early>>
  BY DEF RowPainted, databases, mutexes, relocking
<1>3. e \in Entry
  BY DEF IInv, TypeOK
<1>4. e.place = "the bin"
  BY <1>1, <1>2 DEF IInv, OfferedEntriesAreAlive, Alive
<1>5. TypeOK'
  <2>1. status' \in {"fine", "mutex unlocked twice", "freed entry read"}
        /\ asking' \in BOOLEAN /\ reading' \in Entry \cup {None}
    BY <1>1, <1>2, <1>3
  <2> QED
    BY <1>2, <2>1, Zenon DEF IInv, TypeOK
<1>6. TypingHoldsItsMutex' /\ GuardIsHeldForAReason'
  BY <1>2 DEF IInv, TypingHoldsItsMutex, GuardIsHeldForAReason
<1>7. RowsAreAlive'
  BY <1>2, OfferedParts DEF IInv, RowsAreAlive, Alive
<1>8. ReadIsExplained'
  BY <1>1, <1>4 DEF ReadIsExplained
<1>9. OfferedEntriesAreAlive'
  BY <1>7, <1>8 DEF OfferedEntriesAreAlive, RowsAreAlive, ReadIsExplained, Alive
<1> QED
  BY <1>5, <1>6, <1>9 DEF IInv

LEMMA DialogStepKeeps ==
  ASSUME IInv, NEW d \in Dialogs, MatchActivated(d) \/ DialogRejected(d)
  PROVE  IInv'
<1>1. /\ dialog[d].state = "shown" /\ dialog \in [Dialogs -> DialogRecord]
      /\ dialog[d] \in DialogRecord /\ status = "fine"
  BY DEF MatchActivated, DialogRejected, IInv, TypeOK, DialogRecord
<1>2. UNCHANGED <<mode, unlockedFor, unlockDialog, pendingLock, early>>
  BY DEF MatchActivated, DialogRejected, databases, relocking
<1>3. ASSUME NEW e \in dialog[d].rows, StartTyping("a dialog", e), UNCHANGED inGlobal,
             dialog' = [dialog EXCEPT ![d].state = "accepted"]
      PROVE  IInv'
  <2>1. e \in Entry
    BY <1>1 DEF DialogRecord
  <2>2. e.freed => e.place = "the bin"
    BY <1>1 DEF IInv, OfferedEntriesAreAlive, Alive
  <2>3. /\ inAutoType' = TRUE /\ typing' = "a dialog"
        /\ asking' \in BOOLEAN /\ reading' \in Entry \cup {None}
        /\ status' \in {"fine", "freed entry read"}
        /\ ReadIsExplained'
    BY <1>1, <1>3, <2>1, <2>2, StartTypingKeeps
  <2>4. TypingHoldsItsMutex' /\ GuardIsHeldForAReason'
    BY <2>3 DEF TypingHoldsItsMutex, GuardIsHeldForAReason
  <2>5. dialog'[d].state = "accepted"
        /\ \A c \in Dialogs : c # d => dialog'[c] = dialog[c]
    BY <1>1, <1>3 DEF DialogRecord
  <2>6. RowsAreAlive'
    BY <1>2, <2>5 DEF IInv, OfferedEntriesAreAlive, RowsAreAlive, Alive
  <2>7. OfferedEntriesAreAlive'
    BY <2>3, <2>6 DEF OfferedEntriesAreAlive, RowsAreAlive, ReadIsExplained, Alive
  <2>8. dialog' \in [Dialogs -> DialogRecord] /\ typing' \in Callers \cup {"nobody"}
        /\ inAutoType' \in BOOLEAN
        /\ status' \in {"fine", "mutex unlocked twice", "freed entry read"}
    BY <1>1, <1>3, <2>3 DEF DialogRecord, Callers
  <2>9. TypeOK'
    BY <1>2, <1>3, <2>3, <2>8, Zenon DEF IInv, TypeOK, DialogRecord
  <2> QED
    BY <2>4, <2>7, <2>9 DEF IInv
<1>4. ASSUME dialog' = [dialog EXCEPT ![d] = NoDialog], inGlobal' = FALSE,
             UNCHANGED <<inAutoType, typing, asking, reading, status>>
      PROVE  IInv'
  <2>1. TypingHoldsItsMutex' /\ GuardIsHeldForAReason'
    BY <1>4 DEF IInv, TypingHoldsItsMutex, GuardIsHeldForAReason
  <2>2. dialog'[d] = NoDialog /\ \A c \in Dialogs : c # d => dialog'[c] = dialog[c]
    BY <1>1, <1>4
  <2>3. OfferedEntriesAreAlive'
    <3>1. RowsAreAlive /\ ReadIsExplained
      BY OfferedParts DEF IInv
    <3>2. NoDialog.state # "shown"
      BY DEF NoDialog
    <3>3. ASSUME NEW c \in Dialogs, dialog'[c].state = "shown", NEW e \in dialog'[c].rows
          PROVE  Alive(e)' \/ e.place = "the bin"
      <4>1. dialog'[c] = dialog[c]
        BY <2>2, <3>2, <3>3, Zenon
      <4>2. Alive(e) \/ e.place = "the bin"
        BY <3>1, <3>3, <4>1, Zenon DEF RowsAreAlive
      <4> QED
        BY <1>2, <4>2 DEF Alive
    <3>4. ReadIsExplained'
      BY <1>4, <3>1, Zenon DEF ReadIsExplained
    <3> QED
      BY <3>3, <3>4 DEF OfferedEntriesAreAlive, ReadIsExplained
  <2>4. dialog' \in [Dialogs -> DialogRecord]
    BY <1>1, <1>4 DEF DialogRecord, NoDialog
  <2>5. inGlobal' \in BOOLEAN
    BY <1>4
  <2>6. TypeOK'
    BY <1>2, <1>4, <2>4, <2>5, Zenon DEF IInv, TypeOK, DialogRecord
  <2> QED
    BY <2>1, <2>3, <2>6 DEF IInv
<1> QED
  BY <1>3, <1>4 DEF MatchActivated, DialogRejected, sequence

LEMMA GlobalShortcutKeeps ==
  ASSUME IInv, GlobalShortcut
  PROVE  IInv'
<1>1. status = "fine" /\ UNCHANGED <<mode, unlockedFor, early>>
  BY DEF GlobalShortcut, databases
<1>2. TabsOK /\ TypingOK /\ HistoryOK /\ Reason(dialog, inGlobal)
  BY TypeParts, ReasonNow DEF IInv
<1>3. CASE UNCHANGED <<mutexes, typing, sequence, dialog, status>> /\ \E t \in Tabs :
             pendingLock' = t /\ unlockDialog' = t
  <2>1. /\ TypingOK' /\ TypingHoldsItsMutex' /\ GuardIsHeldForAReason'
        /\ OfferedEntriesAreAlive'
    BY <1>1, <1>3, SameDialogsKeep DEF mutexes, sequence
  <2>2. TabsOK' /\ HistoryOK'
    BY <1>1, <1>2, <1>3 DEF TabsOK, HistoryOK
  <2>3. TypeOK'
    BY <2>1, <2>2, Zenon DEF TypeOK, TabsOK, TypingOK, HistoryOK, DialogRecord
  <2> QED
    BY <2>1, <2>3 DEF IInv
<1>4. ASSUME NEW unlocked, unlocked = {t \in Tabs : mode[t] = "open"},
             PerformGlobal(EntriesOf(unlocked), dialog, inGlobal, reading),
             UNCHANGED relocking
      PROVE  IInv'
  <2>1. /\ EntriesOf(unlocked) \in SUBSET Entry
        /\ \A e \in EntriesOf(unlocked) : Alive(e) /\ ~e.freed
    BY <1>4 DEF EntriesOf, Entry, Alive
  <2> DEFINE entries == EntriesOf(unlocked)
  <2>2. entries \in SUBSET Entry /\ \A e \in entries : Alive(e) /\ ~e.freed
    BY <2>1
  <2> HIDE DEF entries
  <2>3. PerformGlobal(entries, dialog, inGlobal, reading)
    BY <1>4 DEF entries
  <2>4. /\ TypingHoldsItsMutex' /\ GuardIsHeldForAReason' /\ TypingOK' /\ status' = "fine"
        /\ \A d \in Dialogs : dialog'[d] = dialog[d] \/ dialog'[d].rows \subseteq entries
    <3>1. TypingHoldsItsMutex
      BY DEF IInv
    <3>2. /\ dialog \in [Dialogs -> DialogRecord] /\ inGlobal \in BOOLEAN
          /\ inAutoType \in BOOLEAN /\ typing \in Callers \cup {"nobody"}
          /\ asking \in BOOLEAN /\ reading \in Entry \cup {None}
      BY <1>2 DEF TypingOK
    <3> QED
      BY <1>1, <1>2, <2>2, <2>3, <3>1, <3>2, PerformGlobalKeeps, Zenon DEF TypingOK
  <2>5. OfferedEntriesAreAlive'
    BY <1>1, <2>2, <2>4 DEF IInv, OfferedEntriesAreAlive, Alive
  <2>6. TabsOK' /\ HistoryOK'
    BY <1>1, <1>2, <1>4, <2>4 DEF TabsOK, HistoryOK, relocking
  <2>7. TypeOK'
    BY <2>4, <2>6, Zenon DEF TypeOK, TabsOK, TypingOK, HistoryOK, DialogRecord
  <2> QED
    BY <2>4, <2>5, <2>7 DEF IInv
<1> QED
  BY <1>3, <1>4 DEF GlobalShortcut

LEMMA UnlockAcceptedKeeps ==
  ASSUME IInv, UnlockDialogAccepted
  PROVE  IInv'
<1>1. TypeOK /\ TabsOK /\ TypingOK /\ HistoryOK /\ Reason(dialog, inGlobal) /\ RowsAreAlive
  BY TypeParts, ReasonNow, OfferedParts DEF IInv
<1>2. PICK t \in Tabs :
        /\ t = unlockDialog
        /\ Becomes(t, "open")
        /\ unlockedFor' = unlockedFor \cup {t}
        /\ PerformGlobal(EntriesOf({t}), DialogsWithout(t, Places), GuardWithout(t, Places),
                         ReadingWithout(t, Places))
  BY <1>1 DEF UnlockDialogAccepted, TabsOK
<1>3. /\ mode' \in [Tabs -> {"closed", "locked", "open"}]
      /\ early' \in BOOLEAN
      /\ \A u \in Tabs : u # t => mode'[u] = mode[u]
  BY <1>1, <1>2, BecomesType
<1>4. mode'[t] = "open"
  BY <1>1, <1>2 DEF Becomes, TabsOK
<1>5. PICK entries : entries = EntriesOf({t})
  OBVIOUS
<1>6. entries \in SUBSET Entry /\ \A e \in entries : e.tab = t /\ ~e.freed
  BY <1>5 DEF EntriesOf, Entry
<1>7. Places \in SUBSET Places
  OBVIOUS
<1>8. PICK dialogs, guard, entry :
        /\ dialogs = DialogsWithout(t, Places)
        /\ guard = GuardWithout(t, Places)
        /\ entry = ReadingWithout(t, Places)
  OBVIOUS
<1>9. dialogs \in [Dialogs -> DialogRecord] /\ Reason(dialogs, guard) /\ entry \in Entry \cup {None}
  BY <1>1, <1>7, <1>8, DialogsWithoutType, ReasonWithout, ReadingWithoutType
<1>10. guard \in BOOLEAN
  BY <1>8, Zenon DEF GuardWithout
<1>11. /\ TypingHoldsItsMutex' /\ GuardIsHeldForAReason' /\ TypingOK' /\ status' = "fine"
       /\ \A d \in Dialogs : dialog'[d] = dialogs[d] \/ dialog'[d].rows \subseteq entries
  <2>1. /\ TypingHoldsItsMutex /\ inAutoType \in BOOLEAN /\ typing \in Callers \cup {"nobody"}
        /\ asking \in BOOLEAN /\ status = "fine"
        /\ PerformGlobal(entries, dialogs, guard, entry)
    BY <1>1, <1>2, <1>5, <1>8 DEF IInv, TypingOK, UnlockDialogAccepted
  <2> QED
    BY <1>6, <1>9, <1>10, <2>1, PerformGlobalKeeps, Zenon DEF TypingOK
<1>12. OfferedEntriesAreAlive'
  <2>1. ASSUME NEW d \in Dialogs, dialog'[d].state = "shown", NEW e \in dialog'[d].rows
        PROVE  Alive(e)' \/ e.place = "the bin"
    <3>1. CASE dialog'[d] = dialogs[d]
      BY <1>1, <1>3, <1>7, <1>8, <2>1, <3>1, OfferedWithout
    <3>2. CASE dialog'[d].rows \subseteq entries
      BY <1>4, <1>6, <2>1, <3>2 DEF Alive
    <3> QED
      BY <1>11, <3>1, <3>2
  <2> QED
    BY <1>11, <2>1 DEF OfferedEntriesAreAlive
<1>13. /\ unlockDialog' = None /\ UNCHANGED pendingLock
  BY DEF UnlockDialogAccepted
<1>14. TabsOK' /\ HistoryOK'
  <2>1. unlockedFor' \in SUBSET Tabs
    BY <1>1, <1>2 DEF TabsOK
  <2> QED
    BY <1>1, <1>3, <1>11, <1>13, <2>1 DEF TabsOK, HistoryOK
<1>15. TypeOK'
  BY <1>11, <1>14, Zenon DEF TypeOK, TabsOK, TypingOK, HistoryOK, DialogRecord
<1> QED
  BY <1>11, <1>12, <1>15 DEF IInv

LEMMA TypingEndsKeeps ==
  ASSUME IInv, TypingEnds
  PROVE  IInv'
<1>1. TypeOK /\ TabsOK /\ TypingOK /\ HistoryOK /\ Reason(dialog, inGlobal)
  BY TypeParts, ReasonNow DEF IInv
<1>2. /\ UNCHANGED <<mode, unlockedFor, unlockDialog, early>>
      /\ inAutoType' = FALSE /\ typing' = "nobody" /\ typing # "nobody"
      /\ asking' = FALSE /\ reading' = None
      /\ Release(inGlobal) /\ dialog' = Deleted(dialog)
      /\ pendingLock' \in {pendingLock, None}
  BY DEF TypingEnds, databases
<1>3. /\ TypingHoldsItsMutex' /\ GuardIsHeldForAReason'
      /\ inGlobal' \in BOOLEAN
      /\ status' \in {"fine", "mutex unlocked twice"}
      /\ dialog' \in [Dialogs -> DialogRecord]
      /\ \A d \in Dialogs : dialog'[d] = dialog[d] \/ dialog'[d] = NoDialog
  <2>1. TypingHoldsItsMutex /\ inGlobal \in BOOLEAN /\ dialog \in [Dialogs -> DialogRecord]
    BY <1>1 DEF IInv, TypingOK
  <2> QED
    BY <1>1, <1>2, <2>1, ReleaseKeeps
<1>4. OfferedEntriesAreAlive'
  <2>1. ASSUME NEW d \in Dialogs, dialog'[d].state = "shown", NEW e \in dialog'[d].rows
        PROVE  Alive(e)' \/ e.place = "the bin"
    <3>1. NoDialog.state # "shown"
      BY DEF NoDialog
    <3>2. dialog'[d] # NoDialog
      BY <2>1, <3>1, Zenon
    <3>3. dialog'[d] = dialog[d]
      BY <1>3, <3>2, Zenon
    <3>4. Alive(e) \/ e.place = "the bin"
      BY <2>1, <3>3, Zenon DEF IInv, OfferedEntriesAreAlive
    <3> QED
      BY <1>2, <3>4 DEF Alive
  <2> QED
    BY <1>3, <2>1 DEF OfferedEntriesAreAlive
<1>5. TabsOK' /\ HistoryOK'
  BY <1>1, <1>2, <1>3 DEF TabsOK, HistoryOK
<1>6. TypeOK'
  <2>1. inAutoType' \in BOOLEAN /\ typing' \in Callers \cup {"nobody"} /\ asking' \in BOOLEAN
        /\ reading' \in Entry \cup {None}
    BY <1>2
  <2> QED
    BY <1>3, <1>5, <2>1, Zenon DEF TypeOK, TabsOK, HistoryOK, DialogRecord
<1> QED
  BY <1>3, <1>4, <1>6 DEF IInv

LEMMA RelockingKeeps ==
  ASSUME IInv, TypingEndsRelocking
  PROVE  IInv'
<1>1. TypeOK /\ TabsOK /\ TypingOK /\ HistoryOK /\ Reason(dialog, inGlobal) /\ RowsAreAlive
  BY TypeParts, ReasonNow, OfferedParts DEF IInv
<1>2. PICK t \in Tabs :
        /\ mode' = [mode EXCEPT ![t] = "locked"]
        /\ unlockedFor' = unlockedFor \ {t}
        /\ Release(GuardWithout(t, Places))
        /\ dialog' = Deleted(DialogsWithout(t, Places))
  BY DEF TypingEndsRelocking
<1>3. /\ inAutoType' = FALSE /\ typing' = "nobody" /\ typing # "nobody"
      /\ asking' = FALSE /\ reading' = None
      /\ pendingLock' = None /\ UNCHANGED <<unlockDialog, early>>
  BY DEF TypingEndsRelocking
<1>4. /\ mode' \in [Tabs -> {"closed", "locked", "open"}]
      /\ \A u \in Tabs : u # t => mode'[u] = mode[u]
  BY <1>1, <1>2 DEF TabsOK
<1>5. Places \in SUBSET Places
  OBVIOUS
<1>6. PICK dialogs, guard :
        dialogs = DialogsWithout(t, Places) /\ guard = GuardWithout(t, Places)
  OBVIOUS
<1>7. dialogs \in [Dialogs -> DialogRecord] /\ Reason(dialogs, guard)
  BY <1>1, <1>5, <1>6, DialogsWithoutType, ReasonWithout
<1>8. guard \in BOOLEAN
  BY <1>6, Zenon DEF GuardWithout
<1>9. /\ TypingHoldsItsMutex' /\ GuardIsHeldForAReason'
      /\ inGlobal' \in BOOLEAN
      /\ status' \in {"fine", "mutex unlocked twice"}
      /\ dialog' \in [Dialogs -> DialogRecord]
      /\ \A d \in Dialogs : dialog'[d] = dialogs[d] \/ dialog'[d] = NoDialog
  <2>1. TypingHoldsItsMutex /\ Release(guard) /\ dialog' = Deleted(dialogs)
    BY <1>2, <1>6 DEF IInv
  <2> QED
    BY <1>1, <1>3, <1>7, <1>8, <2>1, ReleaseKeeps
<1>10. OfferedEntriesAreAlive'
  <2>1. ASSUME NEW d \in Dialogs, dialog'[d].state = "shown", NEW e \in dialog'[d].rows
        PROVE  Alive(e)' \/ e.place = "the bin"
    <3>1. NoDialog.state # "shown"
      BY DEF NoDialog
    <3>2. dialog'[d] # NoDialog
      BY <2>1, <3>1, Zenon
    <3>3. dialog'[d] = dialogs[d]
      BY <1>9, <3>2, Zenon
    <3> QED
      BY <1>1, <1>4, <1>5, <1>6, <2>1, <3>3, OfferedWithout
  <2> QED
    BY <1>9, <2>1 DEF OfferedEntriesAreAlive
<1>11. TabsOK' /\ HistoryOK'
  <2>1. unlockedFor' \in SUBSET Tabs
    BY <1>1, <1>2 DEF TabsOK
  <2> QED
    BY <1>1, <1>3, <1>4, <1>9, <2>1 DEF TabsOK, HistoryOK
<1>12. TypeOK'
  <2>1. inAutoType' \in BOOLEAN /\ typing' \in Callers \cup {"nobody"} /\ asking' \in BOOLEAN
        /\ reading' \in Entry \cup {None}
    BY <1>3
  <2> QED
    BY <1>9, <1>11, <2>1, Zenon DEF TypeOK, TabsOK, HistoryOK, DialogRecord
<1> QED
  BY <1>9, <1>10, <1>12 DEF IInv

LEMMA InvStep == IInv /\ [Next]_vars => IInv'
<1> SUFFICES ASSUME IInv, [Next]_vars PROVE IInv'
  OBVIOUS
<1>1. ASSUME UnlockDialogRejected \/ UNCHANGED vars PROVE IInv'
  <2>1. /\ UNCHANGED <<mode, unlockedFor, inAutoType, inGlobal, typing, asking, reading, dialog,
                       pendingLock, status, early>>
        /\ unlockDialog' \in {unlockDialog, None}
    BY <1>1 DEF UnlockDialogRejected, vars, databases, mutexes, sequence, relocking
  <2>2. /\ TypingOK' /\ TypingHoldsItsMutex' /\ GuardIsHeldForAReason'
        /\ OfferedEntriesAreAlive'
    BY <2>1, SameDialogsKeep
  <2>3. TabsOK' /\ HistoryOK'
    BY <2>1, TypeParts DEF IInv, TabsOK, HistoryOK
  <2>4. TypeOK'
    BY <2>2, <2>3, Zenon DEF TypeOK, TabsOK, TypingOK, HistoryOK, DialogRecord
  <2> QED
    BY <2>2, <2>4 DEF IInv
<1>2. ASSUME NEW t \in Tabs, TabStep(t) PROVE IInv'
  BY <1>2, EntryCommandKeeps, TabStepKeeps, EntriesGoKeeps DEF TabStep
<1>3. ASSUME NEW d \in Dialogs, DialogStep(d) PROVE IInv'
  BY <1>3, DialogStepKeeps, RowPaintedKeeps DEF DialogStep
<1>4. ASSUME Finish PROVE IInv'
  BY <1>4, TypingEndsKeeps, RelockingKeeps DEF Finish
<1> QED
  BY <1>1, <1>2, <1>3, <1>4, GlobalShortcutKeeps, UnlockAcceptedKeeps, ProceedKeeps DEF Next

LEMMA Invariance == Spec => []IInv
  BY InitInv, InvStep, PTL DEF Spec

(***************************************************************************)
(* Type correctness of the locks, dialogs and tabs.                        *)
(***************************************************************************)
THEOREM AutoTypeTypeCorrect == Spec => []TypeOK
<1>1. IInv => TypeOK BY DEF IInv
<1> QED BY <1>1, Invariance, PTL

(***************************************************************************)
(* Auto-Type is never stuck: m_inAutoType is locked exactly while somebody *)
(* types, and m_inGlobalAutoTypeDialog only while a dialog is shown or its *)
(* choice is typed, so that the shortcut works again after every dialog    *)
(* and every end of a database.                                            *)
(***************************************************************************)
THEOREM AutoTypeIsNeverStuck == Spec => []NoLockIsStuck
<1>1. IInv => NoLockIsStuck BY DEF IInv, NoLockIsStuck
<1> QED BY <1>1, Invariance, PTL

(***************************************************************************)
(* No dialog offers an entry that was deleted or went with its database    *)
(* (AutoTypeMatchModel::entryAboutToRemove), but for one of a recycle bin, *)
(* and none is read after that without a question before.                  *)
(***************************************************************************)
THEOREM DialogsOfferLivingEntries == Spec => []OfferedEntriesAreAlive
<1>1. IInv => OfferedEntriesAreAlive BY DEF IInv
<1> QED BY <1>1, Invariance, PTL

----------------------------------------------------------------------------
(* One dialog at a time *)

GlobalTyping == {"a single match", "a dialog"}

\* What `who` types and the guard `guard` when `dialogs` are there: a dialog is
\* shown or its choice is typed, never both, and the guard is held meanwhile.
OneReason(dialogs, guard, who) ==
  /\ \A d \in Dialogs : dialogs[d].state # "rejected"
  /\ \A d \in Dialogs : dialogs[d].state = "accepted" => who = "a dialog"
  /\ \A d \in Dialogs : dialogs[d].state = "shown" => guard /\ who \notin GlobalTyping
  /\ \A c, d \in Dialogs :
       dialogs[c].state = "shown" /\ dialogs[d].state = "shown" => c = d
  /\ who \in GlobalTyping => guard

\* A dialog that is not there lists nothing.
NothingHiddenIn(dialogs) ==
  \A d \in Dialogs : dialogs[d].state = "none" => dialogs[d].rows = {}

OneAtATime ==
  /\ NothingHiddenIn(dialog)
  /\ ~early => status # "mutex unlocked twice" /\ OneReason(dialog, inGlobal, typing)

\* What becomes of a dialog when the entries of t leave it.
LEMMA StateWithout ==
  ASSUME TypeOK, NEW t \in Tabs, NEW ps \in SUBSET Places, NEW d \in Dialogs
  PROVE  /\ d \notin Emptied(t, ps) => DialogsWithout(t, ps)[d].state = dialog[d].state
         /\ d \in Emptied(t, ps) /\ dialog[d].state = "shown" =>
              DialogsWithout(t, ps)[d] = NoDialog
         /\ DialogsWithout(t, ps)[d].state = "none" =>
              \/ dialog[d].state = "none"
              \/ DialogsWithout(t, ps)[d] = NoDialog
         /\ dialog[d].rows = {} => DialogsWithout(t, ps)[d].rows = {}
<1>1. dialog[d] \in DialogRecord
  BY DEF TypeOK, DialogRecord
<1>2. dialog[d].rows = {} => RowsWithout(dialog[d].rows, t, ps) = {}
  BY DEF RowsWithout
<1>3. CASE d \in Emptied(t, ps) /\ dialog[d].state = "shown"
  <2>1. DialogsWithout(t, ps)[d] = NoDialog
    BY <1>3 DEF DialogsWithout
  <2> QED
    BY <1>3, <2>1 DEF NoDialog
<1>4. CASE d \in Emptied(t, ps) /\ dialog[d].state = "accepted"
  <2>1. DialogsWithout(t, ps)[d] = [state |-> "rejected", rows |-> {}]
    BY <1>4 DEF DialogsWithout
  <2> QED
    BY <1>4, <2>1
<1>5. CASE ~(d \in Emptied(t, ps) /\ dialog[d].state \in {"shown", "accepted"})
  <2>1. DialogsWithout(t, ps)[d] = [dialog[d] EXCEPT !.rows = RowsWithout(@, t, ps)]
    BY <1>5 DEF DialogsWithout
  <2>2. DialogsWithout(t, ps)[d].state = dialog[d].state
        /\ DialogsWithout(t, ps)[d].rows = RowsWithout(dialog[d].rows, t, ps)
    BY <1>1, <2>1 DEF DialogRecord
  <2> QED
    BY <1>2, <1>5, <2>2
<1> QED
  BY <1>3, <1>4, <1>5

LEMMA NothingHiddenWithout ==
  ASSUME TypeOK, NothingHiddenIn(dialog), NEW t \in Tabs, NEW ps \in SUBSET Places
  PROVE  NothingHiddenIn(DialogsWithout(t, ps))
<1> SUFFICES ASSUME NEW d \in Dialogs, DialogsWithout(t, ps)[d].state = "none"
             PROVE  DialogsWithout(t, ps)[d].rows = {}
  BY DEF NothingHiddenIn
<1>1. CASE dialog[d].state = "none"
  BY <1>1, StateWithout DEF NothingHiddenIn
<1>2. CASE DialogsWithout(t, ps)[d] = NoDialog
  BY <1>2 DEF NoDialog
<1> QED
  BY <1>1, <1>2, StateWithout

\* The end of a database rejects at most the one dialog that is shown, so the
\* guard is released exactly when that dialog goes.
LEMMA OneReasonWithout ==
  ASSUME TypeOK, NothingHiddenIn(dialog), OneReason(dialog, inGlobal, typing),
         NEW t \in Tabs, NEW ps \in SUBSET Places,
         \A d \in Emptied(t, ps) : dialog[d].state # "accepted"
  PROVE  OneReason(DialogsWithout(t, ps), GuardWithout(t, ps), typing)
<1> DEFINE after == DialogsWithout(t, ps)
<1>1. ASSUME NEW d \in Emptied(t, ps) PROVE d \in Dialogs /\ dialog[d].state = "shown"
  <2>1. d \in Dialogs /\ dialog[d].rows # {}
    BY DEF Emptied
  <2>2. dialog[d].state \in {"none", "shown", "accepted", "rejected"}
    BY <2>1 DEF TypeOK
  <2> QED
    BY <2>1, <2>2 DEF OneReason, NothingHiddenIn
<1>2. \A d \in Dialogs : after[d].state = dialog[d].state \/ after[d] = NoDialog
  BY <1>1, StateWithout
<1>3. \A d \in Dialogs : after[d].state # "none" => after[d].state = dialog[d].state
  BY <1>2 DEF NoDialog
<1>4. ASSUME NEW d \in Dialogs, after[d].state = "shown"
      PROVE  dialog[d].state = "shown" /\ GuardWithout(t, ps)
  <2>1. dialog[d].state = "shown" /\ inGlobal
    BY <1>3, <1>4 DEF OneReason
  <2>2. d \notin Emptied(t, ps)
    BY <1>4, <2>1, StateWithout DEF NoDialog
  <2>3. Emptied(t, ps) = {}
    BY <1>1, <2>1, <2>2 DEF OneReason
  <2> QED
    BY <2>1, <2>3 DEF GuardWithout
<1>5. typing \in GlobalTyping => GuardWithout(t, ps)
  BY <1>1 DEF OneReason, GuardWithout
<1> HIDE DEF after
<1>6. OneReason(after, GuardWithout(t, ps), typing)
  BY <1>3, <1>4, <1>5 DEF OneReason
<1> QED
  BY <1>6 DEF after

\* A global Auto-Type adds at most a dialog that is shown.
LEMMA NothingHiddenPerform ==
  ASSUME NEW entries, NEW dialogs \in [Dialogs -> DialogRecord], NEW guard,
         NEW entry, NothingHiddenIn(dialogs), PerformGlobal(entries, dialogs, guard, entry)
  PROVE  NothingHiddenIn(dialog')
<1>1. CASE dialog' = dialogs
  BY <1>1 DEF NothingHiddenIn
<1>2. ASSUME NEW d \in Dialogs, NEW matches,
             dialog' = [dialogs EXCEPT ![d] = [state |-> "shown", rows |-> matches]]
      PROVE  NothingHiddenIn(dialog')
  <2>1. dialog'[d].state = "shown" /\ \A c \in Dialogs : c # d => dialog'[c] = dialogs[c]
    BY <1>2
  <2> QED
    BY <2>1 DEF NothingHiddenIn
<1> QED
  BY <1>1, <1>2 DEF PerformGlobal

LEMMA OneReasonPerform ==
  ASSUME NEW entries, NEW dialogs \in [Dialogs -> DialogRecord], NEW guard \in BOOLEAN,
         NEW entry, OneReason(dialogs, guard, typing),
         TypingHoldsItsMutex, PerformGlobal(entries, dialogs, guard, entry)
  PROVE  OneReason(dialog', inGlobal', typing')
<1>1. CASE dialog' = dialogs /\ inGlobal' = guard /\ UNCHANGED <<inAutoType, typing>>
  BY <1>1 DEF OneReason
<1>2. CASE /\ ~guard /\ inGlobal' = TRUE /\ dialog' = dialogs
           /\ \E e \in entries : StartTyping("a single match", e)
  <2>1. typing = "nobody" /\ typing' = "a single match"
    BY <1>2 DEF StartTyping, TypingHoldsItsMutex
  <2> QED
    BY <1>2, <2>1 DEF OneReason
<1>3. ASSUME NEW d \in Dialogs, NEW matches, ~guard, dialogs[d] = NoDialog,
             dialog' = [dialogs EXCEPT ![d] = [state |-> "shown", rows |-> matches]],
             inGlobal' = TRUE, UNCHANGED <<inAutoType, typing>>
      PROVE  OneReason(dialog', inGlobal', typing')
  <2>1. dialog'[d].state = "shown" /\ \A c \in Dialogs : c # d => dialog'[c] = dialogs[c]
    BY <1>3
  <2>2. \A c \in Dialogs : dialogs[c].state # "shown"
    BY <1>3 DEF OneReason
  <2>3. typing' \notin GlobalTyping
    BY <1>3 DEF OneReason
  <2>4. \A c \in Dialogs : dialog'[c].state \in {"shown", dialogs[c].state}
    BY <2>1
  <2>5. \A c \in Dialogs : dialog'[c].state = "shown" => c = d
    BY <2>1, <2>2
  <2>6. \A c \in Dialogs : dialog'[c].state # "rejected"
    BY <2>4 DEF OneReason
  <2>7. \A c \in Dialogs : dialog'[c].state = "accepted" => typing' = "a dialog"
    BY <1>3, <2>4 DEF OneReason
  <2> QED
    BY <1>3, <2>3, <2>5, <2>6, <2>7 DEF OneReason
<1> QED
  BY <1>1, <1>2, <1>3 DEF PerformGlobal

\* The end of the typing: the mutex that is released is held.
LEMMA OneReasonRelease ==
  ASSUME TypeOK, NEW dialogs \in [Dialogs -> DialogRecord], NEW guard \in BOOLEAN,
         typing # "a dialog" => OneReason(dialogs, guard, typing),
         typing = "a dialog" => \A d \in Dialogs : dialogs[d].state # "shown",
         NothingHiddenIn(dialogs), typing # "nobody",
         Release(guard), dialog' = Deleted(dialogs), typing' = "nobody"
  PROVE  /\ status' = "fine"
         /\ OneReason(dialog', inGlobal', typing')
         /\ NothingHiddenIn(dialog')
<1>1. typing \in {"a single match", "a dialog", "the entry's command"}
  BY DEF TypeOK, Callers
<1>2. NothingHiddenIn(dialog')
  BY DEF Deleted, NoDialog, NothingHiddenIn
<1>3. CASE typing = "a dialog"
  <2>1. inGlobal' = FALSE /\ status' = "fine"
    BY <1>3 DEF Release
  <2>2. ASSUME NEW d \in Dialogs PROVE dialog'[d].state = "none"
    <3>1. dialogs[d].state \in {"none", "accepted", "rejected"}
      BY <1>3 DEF DialogRecord
    <3> QED
      BY <1>3, <3>1 DEF Deleted, NoDialog
  <2> QED
    BY <1>2, <2>1, <2>2 DEF OneReason, GlobalTyping
<1>4. CASE typing = "a single match"
  <2>1. guard /\ dialog' = dialogs
    BY <1>4 DEF OneReason, GlobalTyping, Deleted
  <2>2. inGlobal' = FALSE /\ status' = "fine"
    BY <1>4, <2>1 DEF Release
  <2> QED
    BY <1>2, <1>4, <2>1, <2>2 DEF OneReason, GlobalTyping
<1>5. CASE typing = "the entry's command"
  <2>1. inGlobal' = guard /\ status' = "fine" /\ dialog' = dialogs
    BY <1>5 DEF Release, Deleted
  <2> QED
    BY <1>2, <1>5, <2>1 DEF OneReason, GlobalTyping
<1> QED
  BY <1>1, <1>3, <1>4, <1>5

LEMMA InitOneAtATime == Init => OneAtATime
BY DEF Init, OneAtATime, OneReason, NothingHiddenIn, NoDialog, GlobalTyping

\* Entries go: their dialogs lose rows, and an accepted one is early.
LEMMA WithoutOneAtATime ==
  ASSUME IInv, OneAtATime, NEW t \in Tabs, NEW ps \in SUBSET Places,
         early' = EarlyWithout(t, ps)
  PROVE  /\ NothingHiddenIn(DialogsWithout(t, ps))
         /\ ~early' => /\ status # "mutex unlocked twice"
                       /\ OneReason(DialogsWithout(t, ps), GuardWithout(t, ps), typing)
<1>1. TypeOK /\ NothingHiddenIn(dialog)
  BY DEF IInv, OneAtATime
<1>2. ~early' => ~early /\ \A d \in Emptied(t, ps) : dialog[d].state # "accepted"
  BY DEF EarlyWithout
<1> QED
  BY <1>1, <1>2, NothingHiddenWithout, OneReasonWithout DEF OneAtATime

LEMMA DialogStepOneAtATime ==
  ASSUME IInv, OneAtATime, NEW d \in Dialogs, MatchActivated(d) \/ DialogRejected(d)
  PROVE  OneAtATime'
<1>1. dialog[d].state = "shown" /\ dialog \in [Dialogs -> DialogRecord]
  BY DEF MatchActivated, DialogRejected, IInv, TypeOK, DialogRecord
<1>2. UNCHANGED early /\ status' # "mutex unlocked twice"
  BY DEF MatchActivated, DialogRejected, StartTyping
<1>3. ASSUME NEW e, StartTyping("a dialog", e), UNCHANGED inGlobal,
             dialog' = [dialog EXCEPT ![d].state = "accepted"]
      PROVE  OneAtATime'
  <2>1. typing = "nobody" /\ typing' = "a dialog"
    BY <1>3 DEF StartTyping, IInv, TypingHoldsItsMutex
  <2>2. dialog'[d].state = "accepted" /\ \A c \in Dialogs : c # d => dialog'[c] = dialog[c]
    BY <1>1, <1>3 DEF DialogRecord
  <2>3. NothingHiddenIn(dialog')
    BY <2>2 DEF OneAtATime, NothingHiddenIn
  <2>4. CASE ~early
    <3>1. OneReason(dialog, inGlobal, typing)
      BY <2>4 DEF OneAtATime
    <3>2. inGlobal /\ \A c \in Dialogs : dialog[c].state = "shown" => c = d
      BY <1>1, <3>1, Zenon DEF OneReason
    <3>3. \A c \in Dialogs : dialog'[c].state # "shown"
      BY <2>2, <3>2
    <3>4. \A c \in Dialogs : dialog'[c].state # "rejected"
      BY <2>2, <3>1 DEF OneReason
    <3> QED
      BY <1>2, <1>3, <2>1, <2>3, <2>4, <3>2, <3>3, <3>4 DEF OneAtATime, OneReason
  <2> QED
    BY <1>2, <2>3, <2>4 DEF OneAtATime
<1>4. ASSUME dialog' = [dialog EXCEPT ![d] = NoDialog], inGlobal' = FALSE,
             UNCHANGED <<inAutoType, typing>>
      PROVE  OneAtATime'
  <2>1. dialog'[d] = NoDialog /\ \A c \in Dialogs : c # d => dialog'[c] = dialog[c]
    BY <1>1, <1>4
  <2>2. NothingHiddenIn(dialog')
    <3>1. NoDialog.rows = {}
      BY DEF NoDialog
    <3>2. \A c \in Dialogs : dialog[c].state = "none" => dialog[c].rows = {}
      BY DEF OneAtATime, NothingHiddenIn
    <3> QED
      BY <2>1, <3>1, <3>2, Zenon DEF NothingHiddenIn
  <2>3. CASE ~early
    <3>1. OneReason(dialog, inGlobal, typing)
      BY <2>3 DEF OneAtATime
    <3>2. typing \notin GlobalTyping /\ \A c \in Dialogs : dialog[c].state = "shown" => c = d
      BY <1>1, <3>1, Zenon DEF OneReason
    <3>3. \A c \in Dialogs : dialog'[c].state # "shown"
      BY <2>1, <3>2 DEF NoDialog
    <3>4. /\ \A c \in Dialogs : dialog'[c].state # "rejected"
          /\ \A c \in Dialogs : dialog'[c].state = "accepted" => typing = "a dialog"
      <4>1. \A c \in Dialogs : dialog'[c].state = "none" \/ dialog'[c] = dialog[c]
        BY <2>1 DEF NoDialog
      <4> QED
        BY <3>1, <4>1 DEF OneReason
    <3> QED
      BY <1>2, <1>4, <2>2, <2>3, <3>2, <3>3, <3>4 DEF OneAtATime, OneReason
  <2> QED
    BY <1>2, <2>2, <2>3 DEF OneAtATime
<1> QED
  BY <1>3, <1>4 DEF MatchActivated, DialogRejected

LEMMA FinishOneAtATime ==
  ASSUME IInv, OneAtATime, Finish
  PROVE  OneAtATime'
<1>1. TypeOK /\ dialog \in [Dialogs -> DialogRecord] /\ inGlobal \in BOOLEAN
      /\ NothingHiddenIn(dialog)
  BY DEF IInv, TypeOK, DialogRecord, OneAtATime
<1>2. typing # "nobody" /\ typing' = "nobody" /\ early' = early
  BY DEF Finish, TypingEnds, TypingEndsRelocking
<1>3. CASE TypingEnds
  <2>1. Release(inGlobal) /\ dialog' = Deleted(dialog)
    BY <1>3 DEF TypingEnds
  <2>2. CASE ~early
    <3>1. OneReason(dialog, inGlobal, typing)
      BY <2>2 DEF OneAtATime
    <3>2. typing = "a dialog" => \A d \in Dialogs : dialog[d].state # "shown"
      BY <3>1 DEF OneReason, GlobalTyping
    <3>3. status' = "fine" /\ OneReason(dialog', inGlobal', typing') /\ NothingHiddenIn(dialog')
      BY <1>1, <1>2, <2>1, <3>1, <3>2, OneReasonRelease
    <3> QED
      BY <3>3 DEF OneAtATime, OneReason, NothingHiddenIn
  <2>3. NothingHiddenIn(dialog')
    BY <1>1, <2>1 DEF NothingHiddenIn, Deleted, NoDialog
  <2> QED
    BY <1>2, <2>2, <2>3 DEF OneAtATime, NothingHiddenIn
<1>4. CASE TypingEndsRelocking
  <2>1. PICK t \in Tabs :
          Release(GuardWithout(t, Places)) /\ dialog' = Deleted(DialogsWithout(t, Places))
    BY <1>4 DEF TypingEndsRelocking
  <2>2. Places \in SUBSET Places
    OBVIOUS
  <2>3. PICK dialogs, guard :
          dialogs = DialogsWithout(t, Places) /\ guard = GuardWithout(t, Places)
    OBVIOUS
  <2>4. dialogs \in [Dialogs -> DialogRecord] /\ NothingHiddenIn(dialogs)
    BY <1>1, <2>2, <2>3, DialogsWithoutType, NothingHiddenWithout
  <2>5. guard \in BOOLEAN
    BY <2>3, Zenon DEF GuardWithout
  <2>6. CASE ~early
    <3>1. OneReason(dialog, inGlobal, typing)
      BY <2>6 DEF OneAtATime
    <3>2. ASSUME typing # "a dialog"
          PROVE  OneReason(dialogs, guard, typing)
      <4>1. \A d \in Emptied(t, Places) : dialog[d].state # "accepted"
        BY <3>1, <3>2 DEF OneReason, Emptied
      <4> QED
        BY <1>1, <2>2, <2>3, <3>1, <4>1, OneReasonWithout
    <3>3. ASSUME typing = "a dialog", NEW d \in Dialogs
          PROVE  dialogs[d].state # "shown"
      <4>1. dialog[d].state # "shown"
        BY <3>1, <3>3 DEF OneReason, GlobalTyping
      <4> QED
        BY <1>1, <2>2, <2>3, <4>1, ShownWithout
    <3>4. status' = "fine" /\ OneReason(dialog', inGlobal', typing') /\ NothingHiddenIn(dialog')
      BY <1>1, <1>2, <2>1, <2>3, <2>4, <2>5, <3>2, <3>3, OneReasonRelease
    <3> QED
      BY <3>4 DEF OneAtATime, OneReason, NothingHiddenIn
  <2>7. NothingHiddenIn(dialog')
    BY <2>1, <2>3, <2>4 DEF NothingHiddenIn, Deleted, NoDialog
  <2> QED
    BY <1>2, <2>6, <2>7 DEF OneAtATime, NothingHiddenIn
<1> QED
  BY <1>3, <1>4 DEF Finish

LEMMA OneAtATimeStep == IInv /\ OneAtATime /\ [Next]_vars => OneAtATime'
<1> SUFFICES ASSUME IInv, OneAtATime, [Next]_vars PROVE OneAtATime'
  OBVIOUS
<1>1. TypeOK /\ TypingHoldsItsMutex /\ dialog \in [Dialogs -> DialogRecord]
      /\ inGlobal \in BOOLEAN /\ NothingHiddenIn(dialog)
  BY DEF IInv, TypeOK, DialogRecord, OneAtATime
<1>2. ASSUME UNCHANGED <<inGlobal, typing, dialog, early>>,
             UNCHANGED status \/ status' # "mutex unlocked twice"
      PROVE  OneAtATime'
  BY <1>2 DEF OneAtATime, OneReason, NothingHiddenIn
<1>3. CASE GlobalShortcut
  <2>1. status = "fine" /\ UNCHANGED early
    BY <1>3 DEF GlobalShortcut
  <2>2. CASE UNCHANGED <<mutexes, typing, sequence, dialog, status>>
    BY <1>2, <2>1, <2>2 DEF mutexes
  <2>3. ASSUME NEW entries, PerformGlobal(entries, dialog, inGlobal, reading) PROVE OneAtATime'
    <3>1. NothingHiddenIn(dialog')
      BY <1>1, <2>3, NothingHiddenPerform
    <3>2. status' # "mutex unlocked twice"
      BY <2>1, <2>3 DEF PerformGlobal, StartTyping
    <3>3. CASE ~early
      <4>1. OneReason(dialog, inGlobal, typing)
        BY <3>3 DEF OneAtATime
      <4>2. OneReason(dialog', inGlobal', typing')
        BY <1>1, <2>3, <4>1, OneReasonPerform
      <4> QED
        BY <2>1, <3>1, <3>2, <4>2 DEF OneAtATime, OneReason, NothingHiddenIn
    <3> QED
      BY <2>1, <3>1, <3>3 DEF OneAtATime, NothingHiddenIn
  <2> QED
    BY <1>3, <2>2, <2>3 DEF GlobalShortcut
<1>4. ASSUME NEW t \in Tabs, EntryCommand(t) PROVE OneAtATime'
  <2>1. typing = "nobody" /\ typing' = "the entry's command"
        /\ status' # "mutex unlocked twice" /\ UNCHANGED <<inGlobal, dialog, early>>
    BY <1>1, <1>4 DEF EntryCommand, StartTyping, TypingHoldsItsMutex
  <2> QED
    BY <2>1 DEF OneAtATime, OneReason, NothingHiddenIn, GlobalTyping
<1>5. ASSUME NEW t \in Tabs, NEW ps \in SUBSET Places, early' = EarlyWithout(t, ps),
             dialog' = DialogsWithout(t, ps), inGlobal' = GuardWithout(t, ps),
             UNCHANGED <<typing, status>>
      PROVE  OneAtATime'
  <2>1. /\ NothingHiddenIn(dialog')
        /\ ~early' => /\ status # "mutex unlocked twice"
                      /\ OneReason(dialog', inGlobal', typing)
    BY <1>5, WithoutOneAtATime
  <2> QED
    BY <1>5, <2>1 DEF OneAtATime, OneReason, NothingHiddenIn
<1>6. ASSUME NEW t \in Tabs, Lock(t) \/ Reload(t) \/ Show(t) \/ Close(t) PROVE OneAtATime'
  <2>1. /\ early' = EarlyWithout(t, Places) /\ dialog' = DialogsWithout(t, Places)
        /\ inGlobal' = GuardWithout(t, Places) /\ UNCHANGED <<typing, status>>
    BY <1>6 DEF Lock, Reload, Show, Close, Replace, Becomes
  <2> QED
    BY <1>5, <2>1
<1>7. ASSUME NEW t \in Tabs, NEW p \in Places, EntriesGo(t, p) PROVE OneAtATime'
  <2>1. /\ early' = EarlyWithout(t, {p}) /\ dialog' = DialogsWithout(t, {p})
        /\ inGlobal' = GuardWithout(t, {p}) /\ UNCHANGED <<typing, status>>
    BY <1>7 DEF EntriesGo
  <2> QED
    BY <1>5, <2>1
<1>8. CASE UnlockDialogAccepted
  <2>1. PICK t \in Tabs :
          /\ Becomes(t, "open")
          /\ PerformGlobal(EntriesOf({t}), DialogsWithout(t, Places), GuardWithout(t, Places),
                           ReadingWithout(t, Places))
    BY <1>1, <1>8 DEF UnlockDialogAccepted, TypeOK
  <2>2. PICK entries, dialogs, guard, entry :
          /\ entries = EntriesOf({t})
          /\ dialogs = DialogsWithout(t, Places)
          /\ guard = GuardWithout(t, Places)
          /\ entry = ReadingWithout(t, Places)
    OBVIOUS
  <2>3. early' = EarlyWithout(t, Places) /\ PerformGlobal(entries, dialogs, guard, entry)
    BY <2>1, <2>2 DEF Becomes
  <2>4. Places \in SUBSET Places
    OBVIOUS
  <2>5. NothingHiddenIn(dialogs) /\ (~early' => OneReason(dialogs, guard, typing))
    BY <2>2, <2>3, <2>4, WithoutOneAtATime
  <2>6. dialogs \in [Dialogs -> DialogRecord]
    BY <1>1, <2>2, <2>4, DialogsWithoutType
  <2>7. guard \in BOOLEAN
    BY <2>2, Zenon DEF GuardWithout
  <2>8. status' # "mutex unlocked twice"
    BY <1>8, <2>3 DEF PerformGlobal, StartTyping, UnlockDialogAccepted
  <2>9. NothingHiddenIn(dialog')
    BY <2>3, <2>5, <2>6, NothingHiddenPerform
  <2>10. ~early' => OneReason(dialog', inGlobal', typing')
    BY <1>1, <2>3, <2>5, <2>6, <2>7, OneReasonPerform
  <2> QED
    BY <2>8, <2>9, <2>10 DEF OneAtATime, OneReason, NothingHiddenIn
<1>9. CASE UnlockDialogRejected \/ Proceed \/ UNCHANGED vars
  <2>1. UNCHANGED <<inGlobal, typing, dialog, early>>
        /\ (UNCHANGED status \/ status' # "mutex unlocked twice")
    BY <1>9 DEF UnlockDialogRejected, Proceed, mutexes, vars
  <2> QED
    BY <1>2, <2>1
<1>10. CASE Finish
  BY <1>10, FinishOneAtATime
<1>11. ASSUME NEW d \in Dialogs, DialogStep(d) PROVE OneAtATime'
  <2>1. CASE RowPainted(d)
    BY <1>2, <2>1 DEF RowPainted, mutexes
  <2>2. CASE MatchActivated(d) \/ DialogRejected(d)
    BY <2>2, DialogStepOneAtATime
  <2> QED
    BY <1>11, <2>1, <2>2 DEF DialogStep
<1> QED
  BY <1>3, <1>4, <1>6, <1>7, <1>8, <1>9, <1>10, <1>11 DEF Next, TabStep

(***************************************************************************)
(* The guard does its work: never two select dialogs, and no mutex is      *)
(* unlocked twice (m_inGlobalAutoTypeDialog), for any number of tabs and   *)
(* dialogs, unless a dialog was rejected while its choice was typed.       *)
(***************************************************************************)
THEOREM OneDialogAtATime == Spec => []GuardWorks
<1>1. OneAtATime => GuardWorks
  <2> SUFFICES ASSUME OneAtATime, ~early PROVE GuardWorks
    BY DEF GuardWorks
  <2> DEFINE open == {d \in Dialogs : dialog[d].state = "shown"}
  <2>1. status # "mutex unlocked twice" /\ \A c, d \in open : c = d
    BY DEF OneAtATime, OneReason
  <2>2. Cardinality(open) <= 1
    <3>1. CASE open = {}
      BY <3>1, FS_EmptySet
    <3>2. CASE open # {}
      <4>1. PICK d : open = {d}
        BY <2>1, <3>2
      <4> QED
        BY <4>1, FS_Singleton
    <3> QED
      BY <3>1, <3>2
  <2> QED
    BY <2>1, <2>2 DEF GuardWorks
<1> QED
  BY <1>1, Invariance, InitInv, InitOneAtATime, InvStep, OneAtATimeStep, PTL DEF Spec

----------------------------------------------------------------------------
(* Databases to be locked again *)

\* A database that was unlocked for Auto-Type and is locked or closed again is
\* not counted any more.
UnlockedAreOpen == \A t \in unlockedFor : mode[t] = "open"

LEMMA UnlockedAreOpenStep == IInv /\ UnlockedAreOpen /\ [Next]_vars => UnlockedAreOpen'
<1> SUFFICES ASSUME IInv, UnlockedAreOpen, [Next]_vars PROVE UnlockedAreOpen'
  OBVIOUS
<1>1. mode \in [Tabs -> {"closed", "locked", "open"}] /\ unlockedFor \in SUBSET Tabs
      /\ unlockDialog \in Tabs \cup {None}
  BY DEF IInv, TypeOK
<1>2. ASSUME UNCHANGED <<mode, unlockedFor>> PROVE UnlockedAreOpen'
  BY <1>2 DEF UnlockedAreOpen
<1>3. ASSUME NEW t \in Tabs, Lock(t) \/ Reload(t) \/ Show(t) \/ Close(t)
      PROVE  UnlockedAreOpen'
  <2>1. PICK m : mode' = [mode EXCEPT ![t] = m]
    BY <1>3 DEF Lock, Reload, Show, Close, Replace, Becomes
  <2>2. CASE Lock(t) \/ Close(t)
    <3>1. unlockedFor' = unlockedFor \ {t}
      BY <2>2 DEF Lock, Close
    <3> QED
      BY <1>1, <2>1, <3>1 DEF UnlockedAreOpen
  <2>3. CASE Reload(t) \/ Show(t)
    <3>1. unlockedFor' = unlockedFor /\ mode' = [mode EXCEPT ![t] = "open"]
      BY <2>3 DEF Reload, Show, Replace, Becomes
    <3> QED
      BY <1>1, <3>1 DEF UnlockedAreOpen
  <2> QED
    BY <1>3, <2>2, <2>3
<1>4. CASE UnlockDialogAccepted
  <2>1. PICK t \in Tabs : /\ unlockedFor' = unlockedFor \cup {t}
                          /\ mode' = [mode EXCEPT ![t] = "open"]
    BY <1>1, <1>4 DEF UnlockDialogAccepted, Becomes
  <2> QED
    BY <1>1, <2>1 DEF UnlockedAreOpen
<1>5. CASE TypingEndsRelocking
  <2>1. PICK t \in Tabs : /\ unlockedFor' = unlockedFor \ {t}
                          /\ mode' = [mode EXCEPT ![t] = "locked"]
    BY <1>5 DEF TypingEndsRelocking
  <2> QED
    BY <1>1, <2>1 DEF UnlockedAreOpen
<1>6. CASE GlobalShortcut \/ UnlockDialogRejected \/ Proceed \/ TypingEnds \/ UNCHANGED vars
           \/ (\E t \in Tabs : EntryCommand(t) \/ \E p \in Places : EntriesGo(t, p))
           \/ (\E d \in Dialogs : DialogStep(d))
  BY <1>2, <1>6 DEF GlobalShortcut, UnlockDialogRejected, Proceed, TypingEnds, EntryCommand,
     EntriesGo, DialogStep, MatchActivated, RowPainted, DialogRejected, vars, databases
<1> QED
  BY <1>3, <1>4, <1>5, <1>6 DEF Next, TabStep, Finish

(***************************************************************************)
(* The mark of a database that was unlocked for Auto-Type stays until the  *)
(* database is locked or closed (DatabaseTabWidget::m_dbPendingLock).      *)
(***************************************************************************)
THEOREM TheMarkStays == Spec => MarkStaysWhileUnlocked
<1>1. ASSUME IInv, UnlockedAreOpen, [Next]_vars,
             NEW t \in unlockedFor \cap unlockedFor', pendingLock = t
      PROVE  pendingLock' = t
  <2>1. t \in Tabs /\ mode[t] = "open"
    BY <1>1 DEF IInv, TypeOK, UnlockedAreOpen
  <2>2. CASE GlobalShortcut
    <3>1. {u \in Tabs : mode[u] = "open"} # {}
      BY <2>1
    <3> QED
      BY <1>1, <2>2, <3>1 DEF GlobalShortcut, relocking
  <2>3. CASE TypingEnds
    BY <1>1, <2>1, <2>3 DEF TypingEnds
  <2>4. ~TypingEndsRelocking
    BY <1>1 DEF TypingEndsRelocking
  <2>5. ASSUME NEW u \in Tabs, TabStep(u) PROVE pendingLock' = t
    <3>1. CASE Close(u)
      BY <1>1, <3>1 DEF Close
    <3>2. CASE EntryCommand(u) \/ Lock(u) \/ Reload(u) \/ Show(u)
               \/ \E p \in Places : EntriesGo(u, p)
      BY <1>1, <3>2 DEF EntryCommand, Lock, Reload, Show, EntriesGo, relocking
    <3> QED
      BY <2>5, <3>1, <3>2 DEF TabStep
  <2>6. CASE UnlockDialogAccepted \/ UnlockDialogRejected \/ Proceed \/ UNCHANGED vars
             \/ (\E d \in Dialogs : DialogStep(d))
    BY <1>1, <2>6 DEF UnlockDialogAccepted, UnlockDialogRejected, Proceed, DialogStep,
       MatchActivated, RowPainted, DialogRejected, vars, relocking
  <2> QED
    BY <1>1, <2>2, <2>3, <2>4, <2>5, <2>6 DEF Next, Finish
<1>2. IInv /\ UnlockedAreOpen /\ [Next]_vars =>
        [\A t \in unlockedFor \cap unlockedFor' : pendingLock = t => pendingLock' = t]_vars
  BY <1>1
<1>3. Init => UnlockedAreOpen
  BY DEF Init, UnlockedAreOpen
<1> QED
  BY <1>2, <1>3, InitInv, InvStep, UnlockedAreOpenStep, PTL DEF Spec, MarkStaysWhileUnlocked

=============================================================================
