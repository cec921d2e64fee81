----------------------- MODULE DatabaseSessionProofs -----------------------
(***************************************************************************)
(* The properties of a database tab for any set of changes, any depth of   *)
(* nested questions and, but for two, any settings.                        *)
(***************************************************************************)
EXTENDS DatabaseSession, SequenceTheorems, TLAPS

----------------------------------------------------------------------------
(* The inductive invariant *)

\* Only the reload and the browser integration ask while another question is open.
AskedFirst ==
  \A i \in DOMAIN frames :
    i < Len(frames) =>
      frames[i].kind \in {"askReload", "askMerge", "askUpdate",
                         "retrySave", "retryUnread", "retryDeclined"}

ClosedIsQuiet == mode = "closed" => frames = << >> /\ ~timer

NothingUnsavedWithout == mode \in {"locked", "closed"} => ~unsaved

\* What is undefined stays so: nobody goes on.
UndefinedByUser == mode \in {"undefined", "emptied"} => frames = << >>

LockedHasNoDatabase ==
  mode = "locked" => \A i \in DOMAIN frames : ~frames[i].current

ParentWhileCreating ==
  newParent = "current" => mode \in {"create", "closed", "undefined"}

Parts ==
  /\ AskedFirst /\ ClosedIsQuiet /\ NothingUnsavedWithout
  /\ UndefinedByUser /\ LockedHasNoDatabase /\ ParentWhileCreating

IInv == TypeOK /\ Parts

----------------------------------------------------------------------------
(* Outcomes of the handlers that return at once *)

GoodWatches == {w \in Watches : w.ignored => w.unblockTimer}

Outcome == [file : (SUBSET Changes) \cup {Absent}, timer : BOOLEAN, unsaved : BOOLEAN,
            tab : BOOLEAN, widget : BOOLEAN, watch : GoodWatches]

FieldsOK ==
  /\ file \in (SUBSET Changes) \cup {Absent}
  /\ timer \in BOOLEAN /\ unsaved \in BOOLEAN
  /\ tabModified \in BOOLEAN /\ widgetModified \in BOOLEAN
  /\ watch \in GoodWatches

RestOK ==
  /\ mode \in Modes
  /\ mem \subseteq Changes
  /\ frames \in Seq(Frames) /\ Len(frames) <= MaxFrames
  /\ editorStale \in BOOLEAN
  /\ newParent \in {"none", "current", "stale"}
  /\ pendingLock \in BOOLEAN
  /\ mode = "create" => newParent # "none"

LEMMA TypeIsFields == TypeOK <=> FieldsOK /\ RestOK
<1>1. file \in (SUBSET Changes) \cup {Absent} <=> file = Absent \/ file \subseteq Changes
  OBVIOUS
<1>2. watch \in GoodWatches <=> watch \in Watches /\ (watch.ignored => watch.unblockTimer)
  BY Zenon DEF GoodWatches
<1> QED
  BY <1>1, <1>2, Zenon DEF TypeOK, FieldsOK, RestOK

LEMMA NowType == TypeOK => Now \in Outcome
BY TypeIsFields, Zenon DEF FieldsOK, Now, Outcome

LEMMA NowIs ==
  /\ Now.file = file /\ Now.timer = timer /\ Now.unsaved = unsaved
  /\ Now.tab = tabModified /\ Now.widget = widgetModified /\ Now.watch = watch
BY DEF Now

LEMMA BecomesType ==
  ASSUME NEW o \in Outcome, Becomes(o)
  PROVE  FieldsOK'
BY Zenon DEF Outcome, Becomes, FieldsOK

LEMMA BlockedType ==
  ASSUME NEW w \in GoodWatches
  PROVE  /\ Blocked(w) \in GoodWatches
         /\ Renewed(w) \in GoodWatches /\ Renewed(w).unblockTimer
         /\ Blocked(w).watched = w.watched /\ Blocked(w).unblockTimer
BY DEF Blocked, Renewed, GoodWatches, Watches

LEMMA SavedType ==
  ASSUME mem \subseteq Changes, NEW o \in Outcome
  PROVE  /\ Saved(o) \in Outcome
         /\ Saved(o).file = mem /\ Saved(o).timer = FALSE /\ Saved(o).unsaved = FALSE
         /\ Saved(o).tab = FALSE /\ Saved(o).widget = FALSE /\ Saved(o).watch.unblockTimer
<1>1. o.watch \in GoodWatches
  BY DEF Outcome
<1>2. Renewed(o.watch) \in GoodWatches /\ Renewed(o.watch).unblockTimer
  BY <1>1, BlockedType
<1> QED
  BY <1>2 DEF Saved, Outcome

LEMMA SaveFailedType ==
  ASSUME NEW o \in Outcome, NEW p \in SaveFailed(o)
  PROVE  /\ p \in Outcome
         /\ p.tab = TRUE /\ p.timer \in {o.timer, FALSE}
         /\ p.file = o.file /\ p.unsaved = o.unsaved /\ p.widget = o.widget
         /\ p.watch.unblockTimer
<1>1. o.watch \in GoodWatches /\ o.timer \in BOOLEAN
  BY DEF Outcome
<1>2. PICK t \in {o.timer, FALSE} : p = [o EXCEPT !.timer = t, !.tab = TRUE, !.watch = Blocked(@)]
  BY DEF SaveFailed
<1>3. Blocked(o.watch) \in GoodWatches /\ Blocked(o.watch).unblockTimer
  BY <1>1, BlockedType
<1>4. t \in BOOLEAN
  BY <1>1
<1> QED
  BY <1>2, <1>3, <1>4 DEF Outcome

\* What saveDatabase may do.
LEMMA SaveDatabaseType ==
  ASSUME mem \subseteq Changes, NEW o \in Outcome, NEW p \in SaveDatabase(o)
  PROVE  /\ p \in Outcome
         /\ \/ mode = "locked" /\ p = o
            \/ /\ mode # "locked" /\ p = Saved(o)
            \/ /\ mode # "locked" /\ p \in SaveFailed(o)
         /\ SaveSucceeded(p) => mode = "locked" \/ p = Saved(o)
<1>1. CASE mode = "locked"
  BY <1>1 DEF SaveDatabase
<1>2. CASE mode # "locked"
  <2>1. p = Saved(o) \/ p \in SaveFailed(o)
    BY <1>2 DEF SaveDatabase
  <2>2. p \in SaveFailed(o) => p.tab = TRUE
    BY SaveFailedType
  <2>3. p \in SaveFailed(o) => ~SaveSucceeded(p)
    BY <1>2, <2>2 DEF SaveSucceeded
  <2> QED
    BY <1>2, <2>1, <2>3, SavedType, SaveFailedType
<1> QED
  BY <1>1, <1>2

\* What DatabaseTabWidget::modified may do: save, or mark the tab.
LEMMA ModifiedType ==
  ASSUME mem \subseteq Changes, NEW o \in Outcome, NEW p \in Modified(o)
  PROVE  /\ p \in Outcome
         /\ \/ p \in SaveDatabase(o) /\ TRUE \in AutoSave
            \/ /\ p.tab = TRUE /\ p.timer = o.timer /\ p.unsaved = o.unsaved
               /\ p.file = o.file /\ p.watch = o.watch
               /\ p.widget = (o.widget \/ ~o.tab)
               /\ FALSE \in AutoSave
<1>1. PICK auto \in AutoSave :
        p \in (IF auto THEN SaveDatabase(o)
               ELSE {[o EXCEPT !.tab = TRUE, !.widget = @ \/ ~o.tab]})
  BY DEF Modified
<1>2. auto \in BOOLEAN
  BY SettingsAssumption
<1>3. CASE auto = TRUE
  BY <1>1, <1>3, SaveDatabaseType
<1>4. CASE auto = FALSE
  <2>1. p = [o EXCEPT !.tab = TRUE, !.widget = o.widget \/ ~o.tab]
    BY <1>1, <1>4 DEF Outcome
  <2>2. (o.widget \/ ~o.tab) \in BOOLEAN
    BY DEF Outcome
  <2> HIDE <1>1
  <2> QED
    BY <1>4, <2>1, <2>2 DEF Outcome
<1> QED
  BY <1>2, <1>3, <1>4

LEMMA RewatchedType ==
  ASSUME NEW o \in Outcome
  PROVE  /\ Rewatched(o) \in Outcome
         /\ Rewatched(o).watch.watched = (o.file # Absent)
         /\ Rewatched(o).file = o.file /\ Rewatched(o).timer = o.timer
         /\ Rewatched(o).unsaved = o.unsaved
         /\ Rewatched(o).tab = o.tab /\ Rewatched(o).widget = o.widget
BY DEF Rewatched, Outcome, GoodWatches, Watches

----------------------------------------------------------------------------
(* The stack of questions *)

Asks == {"askReload", "askMerge"}

\* Questions that may be asked while another one is open.
Nested == {"askReload", "askMerge", "askUpdate",
           "retrySave", "retryUnread", "retryDeclined"}

\* What is left of the stack when the innermost handler goes on.
Left(waiting) == waiting = frames \/ (~Idle /\ waiting = Tail(frames))

LEMMA StackFacts ==
  ASSUME TypeOK
  PROVE  /\ Len(frames) \in Nat /\ DOMAIN frames = 1..Len(frames)
         /\ \A i \in 1..Len(frames) : frames[i] \in Frames
         /\ MaxFrames \in Nat /\ Len(frames) <= MaxFrames
         /\ Idle <=> Len(frames) = 0
         /\ ~Idle => /\ Top = frames[1] /\ Top \in Frames
                     /\ Waiting \in Seq(Frames) /\ Len(Waiting) = Len(frames) - 1
                     /\ DOMAIN Waiting = 1..(Len(frames) - 1)
                     /\ \A i \in 1..(Len(frames) - 1) : Waiting[i] = frames[i + 1]
<1>1. frames \in Seq(Frames) /\ Len(frames) <= MaxFrames
  BY DEF TypeOK
<1>2. /\ Len(frames) \in Nat /\ DOMAIN frames = 1..Len(frames)
      /\ \A i \in 1..Len(frames) : frames[i] \in Frames
  BY <1>1, LenProperties, ElementOfSeq
<1>3. Idle <=> Len(frames) = 0
  BY <1>1, <1>2, EmptySeq DEF Idle
<1>4. ASSUME ~Idle
      PROVE  /\ Top = frames[1] /\ Top \in Frames
             /\ Waiting \in Seq(Frames) /\ Len(Waiting) = Len(frames) - 1
             /\ \A i \in 1..Len(Waiting) : Waiting[i] = frames[i + 1]
  <2>1. frames # << >>
    BY <1>4 DEF Idle
  <2> QED
    BY <1>1, <2>1, HeadTailProperties DEF Top, Waiting
<1>5. ~Idle => DOMAIN Waiting = 1..Len(Waiting)
  BY <1>4, LenProperties
<1> QED
  BY <1>1, <1>2, <1>3, <1>4, <1>5, BoundAssumption

\* What is left is a stack with frames of the old one.
LEMMA LeftFacts ==
  ASSUME TypeOK, AskedFirst, NEW waiting, Left(waiting)
  PROVE  /\ waiting \in Seq(Frames) /\ Len(waiting) \in Nat /\ Len(waiting) <= Len(frames)
         /\ DOMAIN waiting = 1..Len(waiting)
         /\ \A i \in 1..Len(waiting) : waiting[i] \in Frames
         /\ \A i \in 1..Len(waiting) : \E j \in 1..Len(frames) : waiting[i] = frames[j]
         /\ \A i \in 1..Len(waiting) : i < Len(waiting) => waiting[i].kind \in Nested
         /\ ~Idle => \A i \in 2..Len(frames) :
                       \E j \in 1..Len(waiting) : waiting[j] = frames[i]
<1>1. CASE waiting = frames
  BY <1>1, StackFacts DEF AskedFirst, Nested, TypeOK
<1>2. CASE ~Idle /\ waiting = Waiting
  <2>1. /\ Len(frames) \in Nat /\ Len(frames) > 0 /\ Len(waiting) = Len(frames) - 1
        /\ waiting \in Seq(Frames) /\ DOMAIN waiting = 1..Len(waiting)
        /\ \A i \in 1..Len(waiting) : waiting[i] = frames[i + 1]
        /\ \A i \in 1..Len(frames) : frames[i] \in Frames
        /\ \A i \in 1..Len(frames) : i < Len(frames) => frames[i].kind \in Nested
    <3>1. /\ Len(frames) \in Nat /\ Len(frames) # 0 /\ Len(waiting) = Len(frames) - 1
          /\ waiting \in Seq(Frames) /\ DOMAIN waiting = 1..(Len(frames) - 1)
          /\ \A i \in 1..(Len(frames) - 1) : waiting[i] = frames[i + 1]
          /\ \A i \in 1..Len(frames) : frames[i] \in Frames
          /\ DOMAIN frames = 1..Len(frames)
      BY <1>2, StackFacts
    <3>2. \A i \in 1..Len(frames) : i < Len(frames) => frames[i].kind \in Nested
      BY <3>1 DEF AskedFirst, Nested
    <3> QED
      BY <3>1, <3>2
  <2>2. \A i \in 1..Len(waiting) : i + 1 \in 1..Len(frames)
                                   /\ (i < Len(waiting) => i + 1 < Len(frames))
    BY <2>1
  <2>3. \A i \in 2..Len(frames) : i - 1 \in 1..Len(waiting) /\ waiting[i - 1] = frames[i]
    BY <2>1
  <2> QED
    BY <2>1, <2>2, <2>3
<1> QED
  BY <1>1, <1>2 DEF Left, Waiting

\* Only the last frame is about locking, closing or deleting: nothing waits under it.
LEMMA NothingWaits ==
  ASSUME TypeOK, AskedFirst, ~Idle, Top.kind \notin Nested
  PROVE  Waiting = << >> /\ Len(frames) = 1
<1>1. /\ Len(frames) \in Nat /\ Len(frames) # 0 /\ 1 \in DOMAIN frames /\ Top = frames[1]
      /\ Waiting \in Seq(Frames) /\ Len(Waiting) = Len(frames) - 1
  <2>1. Len(frames) \in Nat /\ Len(frames) # 0 /\ DOMAIN frames = 1..Len(frames)
    BY StackFacts
  <2>2. 1 \in DOMAIN frames
    BY <2>1
  <2> QED
    BY <2>1, <2>2, StackFacts
<1>2. ~(1 < Len(frames))
  BY <1>1 DEF AskedFirst, Nested
<1>3. Len(frames) = 1 /\ Len(Waiting) = 0
  BY <1>1, <1>2
<1> QED
  BY <1>1, <1>3, EmptySeq

Pulled(waiting) == [i \in DOMAIN waiting |-> [waiting[i] EXCEPT !.current = FALSE]]

LEMMA PulledFacts ==
  ASSUME NEW waiting \in Seq(Frames)
  PROVE  /\ Pulled(waiting) \in Seq(Frames) /\ Len(Pulled(waiting)) = Len(waiting)
         /\ DOMAIN Pulled(waiting) = 1..Len(waiting)
         /\ \A i \in 1..Len(waiting) : /\ Pulled(waiting)[i].kind = waiting[i].kind
                                       /\ ~Pulled(waiting)[i].current
<1>1. /\ Len(waiting) \in Nat /\ DOMAIN waiting = 1..Len(waiting)
      /\ \A i \in 1..Len(waiting) : waiting[i] \in Frames
  BY LenProperties, ElementOfSeq
<1>2. \A f \in Frames : /\ [f EXCEPT !.current = FALSE] \in Frames
                        /\ [f EXCEPT !.current = FALSE].kind = f.kind
                        /\ ~[f EXCEPT !.current = FALSE].current
  BY DEF Frames
<1>3. \A i \in 1..Len(waiting) : [waiting[i] EXCEPT !.current = FALSE] \in Frames
  BY <1>1, <1>2
<1>4. Pulled(waiting) = [i \in 1..Len(waiting) |-> [waiting[i] EXCEPT !.current = FALSE]]
  BY <1>1 DEF Pulled
<1>5. Pulled(waiting) \in [1..Len(waiting) -> Frames]
  BY <1>3, <1>4
<1>6. Pulled(waiting) \in Seq(Frames) /\ Len(Pulled(waiting)) = Len(waiting)
  BY <1>1, <1>5
<1>7. DOMAIN Pulled(waiting) = 1..Len(waiting)
  BY <1>4
<1>8. ASSUME NEW i \in 1..Len(waiting)
      PROVE  Pulled(waiting)[i].kind = waiting[i].kind /\ ~Pulled(waiting)[i].current
  <2>1. Pulled(waiting)[i] = [waiting[i] EXCEPT !.current = FALSE]
    BY <1>4
  <2>2. waiting[i] \in Frames
    BY <1>1
  <2> QED
    BY <1>2, <2>1, <2>2, Zenon
<1> QED
  BY <1>6, <1>7, <1>8

LEMMA PushedFacts ==
  ASSUME NEW waiting \in Seq(Frames), NEW f \in Frames
  PROVE  /\ <<f>> \o waiting \in Seq(Frames) /\ Len(<<f>> \o waiting) = Len(waiting) + 1
         /\ DOMAIN (<<f>> \o waiting) = 1..(Len(waiting) + 1)
         /\ (<<f>> \o waiting)[1] = f
         /\ \A i \in 1..Len(waiting) : (<<f>> \o waiting)[i + 1] = waiting[i]
         /\ \A i \in 2..(Len(waiting) + 1) : (<<f>> \o waiting)[i] = waiting[i - 1]
<1>1. <<f>> \in Seq(Frames) /\ Len(<<f>>) = 1 /\ <<f>>[1] = f /\ Len(waiting) \in Nat
  BY LenProperties
<1>2. /\ <<f>> \o waiting \in Seq(Frames)
      /\ Len(<<f>> \o waiting) = 1 + Len(waiting)
      /\ \A i \in 1..(1 + Len(waiting)) :
           (<<f>> \o waiting)[i] = IF i <= 1 THEN <<f>>[i] ELSE waiting[i - 1]
  BY <1>1, ConcatProperties
<1>3. DOMAIN (<<f>> \o waiting) = 1..(Len(waiting) + 1)
  BY <1>1, <1>2, LenProperties
<1>4. (<<f>> \o waiting)[1] = f
  BY <1>1, <1>2
<1>5. ASSUME NEW i \in 2..(Len(waiting) + 1) PROVE (<<f>> \o waiting)[i] = waiting[i - 1]
  BY <1>1, <1>2
<1>6. ASSUME NEW i \in 1..Len(waiting) PROVE (<<f>> \o waiting)[i + 1] = waiting[i]
  <2>1. i + 1 \in 2..(Len(waiting) + 1) /\ (i + 1) - 1 = i
    BY <1>1
  <2> QED
    BY <1>5, <2>1
<1> QED
  BY <1>1, <1>2, <1>3, <1>4, <1>5, <1>6

----------------------------------------------------------------------------
(* The three kinds of steps, with what remains of the stack *)

\* A handler goes on and returns, or waits as before.
LEMMA StayStep ==
  ASSUME IInv, NEW o \in Outcome, Becomes(o), Keep, Left(frames'),
         mode = "closed" => ~o.timer,
         mode \in {"locked", "closed"} => ~o.unsaved
  PROVE  IInv'
<1> USE DEF IInv
<1>1. FieldsOK'
  BY BecomesType
<1>2. /\ UNCHANGED <<mode, mem, editorStale, newParent, pendingLock>>
      /\ timer' = o.timer /\ unsaved' = o.unsaved
  BY DEF Keep, Becomes
<1> DEFINE rest == frames'
<1>3. /\ rest \in Seq(Frames) /\ Len(rest) \in Nat /\ Len(rest) <= Len(frames)
      /\ DOMAIN rest = 1..Len(rest)
      /\ \A i \in 1..Len(rest) : \E j \in 1..Len(frames) : rest[i] = frames[j]
      /\ \A i \in 1..Len(rest) : i < Len(rest) => rest[i].kind \in Nested
  BY LeftFacts DEF Parts
<1>4. Len(frames) \in Nat /\ DOMAIN frames = 1..Len(frames) /\ MaxFrames \in Nat
      /\ Len(frames) <= MaxFrames
  BY StackFacts
<1>5. RestOK'
  <2>1. Len(rest) <= MaxFrames
    BY <1>3, <1>4
  <2> QED
    BY <1>2, <1>3, <2>1, TypeIsFields DEF RestOK
<1>6. TypeOK'
  BY <1>1, <1>5 DEF TypeOK, FieldsOK, RestOK, GoodWatches
<1>7. AskedFirst'
  BY <1>3 DEF AskedFirst, Nested
<1>8. ClosedIsQuiet' /\ NothingUnsavedWithout' /\ ParentWhileCreating' /\ UndefinedByUser'
  <2>1. mode \in {"closed", "undefined", "emptied"} => rest = << >>
    BY DEF Parts, ClosedIsQuiet, UndefinedByUser, Left, Idle
  <2> QED
    BY <1>2, <2>1 DEF Parts, ClosedIsQuiet, NothingUnsavedWithout, ParentWhileCreating,
       UndefinedByUser
<1>9. LockedHasNoDatabase'
  BY <1>2, <1>3, <1>4 DEF Parts, LockedHasNoDatabase
<1> QED
  BY <1>6, <1>7, <1>8, <1>9 DEF Parts

\* A handler asks.
LEMMA AskStep ==
  ASSUME IInv, NEW o \in Outcome, Becomes(o), Keep,
         NEW waiting, Left(waiting), Len(waiting) < MaxFrames,
         NEW f \in Frames, frames' = <<f>> \o waiting,
         waiting = << >> \/ f.kind \in Nested,
         mode \notin {"locked", "closed", "undefined", "emptied"}
  PROVE  IInv'
<1> USE DEF IInv
<1>1. FieldsOK'
  BY BecomesType
<1>2. UNCHANGED <<mode, mem, editorStale, newParent, pendingLock>>
  BY DEF Keep
<1>3. /\ waiting \in Seq(Frames) /\ Len(waiting) \in Nat /\ Len(waiting) <= Len(frames)
      /\ \A i \in 1..Len(waiting) : \E j \in 1..Len(frames) : waiting[i] = frames[j]
      /\ \A i \in 1..Len(waiting) : i < Len(waiting) => waiting[i].kind \in Nested
  BY LeftFacts DEF Parts
<1>4. Len(frames) \in Nat /\ DOMAIN frames = 1..Len(frames) /\ MaxFrames \in Nat
  BY StackFacts
<1> DEFINE stack == frames'
<1>5. /\ stack \in Seq(Frames) /\ Len(stack) = Len(waiting) + 1
      /\ DOMAIN stack = 1..(Len(waiting) + 1)
      /\ stack[1] = f
      /\ \A i \in 2..(Len(waiting) + 1) : stack[i] = waiting[i - 1]
  BY <1>3, PushedFacts
<1> HIDE DEF stack
<1>6. RestOK'
  <2>1. Len(stack) <= MaxFrames
    BY <1>3, <1>4, <1>5
  <2> QED
    BY <1>2, <1>5, <2>1, TypeIsFields DEF RestOK, stack
<1>7. TypeOK'
  BY <1>1, <1>6 DEF TypeOK, FieldsOK, RestOK, GoodWatches
<1>8. \A i \in 2..(Len(waiting) + 1) :
         /\ i - 1 \in 1..Len(waiting)
         /\ i < Len(waiting) + 1 => i - 1 < Len(waiting)
         /\ Len(waiting) # 0
  BY <1>3
<1>9. ASSUME NEW i \in 1..(Len(waiting) + 1), i < Len(waiting) + 1
      PROVE  stack[i].kind \in Nested
  <2>1. CASE i = 1
    <3>1. waiting # << >>
      BY <1>9, <2>1
    <3> QED
      BY <1>5, <2>1, <3>1
  <2>2. CASE i # 1
    <3>1. i \in 2..(Len(waiting) + 1)
      BY <1>3, <2>2
    <3> QED
      BY <1>3, <1>5, <1>8, <1>9, <3>1
  <2> QED
    BY <2>1, <2>2
<1>10. AskedFirst'
  BY <1>5, <1>9 DEF AskedFirst, Nested, stack
<1>11. /\ ClosedIsQuiet' /\ NothingUnsavedWithout' /\ ParentWhileCreating'
       /\ LockedHasNoDatabase' /\ UndefinedByUser'
  BY <1>2 DEF Parts, ClosedIsQuiet, NothingUnsavedWithout, ParentWhileCreating,
              LockedHasNoDatabase, UndefinedByUser
<1> QED
  BY <1>7, <1>10, <1>11 DEF Parts

\* The database is replaced, and the stack is what a handler leaves of it.
LEMMA ReplaceStep ==
  ASSUME IInv, NEW o \in Outcome, NEW content \in SUBSET Changes,
         NEW waiting, Left(waiting), Replace(o, content, waiting),
         mode' \in Modes \ {"closed", "undefined", "emptied"}, mode' = "create" => mode = "create",
         editorStale' \in BOOLEAN, pendingLock' \in BOOLEAN,
         mode' = "locked" => ~o.unsaved
  PROVE  IInv'
<1> USE DEF IInv
<1> DEFINE p == [o EXCEPT !.timer = FALSE, !.tab = o.widget]
           stack == frames'
<1>1. p \in Outcome /\ p.unsaved = o.unsaved
  BY DEF Outcome
<1>2. /\ Becomes(p) /\ mem' = content
      /\ stack = Pulled(waiting)
      /\ newParent' = IF newParent = "none" THEN "none" ELSE "stale"
  BY DEF Replace, Pulled
<1> HIDE DEF p, stack
<1>3. FieldsOK' /\ unsaved' = o.unsaved
  BY <1>1, <1>2, BecomesType DEF Becomes
<1>4. /\ waiting \in Seq(Frames) /\ Len(waiting) \in Nat /\ Len(waiting) <= Len(frames)
      /\ \A i \in 1..Len(waiting) : i < Len(waiting) => waiting[i].kind \in Nested
      /\ Len(frames) \in Nat /\ MaxFrames \in Nat /\ Len(frames) <= MaxFrames
  BY LeftFacts, StackFacts DEF Parts
<1>5. /\ stack \in Seq(Frames) /\ Len(stack) = Len(waiting)
      /\ DOMAIN stack = 1..Len(waiting)
      /\ \A i \in 1..Len(waiting) : stack[i].kind = waiting[i].kind /\ ~stack[i].current
  BY <1>2, <1>4, PulledFacts
<1>6. RestOK'
  <2>1. Len(stack) <= MaxFrames
    BY <1>4, <1>5
  <2>2. newParent \in {"none", "current", "stale"} /\ (mode = "create" => newParent # "none")
    BY DEF TypeOK
  <2>3. newParent' \in {"none", "stale"} /\ (mode' = "create" => newParent' # "none")
    BY <1>2, <2>2
  <2> QED
    BY <1>2, <1>5, <2>1, <2>3 DEF RestOK, stack
<1>7. TypeOK'
  BY <1>3, <1>6 DEF TypeOK, FieldsOK, RestOK, GoodWatches
<1>8. AskedFirst'
  BY <1>4, <1>5 DEF AskedFirst, Nested, stack
<1>9. ClosedIsQuiet' /\ UndefinedByUser' /\ NothingUnsavedWithout'
  BY <1>3 DEF ClosedIsQuiet, UndefinedByUser, NothingUnsavedWithout
<1>10. LockedHasNoDatabase'
  BY <1>5 DEF LockedHasNoDatabase, stack
<1>11. ParentWhileCreating'
  BY <1>2 DEF ParentWhileCreating
<1> QED
  BY <1>7, <1>8, <1>9, <1>10, <1>11 DEF Parts

----------------------------------------------------------------------------
(* Each action *)

LEMMA InitInvariant == Init => IInv
<1> SUFFICES ASSUME Init PROVE IInv
  OBVIOUS
<1>1. frames = << >> /\ frames \in Seq(Frames) /\ Len(frames) = 0 /\ MaxFrames \in Nat
  BY BoundAssumption DEF Init
<1>2. TypeOK
  <2>1. watch \in Watches /\ ~watch.ignored
    <3>1. FreshWatch \in Watches /\ ~FreshWatch.ignored
      BY DEF FreshWatch, Watches
    <3> QED
      BY <3>1 DEF Init
  <2>2. mode \in Modes /\ mem \subseteq Changes /\ file \subseteq Changes
    BY DEF Init, Modes, Unlocked
  <2>3. /\ unsaved \in BOOLEAN /\ timer \in BOOLEAN
        /\ tabModified \in BOOLEAN /\ widgetModified \in BOOLEAN
        /\ editorStale \in BOOLEAN /\ pendingLock \in BOOLEAN
    BY Zenon DEF Init
  <2>4. mode # "create" /\ newParent \in {"none", "current", "stale"}
    BY DEF Init
  <2>5. Len(frames) <= MaxFrames
    BY <1>1
  <2> QED
    BY <1>1, <2>1, <2>2, <2>3, <2>4, <2>5, Zenon DEF TypeOK
<1>3. DOMAIN frames = {}
  BY <1>1, EmptySeq
<1> QED
  BY <1>1, <1>2, <1>3 DEF Init, IInv, Parts, AskedFirst, ClosedIsQuiet, NothingUnsavedWithout,
        UndefinedByUser, LockedHasNoDatabase, ParentWhileCreating

\* A deleted object is used, or the view shows what locking put in place of one.
LEMMA EndStep ==
  ASSUME IInv, NEW last, End(last), last = "undefined" \/ (last = "emptied" /\ mode = "locked")
  PROVE  IInv'
<1>1. TypeOK /\ Parts
  BY DEF IInv
<1>2. UNCHANGED <<mem, unsaved, file, timer, tabModified, widgetModified, watch,
                  editorStale, newParent, pendingLock>>
      /\ mode' = last /\ last \in {"undefined", "emptied"} /\ frames' = << >>
  BY DEF End
<1>3. frames' \in Seq(Frames) /\ Len(frames') = 0 /\ MaxFrames \in Nat /\ DOMAIN frames' = {}
  BY <1>2, EmptySeq, BoundAssumption
<1>4. TypeOK'
  BY <1>1, <1>2, <1>3 DEF TypeOK, Modes
<1>5. ParentWhileCreating'
  BY <1>1, <1>2 DEF Parts, ParentWhileCreating
<1> QED
  BY <1>1, <1>2, <1>3, <1>4, <1>5 DEF IInv, Parts, AskedFirst, ClosedIsQuiet,
     NothingUnsavedWithout, UndefinedByUser, LockedHasNoDatabase

LEMMA UndefinedStep ==
  ASSUME IInv, Undefined
  PROVE  IInv'
BY EndStep DEF Undefined, End

\* The database changes, and a handler may go on and return.
LEMMA ChangedStep ==
  ASSUME IInv, NEW c \in Changes, Changed(c), Left(frames'), mode \in Unlocked
  PROVE  IInv'
<1>1. TypeOK /\ Parts
  BY DEF IInv
<1>2. /\ mem' = mem \cup {c} /\ unsaved' = TRUE /\ timer' = TRUE
      /\ UNCHANGED <<mode, file, tabModified, widgetModified, watch,
                     editorStale, newParent, pendingLock>>
  BY DEF Changed
<1> DEFINE rest == frames'
<1>3. /\ rest \in Seq(Frames) /\ Len(rest) \in Nat /\ Len(rest) <= Len(frames)
      /\ DOMAIN rest = 1..Len(rest)
      /\ \A i \in 1..Len(rest) : i < Len(rest) => rest[i].kind \in Nested
      /\ Len(frames) \in Nat /\ MaxFrames \in Nat /\ Len(frames) <= MaxFrames
  BY <1>1, LeftFacts, StackFacts DEF Parts
<1>4. Len(rest) <= MaxFrames
  BY <1>3
<1>5. TypeOK'
  BY <1>1, <1>2, <1>3, <1>4 DEF TypeOK
<1>6. AskedFirst'
  BY <1>3 DEF AskedFirst, Nested
<1> QED
  BY <1>1, <1>2, <1>5, <1>6 DEF IInv, Parts, ClosedIsQuiet, NothingUnsavedWithout,
        UndefinedByUser, LockedHasNoDatabase, ParentWhileCreating, Unlocked, EditModes

LEMMA ChangeStep ==
  ASSUME IInv, NEW c \in Changes, Change(c)
  PROVE  IInv'
BY ChangedStep DEF Change, Left

LEMMA OpenEditorStep ==
  ASSUME IInv, OpenEditor
  PROVE  IInv'
<1>1. TypeOK /\ Parts
  BY DEF IInv
<1>2. /\ mode = "view" /\ mode' \in {"edit", "create"}
      /\ mode' = "edit" => newParent' = newParent
      /\ mode' = "create" => newParent' = "current"
      /\ UNCHANGED <<mem, unsaved, file, timer, tabModified, widgetModified, watch,
                     frames, editorStale, pendingLock>>
  BY DEF OpenEditor
<1>3. TypeOK'
  BY <1>1, <1>2 DEF TypeOK, Modes, Unlocked, EditModes
<1> QED
  BY <1>1, <1>2, <1>3 DEF IInv, Parts, AskedFirst, ClosedIsQuiet, NothingUnsavedWithout,
        UndefinedByUser, LockedHasNoDatabase, ParentWhileCreating

\* What is open when the user locks or closes is gone, or it asks.
LEMMA FrameType ==
  ASSUME NEW kind \in Questions, NEW current \in BOOLEAN, NEW flag \in BOOLEAN,
         NEW content \in SUBSET Changes
  PROVE  LET f == [kind |-> kind, current |-> current, modified |-> flag,
                   content |-> content]
         IN f \in Frames /\ f.kind = kind /\ f.current = current
BY DEF Frames

LEMMA PushStep ==
  ASSUME IInv, NEW o \in Outcome, Becomes(o), Keep,
         NEW kind \in Questions, NEW flag \in BOOLEAN, NEW content \in SUBSET Changes,
         NEW waiting, Left(waiting), Push(kind, flag, content, waiting),
         waiting = << >> \/ kind \in Nested,
         mode \notin {"locked", "closed", "undefined", "emptied"}
  PROVE  IInv'
<1> DEFINE f == [kind |-> kind, current |-> TRUE, modified |-> flag, content |-> content]
<1>1. f \in Frames /\ f.kind = kind
  BY FrameType
<1>2. Len(waiting) < MaxFrames /\ frames' = <<f>> \o waiting
  BY DEF Push
<1> HIDE DEF f
<1> QED
  BY <1>1, <1>2, AskStep

\* A save that failed asks whether to go on without safe saves.
LEMMA AskRetryStep ==
  ASSUME IInv, NEW kind \in Retries, NEW o \in Outcome, NEW p, NEW waiting, Left(waiting),
         AskRetry(kind, o, p, waiting), Becomes(p), Keep,
         waiting = << >> \/ kind \in Nested,
         mode \notin {"closed", "undefined", "emptied"}
  PROVE  IInv'
<1>1. p \in SaveFailed(o) /\ mode # "locked" /\ Push(kind, FALSE, {}, waiting)
  BY DEF AskRetry
<1>2. p \in Outcome
  BY <1>1, SaveFailedType
<1>3. kind \in Questions /\ {} \in SUBSET Changes /\ FALSE \in BOOLEAN
  BY DEF Questions
<1> QED
  BY <1>1, <1>2, <1>3, PushStep

LEMMA ModifiedTimeoutStep ==
  ASSUME IInv, ModifiedTimeout
  PROVE  IInv'
<1>1. /\ TypeOK /\ Parts /\ mem \subseteq Changes /\ timer /\ Left(frames)
      /\ mode \notin {"closed", "undefined", "emptied"}
  BY DEF IInv, ModifiedTimeout, Alive, Unlocked, EditModes, TypeOK, Left
<1> DEFINE o == [Now EXCEPT !.timer = FALSE]
<1>2. o \in Outcome /\ o.timer = FALSE /\ o.unsaved = unsaved
  BY <1>1, NowType DEF Outcome, Now
<1>3. PICK p \in Modified(o) :
        Becomes(p) /\ (UNCHANGED frames \/ AskRetry("retrySave", o, p, frames))
  BY DEF ModifiedTimeout
<1>4. Keep
  BY DEF ModifiedTimeout
<1> HIDE DEF o
<1>5. p \in Outcome /\ (p.unsaved = o.unsaved \/ mode # "locked")
  <2>1. p \in Outcome /\ (p \in SaveDatabase(o) \/ p.unsaved = o.unsaved)
    BY <1>1, <1>2, <1>3, ModifiedType
  <2> QED
    BY <1>1, <1>2, <2>1, SaveDatabaseType
<1>6. mode = "locked" => ~p.unsaved
  BY <1>1, <1>2, <1>5 DEF Parts, NothingUnsavedWithout
<1>7. CASE UNCHANGED frames
  BY <1>1, <1>3, <1>4, <1>5, <1>6, <1>7, StayStep DEF Left
<1>8. CASE AskRetry("retrySave", o, p, frames)
  <2>1. "retrySave" \in Retries /\ "retrySave" \in Nested
    BY DEF Retries, Nested
  <2> QED
    BY <1>1, <1>2, <1>3, <1>4, <1>8, <2>1, AskRetryStep
<1> QED
  BY <1>3, <1>7, <1>8

LEMMA UserSaveStep ==
  ASSUME IInv, UserSave
  PROVE  IInv'
<1>1. /\ TypeOK /\ Parts /\ mem \subseteq Changes /\ mode = "view" /\ Now \in Outcome
      /\ Left(<< >>)
  BY NowType DEF IInv, UserSave, TypeOK, Left, Idle
<1>2. PICK p \in SaveDatabase(Now) :
        Becomes(p) /\ (UNCHANGED frames \/ AskRetry("retrySave", Now, p, << >>))
  BY DEF UserSave
<1>3. Keep
  BY DEF UserSave
<1>4. p \in Outcome
  BY <1>1, <1>2, SaveDatabaseType
<1>5. CASE UNCHANGED frames
  BY <1>1, <1>2, <1>3, <1>4, <1>5, StayStep DEF Left
<1>6. CASE AskRetry("retrySave", Now, p, << >>)
  <2>1. "retrySave" \in Retries
    BY DEF Retries
  <2> QED
    BY <1>1, <1>2, <1>3, <1>6, <2>1, AskRetryStep
<1> QED
  BY <1>2, <1>5, <1>6

\* The editor closes, and its handler goes on and returns.
LEMMA FinishedStep ==
  ASSUME IInv, NEW waiting, Left(waiting), Finished(waiting),
         mem' \in SUBSET Changes, unsaved' \in BOOLEAN, timer' \in BOOLEAN,
         UNCHANGED <<file, tabModified, widgetModified, watch>>
  PROVE  IInv'
<1>1. TypeOK /\ Parts
  BY DEF IInv
<1>2. /\ mode' = "view" /\ newParent' = "none" /\ editorStale' = FALSE
      /\ frames' = waiting /\ UNCHANGED pendingLock
  BY DEF Finished
<1>3. /\ waiting \in Seq(Frames) /\ Len(waiting) \in Nat /\ Len(waiting) <= Len(frames)
      /\ DOMAIN waiting = 1..Len(waiting)
      /\ \A i \in 1..Len(waiting) : i < Len(waiting) => waiting[i].kind \in Nested
      /\ Len(frames) \in Nat /\ MaxFrames \in Nat /\ Len(frames) <= MaxFrames
  BY <1>1, LeftFacts, StackFacts DEF Parts
<1>4. Len(waiting) <= MaxFrames
  BY <1>3
<1>5. TypeOK'
  BY <1>1, <1>2, <1>3, <1>4 DEF TypeOK, Modes, Unlocked
<1>6. AskedFirst'
  BY <1>2, <1>3 DEF AskedFirst, Nested
<1> QED
  BY <1>2, <1>5, <1>6 DEF IInv, Parts, ClosedIsQuiet, NothingUnsavedWithout,
        UndefinedByUser, LockedHasNoDatabase, ParentWhileCreating

LEMMA CommitEditStep ==
  ASSUME IInv, NEW c \in Changes, CommitEdit(c, << >>), Left(<< >>), mode \in Unlocked
  PROVE  IInv'
<1>1. TypeOK /\ Parts
  BY DEF IInv
<1>2. CASE Undefined
  BY <1>2, UndefinedStep
<1>3. CASE ~Undefined
  <2>1. /\ mem' = mem \cup {c} /\ unsaved' = TRUE /\ timer' = TRUE
        /\ UNCHANGED <<file, tabModified, widgetModified, watch>>
        /\ \/ Finished(<< >>)
           \/ /\ Push("askSequence", FALSE, {}, << >>)
              /\ UNCHANGED <<mode, editorStale, newParent, pendingLock>>
    BY <1>3 DEF CommitEdit
  <2>2. mem' \in SUBSET Changes
    BY <1>1, <2>1 DEF TypeOK
  <2>3. CASE Finished(<< >>)
    BY <2>1, <2>2, <2>3, FinishedStep
  <2>4. CASE /\ Push("askSequence", FALSE, {}, << >>)
             /\ UNCHANGED <<mode, editorStale, newParent, pendingLock>>
    <3> DEFINE f == [kind |-> "askSequence", current |-> TRUE, modified |-> FALSE,
                     content |-> {}]
    <3>1. f \in Frames
      BY FrameType DEF Questions
    <3>2. frames' = <<f>> \o << >> /\ Len(<< >>) < MaxFrames
      BY <2>4 DEF Push
    <3> HIDE DEF f
    <3>3. frames' \in Seq(Frames) /\ Len(frames') = 1 /\ DOMAIN frames' = 1..1
      BY <3>1, <3>2, PushedFacts, EmptySeq
    <3>4. Len(frames') <= MaxFrames
      BY <3>2, <3>3, BoundAssumption
    <3>5. TypeOK'
      BY <1>1, <2>1, <2>2, <2>4, <3>3, <3>4 DEF TypeOK
    <3>6. AskedFirst'
      BY <3>3 DEF AskedFirst
    <3> QED
      BY <1>1, <2>4, <3>5, <3>6 DEF IInv, Parts, ClosedIsQuiet, NothingUnsavedWithout,
         UndefinedByUser, LockedHasNoDatabase, ParentWhileCreating, Unlocked, EditModes
  <2> QED
    BY <2>1, <2>3, <2>4
<1> QED
  BY <1>2, <1>3

LEMMA AskApplyStep ==
  ASSUME IInv, AskApply(<< >>), Left(<< >>), mode \in Unlocked
  PROVE  IInv'
<1>1. Now \in Outcome /\ mode \notin {"locked", "closed", "undefined", "emptied"}
  BY NowType DEF IInv, Unlocked, EditModes
<1>2. "askApply" \in Questions /\ {} \in SUBSET Changes /\ FALSE \in BOOLEAN
  BY DEF Questions
<1>3. Push("askApply", FALSE, {}, << >>) /\ Becomes(Now) /\ Keep
  BY DEF AskApply
<1> QED
  BY <1>1, <1>2, <1>3, PushStep

LEMMA AcceptEditStep ==
  ASSUME IInv, NEW c \in Changes, AcceptEdit(c)
  PROVE  IInv'
<1>1. mode \in Unlocked /\ Left(<< >>) /\ (CommitEdit(c, << >>) \/ AskApply(<< >>))
  BY DEF AcceptEdit, Unlocked, Left, Idle
<1> QED
  BY <1>1, CommitEditStep, AskApplyStep

LEMMA CancelEditStep ==
  ASSUME IInv, CancelEdit
  PROVE  IInv'
<1>1. TypeOK /\ Now \in Outcome /\ mode \in EditModes /\ Left(<< >>)
  BY NowType DEF IInv, CancelEdit, Left, Idle
<1>2. CASE Undefined
  BY <1>2, UndefinedStep
<1>3. CASE /\ Finished(<< >>)
           /\ UNCHANGED <<mem, unsaved, file, timer, tabModified, widgetModified, watch>>
  BY <1>1, <1>3, FinishedStep DEF TypeOK
<1>4. CASE Push("askDiscard", FALSE, {}, << >>) /\ Becomes(Now) /\ Keep
  <2>1. "askDiscard" \in Questions /\ {} \in SUBSET Changes /\ FALSE \in BOOLEAN
    BY DEF Questions
  <2>2. mode \notin {"locked", "closed", "undefined", "emptied"}
    BY <1>1 DEF EditModes
  <2> QED
    BY <1>1, <1>4, <2>1, <2>2, PushStep
<1> QED
  BY <1>2, <1>3, <1>4 DEF CancelEdit

LEMMA LockStep ==
  ASSUME IInv, NEW o \in Outcome, NEW waiting, Left(waiting), Lock(o, waiting),
         pendingLock' \in BOOLEAN
  PROVE  IInv'
<1> DEFINE p == [o EXCEPT !.unsaved = FALSE]
<1>1. p \in Outcome /\ ~p.unsaved
  BY DEF Outcome
<1>2. /\ Replace(p, {}, waiting)
      /\ mode' = "locked" /\ editorStale' = FALSE
  BY DEF Lock
<1>3. mode' \in Modes \ {"closed", "undefined", "emptied"} /\ mode' # "create" /\ editorStale' \in BOOLEAN
  BY <1>2 DEF Modes
<1>4. {} \in SUBSET Changes
  OBVIOUS
<1> HIDE DEF p
<1> QED
  BY <1>1, <1>2, <1>3, <1>4, ReplaceStep

LEMMA LockUnlessModifiedStep ==
  ASSUME IInv, LockUnlessModified(<< >>), Left(<< >>), mode \in Unlocked
  PROVE  IInv'
<1>1. TypeOK /\ Now \in Outcome
  BY NowType DEF IInv
<1>2. CASE tabModified
  <2>1. Push("lockSave", FALSE, {}, << >>) /\ Becomes(Now) /\ Keep
    BY <1>2 DEF LockUnlessModified
  <2>2. "lockSave" \in Questions /\ {} \in SUBSET Changes /\ FALSE \in BOOLEAN
    BY DEF Questions, Retries
  <2>3. mode \notin {"locked", "closed", "undefined", "emptied"}
    BY DEF Unlocked, EditModes
  <2> QED
    BY <1>1, <2>1, <2>2, <2>3, PushStep
<1>3. CASE ~tabModified
  <2>1. Lock(Now, << >>) /\ pendingLock' \in BOOLEAN
    BY <1>1, <1>3 DEF LockUnlessModified, TypeOK
  <2> QED
    BY <1>1, <2>1, LockStep
<1> QED
  BY <1>2, <1>3

LEMMA LockDatabasesStep ==
  ASSUME IInv, LockDatabases
  PROVE  IInv'
<1>1. TypeOK /\ Now \in Outcome /\ Idle /\ mode \in Unlocked /\ Left(<< >>)
  BY NowType DEF IInv, LockDatabases, Left, Idle
<1>2. CASE Undefined
  BY <1>1, <1>2, UndefinedStep
<1>3. CASE Push("lockEdit", FALSE, {}, << >>) /\ Becomes(Now) /\ Keep
  <2>1. "lockEdit" \in Questions /\ {} \in SUBSET Changes /\ FALSE \in BOOLEAN
    BY DEF Questions, Retries
  <2>2. mode \notin {"locked", "closed", "undefined", "emptied"}
    BY <1>1 DEF Unlocked, EditModes
  <2> QED
    BY <1>1, <1>3, <2>1, <2>2, PushStep
<1>4. CASE LockUnlessModified(<< >>)
  BY <1>1, <1>4, LockUnlessModifiedStep
<1> QED
  BY <1>2, <1>3, <1>4 DEF LockDatabases

\* A question about locking, closing or deleting is the only one.
LEMMA OnlyQuestion ==
  ASSUME IInv, NEW kind \in Questions \ Nested, Asked(kind)
  PROVE  /\ ~Idle /\ Waiting = << >> /\ Left(<< >>) /\ Top \in Frames /\ Top.kind \notin Asks
         /\ Len(frames) = 1 /\ 1 \in DOMAIN frames /\ Top = frames[1]
         /\ Undefined => IInv'
         /\ mode \notin {"closed", "undefined", "emptied"}
         /\ Top.current => mode \notin {"locked", "closed", "undefined", "emptied"}
<1>1. TypeOK /\ Parts /\ ~Idle /\ Top.kind \notin Nested /\ Top.kind \notin Asks
  BY DEF IInv, Asked, Nested, Asks
<1>2. Waiting = << >> /\ Len(frames) = 1
  BY <1>1, NothingWaits DEF Parts
<1>3. Left(<< >>)
  BY <1>1, <1>2 DEF Left, Waiting
<1>4. Top \in Frames /\ Top = frames[1] /\ DOMAIN frames = 1..Len(frames)
  BY <1>1, StackFacts
<1>5. Undefined => IInv'
  BY UndefinedStep
<1>6. 1 \in DOMAIN frames
  BY <1>2, <1>4
<1>7. /\ mode \notin {"closed", "undefined", "emptied"}
      /\ Top.current => mode \notin {"locked", "closed", "undefined", "emptied"}
  BY <1>1, <1>4, <1>6 DEF Parts, LockedHasNoDatabase, UndefinedByUser, ClosedIsQuiet, Idle
<1> QED
  BY <1>1, <1>2, <1>3, <1>4, <1>5, <1>6, <1>7

\* An object that is still there is in a database that is open.
LEMMA CurrentIsUnlocked ==
  ASSUME IInv, ~Idle, Top.current
  PROVE  mode \in Unlocked
<1>1. TypeOK /\ Parts
  BY DEF IInv
<1>2. Top = frames[1] /\ 1 \in DOMAIN frames
  <2>1. Top = frames[1] /\ DOMAIN frames = 1..Len(frames) /\ Len(frames) \in Nat /\ Len(frames) # 0
    BY <1>1, StackFacts
  <2> QED
    BY <2>1
<1> QED
  BY <1>1, <1>2 DEF Parts, LockedHasNoDatabase, UndefinedByUser, ClosedIsQuiet, Idle, TypeOK, Modes

\* An editor's question is answered.
LEMMA ApplyEditStep ==
  ASSUME IInv, NEW c \in Changes, ApplyEdit(c)
  PROVE  IInv'
<1>1. Asked("askApply") /\ "askApply" \in Questions \ Nested
  BY DEF ApplyEdit, Questions, Nested
<1>2. CASE ~Top.current
  BY <1>1, <1>2, OnlyQuestion DEF ApplyEdit
<1>3. CASE Top.current
  <2>1. Left(<< >>) /\ CommitEdit(c, << >>) /\ mode \in Unlocked
    BY <1>1, <1>3, OnlyQuestion, CurrentIsUnlocked DEF ApplyEdit
  <2> QED
    BY <2>1, CommitEditStep
<1> QED
  BY <1>2, <1>3

LEMMA SequenceEditStep ==
  ASSUME IInv, NEW c \in Changes, SequenceEdit(c)
  PROVE  IInv'
<1>1. Asked("askSequence") /\ "askSequence" \in Questions \ Nested
  BY DEF SequenceEdit, Questions, Nested
<1>2. CASE ~Top.current
  BY <1>1, <1>2, OnlyQuestion DEF SequenceEdit
<1>3. CASE Top.current
  <2>1. /\ Left(<< >>) /\ mode \in Unlocked /\ TypeOK
        /\ \/ CommitEdit(c, << >>)
           \/ /\ Finished(<< >>)
              /\ UNCHANGED <<mem, unsaved, file, timer, tabModified, widgetModified, watch>>
    BY <1>1, <1>3, OnlyQuestion, CurrentIsUnlocked DEF SequenceEdit, IInv
  <2>2. mem \in SUBSET Changes /\ unsaved \in BOOLEAN /\ timer \in BOOLEAN
    BY <2>1 DEF TypeOK
  <2> QED
    BY <2>1, <2>2, CommitEditStep, FinishedStep
<1> QED
  BY <1>2, <1>3

LEMMA CancelSaveStep ==
  ASSUME IInv, NEW c \in Changes, CancelSave(c)
  PROVE  IInv'
<1>1. Asked("askDiscard") /\ "askDiscard" \in Questions \ Nested
  BY DEF CancelSave, Questions, Nested
<1>2. CASE Undefined
  BY <1>2, UndefinedStep
<1>3. CASE ~Undefined
  <2>1. /\ Left(<< >>) /\ (CommitEdit(c, << >>) \/ AskApply(<< >>))
        /\ mode \notin {"locked", "closed", "undefined", "emptied"} /\ mode \in Modes
    BY <1>1, <1>3, OnlyQuestion DEF CancelSave, IInv, TypeOK
  <2>2. mode \in Unlocked
    BY <2>1 DEF Modes
  <2> QED
    BY <2>1, <2>2, CommitEditStep, AskApplyStep
<1> QED
  BY <1>2, <1>3

LEMMA CancelDiscardStep ==
  ASSUME IInv, CancelDiscard
  PROVE  IInv'
<1>1. Asked("askDiscard") /\ "askDiscard" \in Questions \ Nested /\ TypeOK
  BY DEF CancelDiscard, Questions, Nested, IInv
<1>2. CASE mode = "locked"
  BY <1>2, EndStep DEF CancelDiscard
<1>3. CASE mode # "locked"
  <2>1. /\ Left(<< >>) /\ Finished(<< >>)
        /\ UNCHANGED <<mem, unsaved, file, timer, tabModified, widgetModified, watch>>
    BY <1>1, <1>3, OnlyQuestion DEF CancelDiscard
  <2>2. mem \in SUBSET Changes /\ unsaved \in BOOLEAN /\ timer \in BOOLEAN
    BY <1>1 DEF TypeOK
  <2> QED
    BY <2>1, <2>2, FinishedStep
<1> QED
  BY <1>2, <1>3

LEMMA AskDeleteStep ==
  ASSUME IInv, AskDelete
  PROVE  IInv'
<1>1. TypeOK /\ Now \in Outcome /\ mode = "view" /\ Left(<< >>)
  BY NowType DEF IInv, AskDelete, Left, Idle
<1>2. "askDelete" \in Questions /\ {} \in SUBSET Changes /\ FALSE \in BOOLEAN
  BY DEF Questions, Retries
<1>3. Push("askDelete", FALSE, {}, << >>) /\ Becomes(Now) /\ Keep
  BY DEF AskDelete
<1> QED
  BY <1>1, <1>2, <1>3, PushStep

LEMMA AskUpdateStep ==
  ASSUME IInv, AskUpdate
  PROVE  IInv'
<1>1. TypeOK /\ Now \in Outcome /\ Left(frames)
  BY NowType DEF IInv, Left
<1>2. mode \notin {"locked", "closed", "undefined", "emptied"}
  BY DEF AskUpdate, Unlocked, EditModes
<1>3. /\ "askUpdate" \in Questions /\ "askUpdate" \in Nested
      /\ {} \in SUBSET Changes /\ FALSE \in BOOLEAN
  BY DEF Questions, Retries, Nested
<1>4. Push("askUpdate", FALSE, {}, frames) /\ Becomes(Now) /\ Keep
  BY DEF AskUpdate
<1> QED
  BY <1>1, <1>2, <1>3, <1>4, PushStep

LEMMA DeleteOrUpdateStep ==
  ASSUME IInv, NEW c \in Changes, DeleteOrUpdate(c)
  PROVE  IInv'
<1>1. CASE ~Top.current
  BY <1>1, UndefinedStep DEF DeleteOrUpdate
<1>2. CASE Top.current
  <2>1. ~Idle /\ Changed(c) /\ Left(frames')
    BY <1>2 DEF DeleteOrUpdate, Left, Waiting
  <2>2. mode \in Unlocked
    BY <1>2, <2>1, CurrentIsUnlocked
  <2> QED
    BY <2>1, <2>2, ChangedStep
<1> QED
  BY <1>1, <1>2

LEMMA CancelStep ==
  ASSUME IInv, NEW kinds, Cancel(kinds)
  PROVE  IInv'
<1>1. TypeOK /\ Parts /\ Now \in Outcome
  BY NowType DEF IInv
<1>2. /\ ~Idle /\ Left(frames') /\ Becomes(Now) /\ Keep
      /\ Now.timer = timer /\ Now.unsaved = unsaved
  BY DEF Cancel, Left, Waiting, Now
<1>3. mode # "closed" /\ (mode = "locked" => ~unsaved)
  BY <1>1, <1>2 DEF Parts, ClosedIsQuiet, Idle, NothingUnsavedWithout
<1> QED
  BY <1>1, <1>2, <1>3, StayStep

LEMMA LockEditDiscardStep ==
  ASSUME IInv, LockEditDiscard
  PROVE  IInv'
<1>1. Asked("lockEdit") /\ "lockEdit" \in Questions \ Nested
  BY DEF LockEditDiscard, Questions, Nested
<1>2. CASE ~Top.current
  BY <1>1, <1>2, OnlyQuestion DEF LockEditDiscard
<1>3. CASE Top.current
  <2>1. /\ LockUnlessModified(<< >>) /\ Left(<< >>)
        /\ mode \notin {"locked", "closed", "undefined", "emptied"}
    BY <1>1, <1>3, OnlyQuestion DEF LockEditDiscard
  <2>2. mode \in Unlocked
    BY <2>1 DEF IInv, TypeOK, Modes
  <2> QED
    BY <2>1, <2>2, LockUnlessModifiedStep
<1> QED
  BY <1>2, <1>3

LEMMA LockSaveStep ==
  ASSUME IInv, LockSave
  PROVE  IInv'
<1>1. Asked("lockSave") /\ "lockSave" \in Questions \ Nested
  BY DEF LockSave, Questions, Nested
<1>2. CASE ~Top.current
  BY <1>1, <1>2, OnlyQuestion DEF LockSave
<1>3. CASE Top.current
  <2>1. /\ Waiting = << >> /\ Left(<< >>)
        /\ mode \notin {"locked", "closed", "undefined", "emptied"}
        /\ TypeOK /\ Now \in Outcome /\ mem \subseteq Changes /\ pendingLock \in BOOLEAN
    BY <1>1, <1>3, OnlyQuestion, NowType DEF IInv, TypeOK
  <2>2. PICK o \in SaveDatabase(Now) :
          IF SaveSucceeded(o)
          THEN Lock(o, << >>) /\ UNCHANGED pendingLock
          ELSE /\ Becomes(o) /\ Keep
               /\ frames' = << >> \/ AskRetry("retryLock", Now, o, << >>)
    BY <1>3, <2>1 DEF LockSave
  <2>3. o \in Outcome
    BY <2>1, <2>2, SaveDatabaseType
  <2>4. CASE SaveSucceeded(o)
    BY <2>1, <2>2, <2>3, <2>4, LockStep
  <2>5. CASE ~SaveSucceeded(o) /\ frames' = << >>
    BY <2>1, <2>2, <2>3, <2>5, StayStep
  <2>6. CASE ~SaveSucceeded(o) /\ AskRetry("retryLock", Now, o, << >>)
    BY <2>1, <2>2, <2>6, AskRetryStep DEF Retries
  <2> QED
    BY <2>2, <2>4, <2>5, <2>6
<1> QED
  BY <1>2, <1>3

LEMMA LockDiscardStep ==
  ASSUME IInv, LockDiscard
  PROVE  IInv'
<1>1. Asked("lockSave") /\ "lockSave" \in Questions \ Nested
  BY DEF LockDiscard, Questions, Nested
<1>2. CASE ~Top.current
  BY <1>1, <1>2, OnlyQuestion DEF LockDiscard
<1>3. CASE Top.current
  <2> DEFINE o == [Now EXCEPT !.tab = FALSE, !.widget = FALSE]
  <2>1. Waiting = << >> /\ Left(<< >>) /\ Now \in Outcome /\ pendingLock \in BOOLEAN
    BY <1>1, <1>3, OnlyQuestion, NowType DEF IInv, TypeOK
  <2>2. o \in Outcome
    BY <2>1 DEF Outcome
  <2>3. Lock(o, << >>) /\ pendingLock' = pendingLock
    BY <1>3, <2>1 DEF LockDiscard
  <2> HIDE DEF o
  <2> QED
    BY <2>1, <2>2, <2>3, LockStep
<1> QED
  BY <1>2, <1>3

LEMMA RelockStep ==
  ASSUME IInv, Relock
  PROVE  IInv'
<1>1. TypeOK /\ Parts /\ Now \in Outcome
  BY NowType DEF IInv
<1>2. CASE mode = "locked"
  <2>1. /\ UNCHANGED <<mode, mem, frames, editorStale, newParent>> /\ Becomes(Now)
        /\ pendingLock' = FALSE
    BY <1>2 DEF Relock
  <2>2. UNCHANGED <<file, timer, unsaved, tabModified, widgetModified, watch>>
    BY <2>1 DEF Becomes, Now
  <2>3. TypeOK'
    BY <1>1, <2>1, <2>2 DEF TypeOK
  <2> QED
    BY <1>1, <2>1, <2>2, <2>3 DEF IInv, Parts, AskedFirst, ClosedIsQuiet,
       NothingUnsavedWithout, UndefinedByUser, LockedHasNoDatabase, ParentWhileCreating
<1>3. CASE mode # "locked"
  BY <1>1, <1>3, LockStep DEF Relock, Left
<1> QED
  BY <1>2, <1>3

LEMMA UnlockStep ==
  ASSUME IInv, Unlock
  PROVE  IInv'
<1>1. TypeOK /\ Parts /\ Now \in Outcome /\ file \in SUBSET Changes
  BY NowType DEF IInv, TypeOK, Unlock
<1>2. Replace(Now, file, frames) /\ mode' = "view" /\ Left(frames)
      /\ editorStale' \in BOOLEAN /\ pendingLock' \in BOOLEAN
  BY <1>1 DEF Unlock, Left, TypeOK
<1>3. mode' \in Modes \ {"closed", "undefined", "emptied"} /\ mode' # "create" /\ mode' # "locked"
  BY <1>2 DEF Modes, Unlocked
<1> QED
  BY <1>1, <1>2, <1>3, ReplaceStep

LEMMA CloseStep ==
  ASSUME IInv, NEW o \in Outcome, Close(o)
  PROVE  IInv'
<1> DEFINE p == [o EXCEPT !.timer = FALSE, !.unsaved = FALSE]
<1>1. p \in Outcome /\ ~p.timer /\ ~p.unsaved
  BY DEF Outcome
<1>2. /\ Becomes(p) /\ mode' = "closed" /\ mem' = {} /\ frames' = << >>
      /\ UNCHANGED <<editorStale, newParent, pendingLock>>
  BY DEF Close
<1> HIDE DEF p
<1>3. FieldsOK' /\ ~timer' /\ ~unsaved'
  BY <1>1, <1>2, BecomesType DEF Becomes
<1>4. << >> \in Seq(Frames) /\ Len(<< >>) = 0 /\ MaxFrames \in Nat /\ DOMAIN << >> = {}
  BY BoundAssumption, EmptySeq
<1>5. RestOK'
  <2>1. mode' \in Modes
    BY <1>2 DEF Modes
  <2>2. mem' \subseteq Changes /\ mode' # "create"
    BY <1>2
  <2>3. frames' \in Seq(Frames) /\ Len(frames') <= MaxFrames
    BY <1>2, <1>4
  <2> QED
    BY <1>2, <2>1, <2>2, <2>3 DEF IInv, TypeOK, RestOK
<1>6. TypeOK'
  BY <1>3, <1>5 DEF TypeOK, FieldsOK, RestOK, GoodWatches
<1> QED
  BY <1>2, <1>3, <1>4, <1>6 DEF IInv, Parts, AskedFirst, ClosedIsQuiet, NothingUnsavedWithout,
        UndefinedByUser, LockedHasNoDatabase, ParentWhileCreating

LEMMA CloseUnlessModifiedStep ==
  ASSUME IInv, NEW flag \in BOOLEAN, NEW current \in BOOLEAN,
         CloseUnlessModified(flag, current, << >>), Left(<< >>),
         mode \notin {"closed", "undefined", "emptied"}
  PROVE  IInv'
<1>1. /\ TypeOK /\ Parts /\ Now \in Outcome /\ mem \subseteq Changes
      /\ Now.unsaved = unsaved /\ Now.timer = timer
      /\ mode = "locked" => ~unsaved
  BY NowType, NowIs DEF IInv, TypeOK, Parts, NothingUnsavedWithout
<1>2. CASE flag /\ TRUE \in AutoSaveOnExit
           /\ IF ~current THEN Undefined
              ELSE \E o \in SaveDatabase(Now) :
                     IF SaveSucceeded(o) THEN Close(o)
                     ELSE /\ Becomes(o) /\ Keep
                          /\ frames' = << >> \/ AskRetry("retryClose", Now, o, << >>)
  <2>1. CASE ~current
    BY <1>2, <2>1, UndefinedStep
  <2>2. CASE current
    <3>1. PICK o \in SaveDatabase(Now) :
            IF SaveSucceeded(o) THEN Close(o)
            ELSE /\ Becomes(o) /\ Keep
                 /\ frames' = << >> \/ AskRetry("retryClose", Now, o, << >>)
      BY <1>2, <2>2
    <3>2. o \in Outcome /\ (mode = "locked" => o = Now)
      BY <1>1, <3>1, SaveDatabaseType
    <3>3. CASE SaveSucceeded(o)
      BY <3>1, <3>2, <3>3, CloseStep
    <3>4. CASE ~SaveSucceeded(o) /\ frames' = << >>
      BY <1>1, <3>1, <3>2, <3>4, StayStep
    <3>5. CASE ~SaveSucceeded(o) /\ AskRetry("retryClose", Now, o, << >>)
      BY <1>1, <3>1, <3>5, AskRetryStep DEF Retries
    <3> QED
      BY <3>1, <3>3, <3>4, <3>5
  <2> QED
    BY <2>1, <2>2
<1>3. CASE /\ flag /\ FALSE \in AutoSaveOnExit /\ mode # "locked"
           /\ Len(<< >>) < MaxFrames
           /\ frames' = <<[kind |-> "closeSave", current |-> current, modified |-> flag,
                           content |-> {}]>> \o << >>
           /\ Becomes(Now) /\ Keep
  <2> DEFINE f == [kind |-> "closeSave", current |-> current, modified |-> flag,
                   content |-> {}]
  <2>1. f \in Frames /\ f.kind \notin Asks /\ f.current = current
    BY FrameType DEF Questions, Retries, Asks
  <2>2. frames' = <<f>> \o << >> /\ Len(<< >>) < MaxFrames /\ mode # "locked"
    BY <1>3
  <2>3. Becomes(Now) /\ Keep
    BY <1>3
  <2> HIDE DEF f
  <2> QED
    BY <1>1, <2>1, <2>2, <2>3, AskStep
<1>4. CASE IF current THEN Close(Now) ELSE Undefined
  BY <1>1, <1>4, CloseStep, UndefinedStep
<1> QED
  BY <1>2, <1>3, <1>4 DEF CloseUnlessModified

LEMMA CloseDatabaseStep ==
  ASSUME IInv, CloseDatabase
  PROVE  IInv'
<1>1. /\ TypeOK /\ Now \in Outcome /\ Idle /\ Left(<< >>) /\ tabModified \in BOOLEAN
      /\ mode \notin {"closed", "undefined", "emptied"}
  BY NowType DEF IInv, TypeOK, CloseDatabase, Left, Idle, Unlocked, EditModes
<1>2. CASE Undefined
  BY <1>1, <1>2, UndefinedStep
<1>3. CASE mode \in EditModes /\ Push("closeEdit", tabModified, {}, << >>)
           /\ Becomes(Now) /\ Keep
  <2>1. "closeEdit" \in Questions /\ {} \in SUBSET Changes
    BY DEF Questions, Retries
  <2>2. mode \notin {"locked", "closed", "undefined", "emptied"}
    BY <1>3 DEF EditModes
  <2> QED
    BY <1>1, <1>3, <2>1, <2>2, PushStep
<1>4. CASE CloseUnlessModified(tabModified, TRUE, << >>)
  BY <1>1, <1>4, CloseUnlessModifiedStep
<1> QED
  BY <1>2, <1>3, <1>4 DEF CloseDatabase

LEMMA CloseEditDiscardStep ==
  ASSUME IInv, CloseEditDiscard
  PROVE  IInv'
<1>1. Asked("closeEdit") /\ "closeEdit" \in Questions \ Nested
  BY DEF CloseEditDiscard, Questions, Nested
<1>2. /\ ~Idle /\ Waiting = << >> /\ Left(<< >>) /\ Top \in Frames
      /\ mode \notin {"closed", "undefined", "emptied"}
  BY <1>1, OnlyQuestion
<1>3. Top.modified \in BOOLEAN /\ Top.current \in BOOLEAN
  BY <1>2 DEF Frames
<1>4. CloseUnlessModified(Top.modified, Top.current, << >>)
  BY <1>2 DEF CloseEditDiscard
<1> QED
  BY <1>2, <1>3, <1>4, CloseUnlessModifiedStep

LEMMA CloseSaveStep ==
  ASSUME IInv, CloseSave
  PROVE  IInv'
<1>1. Asked("closeSave") /\ "closeSave" \in Questions \ Nested
  BY DEF CloseSave, Questions, Nested
<1>2. CASE ~Top.current
  BY <1>1, <1>2, OnlyQuestion DEF CloseSave
<1>3. CASE Top.current
  <2>1. /\ Waiting = << >> /\ Left(<< >>)
        /\ mode \notin {"locked", "closed", "undefined", "emptied"}
        /\ TypeOK /\ Now \in Outcome /\ mem \subseteq Changes
    BY <1>1, <1>3, OnlyQuestion, NowType DEF IInv, TypeOK
  <2>2. PICK o \in SaveDatabase(Now) :
          IF SaveSucceeded(o) THEN Close(o)
          ELSE /\ Becomes(o) /\ Keep
               /\ frames' = << >> \/ AskRetry("retryClose", Now, o, << >>)
    BY <1>3, <2>1 DEF CloseSave
  <2>3. o \in Outcome
    BY <2>1, <2>2, SaveDatabaseType
  <2>4. CASE SaveSucceeded(o)
    BY <2>2, <2>3, <2>4, CloseStep
  <2>5. CASE ~SaveSucceeded(o) /\ frames' = << >>
    BY <2>1, <2>2, <2>3, <2>5, StayStep
  <2>6. CASE ~SaveSucceeded(o) /\ AskRetry("retryClose", Now, o, << >>)
    BY <2>1, <2>2, <2>6, AskRetryStep DEF Retries
  <2> QED
    BY <2>2, <2>4, <2>5, <2>6
<1> QED
  BY <1>2, <1>3

LEMMA CloseDiscardStep ==
  ASSUME IInv, CloseDiscard
  PROVE  IInv'
<1>1. Asked("closeSave") /\ "closeSave" \in Questions \ Nested
  BY DEF CloseDiscard, Questions, Nested
<1>2. CASE ~Top.current
  BY <1>1, <1>2, OnlyQuestion DEF CloseDiscard
<1>3. CASE Top.current
  BY <1>3, CloseStep, NowType DEF CloseDiscard, IInv
<1> QED
  BY <1>2, <1>3

LEMMA OpenDatabaseStep ==
  ASSUME IInv, OpenDatabase
  PROVE  IInv'
<1>1. TypeOK /\ Parts
  BY DEF IInv
<1>2. /\ mode = "closed" /\ file # Absent
      /\ mode' = "view" /\ mem' = file /\ watch' = FreshWatch
      /\ tabModified' = FALSE /\ widgetModified' = FALSE
      /\ editorStale' = FALSE /\ newParent' = "none" /\ pendingLock' = FALSE
      /\ UNCHANGED <<file, unsaved, timer, frames>>
  BY DEF OpenDatabase
<1>3. FreshWatch \in Watches /\ ~FreshWatch.ignored
  BY DEF FreshWatch, Watches
<1>4. TypeOK'
  <2>1. mode' \in Modes /\ mem' \subseteq Changes
    BY <1>1, <1>2 DEF TypeOK, Modes, Unlocked
  <2>2. watch' \in Watches /\ ~watch'.ignored
    BY <1>2, <1>3
  <2>3. mode' # "create"
    BY <1>2
  <2> QED
    BY <1>1, <1>2, <2>1, <2>2, <2>3 DEF TypeOK
<1> QED
  BY <1>1, <1>2, <1>4 DEF IInv, Parts, AskedFirst, ClosedIsQuiet, NothingUnsavedWithout,
        UndefinedByUser, LockedHasNoDatabase, ParentWhileCreating

\* Only the watcher and the file change, and a reported or renewed watch is good.
LEMMA WatcherStep ==
  ASSUME IInv, file' \in (SUBSET Changes) \cup {Absent}, watch' \in GoodWatches,
         UNCHANGED <<timer, unsaved, tabModified, widgetModified, frames>>, Keep
  PROVE  IInv'
<1>1. TypeOK /\ Parts /\ UNCHANGED <<mode, mem, editorStale, newParent, pendingLock>>
  BY DEF IInv, Keep
<1>2. FieldsOK' /\ RestOK'
  BY <1>1, TypeIsFields DEF FieldsOK, RestOK
<1>3. TypeOK'
  BY <1>2 DEF TypeOK, FieldsOK, RestOK, GoodWatches
<1> QED
  BY <1>1, <1>3 DEF IInv, Parts, AskedFirst, ClosedIsQuiet, NothingUnsavedWithout,
        UndefinedByUser, LockedHasNoDatabase, ParentWhileCreating

LEMMA ExternalStep ==
  ASSUME IInv, External
  PROVE  IInv'
<1>1. TypeOK /\ watch \in GoodWatches
  BY TypeIsFields DEF IInv, FieldsOK
<1>2. CASE ExternalRemove
  <2>1. watch' \in GoodWatches
    BY <1>1, <1>2 DEF ExternalRemove, GoodWatches, Watches
  <2> QED
    BY <1>2, <2>1, WatcherStep DEF ExternalRemove
<1>3. ASSUME NEW c \in Changes, ExternalWrite(c) PROVE IInv'
  <2>1. watch' \in GoodWatches
    <3>1. PICK inPlace \in BOOLEAN :
            watch' = [watch EXCEPT !.notified = @ \/ watch.watched, !.watched = @ /\ inPlace]
      BY <1>3 DEF ExternalWrite
    <3> QED
      BY <1>1, <3>1 DEF GoodWatches, Watches
  <2>2. file' \in SUBSET Changes
    BY <1>1, <1>3 DEF ExternalWrite, TypeOK
  <2> QED
    BY <1>3, <2>1, <2>2, WatcherStep DEF ExternalWrite
<1> QED
  BY <1>2, <1>3 DEF External

LEMMA OnWatchedFileChangedStep ==
  ASSUME IInv, OnWatchedFileChanged
  PROVE  IInv'
<1>1. FieldsOK
  BY TypeIsFields DEF IInv
<1>2. watch' \in GoodWatches
  BY <1>1 DEF FieldsOK, OnWatchedFileChanged, GoodWatches, Watches
<1> QED
  BY <1>1, <1>2, WatcherStep DEF OnWatchedFileChanged, FieldsOK

LEMMA UnblockAutoReloadStep ==
  ASSUME IInv, UnblockAutoReload
  PROVE  IInv'
<1>1. FieldsOK
  BY TypeIsFields DEF IInv
<1>2. watch' \in GoodWatches
  BY <1>1 DEF FieldsOK, UnblockAutoReload, GoodWatches, Watches
<1> QED
  BY <1>1, <1>2, WatcherStep DEF UnblockAutoReload, FieldsOK

LEMMA ReloadedStep ==
  ASSUME IInv, NEW o \in Outcome, NEW content \in SUBSET Changes,
         NEW waiting, Left(waiting), Reloaded(o, content, waiting),
         mode \notin {"closed", "undefined", "emptied"}, mode = "locked" => ~o.unsaved
  PROVE  IInv'
<1>1. TypeOK /\ mode \in Modes \ {"closed", "undefined", "emptied"} /\ pendingLock \in BOOLEAN
  BY DEF IInv, TypeOK
<1>2. Rewatched(o) \in Outcome /\ Rewatched(o).unsaved = o.unsaved
  BY RewatchedType
<1>3. /\ Replace(Rewatched(o), content, waiting)
      /\ editorStale' = (mode \in EditModes) /\ mode' = mode /\ pendingLock' = pendingLock
  BY DEF Reloaded
<1>4. editorStale' \in BOOLEAN
  <2>1. (mode \in EditModes) \in BOOLEAN
    OBVIOUS
  <2> QED
    BY <1>3, <2>1
<1>5. mode' \in Modes \ {"closed", "undefined", "emptied"} /\ (mode' = "create" => mode = "create")
      /\ pendingLock' \in BOOLEAN
  BY <1>1, <1>3
<1>6. mode' = "locked" => ~Rewatched(o).unsaved
  BY <1>2, <1>3
<1> QED
  BY <1>2, <1>3, <1>4, <1>5, <1>6, ReplaceStep

LEMMA ReadFileStep ==
  ASSUME IInv, NEW o \in Outcome, o.unsaved = unsaved, NEW waiting, Left(waiting),
         ReadFile(o, waiting), mode \notin {"closed", "undefined", "emptied"}
  PROVE  IInv'
<1>1. /\ TypeOK /\ Parts /\ mem \subseteq Changes
      /\ mode = "locked" => ~o.unsaved
      /\ file # Absent => file \in SUBSET Changes
  BY DEF IInv, TypeOK, Parts, NothingUnsavedWithout
<1>2. CASE /\ Keep
           /\ \E p \in Modified(o) :
                \/ Becomes(Rewatched(p)) /\ frames' = waiting
                \/ Becomes(p) /\ AskRetry("retryUnread", o, p, waiting)
  <2>1. PICK p \in Modified(o) :
          \/ Becomes(Rewatched(p)) /\ frames' = waiting
          \/ Becomes(p) /\ AskRetry("retryUnread", o, p, waiting)
    BY <1>2
  <2>2. p \in Outcome /\ (p \in SaveDatabase(o) \/ p.unsaved = o.unsaved)
    BY <1>1, <2>1, ModifiedType
  <2>3. mode = "locked" => p.unsaved = o.unsaved
    BY <1>1, <2>2, SaveDatabaseType
  <2>4. Rewatched(p) \in Outcome /\ Rewatched(p).unsaved = p.unsaved
    BY <2>2, RewatchedType
  <2>5. CASE Becomes(Rewatched(p)) /\ frames' = waiting
    BY <1>1, <1>2, <2>3, <2>4, <2>5, StayStep
  <2>6. CASE Becomes(p) /\ AskRetry("retryUnread", o, p, waiting)
    <3>1. "retryUnread" \in Retries /\ "retryUnread" \in Nested
      BY DEF Retries, Nested
    <3> QED
      BY <1>2, <2>6, <3>1, AskRetryStep
  <2> QED
    BY <2>1, <2>5, <2>6
<1>3. CASE Becomes(Rewatched(o)) /\ frames' = waiting /\ Keep
  BY <1>1, <1>3, RewatchedType, StayStep
<1>4. CASE /\ file # Absent /\ mode # "locked" /\ o.widget
           /\ Push("askMerge", FALSE, file, waiting) /\ Becomes(o) /\ Keep
  <2>1. "askMerge" \in Questions /\ "askMerge" \in Nested /\ FALSE \in BOOLEAN
    BY DEF Questions, Retries, Nested
  <2> QED
    BY <1>1, <1>4, <2>1, PushStep
<1>5. CASE /\ file # Absent /\ mode # "locked" /\ ~o.widget
           /\ Reloaded([o EXCEPT !.unsaved = FALSE], file, waiting)
  <2> DEFINE p == [o EXCEPT !.unsaved = FALSE]
  <2>1. p \in Outcome
    BY DEF Outcome
  <2>2. Reloaded(p, file, waiting)
    BY <1>5
  <2> HIDE DEF p
  <2> QED
    BY <1>1, <1>5, <2>1, <2>2, ReloadedStep
<1> QED
  BY <1>2, <1>3, <1>4, <1>5 DEF ReadFile

LEMMA ReloadDatabaseFileStep ==
  ASSUME IInv, ReloadDatabaseFile
  PROVE  IInv'
<1> DEFINE o == [Now EXCEPT !.watch.reloadTimer = FALSE]
<1>1. /\ TypeOK /\ Parts /\ Now \in Outcome /\ Left(frames)
      /\ mode \notin {"closed", "undefined", "emptied"}
      /\ mode = "locked" => ~unsaved
  BY NowType DEF IInv, ReloadDatabaseFile, Alive, Unlocked, EditModes, Left, Parts,
                 NothingUnsavedWithout
<1>2. o \in Outcome /\ o.unsaved = unsaved
  BY <1>1, NowIs DEF Outcome, GoodWatches, Watches
<1>3. \/ mode = "locked" /\ Becomes(o) /\ UNCHANGED frames /\ Keep
      \/ /\ mode # "locked" /\ FALSE \in AutoReload
         /\ Push("askReload", FALSE, {}, frames) /\ Becomes(o) /\ Keep
      \/ mode # "locked" /\ TRUE \in AutoReload /\ ReadFile(o, frames)
  BY DEF ReloadDatabaseFile
<1> HIDE DEF o
<1>4. CASE mode = "locked" /\ Becomes(o) /\ UNCHANGED frames /\ Keep
  BY <1>1, <1>2, <1>4, StayStep DEF Left
<1>5. CASE /\ mode # "locked" /\ FALSE \in AutoReload
           /\ Push("askReload", FALSE, {}, frames) /\ Becomes(o) /\ Keep
  <2>1. "askReload" \in Questions /\ "askReload" \in Nested /\ {} \in SUBSET Changes
        /\ FALSE \in BOOLEAN
    BY DEF Questions, Retries, Nested
  <2> QED
    BY <1>1, <1>2, <1>5, <2>1, PushStep
<1>6. CASE ReadFile(o, frames)
  BY <1>1, <1>2, <1>6, ReadFileStep
<1> QED
  BY <1>3, <1>4, <1>5, <1>6

\* An answer about a reload finds a database, not always the one it asked for.
LEMMA ReloadQuestion ==
  ASSUME IInv, NEW kind \in Asks, Asked(kind)
  PROVE  /\ ~Idle /\ Left(Waiting) /\ Top \in Frames /\ Top.content \in SUBSET Changes
         /\ TypeOK /\ Parts /\ Now \in Outcome /\ Now.unsaved = unsaved
         /\ mode \notin {"closed", "undefined", "emptied"}
         /\ mode = "locked" => ~unsaved
<1>1. TypeOK /\ Parts /\ ~Idle /\ Now \in Outcome /\ Now.unsaved = unsaved
  BY NowType, NowIs DEF IInv, Asked
<1>2. Top \in Frames /\ Top = frames[1] /\ DOMAIN frames = 1..Len(frames)
      /\ Len(frames) \in Nat /\ Len(frames) # 0
  BY <1>1, StackFacts
<1>3. Top.content \in SUBSET Changes
  BY <1>2 DEF Frames
<1>4. 1 \in DOMAIN frames
  BY <1>2
<1>5. mode \notin {"closed", "undefined", "emptied"}
  BY <1>1, <1>2, <1>4 DEF Parts, ClosedIsQuiet, UndefinedByUser, Idle, Asked, Asks
<1> QED
  BY <1>1, <1>2, <1>3, <1>5 DEF Left, Waiting, Parts, NothingUnsavedWithout

LEMMA ReloadYesStep ==
  ASSUME IInv, ReloadYes
  PROVE  IInv'
<1>1. Asked("askReload") /\ "askReload" \in Asks /\ ReadFile(Now, Waiting)
  BY DEF ReloadYes, Asks
<1> QED
  BY <1>1, ReloadQuestion, ReadFileStep

LEMMA ReloadNoStep ==
  ASSUME IInv, ReloadNo
  PROVE  IInv'
<1>1. Asked("askReload") /\ "askReload" \in Asks
  BY DEF ReloadNo, Asks
<1>2. PICK p \in Modified(Now) :
        \/ Becomes(Rewatched([p EXCEPT !.widget = TRUE])) /\ frames' = Waiting
        \/ Becomes(p) /\ AskRetry("retryDeclined", Now, p, Waiting)
  BY DEF ReloadNo
<1>3. /\ Keep /\ Left(Waiting) /\ Now \in Outcome
      /\ TypeOK /\ mem \subseteq Changes /\ Now.unsaved = unsaved
      /\ mode \notin {"closed", "undefined", "emptied"} /\ (mode = "locked" => ~unsaved)
  BY <1>1, ReloadQuestion DEF ReloadNo, TypeOK
<1>4. p \in Outcome /\ (p \in SaveDatabase(Now) \/ p.unsaved = Now.unsaved)
  BY <1>2, <1>3, ModifiedType
<1>5. mode = "locked" => p.unsaved = unsaved
  BY <1>3, <1>4, SaveDatabaseType
<1>6. CASE Becomes(Rewatched([p EXCEPT !.widget = TRUE])) /\ frames' = Waiting
  <2> DEFINE q == [p EXCEPT !.widget = TRUE]
  <2>1. q \in Outcome /\ q.unsaved = p.unsaved
    BY <1>4 DEF Outcome
  <2>2. Becomes(Rewatched(q))
    BY <1>6
  <2> HIDE DEF q
  <2>3. Rewatched(q) \in Outcome /\ Rewatched(q).unsaved = q.unsaved
    BY <2>1, RewatchedType
  <2> QED
    BY <1>3, <1>5, <1>6, <2>1, <2>2, <2>3, StayStep
<1>7. CASE Becomes(p) /\ AskRetry("retryDeclined", Now, p, Waiting)
  <2>1. "retryDeclined" \in Retries /\ "retryDeclined" \in Nested
    BY DEF Retries, Nested
  <2> QED
    BY <1>3, <1>7, <2>1, AskRetryStep
<1> QED
  BY <1>2, <1>6, <1>7

LEMMA MergeYesStep ==
  ASSUME IInv, MergeYes
  PROVE  IInv'
<1>1. /\ Asked("askMerge") /\ "askMerge" \in Asks
      /\ Reloaded(Now, Top.content \cup mem, Waiting)
  BY DEF MergeYes, Asks
<1>2. Top.content \cup mem \in SUBSET Changes
  BY <1>1, ReloadQuestion DEF TypeOK
<1> QED
  BY <1>1, <1>2, ReloadQuestion, ReloadedStep

LEMMA MergeNoStep ==
  ASSUME IInv, MergeNo
  PROVE  IInv'
<1> DEFINE p == [Now EXCEPT !.widget = FALSE, !.unsaved = FALSE]
<1>1. /\ Asked("askMerge") /\ "askMerge" \in Asks /\ Reloaded(p, Top.content, Waiting)
  BY DEF MergeNo, Asks
<1>2. p \in Outcome /\ ~p.unsaved
  BY <1>1, ReloadQuestion DEF Outcome
<1> HIDE DEF p
<1> QED
  BY <1>1, <1>2, ReloadQuestion, ReloadedStep

\* saveDatabase returns to the handler that called it, its database still there.
LEMMA ReturnStep ==
  ASSUME IInv, ~Idle, Top.kind \in Retries, mode \in Unlocked,
         NEW o \in Outcome, NEW saved, Return(o, saved)
  PROVE  IInv'
<1>1. Left(Waiting) /\ mode \notin {"locked", "closed", "undefined", "emptied"}
  BY DEF Left, Waiting, Unlocked, EditModes
<1>2. CASE Lock(o, Waiting) /\ UNCHANGED pendingLock
  BY <1>1, <1>2, LockStep DEF IInv, TypeOK
<1>3. CASE Close(o)
  BY <1>3, CloseStep
<1>4. ASSUME Becomes(CASE Top.kind = "retryUnread" -> Rewatched(o)
                       [] Top.kind = "retryDeclined" -> Rewatched([o EXCEPT !.widget = TRUE])
                       [] OTHER -> o),
             frames' = Waiting, Keep
      PROVE  IInv'
  <2> DEFINE p == [o EXCEPT !.widget = TRUE]
  <2>1. p \in Outcome
    BY DEF Outcome
  <2>2. PICK q \in {Rewatched(o), Rewatched(p), o} : Becomes(q)
    BY <1>4
  <2> HIDE DEF p
  <2>3. q \in Outcome
    BY <2>1, <2>2, RewatchedType
  <2> QED
    BY <1>1, <1>4, <2>2, <2>3, StayStep
<1> QED
  BY <1>2, <1>3, <1>4 DEF Return

LEMMA RetryStep ==
  ASSUME IInv, Retry
  PROVE  IInv'
<1>1. ~Idle /\ Top.kind \in Retries /\ Now \in Outcome /\ mem \subseteq Changes
  BY NowType DEF Retry, IInv, TypeOK
<1>2. CASE ~Top.current
  BY <1>2, UndefinedStep DEF Retry
<1>3. CASE Top.current
  <2>1. mode \in Unlocked
    BY <1>1, <1>3, CurrentIsUnlocked
  <2>2. CASE Return(Now, FALSE)
    BY <1>1, <2>1, <2>2, ReturnStep
  <2>3. CASE \E o \in SaveDatabase(Now) : Return(o, SaveSucceeded(o))
    <3>1. PICK o \in SaveDatabase(Now) : Return(o, SaveSucceeded(o))
      BY <2>3
    <3>2. o \in Outcome
      BY <1>1, <3>1, SaveDatabaseType
    <3> QED
      BY <1>1, <2>1, <3>1, <3>2, ReturnStep
  <2> QED
    BY <1>3, <2>2, <2>3 DEF Retry
<1> QED
  BY <1>2, <1>3

----------------------------------------------------------------------------

THEOREM NextInvariant == IInv /\ [Next]_vars => IInv'
<1> SUFFICES ASSUME IInv, [Next]_vars PROVE IInv'
  OBVIOUS
<1>1. CASE User
  BY <1>1, ChangeStep, AcceptEditStep, OpenEditorStep, CancelEditStep, UserSaveStep,
     AskDeleteStep, AskUpdateStep, LockDatabasesStep, UnlockStep, CloseDatabaseStep, OpenDatabaseStep DEF User
<1>2. CASE Answer
  BY <1>2, CancelStep, LockEditDiscardStep, LockSaveStep, LockDiscardStep,
     CloseEditDiscardStep, CloseSaveStep, CloseDiscardStep, ReloadYesStep, ReloadNoStep,
     MergeYesStep, MergeNoStep, CancelDiscardStep, RetryStep, DeleteOrUpdateStep,
     ApplyEditStep, SequenceEditStep, CancelSaveStep DEF Answer
<1>3. CASE External
  BY <1>3, ExternalStep
<1>4. CASE Relock \/ ModifiedTimeout \/ OnWatchedFileChanged \/ UnblockAutoReload
           \/ ReloadDatabaseFile
  BY <1>4, RelockStep, ModifiedTimeoutStep, OnWatchedFileChangedStep,
     UnblockAutoReloadStep, ReloadDatabaseFileStep
<1>5. CASE UNCHANGED vars
  BY <1>5 DEF vars, IInv, TypeOK, Parts, AskedFirst, ClosedIsQuiet, NothingUnsavedWithout,
     UndefinedByUser, LockedHasNoDatabase, ParentWhileCreating
<1> QED
  BY <1>1, <1>2, <1>3, <1>4, <1>5 DEF Next

(***************************************************************************)
(* DatabaseWidget.cpp, DatabaseTabWidget.cpp: each handler leaves a tab    *)
(* that is well formed, for any settings and any depth of questions; in    *)
(* particular a watcher that is told to ignore changes has the timer that  *)
(* ends this.                                                              *)
(***************************************************************************)
THEOREM SessionTypeCorrect == Spec => []TypeOK
<1>1. IInv => TypeOK
  BY DEF IInv
<1> QED
  BY <1>1, InitInvariant, NextInvariant, PTL DEF Spec

----------------------------------------------------------------------------
(* Steps that save, lock or close, by what they leave *)

\* What a save leaves.
LEMMA SaveLeaves ==
  ASSUME IInv, NEW o \in Outcome, NEW p \in SaveDatabase(o), mode # "locked"
  PROVE  /\ p \in Outcome /\ p.watch.unblockTimer
         /\ p.unsaved => p.tab /\ p.unsaved = o.unsaved
         /\ o.unsaved /\ ~p.unsaved => p.file = mem
         /\ SaveSucceeded(p) => ~p.unsaved /\ p.file = mem
<1>1. mem \subseteq Changes
  BY DEF IInv, TypeOK
<1>2. /\ p \in Outcome /\ (p = Saved(o) \/ p \in SaveFailed(o))
      /\ SaveSucceeded(p) => p = Saved(o)
  BY <1>1, SaveDatabaseType
<1> QED
  BY <1>1, <1>2, SavedType, SaveFailedType

\* What DatabaseTabWidget::modified leaves.
LEMMA ModifiedLeaves ==
  ASSUME IInv, NEW o \in Outcome, NEW p \in Modified(o), mode # "locked"
  PROVE  /\ p \in Outcome
         /\ p.tab \/ ~p.unsaved
         /\ o.unsaved /\ ~p.unsaved => p.file = mem
         /\ p.watch.unblockTimer \/ (p.watch = o.watch /\ p.file = o.file)
<1>1. mem \subseteq Changes
  BY DEF IInv, TypeOK
<1>2. p \in Outcome /\ (p \in SaveDatabase(o)
        \/ (p.tab = TRUE /\ p.unsaved = o.unsaved /\ p.file = o.file /\ p.watch = o.watch))
  BY <1>1, ModifiedType
<1>3. CASE p \in SaveDatabase(o)
  BY <1>3, SaveLeaves
<1>4. CASE p.tab = TRUE /\ p.unsaved = o.unsaved /\ p.file = o.file /\ p.watch = o.watch
  BY <1>2, <1>4
<1> QED
  BY <1>2, <1>3, <1>4

\* What a save leaves that failed and asks.
LEMMA AskRetryLeaves ==
  ASSUME NEW kind, NEW o \in Outcome, NEW p, NEW waiting,
         AskRetry(kind, o, p, waiting), Becomes(p)
  PROVE  /\ mode # "locked" /\ p \in SaveFailed(o)
         /\ tabModified' /\ watch'.unblockTimer
         /\ file' = o.file /\ unsaved' = o.unsaved /\ widgetModified' = o.widget
         /\ Len(waiting) < MaxFrames
         /\ frames' = <<[kind |-> kind, current |-> TRUE, modified |-> FALSE,
                         content |-> {}]>> \o waiting
<1>1. p \in SaveFailed(o) /\ mode # "locked" /\ Push(kind, FALSE, {}, waiting)
  BY DEF AskRetry
<1> QED
  BY <1>1, SaveFailedType DEF Push, Becomes

\* What closeDatabase comes to after the question about the editor.
LEMMA ClosingLeaves ==
  ASSUME IInv, NEW flag \in BOOLEAN, NEW current \in BOOLEAN,
         CloseUnlessModified(flag, current, << >>)
  PROVE  \/ Undefined
         \/ /\ mode' = "closed" /\ frames' = << >> /\ UNCHANGED <<editorStale, newParent>>
            /\ flag /\ mode # "locked" => file' = mem
         \/ /\ mode # "locked" /\ Keep
            /\ \/ frames' = << >>
               \/ frames' = <<[kind |-> "retryClose", current |-> TRUE, modified |-> FALSE,
                               content |-> {}]>> \o << >>
            /\ unsaved' => tabModified'
            /\ unsaved /\ ~unsaved' => file' = mem
            /\ watch'.unblockTimer
         \/ /\ mode # "locked" /\ Keep /\ Becomes(Now)
            /\ frames' = <<[kind |-> "closeSave", current |-> current, modified |-> flag,
                            content |-> {}]>> \o << >>
<1>1. Now \in Outcome /\ mem \subseteq Changes
  BY NowType DEF IInv, TypeOK
<1>2. CASE flag /\ TRUE \in AutoSaveOnExit
           /\ IF ~current THEN Undefined
              ELSE \E o \in SaveDatabase(Now) :
                     IF SaveSucceeded(o) THEN Close(o)
                     ELSE /\ Becomes(o) /\ Keep
                          /\ frames' = << >> \/ AskRetry("retryClose", Now, o, << >>)
  <2>1. CASE current
    <3>1. PICK o \in SaveDatabase(Now) :
            IF SaveSucceeded(o) THEN Close(o)
            ELSE /\ Becomes(o) /\ Keep
                 /\ frames' = << >> \/ AskRetry("retryClose", Now, o, << >>)
      BY <1>2, <2>1
    <3>2. o \in Outcome
      BY <1>1, <3>1, SaveDatabaseType
    <3>3. CASE SaveSucceeded(o)
      <4>1. Close(o) /\ (mode # "locked" => o.file = mem)
        BY <1>1, <3>1, <3>3, SaveLeaves
      <4>2. /\ mode' = "closed" /\ frames' = << >> /\ UNCHANGED <<editorStale, newParent>>
            /\ Becomes([o EXCEPT !.timer = FALSE, !.unsaved = FALSE])
        BY <4>1 DEF Close
      <4>3. file' = o.file
        BY <3>2, <4>2 DEF Becomes, Outcome
      <4> QED
        BY <4>1, <4>2, <4>3
    <3>4. CASE ~SaveSucceeded(o)
      <4>1. /\ mode # "locked" /\ Becomes(o) /\ Keep
            /\ frames' = << >> \/ AskRetry("retryClose", Now, o, << >>)
        BY <3>1, <3>4 DEF SaveSucceeded
      <4>2. /\ o.watch.unblockTimer /\ (o.unsaved => o.tab)
            /\ Now.unsaved /\ ~o.unsaved => o.file = mem
        BY <1>1, <3>1, <4>1, SaveLeaves
      <4> QED
        BY <1>1, <4>1, <4>2, NowIs, AskRetryLeaves DEF Becomes
    <3> QED
      BY <3>3, <3>4
  <2> QED
    BY <1>2, <2>1
<1>3. CASE flag /\ FALSE \in AutoSaveOnExit /\ mode # "locked"
           /\ Len(<< >>) < MaxFrames
           /\ frames' = <<[kind |-> "closeSave", current |-> current, modified |-> flag,
                           content |-> {}]>> \o << >>
           /\ Becomes(Now) /\ Keep
  BY <1>3
<1>4. CASE (~flag \/ (FALSE \in AutoSaveOnExit /\ mode = "locked"))
           /\ IF current THEN Close(Now) ELSE Undefined
  BY <1>4 DEF Close
<1> QED
  BY <1>2, <1>3, <1>4 DEF CloseUnlessModified

\* What reading the file comes to.
LEMMA ReadingLeaves ==
  ASSUME IInv, NEW o \in Outcome, NEW waiting, Left(waiting), ReadFile(o, waiting),
         o.file = file, mode # "locked"
  PROVE  /\ mode' = mode
         /\ unsaved' => tabModified' \/ timer' \/ (o.unsaved /\ ~o.tab /\ ~o.timer)
         /\ o.unsaved /\ ~unsaved' => file' = mem \/ (~o.widget /\ Len(frames') = Len(waiting))
         /\ \/ watch'.watched = (file' # Absent)
            \/ /\ file # Absent
               /\ frames' = <<[kind |-> "askMerge", current |-> TRUE, modified |-> FALSE,
                               content |-> file]>> \o waiting
            \/ watch'.unblockTimer
<1>1. CASE /\ Keep
           /\ \E p \in Modified(o) :
                \/ Becomes(Rewatched(p)) /\ frames' = waiting
                \/ Becomes(p) /\ AskRetry("retryUnread", o, p, waiting)
  <2>1. PICK p \in Modified(o) :
          \/ Becomes(Rewatched(p)) /\ frames' = waiting
          \/ Becomes(p) /\ AskRetry("retryUnread", o, p, waiting)
    BY <1>1
  <2>2. p \in Outcome /\ (p.tab \/ ~p.unsaved) /\ (o.unsaved /\ ~p.unsaved => p.file = mem)
    BY <2>1, ModifiedLeaves
  <2>3. CASE Becomes(Rewatched(p)) /\ frames' = waiting
    <3>1. /\ file' = p.file /\ unsaved' = p.unsaved /\ tabModified' = p.tab
          /\ watch'.watched = (p.file # Absent)
      BY <2>2, <2>3, RewatchedType DEF Becomes
    <3> QED
      BY <1>1, <2>2, <2>3, <3>1 DEF Keep
  <2>4. CASE Becomes(p) /\ AskRetry("retryUnread", o, p, waiting)
    BY <1>1, <2>4, AskRetryLeaves DEF Keep
  <2> QED
    BY <2>1, <2>3, <2>4
<1>2. CASE Becomes(Rewatched(o)) /\ frames' = waiting /\ Keep
  <2>1. /\ file' = o.file /\ unsaved' = o.unsaved /\ tabModified' = o.tab /\ timer' = o.timer
        /\ watch'.watched = (o.file # Absent)
    BY <1>2, RewatchedType DEF Becomes
  <2> QED
    BY <1>2, <2>1 DEF Keep
<1>3. CASE file # Absent /\ Push("askMerge", FALSE, file, waiting) /\ Becomes(o) /\ Keep
  <2>1. unsaved' = o.unsaved /\ tabModified' = o.tab /\ timer' = o.timer
    BY <1>3 DEF Becomes
  <2> QED
    BY <1>3, <2>1 DEF Push, Keep
<1>4. CASE ~o.widget /\ Reloaded([o EXCEPT !.unsaved = FALSE], file, waiting)
  <2> DEFINE p == [o EXCEPT !.unsaved = FALSE]
             q == [Rewatched(p) EXCEPT !.timer = FALSE, !.tab = Rewatched(p).widget]
  <2>1. p \in Outcome /\ ~p.unsaved
    BY DEF Outcome
  <2>2. /\ Rewatched(p) \in Outcome /\ ~Rewatched(p).unsaved
        /\ Rewatched(p).watch.watched = (Rewatched(p).file # Absent)
    BY <2>1, RewatchedType
  <2>3. Becomes(q) /\ mode' = mode /\ frames' = Pulled(waiting)
    BY <1>4 DEF Reloaded, Replace, Pulled
  <2>4. ~q.unsaved /\ q.watch = Rewatched(p).watch /\ q.file = Rewatched(p).file
    BY <2>2 DEF Outcome
  <2> HIDE DEF p, q
  <2>5. ~unsaved' /\ watch'.watched = (file' # Absent)
    BY <2>2, <2>3, <2>4 DEF Becomes
  <2>6. Len(frames') = Len(waiting)
    BY <2>3, LeftFacts, PulledFacts DEF IInv, Parts
  <2> QED
    BY <1>4, <2>3, <2>5, <2>6
<1> QED
  BY <1>1, <1>2, <1>3, <1>4 DEF ReadFile

LEMMA BecomesNow ==
  ASSUME Becomes(Now)
  PROVE  UNCHANGED <<file, timer, unsaved, tabModified, widgetModified, watch>>
BY DEF Becomes, Now

\* What replacing the database leaves.
LEMMA ReplacingLeaves ==
  ASSUME IInv, NEW o \in Outcome, NEW content, NEW waiting, Left(waiting),
         Replace(o, content, waiting)
  PROVE  /\ file' = o.file /\ unsaved' = o.unsaved /\ tabModified' = o.widget
         /\ widgetModified' = o.widget /\ watch' = o.watch /\ ~timer'
         /\ Len(frames') = Len(waiting) /\ frames' = Pulled(waiting)
         /\ newParent' = IF newParent = "none" THEN "none" ELSE "stale"
<1> DEFINE p == [o EXCEPT !.timer = FALSE, !.tab = o.widget]
<1>1. /\ p.file = o.file /\ p.unsaved = o.unsaved /\ p.tab = o.widget
      /\ p.widget = o.widget /\ p.watch = o.watch /\ ~p.timer
  BY DEF Outcome
<1>2. /\ Becomes(p) /\ frames' = Pulled(waiting)
      /\ newParent' = IF newParent = "none" THEN "none" ELSE "stale"
  BY DEF Replace, Pulled
<1>3. Len(Pulled(waiting)) = Len(waiting)
  BY LeftFacts, PulledFacts DEF IInv, Parts
<1> HIDE DEF p
<1> QED
  BY <1>1, <1>2, <1>3 DEF Becomes

LEMMA LockingLeaves ==
  ASSUME IInv, NEW o \in Outcome, NEW waiting, Left(waiting), Lock(o, waiting)
  PROVE  /\ file' = o.file /\ watch' = o.watch /\ ~unsaved' /\ mode' = "locked"
         /\ Len(frames') = Len(waiting) /\ frames' = Pulled(waiting) /\ editorStale' = FALSE
         /\ newParent' = IF newParent = "none" THEN "none" ELSE "stale"
<1> DEFINE p == [o EXCEPT !.unsaved = FALSE]
<1>1. p \in Outcome /\ ~p.unsaved /\ p.file = o.file /\ p.watch = o.watch
  BY DEF Outcome
<1>2. Replace(p, {}, waiting) /\ mode' = "locked" /\ editorStale' = FALSE
  BY DEF Lock
<1> HIDE DEF p
<1> QED
  BY <1>1, <1>2, ReplacingLeaves

LEMMA ReloadingLeaves ==
  ASSUME IInv, NEW o \in Outcome, NEW content, NEW waiting, Left(waiting),
         Reloaded(o, content, waiting)
  PROVE  /\ file' = o.file /\ unsaved' = o.unsaved /\ tabModified' = o.widget
         /\ watch'.watched = (file' # Absent)
         /\ mode' = mode /\ pendingLock' = pendingLock /\ editorStale' = (mode \in EditModes)
         /\ Len(frames') = Len(waiting)
<1>1. /\ Rewatched(o) \in Outcome
      /\ Rewatched(o).watch.watched = (o.file # Absent)
      /\ Rewatched(o).file = o.file /\ Rewatched(o).unsaved = o.unsaved
      /\ Rewatched(o).widget = o.widget
  BY RewatchedType
<1>2. /\ Replace(Rewatched(o), content, waiting)
      /\ mode' = mode /\ pendingLock' = pendingLock /\ editorStale' = (mode \in EditModes)
  BY DEF Reloaded
<1> QED
  BY <1>1, <1>2, ReplacingLeaves

\* The editor, and its questions.
EditorActs ==
  \/ \E c \in Changes : AcceptEdit(c) \/ ApplyEdit(c) \/ SequenceEdit(c) \/ CancelSave(c)
  \/ CancelEdit \/ CancelDiscard

EditorAsks == {"askApply", "askSequence", "askDiscard"}

\* What the editor leaves: it has written its input, or closed, or asks.
LEMMA EditorLeaves ==
  ASSUME IInv, EditorActs
  PROVE  \/ Undefined
         \/ mode = "locked" /\ End("emptied")
         \/ /\ mode \in Unlocked /\ Left(<< >>) /\ (Idle \/ Top.kind \in EditorAsks)
            /\ UNCHANGED <<file, tabModified, widgetModified, watch, pendingLock>>
            /\ \/ UNCHANGED <<mem, unsaved, timer>>
               \/ \E c \in Changes : mem' = mem \cup {c} /\ unsaved' /\ timer'
            /\ \/ /\ mode' = "view" /\ newParent' = "none" /\ editorStale' = FALSE
                  /\ frames' = << >>
               \/ /\ UNCHANGED <<mode, newParent, editorStale>>
                  /\ \E f \in Frames : /\ f.kind \in EditorAsks /\ f.current
                                       /\ frames' = <<f>> \o << >>
<1> DEFINE Wrote == /\ UNCHANGED <<file, tabModified, widgetModified, watch, pendingLock>>
                    /\ \/ UNCHANGED <<mem, unsaved, timer>>
                       \/ \E c \in Changes : mem' = mem \cup {c} /\ unsaved' /\ timer'
           Closed == /\ mode' = "view" /\ newParent' = "none" /\ editorStale' = FALSE
                     /\ frames' = << >>
           Asking == /\ UNCHANGED <<mode, newParent, editorStale>>
                     /\ \E f \in Frames : /\ f.kind \in EditorAsks /\ f.current
                                          /\ frames' = <<f>> \o << >>
<1>1. ASSUME NEW kind \in EditorAsks, Push(kind, FALSE, {}, << >>)
      PROVE  \E f \in Frames : f.kind \in EditorAsks /\ f.current /\ frames' = <<f>> \o << >>
  <2> DEFINE f == [kind |-> kind, current |-> TRUE, modified |-> FALSE, content |-> {}]
  <2>1. f \in Frames /\ f.kind = kind /\ f.current
    BY FrameType DEF EditorAsks, Questions
  <2>2. frames' = <<f>> \o << >>
    BY <1>1 DEF Push
  <2> HIDE DEF f
  <2> QED
    BY <2>1, <2>2
<1>2. ASSUME NEW c \in Changes, CommitEdit(c, << >>), ~Undefined
      PROVE  Wrote /\ (Closed \/ Asking)
  <2>1. /\ mem' = mem \cup {c} /\ unsaved' = TRUE /\ timer' = TRUE
        /\ UNCHANGED <<file, tabModified, widgetModified, watch>>
        /\ \/ Finished(<< >>)
           \/ /\ Push("askSequence", FALSE, {}, << >>)
              /\ UNCHANGED <<mode, editorStale, newParent, pendingLock>>
    BY <1>2 DEF CommitEdit
  <2>2. pendingLock' = pendingLock /\ (Closed \/ Asking)
    BY <1>1, <2>1 DEF Finished, EditorAsks
  <2> HIDE DEF Closed, Asking
  <2> QED
    BY <2>1, <2>2
<1>3. ASSUME AskApply(<< >>) PROVE Wrote /\ Asking
  BY <1>1, <1>3, BecomesNow DEF AskApply, Keep, EditorAsks
<1>4. ASSUME Finished(<< >>),
             UNCHANGED <<mem, unsaved, file, timer, tabModified, widgetModified, watch>>
      PROVE  Wrote /\ Closed
  BY <1>4 DEF Finished
<1>5. ASSUME NEW kind \in EditorAsks, Asked(kind)
      PROVE  /\ Waiting = << >> /\ Left(<< >>) /\ Top.kind \in EditorAsks
             /\ Top.current \/ mode # "locked" => mode \in Unlocked
  <2>1. kind \in Questions \ Nested
    BY DEF EditorAsks, Questions, Nested
  <2> QED
    BY <1>5, <2>1, OnlyQuestion DEF IInv, TypeOK, Modes, Asked
<1>6. Idle => Left(<< >>)
  BY DEF Idle, Left
<1>7. mode \in EditModes => mode \in Unlocked
  BY DEF Unlocked
<1> HIDE DEF Wrote, Closed, Asking
<1>8. SUFFICES ASSUME ~Undefined, ~(mode = "locked" /\ End("emptied"))
               PROVE  /\ mode \in Unlocked /\ Left(<< >>) /\ (Idle \/ Top.kind \in EditorAsks)
                      /\ Wrote /\ (Closed \/ Asking)
  BY DEF Wrote, Closed, Asking
<1>9. CASE \E c \in Changes : AcceptEdit(c)
  BY <1>2, <1>3, <1>6, <1>7, <1>8, <1>9 DEF AcceptEdit
<1>10. CASE \E c \in Changes : ApplyEdit(c)
  BY <1>2, <1>5, <1>8, <1>10 DEF ApplyEdit, EditorAsks
<1>11. CASE \E c \in Changes : SequenceEdit(c)
  BY <1>2, <1>4, <1>5, <1>8, <1>11 DEF SequenceEdit, EditorAsks
<1>12. CASE \E c \in Changes : CancelSave(c)
  BY <1>2, <1>3, <1>5, <1>8, <1>12 DEF CancelSave, EditorAsks
<1>13. CASE CancelEdit
  <2>1. CASE Finished(<< >>)
               /\ UNCHANGED <<mem, unsaved, file, timer, tabModified, widgetModified, watch>>
    BY <1>4, <1>6, <1>7, <1>13, <2>1 DEF CancelEdit
  <2>2. CASE Push("askDiscard", FALSE, {}, << >>) /\ Becomes(Now) /\ Keep
    <3>1. Asking
      BY <1>1, <2>2 DEF Asking, Keep, EditorAsks
    <3>2. Wrote
      BY <2>2, BecomesNow DEF Wrote, Keep
    <3> QED
      BY <1>6, <1>7, <1>13, <3>1, <3>2 DEF CancelEdit
  <2> QED
    BY <1>8, <1>13, <2>1, <2>2 DEF CancelEdit
<1>14. CASE CancelDiscard
  BY <1>4, <1>5, <1>8, <1>14 DEF CancelDiscard, EditorAsks
<1> QED
  BY <1>9, <1>10, <1>11, <1>12, <1>13, <1>14 DEF EditorActs

\* The handler that saved and asked "Disable safe saves?" goes on as after a save, ...
RetryEnds ==
  /\ mode \in Unlocked /\ ~Idle /\ Top.kind \in {"retryLock", "retryClose"}
  /\ Waiting = << >> /\ Left(<< >>)
  /\ \E o \in Outcome :
       /\ o.file = mem /\ o.watch.unblockTimer /\ ~o.widget
       /\ (Lock(o, << >>) /\ UNCHANGED pendingLock) \/ Close(o)

\* ... or returns.
RetryStays ==
  /\ mode \in Unlocked /\ ~Idle /\ Keep /\ frames' = Waiting
  /\ unsaved' => tabModified' \/ (unsaved /\ timer' = timer /\ tabModified' = tabModified)
  /\ unsaved /\ ~unsaved' => file' = mem
  /\ file' = mem \/ (file' = file /\ watch'.notified = watch.notified)
  /\ \/ watch'.unblockTimer
     \/ watch' = watch
     \/ Top.kind \in {"retryUnread", "retryDeclined"}
  /\ Top.kind \in {"retryUnread", "retryDeclined"} => watch'.watched = (file' # Absent)
  /\ widgetModified' => widgetModified \/ Top.kind = "retryDeclined"

LEMMA RetryLeaves ==
  ASSUME IInv, Retry
  PROVE  Undefined \/ RetryEnds \/ RetryStays
<1>1. ~Idle /\ Top.kind \in Retries /\ TypeOK /\ Parts /\ Now \in Outcome /\ mem \subseteq Changes
  BY NowType DEF Retry, IInv, TypeOK
<1>2. CASE ~Top.current
  BY <1>2 DEF Retry
<1>3. CASE Top.current
  <2>1. mode \in Unlocked /\ mode # "locked"
    BY <1>1, <1>3, CurrentIsUnlocked DEF Unlocked, EditModes
  <2>2. ASSUME NEW o \in Outcome,
               o.unsaved => o.tab \/ (unsaved /\ o.timer = timer /\ o.tab = tabModified),
               unsaved /\ ~o.unsaved => o.file = mem,
               o.file = mem \/ (o.file = file /\ o.watch.notified = watch.notified),
               o.watch.unblockTimer \/ o.watch = watch,
               o.widget => widgetModified,
               Becomes(CASE Top.kind = "retryUnread" -> Rewatched(o)
                         [] Top.kind = "retryDeclined" -> Rewatched([o EXCEPT !.widget = TRUE])
                         [] OTHER -> o)
        PROVE  Keep /\ frames' = Waiting => RetryStays
    <3>1. ASSUME NEW p \in Outcome
          PROVE  Rewatched(p).watch.notified = p.watch.notified
      BY DEF Rewatched, Outcome, GoodWatches, Watches
    <3> DEFINE q == [o EXCEPT !.widget = TRUE]
    <3>2. /\ q \in Outcome /\ q.unsaved = o.unsaved /\ q.tab = o.tab /\ q.timer = o.timer
          /\ q.file = o.file /\ q.watch = o.watch
      BY DEF Outcome
    <3> HIDE DEF q
    <3>3. CASE Top.kind = "retryUnread"
      <4>1. Becomes(Rewatched(o))
        BY <2>2, <3>3
      <4> QED
        BY <1>1, <2>1, <2>2, <3>1, <3>3, <4>1, RewatchedType DEF Becomes, RetryStays
    <3>4. CASE Top.kind = "retryDeclined"
      <4>1. Becomes(Rewatched(q))
        BY <2>2, <3>4 DEF q
      <4> QED
        BY <1>1, <2>1, <2>2, <3>1, <3>2, <3>4, <4>1, RewatchedType DEF Becomes, RetryStays
    <3>5. CASE Top.kind \notin {"retryUnread", "retryDeclined"}
      <4>1. Becomes(o)
        BY <2>2, <3>5
      <4> QED
        BY <1>1, <2>1, <2>2, <3>5, <4>1 DEF Becomes, RetryStays
    <3> QED
      BY <3>3, <3>4, <3>5
  <2>3. CASE Return(Now, FALSE)
    BY <1>1, <2>2, <2>3, NowIs DEF Return
  <2>4. CASE \E o \in SaveDatabase(Now) : Return(o, SaveSucceeded(o))
    <3>1. PICK o \in SaveDatabase(Now) : Return(o, SaveSucceeded(o))
      BY <2>4
    <3>2. /\ o \in Outcome /\ o.watch.unblockTimer
          /\ (o.unsaved => o.tab) /\ (unsaved /\ ~o.unsaved => o.file = mem)
          /\ SaveSucceeded(o) => o.file = mem
      BY <1>1, <2>1, <3>1, SaveLeaves, NowIs
    <3>6. (o.widget => widgetModified) /\ (SaveSucceeded(o) => ~o.widget)
      <4>1. Now.widget = widgetModified
        BY NowIs
      <4>2. o = Saved(Now) \/ o \in SaveFailed(Now)
        BY <2>1, <3>1 DEF SaveDatabase
      <4>3. SaveSucceeded(o) => o = Saved(Now)
        BY <1>1, <2>1, <3>1, SaveDatabaseType
      <4>4. o \in SaveFailed(Now) => o.widget = Now.widget
        BY <1>1, SaveFailedType
      <4>5. Saved(Now).widget = FALSE
        BY <1>1, SavedType
      <4> QED
        BY <4>1, <4>2, <4>3, <4>4, <4>5
    <3>3. o.file = mem \/ (o.file = file /\ o.watch.notified = watch.notified)
      <4>1. o = Saved(Now) \/ o \in SaveFailed(Now)
        BY <2>1, <3>1 DEF SaveDatabase
      <4>2. ASSUME o \in SaveFailed(Now)
            PROVE  o.file = file /\ o.watch.notified = watch.notified
        <5>1. PICK b \in {Now.timer, FALSE} :
                o = [Now EXCEPT !.timer = b, !.tab = TRUE, !.watch = Blocked(@)]
          BY <4>2 DEF SaveFailed
        <5>2. Now.watch \in GoodWatches
          BY <1>1 DEF Outcome
        <5>3. Blocked(Now.watch).notified = Now.watch.notified
          BY <5>2 DEF Blocked, GoodWatches, Watches
        <5> QED
          BY <1>1, <5>1, <5>3, NowIs DEF Outcome
      <4> QED
        BY <1>1, <4>1, <4>2, SavedType
    <3>4. CASE SaveSucceeded(o) /\ Top.kind \in {"retryLock", "retryClose"}
      <4>1. Waiting = << >> /\ Left(<< >>)
        BY <1>1, <3>4, NothingWaits DEF Nested, Left, Waiting, Parts
      <4>2. (Lock(o, << >>) /\ UNCHANGED pendingLock) \/ Close(o)
        BY <3>1, <3>4, <4>1 DEF Return
      <4> QED
        BY <1>1, <2>1, <3>2, <3>4, <3>6, <4>1, <4>2 DEF RetryEnds
    <3>5. CASE ~(SaveSucceeded(o) /\ Top.kind \in {"retryLock", "retryClose"})
      <4>1. /\ Keep /\ frames' = Waiting
            /\ Becomes(CASE Top.kind = "retryUnread" -> Rewatched(o)
                         [] Top.kind = "retryDeclined" -> Rewatched([o EXCEPT !.widget = TRUE])
                         [] OTHER -> o)
        BY <3>1, <3>5 DEF Return
      <4> QED
        BY <2>2, <3>2, <3>3, <3>6, <4>1
    <3> QED
      BY <3>4, <3>5
  <2> QED
    BY <1>3, <2>3, <2>4 DEF Retry
<1> QED
  BY <1>2, <1>3

----------------------------------------------------------------------------
(* A change that was never written stays known *)

LEMMA ReadFileKeepsMode == ASSUME NEW o, NEW waiting, ReadFile(o, waiting) PROVE mode' = mode
BY DEF ReadFile, Keep, Reloaded

LEMMA EditorTracked ==
  ASSUME IInv, EditorActs, Tracked, mode' \in Unlocked, unsaved'
  PROVE  tabModified' \/ timer'
<1>1. ~Undefined /\ ~End("emptied")
  BY DEF Undefined, End, Unlocked, EditModes
<1> QED
  BY <1>1, EditorLeaves DEF Tracked

LEMMA AnswerTracked ==
  ASSUME IInv, Answer, Tracked, ~(Asked("askMerge") /\ ~widgetModified)
  PROVE  Tracked'
<1> SUFFICES ASSUME mode' \in Unlocked, unsaved' PROVE tabModified' \/ timer'
  BY DEF Tracked
<1>1. Now \in Outcome /\ mode' \notin {"locked", "closed", "undefined", "emptied"}
  BY NowType DEF IInv, Unlocked, EditModes
<1>2. CASE Cancel(Cancelable)
  BY <1>2, BecomesNow DEF Cancel, Keep, Tracked
<1>3. CASE LockEditDiscard
  <2>1. LockUnlessModified(Waiting)
    BY <1>1, <1>3 DEF LockEditDiscard, Undefined, End
  <2>2. Becomes(Now) /\ Keep
    BY <1>1, <2>1 DEF LockUnlessModified, Lock
  <2> QED
    BY <2>2, BecomesNow DEF Keep, Tracked
<1>4. CASE LockSave
  <2>1. PICK o \in SaveDatabase(Now) : ~SaveSucceeded(o) /\ Becomes(o) /\ Keep
    BY <1>1, <1>4 DEF LockSave, Undefined, End, Lock
  <2>2. o.unsaved => o.tab
    BY <1>1, <2>1, SaveLeaves DEF SaveSucceeded
  <2> QED
    BY <2>1, <2>2 DEF Becomes
<1>5. CASE LockDiscard \/ CloseDiscard
  BY <1>1, <1>5 DEF LockDiscard, CloseDiscard, Undefined, End, Lock, Close
<1>6. CASE CloseEditDiscard
  <2>1. Waiting = << >> /\ Top \in Frames
    BY <1>6, OnlyQuestion DEF CloseEditDiscard, Questions, Nested
  <2>2. Top.modified \in BOOLEAN /\ Top.current \in BOOLEAN
    BY <2>1 DEF Frames
  <2>3. \/ unsaved' => tabModified'
        \/ Keep /\ Becomes(Now)
    BY <1>1, <1>6, <2>1, <2>2, ClosingLeaves DEF CloseEditDiscard, Undefined, End
  <2> QED
    BY <2>3, BecomesNow DEF Keep, Tracked
<1>7. CASE CloseSave
  <2>1. PICK o \in SaveDatabase(Now) : ~SaveSucceeded(o) /\ Becomes(o) /\ Keep
    BY <1>1, <1>7 DEF CloseSave, Undefined, End, Close
  <2>2. o.unsaved => o.tab
    BY <1>1, <2>1, SaveLeaves DEF SaveSucceeded
  <2> QED
    BY <2>1, <2>2 DEF Becomes
<1>8. CASE ReloadYes
  <2>1. ReadFile(Now, Waiting) /\ Left(Waiting)
    BY <1>8, ReloadQuestion DEF ReloadYes, Asks
  <2>2. mode' = mode /\ mode # "locked"
    BY <1>1, <2>1, ReadFileKeepsMode
  <2>3. unsaved' => tabModified' \/ timer' \/ (unsaved /\ ~tabModified /\ ~timer)
    BY <1>1, <2>1, <2>2, ReadingLeaves, NowIs
  <2> QED
    BY <2>2, <2>3 DEF Tracked
<1>9. CASE ReloadNo
  <2>1. PICK o \in Modified(Now) : \/ Becomes(Rewatched([o EXCEPT !.widget = TRUE]))
                                   \/ Becomes(o)
    BY <1>9 DEF ReloadNo
  <2>2. mode # "locked"
    BY <1>1, <1>9 DEF ReloadNo, Keep
  <2>3. o \in Outcome /\ (o.tab \/ ~o.unsaved)
    BY <1>1, <2>1, <2>2, ModifiedLeaves
  <2> DEFINE p == [o EXCEPT !.widget = TRUE]
  <2>4. p \in Outcome /\ p.tab = o.tab /\ p.unsaved = o.unsaved
    BY <2>3 DEF Outcome
  <2>5. Becomes(Rewatched(p)) \/ Becomes(o)
    BY <2>1
  <2> HIDE DEF p
  <2> QED
    BY <2>3, <2>4, <2>5, RewatchedType DEF Becomes
<1>10. CASE MergeYes
  <2>1. Asked("askMerge") /\ widgetModified
        /\ Reloaded(Now, Top.content \cup mem, Waiting)
    BY <1>10 DEF MergeYes
  <2>2. Left(Waiting)
    BY <2>1, ReloadQuestion DEF Asks
  <2> QED
    BY <1>1, <2>1, <2>2, ReloadingLeaves, NowIs
<1>11. CASE MergeNo
  <2> DEFINE p == [Now EXCEPT !.widget = FALSE, !.unsaved = FALSE]
  <2>1. p \in Outcome /\ ~p.unsaved
    BY <1>1 DEF Outcome
  <2>2. Asked("askMerge") /\ Reloaded(p, Top.content, Waiting)
    BY <1>11 DEF MergeNo
  <2> HIDE DEF p
  <2>3. Left(Waiting)
    BY <2>2, ReloadQuestion DEF Asks
  <2> QED
    BY <2>1, <2>2, <2>3, ReloadingLeaves
<1>12. ASSUME NEW c \in Changes, DeleteOrUpdate(c) PROVE timer'
  BY <1>1, <1>12 DEF DeleteOrUpdate, Changed, Undefined, End
<1>13. CASE Retry
  <2>1. RetryStays
    BY <1>1, <1>13, RetryLeaves DEF RetryEnds, Lock, Close, Undefined, End
  <2> QED
    BY <2>1 DEF RetryStays, Keep, Tracked
<1>14. CASE EditorActs
  BY <1>1, <1>14, EditorTracked
<1> QED
  BY <1>2, <1>3, <1>4, <1>5, <1>6, <1>7, <1>8, <1>9, <1>10, <1>11, <1>12, <1>13, <1>14
     DEF Answer, EditorActs

LEMMA UserTracked ==
  ASSUME IInv, User, Tracked
  PROVE  Tracked'
<1> SUFFICES ASSUME mode' \in Unlocked, unsaved' PROVE tabModified' \/ timer'
  BY DEF Tracked
<1>1. Now \in Outcome /\ mode' \notin {"locked", "closed", "undefined", "emptied"}
  BY NowType DEF IInv, Unlocked, EditModes
<1>2. ASSUME NEW c \in Changes, Change(c) PROVE timer'
  BY <1>2 DEF Change, Changed
<1>3. CASE OpenEditor
  BY <1>3 DEF OpenEditor, Tracked, Unlocked
<1>4. CASE UserSave
  <2>1. PICK o \in SaveDatabase(Now) : Becomes(o)
    BY <1>4 DEF UserSave
  <2> QED
    BY <1>1, <1>4, <2>1, SaveLeaves DEF UserSave, Becomes
<1>5. CASE LockDatabases
  <2>1. Becomes(Now) /\ Keep
    BY <1>1, <1>5 DEF LockDatabases, Undefined, End, LockUnlessModified, Lock
  <2> QED
    BY <2>1, BecomesNow DEF Keep, Tracked
<1>6. CASE Unlock
  <2>1. unsaved' = unsaved
    BY <1>1, <1>6, ReplacingLeaves, NowIs DEF Unlock, Left
  <2> QED
    BY <1>6, <2>1 DEF Unlock, IInv, Parts, NothingUnsavedWithout
<1>7. CASE CloseDatabase
  <2>1. CASE Becomes(Now) /\ Keep
    BY <2>1, BecomesNow DEF Keep, Tracked
  <2>2. CASE CloseUnlessModified(tabModified, TRUE, << >>)
    <3>1. tabModified \in BOOLEAN
      BY DEF IInv, TypeOK
    <3>2. (unsaved' => tabModified') \/ (Keep /\ Becomes(Now))
      BY <1>1, <2>2, <3>1, ClosingLeaves DEF Undefined, End
    <3> QED
      BY <3>2, BecomesNow DEF Keep, Tracked
  <2> QED
    BY <1>1, <1>7, <2>1, <2>2 DEF CloseDatabase, Undefined, End
<1>8. CASE OpenDatabase
  BY <1>8 DEF OpenDatabase, IInv, Parts, NothingUnsavedWithout
<1>9. CASE AskDelete \/ AskUpdate
  BY <1>9, BecomesNow DEF AskDelete, AskUpdate, Keep, Tracked
<1>10. CASE EditorActs
  BY <1>1, <1>10, EditorTracked
<1> QED
  BY <1>2, <1>3, <1>4, <1>5, <1>6, <1>7, <1>8, <1>9, <1>10 DEF User, EditorActs

LEMMA SystemTracked ==
  ASSUME IInv, External \/ Relock \/ ModifiedTimeout \/ OnWatchedFileChanged
               \/ UnblockAutoReload \/ ReloadDatabaseFile,
         Tracked
  PROVE  Tracked'
<1> SUFFICES ASSUME mode' \in Unlocked, unsaved' PROVE tabModified' \/ timer'
  BY DEF Tracked
<1>1. Now \in Outcome /\ mode' \notin {"locked", "closed", "undefined", "emptied"}
  BY NowType DEF IInv, Unlocked, EditModes
<1>2. CASE External \/ OnWatchedFileChanged \/ UnblockAutoReload
  BY <1>2 DEF External, ExternalRemove, ExternalWrite, OnWatchedFileChanged,
              UnblockAutoReload, Keep, Tracked
<1>3. CASE Relock
  BY <1>1, <1>3 DEF Relock, Lock
<1>4. CASE ModifiedTimeout
  <2> DEFINE o == [Now EXCEPT !.timer = FALSE]
  <2>1. o \in Outcome
    BY <1>1 DEF Outcome
  <2>2. PICK p \in Modified(o) : Becomes(p)
    BY <1>4 DEF ModifiedTimeout
  <2>3. mode # "locked"
    BY <1>1, <1>4 DEF ModifiedTimeout, Keep
  <2> HIDE DEF o
  <2> QED
    BY <2>1, <2>2, <2>3, ModifiedLeaves DEF Becomes
<1>5. CASE ReloadDatabaseFile
  <2> DEFINE o == [Now EXCEPT !.watch.reloadTimer = FALSE]
  <2>1. /\ o \in Outcome /\ o.unsaved = unsaved /\ o.tab = tabModified /\ o.timer = timer
        /\ o.file = file
    BY <1>1, NowIs DEF Outcome, GoodWatches, Watches
  <2>2. (Becomes(o) /\ Keep) \/ (mode # "locked" /\ ReadFile(o, frames))
    BY <1>5 DEF ReloadDatabaseFile
  <2> HIDE DEF o
  <2>3. CASE Becomes(o) /\ Keep
    BY <2>1, <2>3 DEF Becomes, Keep, Tracked
  <2>4. CASE mode # "locked" /\ ReadFile(o, frames)
    <3>1. mode' = mode /\ Left(frames)
      BY <2>4, ReadFileKeepsMode DEF Left
    <3>2. unsaved' => tabModified' \/ timer' \/ (unsaved /\ ~tabModified /\ ~timer)
      BY <2>1, <2>4, <3>1, ReadingLeaves
    <3> QED
      BY <3>1, <3>2 DEF Tracked
  <2> QED
    BY <2>2, <2>3, <2>4
<1> QED
  BY <1>2, <1>3, <1>4, <1>5

(***************************************************************************)
(* DatabaseTabWidget.cpp, modified and saveDatabase; DatabaseWidget.cpp,   *)
(* reloadDatabaseFile and replaceDatabase: for any settings, any number of *)
(* changes and any depth of questions, a tab stops knowing of an unwritten *)
(* change only by an answer to "merge your changes?" that comes after a    *)
(* save.                                                                   *)
(***************************************************************************)
THEOREM ChangesStayTracked == Spec => StaysTracked
<1>1. IInv /\ [Next]_vars =>
        [Tracked /\ ~Tracked' => Asked("askMerge") /\ ~widgetModified]_vars
  <2> SUFFICES ASSUME IInv, Next PROVE Tracked /\ ~Tracked' => Asked("askMerge") /\ ~widgetModified
    OBVIOUS
  <2> QED
    BY AnswerTracked, UserTracked, SystemTracked DEF Next
<1> QED
  BY <1>1, InitInvariant, NextInvariant, PTL DEF Spec, StaysTracked

----------------------------------------------------------------------------
(* How unwritten changes leave memory *)

LEMMA EditorLoses ==
  ASSUME IInv, EditorActs, unsaved
  PROVE  unsaved'
BY EditorLeaves DEF Undefined, End

LEMMA AnswerLoss ==
  ASSUME IInv, Answer, Tracked, unsaved, ~unsaved', ~timer
  PROVE  file' = mem \/ Discarded \/ CopiedTooEarly \/ AutoSaveHadFailed
<1>1. /\ TypeOK /\ Now \in Outcome /\ Now.unsaved
      /\ mode \notin {"locked", "closed"} /\ (mode \in Unlocked => tabModified)
  BY NowType, NowIs DEF IInv, Parts, NothingUnsavedWithout, Tracked
<1>2. ~Idle => Len(frames) \in Nat /\ Len(Waiting) < Len(frames)
  BY <1>1, StackFacts
<1>3. CASE Cancel(Cancelable) \/ ReloadNo \/ ReloadYes
           \/ MergeYes
  <2>1. CASE Cancel(Cancelable)
    BY <1>1, <2>1, BecomesNow DEF Cancel
  <2>2. CASE ReloadNo
    <3>1. PICK o \in Modified(Now) : \/ Becomes(Rewatched([o EXCEPT !.widget = TRUE]))
                                     \/ Becomes(o)
      BY <2>2 DEF ReloadNo
    <3>2. o \in Outcome /\ (~o.unsaved => o.file = mem)
      BY <1>1, <3>1, ModifiedLeaves
    <3> DEFINE p == [o EXCEPT !.widget = TRUE]
    <3>3. p \in Outcome /\ p.file = o.file /\ p.unsaved = o.unsaved
      BY <3>2 DEF Outcome
    <3>4. Becomes(Rewatched(p)) \/ Becomes(o)
      BY <3>1
    <3> HIDE DEF p
    <3> QED
      BY <3>2, <3>3, <3>4, RewatchedType DEF Becomes
  <2>3. CASE ReloadYes
    <3>1. ReadFile(Now, Waiting) /\ Left(Waiting) /\ mode \notin {"closed", "undefined", "emptied"}
      BY <2>3, ReloadQuestion DEF ReloadYes, Asks
    <3>2. /\ mode' = mode
          /\ file' = mem \/ ~widgetModified
      BY <1>1, <3>1, ReadingLeaves, NowIs
    <3>3. mode \in Unlocked
      BY <1>1, <3>1 DEF TypeOK, Modes
    <3> QED
      BY <1>1, <3>2, <3>3 DEF AutoSaveHadFailed, Unlocked, EditModes
  <2>4. CASE MergeYes
    <3>1. Asked("askMerge") /\ Reloaded(Now, Top.content \cup mem, Waiting)
      BY <2>4 DEF MergeYes
    <3>2. Left(Waiting)
      BY <3>1, ReloadQuestion DEF Asks
    <3> QED
      BY <1>1, <3>1, <3>2, ReloadingLeaves
  <2> QED
    BY <1>3, <2>1, <2>2, <2>3, <2>4
<1>4. CASE LockEditDiscard
  <2>1. /\ Waiting = << >> /\ Top \in Frames
        /\ Top.current => mode \notin {"locked", "closed", "undefined", "emptied"}
    BY <1>4, OnlyQuestion DEF LockEditDiscard, Questions, Nested
  <2>2. CASE Top.current
    <3>1. tabModified
      BY <1>1, <2>1, <2>2 DEF TypeOK, Modes
    <3> QED
      BY <1>1, <1>4, <2>2, <3>1, BecomesNow DEF LockEditDiscard, LockUnlessModified
  <2>3. CASE ~Top.current
    BY <1>1, <1>4, <2>3 DEF LockEditDiscard, Undefined, End
  <2> QED
    BY <2>2, <2>3
<1>5. CASE LockSave \/ LockDiscard \/ CloseSave \/ CloseDiscard
  <2>1. ~Idle /\ Top.kind \in {"lockSave", "closeSave"}
    BY <1>5 DEF LockSave, LockDiscard, CloseSave, CloseDiscard, Asked
  <2>2. Waiting = << >>
    BY <1>1, <2>1, NothingWaits DEF Nested, IInv, Parts
  <2>3. Len(<< >>) = 0 /\ Len(Pulled(<< >>)) = 0
    <3>1. << >> \in Seq(Frames) /\ Len(<< >>) = 0
      BY EmptySeq
    <3> QED
      BY <3>1, PulledFacts
  <2>4. Undefined \/ Len(frames') = 0 \/ unsaved' = unsaved
    <3>1. Left(<< >>)
      BY <2>1, <2>2 DEF Left, Waiting
    <3>2. ASSUME NEW o \in SaveDatabase(Now), Lock(o, << >>)
          PROVE  Len(frames') = 0
      BY <1>1, <2>3, <3>1, <3>2, SaveLeaves, LockingLeaves
    <3>3. ASSUME Lock([Now EXCEPT !.tab = FALSE, !.widget = FALSE], << >>)
          PROVE  Len(frames') = 0
      <4> DEFINE o == [Now EXCEPT !.tab = FALSE, !.widget = FALSE]
      <4>1. o \in Outcome
        BY <1>1 DEF Outcome
      <4>2. Lock(o, << >>)
        BY <3>3
      <4> HIDE DEF o
      <4> QED
        BY <2>3, <3>1, <4>1, <4>2, LockingLeaves
    <3>4. ASSUME NEW o \in SaveDatabase(Now), NEW kind, AskRetry(kind, Now, o, << >>), Becomes(o)
          PROVE  unsaved' = unsaved
      BY <1>1, <3>4, AskRetryLeaves, NowIs
    <3> QED
      <4>1. CASE LockSave
        BY <2>2, <2>3, <3>2, <3>4, <4>1 DEF LockSave
      <4>2. CASE LockDiscard
        BY <2>2, <3>3, <4>2 DEF LockDiscard
      <4>3. CASE CloseSave \/ CloseDiscard
        BY <2>2, <2>3, <3>4, <4>3 DEF CloseSave, CloseDiscard, Close
      <4> QED
        BY <1>5, <4>1, <4>2, <4>3
  <2>5. Undefined => unsaved' = unsaved
    BY DEF Undefined, End
  <2> QED
    BY <1>2, <2>1, <2>2, <2>3, <2>4, <2>5 DEF Discarded
<1>6. CASE CloseEditDiscard
  <2>1. /\ Waiting = << >> /\ Top \in Frames
        /\ Top.current => mode \notin {"locked", "closed", "undefined", "emptied"}
    BY <1>6, OnlyQuestion DEF CloseEditDiscard, Questions, Nested
  <2>2. Top.modified \in BOOLEAN /\ Top.current \in BOOLEAN
    BY <2>1 DEF Frames
  <2>3. CASE Top.modified
    BY <1>1, <1>6, <2>1, <2>2, <2>3, ClosingLeaves, BecomesNow DEF CloseEditDiscard, Undefined, End
  <2>4. CASE ~Top.modified
    BY <1>6, <2>4 DEF CloseEditDiscard, CopiedTooEarly
  <2> QED
    BY <2>3, <2>4
<1>7. CASE MergeNo
  <2>1. Asked("askMerge") /\ ~Idle
    BY <1>7 DEF MergeNo, Asked
  <2> DEFINE p == [Now EXCEPT !.widget = FALSE, !.unsaved = FALSE]
  <2>2. p \in Outcome
    BY <1>1 DEF Outcome
  <2>3. Reloaded(p, Top.content, Waiting) /\ Left(Waiting)
    BY <1>7, <2>1, ReloadQuestion DEF MergeNo, Asks
  <2> HIDE DEF p
  <2>4. Len(frames') = Len(Waiting)
    BY <2>2, <2>3, ReloadingLeaves
  <2> QED
    BY <1>2, <2>1, <2>4 DEF Discarded, Asked
<1>8. ASSUME NEW c \in Changes, DeleteOrUpdate(c) PROVE FALSE
  BY <1>8 DEF DeleteOrUpdate, Changed, Undefined, End
<1>9. CASE Retry
  <2>1. CASE RetryEnds
    <3>1. PICK o \in Outcome : /\ o.file = mem
                               /\ (Lock(o, << >>) /\ UNCHANGED pendingLock) \/ Close(o)
      BY <2>1 DEF RetryEnds
    <3>2. CASE Lock(o, << >>)
      BY <2>1, <3>1, <3>2, LockingLeaves DEF RetryEnds
    <3>3. CASE Close(o)
      <4>1. Becomes([o EXCEPT !.timer = FALSE, !.unsaved = FALSE])
        BY <3>3 DEF Close
      <4>2. file' = o.file
        BY <4>1 DEF Becomes, Outcome
      <4> QED
        BY <3>1, <4>2
    <3> QED
      BY <3>1, <3>2, <3>3
  <2>2. ~Undefined
    BY DEF Undefined, End
  <2> QED
    BY <1>9, <2>1, <2>2, RetryLeaves DEF RetryStays
<1>10. ~EditorActs
  BY EditorLoses
<1> QED
  BY <1>3, <1>4, <1>5, <1>6, <1>7, <1>8, <1>9, <1>10 DEF Answer, EditorActs

LEMMA OtherLoss ==
  ASSUME IInv, User \/ External \/ Relock \/ ModifiedTimeout \/ OnWatchedFileChanged
               \/ UnblockAutoReload \/ ReloadDatabaseFile,
         Tracked, unsaved, ~unsaved', ~timer
  PROVE  file' = mem \/ Relocked \/ AutoSaveHadFailed
<1>1. /\ TypeOK /\ Now \in Outcome /\ Now.unsaved
      /\ mode \notin {"locked", "closed"} /\ (mode \in Unlocked => tabModified)
  BY NowType, NowIs DEF IInv, Parts, NothingUnsavedWithout, Tracked
<1>2. CASE User
  <2>1. ~EditorActs /\ \A c \in Changes : ~Change(c)
    BY EditorLoses DEF Change, Changed
  <2>2. ~(OpenEditor \/ Unlock \/ OpenDatabase)
    BY <1>1 DEF OpenEditor, Unlock, OpenDatabase
  <2>3. CASE UserSave
    <3>1. PICK o \in SaveDatabase(Now) : Becomes(o)
      BY <2>3 DEF UserSave
    <3> QED
      BY <1>1, <3>1, SaveLeaves DEF Becomes
  <2>4. ~LockDatabases
    BY <1>1, BecomesNow DEF LockDatabases, LockUnlessModified, Undefined, End
  <2>5. CASE CloseDatabase
    <3>1. mode \in Unlocked /\ tabModified
      BY <1>1, <2>5 DEF CloseDatabase
    <3>2. CloseUnlessModified(tabModified, TRUE, << >>)
      BY <1>1, <2>5, BecomesNow DEF CloseDatabase, Undefined, End
    <3>3. tabModified \in BOOLEAN
      BY <1>1 DEF TypeOK
    <3> QED
      BY <1>1, <3>1, <3>2, <3>3, ClosingLeaves, BecomesNow DEF Undefined, End
  <2>6. ~(AskDelete \/ AskUpdate)
    BY <1>1, BecomesNow DEF AskDelete, AskUpdate
  <2> QED
    BY <1>2, <2>1, <2>2, <2>3, <2>4, <2>5, <2>6 DEF User, EditorActs
<1>3. ~(External \/ OnWatchedFileChanged \/ UnblockAutoReload \/ ModifiedTimeout)
  BY <1>1 DEF External, ExternalRemove, ExternalWrite, OnWatchedFileChanged,
              UnblockAutoReload, ModifiedTimeout
<1>4. CASE Relock
  BY <1>4 DEF Relock, Relocked
<1>5. CASE ReloadDatabaseFile
  <2> DEFINE o == [Now EXCEPT !.watch.reloadTimer = FALSE]
  <2>1. /\ o \in Outcome /\ o.unsaved = unsaved /\ o.widget = widgetModified /\ o.file = file
    BY <1>1, NowIs DEF Outcome, GoodWatches, Watches
  <2>2. (Becomes(o) /\ Keep) \/ ReadFile(o, frames)
    BY <1>5 DEF ReloadDatabaseFile
  <2>3. mode \in Unlocked
    BY <1>1, <1>5 DEF ReloadDatabaseFile, Alive
  <2> HIDE DEF o
  <2>4. ReadFile(o, frames) /\ Left(frames)
    BY <2>1, <2>2 DEF Becomes, Left
  <2>5. mode' = mode /\ (file' = mem \/ ~widgetModified)
    BY <1>1, <2>1, <2>4, ReadingLeaves
  <2> QED
    BY <1>1, <2>3, <2>5 DEF AutoSaveHadFailed, Unlocked, EditModes
<1> QED
  BY <1>2, <1>3, <1>4, <1>5

(***************************************************************************)
(* DatabaseTabWidget.cpp and DatabaseWidget.cpp: the ways unwritten        *)
(* changes leave memory without being written or discarded by the user,    *)
(* for any settings and any depth of questions.                            *)
(***************************************************************************)
THEOREM LossesAreExplained == Spec => LossIsExplained
<1>1. IInv /\ [Next]_vars =>
        [unsaved /\ ~unsaved' =>
           \/ file' = mem
           \/ Discarded \/ InTheTimerWindow \/ CopiedTooEarly \/ Relocked
           \/ AutoSaveHadFailed \/ ~Tracked]_vars
  <2> SUFFICES ASSUME IInv, Next, unsaved, ~unsaved', ~timer, Tracked
               PROVE  file' = mem \/ Discarded \/ CopiedTooEarly \/ Relocked
                      \/ AutoSaveHadFailed
    BY DEF InTheTimerWindow
  <2> QED
    BY AnswerLoss, OtherLoss DEF Next
<1> QED
  BY <1>1, InitInvariant, NextInvariant, PTL DEF Spec, LossIsExplained

----------------------------------------------------------------------------
(* How a pointer comes to dangle *)

\* Where nothing dangles, whoever waits holds the tab's database.
LEMMA NothingDangles ==
  ASSUME IInv, ~Dangling
  PROVE  /\ ~editorStale /\ newParent \in {"none", "current"}
         /\ \A i \in DOMAIN frames : frames[i].current
         /\ mode \in {"locked", "closed", "undefined", "emptied"} => Idle
         /\ mode \notin {"create", "closed", "undefined"} => newParent = "none"
<1>1. /\ TypeOK /\ Parts /\ ~editorStale /\ newParent # "stale"
      /\ \A i \in DOMAIN frames : frames[i].current
  BY DEF IInv, Dangling
<1>2. ASSUME ~Idle PROVE mode \notin {"locked", "closed", "undefined", "emptied"}
  <2>1. /\ Len(frames) \in Nat /\ Len(frames) # 0 /\ DOMAIN frames = 1..Len(frames)
    BY <1>1, <1>2, StackFacts
  <2>2. 1 \in DOMAIN frames
    BY <2>1
  <2> QED
    BY <1>1, <1>2, <2>2
       DEF Parts, LockedHasNoDatabase, UndefinedByUser, ClosedIsQuiet, Idle
<1> QED
  BY <1>1, <1>2 DEF TypeOK, Parts, ParentWhileCreating

\* Locking by question leaves nobody waiting.
LEMMA LockingDangles ==
  ASSUME IInv, ~Dangling, NEW o \in Outcome, Left(<< >>), Lock(o, << >>),
         mode \in {"view", "edit"}
  PROVE  ~Dangling'
<1>1. << >> \in Seq(Frames) /\ DOMAIN << >> = {}
  BY EmptySeq
<1>2. /\ frames' = Pulled(<< >>) /\ editorStale' = FALSE
      /\ newParent' = IF newParent = "none" THEN "none" ELSE "stale"
  BY LockingLeaves
<1>3. DOMAIN frames' = {}
  BY <1>1, <1>2 DEF Pulled
<1>4. newParent = "none"
  BY NothingDangles
<1> QED
  BY <1>2, <1>3, <1>4 DEF Dangling

LEMMA LockUnlessModifiedDangles ==
  ASSUME IInv, ~Dangling, LockUnlessModified(<< >>), Left(<< >>), mode \in {"view", "edit"}
  PROVE  mode' = mode \/ ~Dangling'
<1>1. Now \in Outcome
  BY NowType DEF IInv
<1> QED
  BY <1>1, LockingDangles DEF LockUnlessModified, Keep

\* The editor makes nothing dangle.
LEMMA EditorDangles ==
  ASSUME IInv, EditorActs, ~Dangling
  PROVE  ~Dangling'
<1>1. ~editorStale /\ newParent # "stale"
  BY DEF Dangling
<1>2. DOMAIN << >> = {}
  BY EmptySeq
<1>3. CASE Undefined \/ End("emptied")
  BY <1>1, <1>2, <1>3 DEF Undefined, End, Dangling
<1>4. CASE ~(Undefined \/ End("emptied"))
  <2>1. newParent' # "stale" /\ ~editorStale'
    <3>1. \/ newParent' = "none" /\ editorStale' = FALSE
          \/ newParent' = newParent /\ editorStale' = editorStale
      BY <1>4, EditorLeaves
    <3> QED
      BY <1>1, <3>1
  <2>2. frames' = << >> \/ \E f \in Frames : f.current /\ frames' = <<f>> \o << >>
    BY <1>4, EditorLeaves
  <2>3. ASSUME NEW f \in Frames, f.current, frames' = <<f>> \o << >>
        PROVE  \A i \in DOMAIN frames' : frames'[i].current
    <3>1. << >> \in Seq(Frames) /\ Len(<< >>) = 0
      BY EmptySeq
    <3>2. DOMAIN frames' = 1..1 /\ frames'[1] = f
      BY <2>3, <3>1, PushedFacts
    <3> QED
      BY <2>3, <3>2
  <2> QED
    BY <1>2, <2>1, <2>2, <2>3 DEF Dangling
<1> QED
  BY <1>3, <1>4

LEMMA AnswerDangles ==
  ASSUME IInv, Answer, ~Dangling, Dangling'
  PROVE  mode \in Unlocked /\ mode' \in {mode} \cup (IF mode = "create" THEN {"locked"} ELSE {})
<1>1. /\ ~Idle /\ TypeOK
  BY DEF Answer, Cancel, Asked, LockEditDiscard, LockSave, LockDiscard, CloseEditDiscard,
         CloseSave, CloseDiscard, ReloadYes, ReloadNo, MergeYes, MergeNo,
         DeleteOrUpdate, ApplyEdit, SequenceEdit, CancelSave, CancelDiscard, Retry, IInv
<1>2. mode \in Unlocked /\ Now \in Outcome /\ Top.current
  <2>1. mode \notin {"locked", "closed", "undefined", "emptied"} /\ \A i \in DOMAIN frames : frames[i].current
    BY <1>1, NothingDangles
  <2>2. Len(frames) \in Nat /\ Len(frames) # 0 /\ DOMAIN frames = 1..Len(frames)
        /\ Top = frames[1]
    BY <1>1, StackFacts
  <2>3. 1 \in DOMAIN frames
    BY <2>2
  <2> QED
    BY <1>1, <2>1, <2>2, <2>3, NowType DEF TypeOK, Modes
<1>3. mode = "create" \/ mode \in {"view", "edit"}
  BY <1>2 DEF Unlocked, EditModes
<1>4. CASE Cancel(Cancelable) \/ ReloadYes \/ ReloadNo
           \/ MergeYes \/ MergeNo
  <2>1. mode' = mode
    BY <1>4, ReadFileKeepsMode DEF Cancel, ReloadYes, ReloadNo, MergeYes, MergeNo, Keep, Reloaded
  <2> QED
    BY <1>2, <2>1
<1>5. CASE LockEditDiscard \/ LockSave \/ LockDiscard
  <2>1. Waiting = << >> /\ Left(<< >>)
    BY <1>1, <1>5, NothingWaits
       DEF LockEditDiscard, LockSave, LockDiscard, Asked, Nested, IInv, Parts, Left, Waiting
  <2>2. CASE mode = "create"
    BY <1>2, <1>5, <2>2 DEF LockEditDiscard, LockUnlessModified, LockSave, LockDiscard, Lock, Keep
  <2>3. CASE mode \in {"view", "edit"}
    <3>1. CASE LockEditDiscard
      BY <1>2, <2>1, <2>3, <3>1, LockUnlessModifiedDangles DEF LockEditDiscard
    <3>2. CASE LockSave
      <4>1. PICK o \in SaveDatabase(Now) :
              IF SaveSucceeded(o)
              THEN Lock(o, Waiting) /\ UNCHANGED pendingLock
              ELSE Becomes(o) /\ Keep
        BY <1>2, <3>2 DEF LockSave
      <4>2. o \in Outcome
        BY <1>2, <2>3, <4>1, SaveLeaves
      <4>3. CASE SaveSucceeded(o)
        BY <2>1, <2>3, <4>1, <4>2, <4>3, LockingDangles
      <4>4. CASE ~SaveSucceeded(o)
        BY <1>2, <4>1, <4>4 DEF Keep
      <4> QED
        BY <4>3, <4>4
    <3>3. CASE LockDiscard
      <4> DEFINE o == [Now EXCEPT !.tab = FALSE, !.widget = FALSE]
      <4>1. o \in Outcome
        BY <1>2 DEF Outcome
      <4>2. Lock(o, << >>)
        BY <1>2, <2>1, <3>3 DEF LockDiscard
      <4> HIDE DEF o
      <4> QED
        BY <2>1, <2>3, <4>1, <4>2, LockingDangles
    <3> QED
      BY <1>5, <3>1, <3>2, <3>3
  <2> QED
    BY <1>3, <2>2, <2>3
<1>6. ASSUME mode' = "closed", frames' = << >>, UNCHANGED <<editorStale, newParent>>
      PROVE  FALSE
  <2>1. DOMAIN frames' = {}
    BY <1>6, EmptySeq
  <2> QED
    BY <1>6, <2>1, NothingDangles DEF Dangling
<1>7. CASE CloseEditDiscard
  <2>1. Waiting = << >> /\ Top \in Frames
    BY <1>7, OnlyQuestion DEF CloseEditDiscard, Questions, Nested
  <2>2. Top.modified \in BOOLEAN /\ Top.current \in BOOLEAN
    BY <2>1 DEF Frames
  <2>3. Undefined => ~Dangling'
    BY NothingDangles, EmptySeq DEF Undefined, End, Dangling
  <2> QED
    BY <1>2, <1>6, <1>7, <2>1, <2>2, <2>3, ClosingLeaves DEF CloseEditDiscard, Keep
<1>8. CASE CloseSave \/ CloseDiscard
  BY <1>2, <1>6, <1>8 DEF CloseSave, CloseDiscard, Close, Keep
<1>9. ASSUME NEW c \in Changes, DeleteOrUpdate(c) PROVE mode' = mode
  BY <1>2, <1>9 DEF DeleteOrUpdate, Changed
<1>10. CASE Retry
  <2>1. CASE RetryEnds
    <3>1. PICK o \in Outcome : Lock(o, << >>) \/ Close(o)
      BY <2>1 DEF RetryEnds
    <3>2. CASE Lock(o, << >>)
      <4>1. Left(<< >>)
        BY <2>1 DEF RetryEnds
      <4>2. mode = "create" => mode' = "locked"
        BY <3>2 DEF Lock
      <4> QED
        BY <1>2, <1>3, <3>2, <4>1, <4>2, LockingDangles
    <3>3. ~Close(o)
      BY <1>6 DEF Close
    <3> QED
      BY <3>1, <3>2, <3>3
  <2>2. CASE RetryStays
    BY <1>2, <2>2 DEF RetryStays, Keep
  <2>3. ~Undefined
    BY NothingDangles, EmptySeq DEF Undefined, End, Dangling
  <2> QED
    BY <1>10, <2>1, <2>2, <2>3, RetryLeaves
<1>11. ~EditorActs
  BY EditorDangles
<1> QED
  BY <1>2, <1>4, <1>5, <1>7, <1>8, <1>9, <1>10, <1>11 DEF Answer, EditorActs

LEMMA UserDangles ==
  ASSUME IInv, User, ~Dangling, Dangling'
  PROVE  mode \in Unlocked /\ mode' = mode
<1>1. Now \in Outcome /\ TypeOK
  BY NowType DEF IInv
<1>2. ~editorStale /\ newParent \in {"none", "current"}
      /\ \A i \in DOMAIN frames : frames[i].current
  BY NothingDangles
<1>3. ~Undefined
  BY <1>2, EmptySeq DEF Undefined, End, Dangling
<1>4. ASSUME NEW c \in Changes, Change(c) PROVE FALSE
  <2>1. newParent' = newParent /\ editorStale' = editorStale /\ frames' = frames
    BY <1>4 DEF Change, Changed
  <2> QED
    BY <1>2, <2>1 DEF Dangling
<1>5. ~OpenEditor /\ ~EditorActs
  <2>1. ASSUME OpenEditor PROVE FALSE
    <3>1. newParent' \in {newParent, "current"} /\ UNCHANGED <<frames, editorStale>>
      BY <2>1 DEF OpenEditor
    <3> QED
      BY <1>2, <3>1 DEF Dangling
  <2> QED
    BY <2>1, EditorDangles
<1>6. CASE UserSave
  BY <1>6 DEF UserSave, Keep, Unlocked
<1>7. CASE LockDatabases
  <2>1. Left(<< >>) /\ mode \in Unlocked
    BY <1>7 DEF LockDatabases, Left, Idle
  <2>2. CASE LockUnlessModified(<< >>) /\ mode \in {"view", "edit"}
    BY <2>1, <2>2, LockUnlessModifiedDangles
  <2> QED
    BY <1>3, <1>7, <2>1, <2>2 DEF LockDatabases, Keep
<1>8. ASSUME Unlock PROVE FALSE
  <2>1. mode = "locked" /\ Idle /\ Left(frames) /\ Replace(Now, file, frames)
        /\ editorStale' = editorStale
    BY <1>8 DEF Unlock, Left
  <2>2. frames' = Pulled(frames) /\ newParent' = IF newParent = "none" THEN "none" ELSE "stale"
    BY <1>1, <2>1, ReplacingLeaves
  <2>3. DOMAIN frames' = {}
    BY <2>1, <2>2, EmptySeq DEF Idle, Pulled
  <2>4. newParent = "none"
    BY <2>1, NothingDangles
  <2> QED
    BY <1>2, <2>1, <2>2, <2>3, <2>4 DEF Dangling
<1>9. CASE CloseDatabase
  <2>1. CASE Keep /\ mode \in EditModes
    BY <2>1 DEF Keep, Unlocked
  <2>2. CASE CloseUnlessModified(tabModified, TRUE, << >>)
    <3>1. mode' = "closed" /\ frames' = << >> /\ UNCHANGED <<editorStale, newParent>> => FALSE
      BY <1>2, EmptySeq DEF Dangling
    <3>2. tabModified \in BOOLEAN
      BY <1>1 DEF TypeOK
    <3>3. mode # "locked" /\ Keep
      BY <1>3, <2>2, <3>1, <3>2, ClosingLeaves
    <3> QED
      BY <1>9, <3>3 DEF CloseDatabase, Keep
  <2> QED
    BY <1>3, <1>9, <2>1, <2>2 DEF CloseDatabase
<1>10. ASSUME OpenDatabase PROVE FALSE
  <2>1. newParent' = "none" /\ ~editorStale' /\ frames' = frames
    BY <1>10 DEF OpenDatabase
  <2> QED
    BY <1>2, <2>1 DEF Dangling
<1>11. CASE AskDelete \/ AskUpdate
  BY <1>11 DEF AskDelete, AskUpdate, Keep, Unlocked
<1> QED
  BY <1>4, <1>5, <1>6, <1>7, <1>8, <1>9, <1>10, <1>11 DEF User, EditorActs

LEMMA SystemDangles ==
  ASSUME IInv, External \/ Relock \/ ModifiedTimeout \/ OnWatchedFileChanged
               \/ UnblockAutoReload \/ ReloadDatabaseFile,
         ~Dangling, Dangling'
  PROVE  (mode \in Unlocked /\ mode' = mode) \/ Relocked
<1>1. ASSUME UNCHANGED frames, Keep PROVE FALSE
  BY <1>1, NothingDangles DEF Keep, Dangling
<1>2. ~(External \/ OnWatchedFileChanged \/ UnblockAutoReload)
  BY <1>1 DEF External, ExternalRemove, ExternalWrite, OnWatchedFileChanged, UnblockAutoReload
<1>3. CASE Relock
  BY <1>3 DEF Relock, Relocked
<1>4. CASE ReloadDatabaseFile
  <2>1. mode \in Unlocked /\ mode' = mode
    BY <1>1, <1>4, ReadFileKeepsMode DEF ReloadDatabaseFile, Alive, Keep
  <2> QED
    BY <2>1
<1>5. CASE ModifiedTimeout
  <2>1. Keep /\ Alive /\ (UNCHANGED frames \/ mode # "locked")
    BY <1>5 DEF ModifiedTimeout, AskRetry
  <2> QED
    BY <1>1, <2>1 DEF Alive, Keep
<1> QED
  BY <1>2, <1>3, <1>4, <1>5

(***************************************************************************)
(* DatabaseWidget.cpp, m_newParent, m_editEntryWidget and the handlers     *)
(* that wait in a message box: what pulls the database from under them,    *)
(* for any settings and any depth of questions.                            *)
(***************************************************************************)
THEOREM DanglingIsAlwaysExplained == Spec => DanglingIsExplained
<1>1. IInv /\ [Next]_vars =>
        [~Dangling /\ Dangling' =>
           \/ mode \in Unlocked /\ mode' = mode
           \/ Relocked
           \/ mode = "create" /\ mode' = "locked"]_vars
  <2> SUFFICES ASSUME IInv, Next, ~Dangling, Dangling'
               PROVE  \/ mode \in Unlocked /\ mode' = mode
                      \/ Relocked
                      \/ mode = "create" /\ mode' = "locked"
    OBVIOUS
  <2> QED
    BY AnswerDangles, UserDangles, SystemDangles DEF Next
<1> QED
  BY <1>1, InitInvariant, NextInvariant, PTL DEF Spec, DanglingIsExplained

----------------------------------------------------------------------------
(* How the watch ends *)

Without(kinds) == \A i \in DOMAIN frames : frames[i].kind \notin kinds

\* Whoever asks one of these watches the file anew when it goes on.
Renewals == {"askReload", "askMerge", "retryUnread", "retryDeclined"}

NoRenewals == Without(Renewals)
NoAsks == Without(Asks)

LEMMA IdleIsWithout ==
  ASSUME IInv, Idle \/ Top.kind \notin Nested, NEW kinds \in SUBSET Nested
  PROVE  Without(kinds)
<1>1. TypeOK /\ AskedFirst
  BY DEF IInv, Parts
<1>2. CASE Idle
  BY <1>2, EmptySeq DEF Idle, Without
<1>3. CASE ~Idle
  <2>1. Len(frames) = 1 /\ DOMAIN frames = 1..Len(frames) /\ Top = frames[1]
    BY <1>1, <1>3, NothingWaits, StackFacts
  <2> QED
    BY <1>3, <2>1 DEF Without
<1> QED
  BY <1>2, <1>3

\* An answer about a deletion or an update ends no question about a reload, ...
LEMMA PoppingKeeps ==
  ASSUME IInv, ~Idle, NEW kinds, Top.kind \notin kinds, frames' = Waiting
  PROVE  Without(kinds)' <=> Without(kinds)
<1>1. /\ Len(frames) \in Nat /\ Len(frames) # 0 /\ DOMAIN frames = 1..Len(frames)
      /\ Top = frames[1] /\ DOMAIN Waiting = 1..(Len(frames) - 1)
      /\ \A i \in 1..(Len(frames) - 1) : Waiting[i] = frames[i + 1]
  BY StackFacts DEF IInv
<1>2. \A i \in 1..(Len(frames) - 1) : i + 1 \in 1..Len(frames)
  BY <1>1
<1>3. \A i \in 1..Len(frames) : i = 1 \/ (i - 1 \in 1..(Len(frames) - 1)
                                        /\ Waiting[i - 1] = frames[i])
  BY <1>1
<1> QED
  BY <1>1, <1>2, <1>3 DEF Without

\* ... and the question itself is none.
LEMMA PushingKeeps ==
  ASSUME IInv, NEW kinds, NEW f \in Frames, f.kind \notin kinds, frames' = <<f>> \o frames
  PROVE  Without(kinds)' <=> Without(kinds)
<1>3. frames \in Seq(Frames) /\ DOMAIN frames = 1..Len(frames) /\ Len(frames) \in Nat
  BY StackFacts DEF IInv, TypeOK
<1>4. /\ DOMAIN frames' = 1..(Len(frames) + 1) /\ frames'[1] = f
      /\ \A i \in 1..Len(frames) : frames'[i + 1] = frames[i]
      /\ \A i \in 2..(Len(frames) + 1) : frames'[i] = frames[i - 1]
  BY <1>3, PushedFacts
<1>5. \A i \in 1..Len(frames) : i + 1 \in 1..(Len(frames) + 1)
  BY <1>3
<1>6. \A i \in 1..(Len(frames) + 1) : i = 1 \/ (i \in 2..(Len(frames) + 1)
                                              /\ i - 1 \in 1..Len(frames))
  BY <1>3
<1>7. Without(kinds)' => Without(kinds)
  BY <1>3, <1>4, <1>5 DEF Without
<1>8. Without(kinds) => Without(kinds)'
  BY <1>3, <1>4, <1>6 DEF Without
<1> QED
  BY <1>7, <1>8

LEMMA AskingToDelete ==
  ASSUME IInv, AskDelete \/ AskUpdate
  PROVE  \E f \in Frames : /\ f.kind \notin Renewals /\ f.kind \notin Asks
                           /\ frames' = <<f>> \o frames
<1>1. PICK kind \in {"askDelete", "askUpdate"} : Push(kind, FALSE, {}, frames)
  BY DEF AskDelete, AskUpdate, Idle
<1> DEFINE f == [kind |-> kind, current |-> TRUE, modified |-> FALSE, content |-> {}]
<1>2. f \in Frames /\ f.kind \notin Renewals /\ f.kind \notin Asks
  BY FrameType DEF Questions, Renewals, Asks
<1>3. frames' = <<f>> \o frames
  BY <1>1 DEF Push
<1> HIDE DEF f
<1> QED
  BY <1>2, <1>3

\* The watch is as before, and nobody who would renew it has gone.
LEMMA SameWatch ==
  ASSUME Unattended', watch' = watch, mode \in Unlocked, NoRenewals
  PROVE  Unattended
BY DEF Unattended, Alive, NoRenewals, Without, Renewals

LEMMA RenewedWatch ==
  ASSUME Unattended'
  PROVE  ~watch'.watched /\ ~watch'.unblockTimer /\ ~watch'.notified /\ ~watch'.reloadTimer
         /\ NoRenewals' /\ mode' \in Unlocked \cup {"locked"}
         /\ mode' \notin {"closed", "undefined", "emptied"}
BY DEF Unattended, Alive, NoRenewals, Without, Renewals, Unlocked, EditModes

LEMMA AskingIsAttended ==
  ASSUME Unattended', NEW waiting \in Seq(Frames), NEW f \in Frames, f.kind \in Renewals,
         frames' = <<f>> \o waiting
  PROVE  FALSE
<1>1. DOMAIN frames' = 1..(Len(waiting) + 1) /\ frames'[1] = f /\ Len(waiting) \in Nat
  BY PushedFacts
<1>2. 1 \in DOMAIN frames'
  BY <1>1
<1> QED
  BY <1>1, <1>2, RenewedWatch DEF NoRenewals, Without

LEMMA LockUnlessModifiedWatch ==
  ASSUME IInv, Unattended', LockUnlessModified(<< >>), Left(<< >>), mode \in Unlocked, NoRenewals
  PROVE  Unattended
<1>1. Now \in Outcome
  BY NowType DEF IInv
<1>2. watch' = watch
  BY <1>1, BecomesNow, LockingLeaves, NowIs DEF LockUnlessModified
<1> QED
  BY <1>2, SameWatch

LEMMA ReadingWatch ==
  ASSUME IInv, Unattended', mode # "locked", file' # Absent,
         NEW o \in Outcome, o.file = file, NEW waiting, Left(waiting), ReadFile(o, waiting)
  PROVE  FALSE
<1>1. waiting \in Seq(Frames) /\ TypeOK
  BY LeftFacts DEF IInv, Parts
<1>2. CASE watch'.watched = (file' # Absent)
  BY <1>2, RenewedWatch
<1>3. CASE /\ frames' = <<[kind |-> "askMerge", current |-> TRUE, modified |-> FALSE,
                           content |-> file]>> \o waiting
           /\ file # Absent
  <2> DEFINE f == [kind |-> "askMerge", current |-> TRUE, modified |-> FALSE, content |-> file]
  <2>1. f \in Frames /\ f.kind \in Renewals
    BY <1>1, <1>3, FrameType DEF Questions, Retries, Renewals, TypeOK
  <2>2. frames' = <<f>> \o waiting
    BY <1>3
  <2> HIDE DEF f
  <2> QED
    BY <1>1, <2>1, <2>2, AskingIsAttended
<1>4. ~watch'.unblockTimer
  BY RenewedWatch
<1>5. \/ watch'.watched = (file' # Absent)
      \/ /\ frames' = <<[kind |-> "askMerge", current |-> TRUE, modified |-> FALSE,
                          content |-> file]>> \o waiting
         /\ file # Absent
      \/ watch'.unblockTimer
  BY ReadingLeaves
<1> QED
  BY <1>2, <1>3, <1>4, <1>5

LEMMA NoRenewalsLeft ==
  ASSUME IInv, Idle \/ Top.kind \notin Nested
  PROVE  NoRenewals
BY IdleIsWithout DEF NoRenewals, Renewals, Nested

LEMMA EditorWatch ==
  ASSUME IInv, EditorActs, Unattended'
  PROVE  Unattended
<1>1. ~Undefined /\ ~End("emptied")
  BY RenewedWatch DEF Undefined, End
<1>2. mode \in Unlocked /\ watch' = watch /\ (Idle \/ Top.kind \notin Nested)
  BY <1>1, EditorLeaves DEF EditorAsks, Nested
<1> QED
  BY <1>2, NoRenewalsLeft, SameWatch

LEMMA UserWatch ==
  ASSUME IInv, User, Unattended', mode # "locked"
  PROVE  Unattended
<1>1. Now \in Outcome /\ TypeOK /\ ~Undefined /\ mode' # "closed"
  BY NowType, RenewedWatch DEF IInv, Undefined, End
<1>2. ASSUME NEW c \in Changes, Change(c) PROVE Unattended
  <2>1. mode \in Unlocked /\ watch' = watch /\ frames' = frames
    BY <1>2 DEF Change, Changed
  <2> QED
    BY <2>1 DEF Unattended, Alive
<1>3. CASE OpenEditor
  <2>1. mode \in Unlocked /\ watch' = watch /\ frames' = frames
    BY <1>3 DEF OpenEditor, Unlocked
  <2> QED
    BY <2>1 DEF Unattended, Alive
<1>4. ~UserSave
  <2> SUFFICES ASSUME UserSave PROVE FALSE
    OBVIOUS
  <2>1. PICK o \in SaveDatabase(Now) : Becomes(o)
    BY DEF UserSave
  <2> QED
    BY <1>1, <2>1, SaveLeaves, RenewedWatch DEF Becomes
<1>5. CASE LockDatabases
  <2>1. Left(<< >>) /\ mode \in Unlocked /\ NoRenewals
    BY <1>5, NoRenewalsLeft DEF LockDatabases, Left, Idle
  <2>2. CASE Becomes(Now)
    BY <2>1, <2>2, BecomesNow, SameWatch
  <2>3. CASE LockUnlessModified(<< >>)
    BY <2>1, <2>3, LockUnlessModifiedWatch
  <2> QED
    BY <1>1, <1>5, <2>2, <2>3 DEF LockDatabases
<1>6. CASE CloseDatabase
  <2>1. mode \in Unlocked /\ NoRenewals
    BY <1>6, NoRenewalsLeft DEF CloseDatabase
  <2>2. CASE Becomes(Now)
    BY <2>1, <2>2, BecomesNow, SameWatch
  <2>3. CASE CloseUnlessModified(tabModified, TRUE, << >>)
    <3>1. tabModified \in BOOLEAN
      BY <1>1 DEF TypeOK
    <3>2. Becomes(Now)
      BY <1>1, <2>3, <3>1, ClosingLeaves, RenewedWatch
    <3> QED
      BY <2>2, <3>2
  <2> QED
    BY <1>1, <1>6, <2>2, <2>3 DEF CloseDatabase
<1>7. ~OpenDatabase
  <2>1. FreshWatch.watched
    BY DEF FreshWatch
  <2> QED
    BY <2>1, RenewedWatch DEF OpenDatabase
<1>8. CASE AskDelete \/ AskUpdate
  <2>1. mode \in Unlocked /\ watch' = watch
    BY <1>8, BecomesNow DEF AskDelete, AskUpdate, Unlocked
  <2> QED
    BY <1>8, <2>1, AskingToDelete, PushingKeeps, RenewedWatch, SameWatch DEF NoRenewals
<1>9. CASE EditorActs
  BY <1>9, EditorWatch
<1> QED
  BY <1>2, <1>3, <1>4, <1>5, <1>6, <1>7, <1>8, <1>9 DEF User, Unlock, EditorActs

LEMMA AnswerWatch ==
  ASSUME IInv, Answer, Unattended', mode # "locked", file' # Absent
  PROVE  Unattended
<1>1. Now \in Outcome /\ TypeOK /\ ~Undefined /\ mode' # "closed"
  BY NowType, RenewedWatch DEF IInv, Undefined, End
<1>2. CASE Cancel(Cancelable)
  <2>1. ~Idle /\ Top.kind \notin Renewals /\ frames' = Waiting /\ watch' = watch /\ mode' = mode
    BY <1>2, BecomesNow DEF Cancel, Cancelable, Renewals, Keep
  <2>2. NoRenewals /\ mode \in Unlocked
    BY <2>1, PoppingKeeps, RenewedWatch DEF NoRenewals
  <2> QED
    BY <2>1, <2>2, SameWatch
<1>3. CASE LockEditDiscard \/ LockSave \/ LockDiscard \/ CloseEditDiscard \/ CloseSave
           \/ CloseDiscard
  <2>1. ~Idle /\ Top.kind \in Questions \ Nested
    BY <1>3 DEF LockEditDiscard, LockSave, LockDiscard, CloseEditDiscard, CloseSave,
                CloseDiscard, Asked, Questions, Nested
  <2>2. NoRenewals /\ Waiting = << >> /\ Left(<< >>) /\ Top \in Frames
        /\ (Top.current => mode \notin {"locked", "closed", "undefined", "emptied"})
    BY <2>1, NoRenewalsLeft, OnlyQuestion DEF Asked
  <2>3. CASE LockEditDiscard
    <3>1. LockUnlessModified(<< >>) /\ mode \in Unlocked
      BY <1>1, <2>2, <2>3 DEF LockEditDiscard, TypeOK, Modes
    <3> QED
      BY <2>2, <3>1, LockUnlessModifiedWatch
  <2>4. CASE LockSave \/ CloseSave
    <3>1. PICK o \in SaveDatabase(Now) :
            \/ Lock(o, << >>)
            \/ Becomes(o)
      BY <1>1, <2>2, <2>4 DEF LockSave, CloseSave, Close
    <3>2. o \in Outcome /\ o.watch.unblockTimer
      BY <1>1, <3>1, SaveLeaves
    <3>3. watch' = o.watch
      BY <2>2, <3>1, <3>2, LockingLeaves DEF Becomes
    <3> QED
      BY <3>2, <3>3, RenewedWatch
  <2>5. CASE LockDiscard
    <3> DEFINE o == [Now EXCEPT !.tab = FALSE, !.widget = FALSE]
    <3>1. o \in Outcome /\ o.watch = watch
      BY <1>1, NowIs DEF Outcome
    <3>2. Lock(o, << >>)
      BY <1>1, <2>2, <2>5 DEF LockDiscard
    <3>3. mode \in Unlocked
      BY <1>1, <2>2, <2>5 DEF LockDiscard, TypeOK, Modes
    <3> HIDE DEF o
    <3>4. watch' = watch
      BY <2>2, <3>1, <3>2, LockingLeaves
    <3> QED
      BY <2>2, <3>3, <3>4, SameWatch
  <2>6. CASE CloseEditDiscard
    <3>1. Top.modified \in BOOLEAN /\ Top.current \in BOOLEAN
      BY <2>2 DEF Frames
    <3>2. Keep /\ Becomes(Now)
      BY <1>1, <2>2, <2>6, <3>1, ClosingLeaves, RenewedWatch DEF CloseEditDiscard
    <3>3. watch' = watch /\ mode' = mode
      BY <3>2, BecomesNow DEF Keep
    <3>4. mode \in Unlocked
      BY <3>3, RenewedWatch
    <3> QED
      BY <2>2, <3>3, <3>4, SameWatch
  <2>7. ~CloseDiscard
    BY <1>1 DEF CloseDiscard, Close
  <2> QED
    BY <1>3, <2>3, <2>4, <2>5, <2>6, <2>7
<1>4. ~ReloadYes
  <2>1. ReloadYes => ReadFile(Now, Waiting) /\ Left(Waiting)
    BY ReloadQuestion DEF ReloadYes, Asks
  <2> QED
    BY <1>1, <2>1, ReadingWatch, NowIs
<1>5. ~ReloadNo
  <2> SUFFICES ASSUME ReloadNo PROVE FALSE
    OBVIOUS
  <2>1. PICK o \in Modified(Now) :
          \/ Becomes(Rewatched([o EXCEPT !.widget = TRUE]))
          \/ Becomes(o) /\ AskRetry("retryDeclined", Now, o, Waiting)
    BY DEF ReloadNo
  <2>2. o \in Outcome
    BY <1>1, <2>1, ModifiedLeaves
  <2> DEFINE p == [o EXCEPT !.widget = TRUE]
  <2>3. p \in Outcome
    BY <2>2 DEF Outcome
  <2>4. Becomes(Rewatched(p)) \/ watch'.unblockTimer
    BY <1>1, <2>1, AskRetryLeaves
  <2> HIDE DEF p
  <2>5. watch'.watched = (file' # Absent) \/ watch'.unblockTimer
    BY <2>3, <2>4, RewatchedType DEF Becomes
  <2> QED
    BY <2>5, RenewedWatch
<1>6. ~MergeYes
  <2>1. MergeYes => Reloaded(Now, Top.content \cup mem, Waiting) /\ Left(Waiting)
    BY ReloadQuestion DEF MergeYes, Asks
  <2> QED
    BY <1>1, <2>1, ReloadingLeaves, RenewedWatch
<1>7. ~MergeNo
  <2> SUFFICES ASSUME MergeNo PROVE FALSE
    OBVIOUS
  <2> DEFINE p == [Now EXCEPT !.widget = FALSE, !.unsaved = FALSE]
  <2>1. p \in Outcome
    BY <1>1 DEF Outcome
  <2>2. Reloaded(p, Top.content, Waiting) /\ Left(Waiting)
    BY ReloadQuestion DEF MergeNo, Asks
  <2> HIDE DEF p
  <2> QED
    BY <2>1, <2>2, ReloadingLeaves, RenewedWatch
<1>8. ASSUME NEW c \in Changes, DeleteOrUpdate(c) PROVE Unattended
  <2>1. ~Idle /\ Top.kind \notin Renewals /\ frames' = Waiting /\ watch' = watch /\ mode' = mode
    BY <1>1, <1>8 DEF DeleteOrUpdate, Changed, Renewals
  <2>2. NoRenewals /\ mode \in Unlocked
    BY <2>1, PoppingKeeps, RenewedWatch DEF NoRenewals
  <2> QED
    BY <2>1, <2>2, SameWatch
<1>9. CASE Retry
  <2>1. ~RetryEnds
    <3> SUFFICES ASSUME RetryEnds PROVE FALSE
      OBVIOUS
    <3>1. PICK o \in Outcome : o.watch.unblockTimer /\ (Lock(o, << >>) \/ Close(o))
      BY DEF RetryEnds
    <3>2. ~Close(o)
      BY <1>1 DEF Close
    <3>3. Left(<< >>)
      BY DEF RetryEnds
    <3> QED
      BY <3>1, <3>2, <3>3, LockingLeaves, RenewedWatch
  <2>2. RetryStays
    BY <1>1, <1>9, <2>1, RetryLeaves
  <2>3. Top.kind \notin {"retryUnread", "retryDeclined"} /\ watch' = watch
    BY <2>2, RenewedWatch DEF RetryStays
  <2>4. Top.kind \notin Renewals /\ ~Idle /\ frames' = Waiting /\ mode \in Unlocked
    BY <1>9, <2>2, <2>3 DEF Retry, Retries, Renewals, RetryStays
  <2> QED
    BY <2>3, <2>4, PoppingKeeps, RenewedWatch, SameWatch DEF NoRenewals
<1>10. CASE EditorActs
  BY <1>10, EditorWatch
<1> QED
  BY <1>2, <1>3, <1>4, <1>5, <1>6, <1>7, <1>8, <1>9, <1>10 DEF Answer, EditorActs

LEMMA SystemWatch ==
  ASSUME IInv, External \/ Relock \/ ModifiedTimeout \/ OnWatchedFileChanged
               \/ UnblockAutoReload \/ ReloadDatabaseFile,
         Unattended', mode # "locked", file' # Absent
  PROVE  Unattended
<1>1. /\ Now \in Outcome /\ TypeOK /\ watch \in GoodWatches
      /\ ~watch'.watched /\ ~watch'.unblockTimer /\ ~watch'.notified /\ ~watch'.reloadTimer
  BY NowType, TypeIsFields, RenewedWatch DEF IInv, FieldsOK
<1>2. CASE External
  <2>1. PICK c \in Changes : ExternalWrite(c)
    BY <1>2 DEF External, ExternalRemove
  <2>2. PICK inPlace \in BOOLEAN :
          watch' = [watch EXCEPT !.notified = @ \/ watch.watched, !.watched = @ /\ inPlace]
    BY <2>1 DEF ExternalWrite
  <2>3. /\ watch.watched => watch'.notified
        /\ watch.notified => watch'.notified
        /\ watch'.reloadTimer = watch.reloadTimer /\ watch'.unblockTimer = watch.unblockTimer
    BY <1>1, <2>2 DEF GoodWatches, Watches
  <2>4. frames' = frames /\ mode' = mode
    BY <2>1 DEF ExternalWrite, Keep
  <2> QED
    BY <1>1, <2>3, <2>4 DEF Unattended, Alive
<1>3. CASE Relock
  <2>1. Lock(Now, frames) /\ Left(frames) /\ mode \in Unlocked
    BY <1>3 DEF Relock, Left
  <2>2. watch' = watch /\ frames' = Pulled(frames)
    BY <1>1, <2>1, LockingLeaves, NowIs
  <2>3. /\ frames \in Seq(Frames) /\ DOMAIN frames = 1..Len(frames)
        /\ DOMAIN Pulled(frames) = 1..Len(frames)
        /\ \A i \in 1..Len(frames) : Pulled(frames)[i].kind = frames[i].kind
    BY <1>1, StackFacts, PulledFacts DEF TypeOK
  <2>4. NoRenewals
    BY <2>2, <2>3, RenewedWatch DEF NoRenewals, Without
  <2> QED
    BY <2>1, <2>2, <2>4, SameWatch
<1>4. CASE ModifiedTimeout
  <2> DEFINE o == [Now EXCEPT !.timer = FALSE]
  <2>1. o \in Outcome /\ o.watch = watch
    BY <1>1, NowIs DEF Outcome
  <2>2. PICK p \in Modified(o) :
          Becomes(p) /\ (UNCHANGED frames \/ AskRetry("retrySave", o, p, frames))
    BY <1>4 DEF ModifiedTimeout
  <2> HIDE DEF o
  <2>3. p.watch.unblockTimer \/ p.watch = watch
    BY <2>1, <2>2, ModifiedLeaves
  <2>4. watch' = watch /\ frames' = frames /\ mode' = mode
    BY <1>1, <1>4, <2>1, <2>2, <2>3, AskRetryLeaves DEF Becomes, ModifiedTimeout, Keep
  <2> QED
    BY <2>4 DEF Unattended, Alive
<1>5. ~OnWatchedFileChanged
  <2> SUFFICES ASSUME OnWatchedFileChanged PROVE FALSE
    OBVIOUS
  <2>1. /\ ~watch.ignored => watch'.reloadTimer
        /\ watch'.unblockTimer = watch.unblockTimer
    BY <1>1 DEF OnWatchedFileChanged, GoodWatches, Watches
  <2>2. watch.ignored => watch.unblockTimer
    BY <1>1 DEF GoodWatches
  <2> QED
    BY <1>1, <2>1, <2>2
<1>6. ~UnblockAutoReload
  <2> SUFFICES ASSUME UnblockAutoReload PROVE FALSE
    OBVIOUS
  <2>1. watch'.watched = (file # Absent) /\ file' = file
    BY <1>1 DEF UnblockAutoReload, GoodWatches, Watches
  <2> QED
    BY <1>1, <2>1
<1>7. ~ReloadDatabaseFile
  <2> SUFFICES ASSUME ReloadDatabaseFile PROVE FALSE
    OBVIOUS
  <2> DEFINE o == [Now EXCEPT !.watch.reloadTimer = FALSE]
             f == [kind |-> "askReload", current |-> TRUE, modified |-> FALSE, content |-> {}]
  <2>1. o \in Outcome /\ o.file = file
    BY <1>1, NowIs DEF Outcome, GoodWatches, Watches
  <2>2. frames' = <<f>> \o frames \/ ReadFile(o, frames)
    BY DEF ReloadDatabaseFile, Push
  <2>3. f \in Frames /\ f.kind \in Renewals
    BY FrameType DEF Questions, Retries, Renewals
  <2>4. frames \in Seq(Frames) /\ Left(frames)
    BY <1>1 DEF TypeOK, Left
  <2> HIDE DEF o, f
  <2> QED
    BY <2>1, <2>2, <2>3, <2>4, AskingIsAttended, ReadingWatch
<1> QED
  BY <1>2, <1>3, <1>4, <1>5, <1>6, <1>7

(***************************************************************************)
(* DatabaseWidget.cpp, blockAutoReload, onWatchedFileChanged and           *)
(* reloadDatabaseFile: the file stops being watched for good only while    *)
(* the tab is locked or where the file is gone, for any settings and any   *)
(* depth of questions.                                                     *)
(***************************************************************************)
THEOREM WatchEndsOnlyThere == Spec => WatchEndsOnlyWhenLockedOrAbsent
<1>1. IInv /\ [Next]_vars =>
        [~Unattended /\ Unattended' => mode = "locked" \/ file' = Absent]_vars
  <2> SUFFICES ASSUME IInv, Next, Unattended', mode # "locked", file' # Absent
               PROVE  Unattended
    OBVIOUS
  <2> QED
    BY UserWatch, AnswerWatch, SystemWatch DEF Next
<1> QED
  BY <1>1, InitInvariant, NextInvariant, PTL DEF Spec, WatchEndsOnlyWhenLockedOrAbsent

----------------------------------------------------------------------------
(* What another program wrote is missed only in the named ways *)

MissNamed ==
  \/ WrittenUnwatched \/ ReportedWhileBlocked \/ TimerStopped
  \/ Asked("askReload") \/ AnsweredLate

LEMMA MissedThen ==
  ASSUME Missed'
  PROVE  /\ mode' \in Unlocked /\ mode' \notin {"locked", "closed", "undefined", "emptied"}
         /\ file' # Absent /\ ~(file' \subseteq mem')
         /\ ~watch'.notified /\ ~watch'.reloadTimer /\ NoAsks'
BY DEF Missed, Unlocked, EditModes, NoAsks, Without, Asks

\* Neither memory nor the file changes, and nobody who would reload has gone.
LEMMA QuietStep ==
  ASSUME Missed', mode \in Unlocked, NoAsks, file' = file, mem' = mem,
         watch'.notified = watch.notified
  PROVE  Missed \/ MissNamed
<1>1. CASE watch.reloadTimer
  BY <1>1, MissedThen DEF MissNamed, TimerStopped
<1>2. CASE ~watch.reloadTimer
  BY <1>2, MissedThen DEF Missed, NoAsks, Without, Asks
<1> QED
  BY <1>1, <1>2

\* A save writes memory to the file, or leaves the file and what is reported.
LEMMA SaveMisses ==
  ASSUME IInv, mode # "locked", NEW o \in Outcome, o.file = file, o.watch = watch,
         NEW p \in SaveDatabase(o)
  PROVE  p.file = mem \/ (p.file = file /\ p.watch.notified = watch.notified)
<1>1. mem \subseteq Changes
  BY DEF IInv, TypeOK
<1>2. CASE p = Saved(o)
  BY <1>1, <1>2, SavedType
<1>3. CASE p \in SaveFailed(o)
  <2>1. PICK t \in {o.timer, FALSE} :
          p = [o EXCEPT !.timer = t, !.tab = TRUE, !.watch = Blocked(@)]
    BY <1>3 DEF SaveFailed
  <2>2. p.file = file /\ p.watch = Blocked(watch)
    BY <2>1 DEF Outcome
  <2>3. watch \in GoodWatches
    BY DEF Outcome
  <2>4. Blocked(watch).notified = watch.notified
    BY <2>3 DEF Blocked, GoodWatches, Watches
  <2> QED
    BY <2>2, <2>4
<1> QED
  BY <1>1, <1>2, <1>3, SaveDatabaseType

\* A save that leaves the tab open.
LEMMA SavingMisses ==
  ASSUME IInv, Missed', mode \in Unlocked, NoAsks, NEW p \in SaveDatabase(Now), Becomes(p), Keep
  PROVE  Missed \/ MissNamed
<1>1. Now \in Outcome /\ Now.file = file /\ Now.watch = watch /\ mode # "locked"
  BY NowType, NowIs DEF IInv, Unlocked, EditModes
<1>2. p.file = mem \/ (p.file = file /\ p.watch.notified = watch.notified)
  BY <1>1, SaveMisses
<1>3. file' = p.file /\ watch' = p.watch /\ mem' = mem
  BY DEF Becomes, Keep
<1> QED
  BY <1>2, <1>3, MissedThen, QuietStep

LEMMA LockUnlessModifiedMisses ==
  ASSUME IInv, Missed', LockUnlessModified(<< >>), mode \in Unlocked, NoAsks
  PROVE  Missed \/ MissNamed
<1>1. ~Lock(Now, << >>)
  BY MissedThen DEF Lock
<1>2. Becomes(Now) /\ Keep
  BY <1>1 DEF LockUnlessModified
<1> QED
  BY <1>2, BecomesNow, QuietStep DEF Keep

LEMMA ClosingMisses ==
  ASSUME IInv, Missed', NEW flag \in BOOLEAN, NEW current \in BOOLEAN,
         CloseUnlessModified(flag, current, << >>), NoAsks, mode' = mode \/ mode \in Unlocked
  PROVE  Missed \/ MissNamed
<1>1. ~Undefined /\ \A o : ~Close(o)
  BY MissedThen DEF Undefined, End, Close
<1>2. CASE \E o \in SaveDatabase(Now) : Becomes(o) /\ Keep
  <2>1. mode \in Unlocked
    BY <1>2, MissedThen DEF Keep
  <2> QED
    BY <1>2, <2>1, SavingMisses
<1>3. CASE Becomes(Now) /\ Keep
  <2>1. mode \in Unlocked
    BY <1>3, MissedThen DEF Keep
  <2> QED
    BY <1>3, <2>1, BecomesNow, QuietStep DEF Keep
<1> QED
  BY <1>1, <1>2, <1>3 DEF CloseUnlessModified

LEMMA NoAsksLeft ==
  ASSUME IInv, Idle \/ Top.kind \notin Nested
  PROVE  NoAsks
BY IdleIsWithout DEF NoAsks, Asks, Nested

LEMMA EditorMisses ==
  ASSUME IInv, EditorActs, Missed'
  PROVE  Missed
<1>1. ~Undefined /\ ~End("emptied")
  BY MissedThen DEF Undefined, End
<1>2. /\ mode \in Unlocked /\ file' = file /\ watch' = watch /\ mem \subseteq mem'
      /\ Idle \/ Top.kind \notin Nested
  BY <1>1, EditorLeaves DEF EditorAsks, Nested
<1>3. NoAsks
  BY <1>2, NoAsksLeft
<1> QED
  BY <1>2, <1>3, MissedThen DEF Missed, NoAsks, Without, Asks

LEMMA UserMisses ==
  ASSUME IInv, User, Missed'
  PROVE  Missed \/ MissNamed
<1>1. Now \in Outcome /\ TypeOK /\ ~Undefined /\ mode' # "closed" /\ mode' # "locked"
  BY NowType, MissedThen DEF IInv, Undefined, End
<1>2. ASSUME NEW c \in Changes, Change(c) PROVE Missed
  <2>1. /\ mode \in Unlocked /\ watch' = watch /\ frames' = frames /\ file' = file
        /\ mem \subseteq mem'
    BY <1>2 DEF Change, Changed
  <2> QED
    BY <2>1 DEF Missed
<1>3. CASE OpenEditor
  <2>1. /\ mode \in Unlocked /\ watch' = watch /\ frames' = frames /\ file' = file
        /\ mem' = mem
    BY <1>3 DEF OpenEditor, Unlocked
  <2> QED
    BY <2>1 DEF Missed
<1>4. CASE UserSave
  <2>1. mode \in Unlocked /\ NoAsks
    BY <1>4, NoAsksLeft DEF UserSave, Unlocked
  <2> QED
    BY <1>4, <2>1, SavingMisses DEF UserSave
<1>5. CASE LockDatabases
  <2>1. mode \in Unlocked /\ NoAsks
    BY <1>5, NoAsksLeft DEF LockDatabases
  <2>2. CASE Becomes(Now) /\ Keep
    BY <2>1, <2>2, BecomesNow, QuietStep DEF Keep
  <2>3. CASE LockUnlessModified(<< >>)
    BY <2>1, <2>3, LockUnlessModifiedMisses DEF LockDatabases
  <2>4. LockUnlessModified(frames) => LockUnlessModified(<< >>)
    BY <1>5 DEF LockDatabases, Idle
  <2> QED
    BY <1>1, <1>5, <2>2, <2>3, <2>4 DEF LockDatabases
<1>6. ~Unlock
  <2> SUFFICES ASSUME Unlock PROVE FALSE
    OBVIOUS
  <2>1. Replace(Now, file, frames) /\ Left(frames)
    BY DEF Unlock, Left
  <2>2. file' = file
    BY <1>1, <2>1, ReplacingLeaves, NowIs
  <2>3. mem' = file
    BY <2>1 DEF Replace
  <2> QED
    BY <2>2, <2>3, MissedThen
<1>7. CASE CloseDatabase
  <2>1. NoAsks
    BY <1>7, NoAsksLeft DEF CloseDatabase
  <2>2. CASE mode \in EditModes /\ Becomes(Now) /\ Keep
    BY <2>1, <2>2, BecomesNow, QuietStep DEF Keep, Unlocked
  <2>3. CASE CloseUnlessModified(tabModified, TRUE, << >>)
    <3>1. tabModified \in BOOLEAN
      BY <1>1 DEF TypeOK
    <3>2. mode \in Unlocked \/ mode = "locked"
      BY <1>7 DEF CloseDatabase
    <3>3. CASE mode \in Unlocked
      BY <2>1, <2>3, <3>1, <3>3, ClosingMisses
    <3>4. CASE mode = "locked"
      BY <1>1, <2>3, <3>1, <3>4, ClosingLeaves DEF Keep
    <3> QED
      BY <3>2, <3>3, <3>4
  <2> QED
    BY <1>1, <1>7, <2>2, <2>3 DEF CloseDatabase
<1>8. ~OpenDatabase
  BY MissedThen DEF OpenDatabase
<1>9. CASE AskDelete \/ AskUpdate
  <2>1. /\ mode \in Unlocked /\ watch' = watch /\ file' = file /\ mem' = mem
    BY <1>9, BecomesNow DEF AskDelete, AskUpdate, Keep, Unlocked
  <2> QED
    BY <1>9, <2>1, AskingToDelete, PushingKeeps, MissedThen, QuietStep DEF NoAsks
<1>10. CASE EditorActs
  BY <1>10, EditorMisses
<1> QED
  BY <1>2, <1>3, <1>4, <1>5, <1>6, <1>7, <1>8, <1>9, <1>10 DEF User, EditorActs

\* A merge answered while the file is what was read finds it in memory then.
LEMMA MergingMisses ==
  ASSUME IInv, Missed', Asked("askMerge"), NEW o \in Outcome, o.file = file, NEW content,
         Reloaded(o, content, Waiting), Top.content \subseteq content
  PROVE  MissNamed
<1>1. Left(Waiting)
  BY ReloadQuestion DEF Asks
<1>2. file' = file
  BY <1>1, ReloadingLeaves
<1>3. mem' = content
  BY DEF Reloaded, Replace
<1>4. file # Top.content
  BY <1>2, <1>3, MissedThen
<1> QED
  BY <1>4 DEF MissNamed, AnsweredLate

LEMMA AnswerMisses ==
  ASSUME IInv, Answer, Missed'
  PROVE  Missed \/ MissNamed
<1>1. Now \in Outcome /\ TypeOK /\ ~Undefined /\ mode' # "closed" /\ mode' # "locked"
  BY NowType, MissedThen DEF IInv, Undefined, End
<1>2. CASE Cancel(Cancelable)
  <2>1. /\ ~Idle /\ Top.kind \notin Asks /\ frames' = Waiting
        /\ watch' = watch /\ mode' = mode /\ file' = file /\ mem' = mem
    BY <1>2, BecomesNow DEF Cancel, Cancelable, Asks, Keep
  <2>2. NoAsks /\ mode \in Unlocked
    BY <2>1, PoppingKeeps, MissedThen DEF NoAsks
  <2> QED
    BY <2>1, <2>2, QuietStep
<1>3. CASE LockEditDiscard \/ LockSave \/ LockDiscard \/ CloseEditDiscard \/ CloseSave
           \/ CloseDiscard
  <2>1. ~Idle /\ Top.kind \in Questions \ Nested
    BY <1>3 DEF LockEditDiscard, LockSave, LockDiscard, CloseEditDiscard, CloseSave,
                CloseDiscard, Asked, Questions, Nested
  <2>2. NoAsks /\ Waiting = << >> /\ Top \in Frames
        /\ (Top.current => mode \notin {"locked", "closed", "undefined", "emptied"})
    BY <2>1, NoAsksLeft, OnlyQuestion DEF Asked
  <2>3. Top.current => mode \in Unlocked
    BY <1>1, <2>2 DEF TypeOK, Modes
  <2>4. CASE LockEditDiscard
    BY <1>1, <2>2, <2>3, <2>4, LockUnlessModifiedMisses DEF LockEditDiscard
  <2>5. CASE LockSave \/ CloseSave
    <3>1. Top.current
      BY <1>1, <2>5 DEF LockSave, CloseSave
    <3>2. PICK o \in SaveDatabase(Now) :
            Lock(o, << >>) \/ Close(o) \/ (Becomes(o) /\ Keep)
      BY <2>2, <2>5, <3>1 DEF LockSave, CloseSave
    <3>3. Becomes(o) /\ Keep
      BY <1>1, <3>2 DEF Lock, Close
    <3> QED
      BY <2>2, <2>3, <3>1, <3>2, <3>3, SavingMisses
  <2>6. ~LockDiscard /\ ~CloseDiscard
    BY <1>1 DEF LockDiscard, CloseDiscard, Lock, Close
  <2>7. CASE CloseEditDiscard
    <3>1. Top.modified \in BOOLEAN /\ Top.current \in BOOLEAN
      BY <2>2 DEF Frames
    <3>2. CloseUnlessModified(Top.modified, Top.current, << >>)
      BY <2>2, <2>7 DEF CloseEditDiscard
    <3>3. mode' = mode \/ mode \in Unlocked
      BY <1>1, <3>1, <3>2, ClosingLeaves DEF Keep
    <3> QED
      BY <2>2, <3>1, <3>2, <3>3, ClosingMisses
  <2> QED
    BY <1>3, <2>4, <2>5, <2>6, <2>7
<1>4. CASE ReloadYes \/ ReloadNo
  BY <1>4 DEF ReloadYes, ReloadNo, MissNamed
<1>5. CASE MergeYes
  <2>1. /\ Asked("askMerge") /\ Reloaded(Now, Top.content \cup mem, Waiting)
        /\ Top.content \subseteq Top.content \cup mem
    BY <1>5 DEF MergeYes
  <2> QED
    BY <1>1, <2>1, NowIs, MergingMisses
<1>6. CASE MergeNo
  <2> DEFINE p == [Now EXCEPT !.widget = FALSE, !.unsaved = FALSE]
  <2>1. p \in Outcome /\ p.file = file
    BY <1>1, NowIs DEF Outcome
  <2>2. /\ Asked("askMerge") /\ Reloaded(p, Top.content, Waiting)
        /\ Top.content \subseteq Top.content
    BY <1>6 DEF MergeNo
  <2> HIDE DEF p
  <2> QED
    BY <2>1, <2>2, MergingMisses
<1>7. ASSUME NEW c \in Changes, DeleteOrUpdate(c) PROVE Missed
  <2>1. /\ ~Idle /\ Top.kind \notin Asks /\ frames' = Waiting
        /\ watch' = watch /\ mode' = mode /\ file' = file /\ mem \subseteq mem'
    BY <1>1, <1>7 DEF DeleteOrUpdate, Changed, Asks
  <2>2. NoAsks
    BY <2>1, PoppingKeeps, MissedThen DEF NoAsks
  <2> QED
    BY <2>1, <2>2, MissedThen DEF Missed, NoAsks, Without, Asks
<1>8. CASE Retry
  <2>1. ~RetryEnds
    BY <1>1 DEF RetryEnds, Lock, Close
  <2>2. RetryStays
    BY <1>1, <1>8, <2>1, RetryLeaves
  <2>3. /\ mode \in Unlocked /\ mem' = mem /\ ~Idle /\ frames' = Waiting
        /\ file' = file /\ watch'.notified = watch.notified
    BY <2>2, MissedThen DEF RetryStays, Keep
  <2>4. Top.kind \notin Asks
    BY <1>8 DEF Retry, Retries, Asks
  <2>5. NoAsks
    BY <2>3, <2>4, PoppingKeeps, MissedThen DEF NoAsks
  <2> QED
    BY <2>3, <2>5, QuietStep
<1>9. CASE EditorActs
  BY <1>9, EditorMisses
<1> QED
  BY <1>2, <1>3, <1>4, <1>5, <1>6, <1>7, <1>8, <1>9 DEF Answer, EditorActs

\* The file is read after m_fileWatchTimer.
LEMMA ReadingMisses ==
  ASSUME IInv, Missed', watch.reloadTimer, mode # "locked",
         NEW o \in Outcome, o.file = file, ReadFile(o, frames)
  PROVE  MissNamed
<1>1. TypeOK /\ frames \in Seq(Frames) /\ Left(frames)
  BY DEF IInv, TypeOK, Left
<1>2. CASE mem' = mem
  BY <1>2, MissedThen DEF MissNamed, TimerStopped
<1>3. ~Reloaded([o EXCEPT !.unsaved = FALSE], file, frames)
  <2> DEFINE p == [o EXCEPT !.unsaved = FALSE]
  <2>1. p \in Outcome /\ p.file = file
    BY DEF Outcome
  <2> HIDE DEF p
  <2>2. SUFFICES ASSUME Reloaded(p, file, frames) PROVE FALSE
    BY DEF p
  <2>3. file' = file
    BY <1>1, <2>1, <2>2, ReloadingLeaves
  <2>4. mem' = file
    BY <2>2 DEF Reloaded, Replace
  <2> QED
    BY <2>3, <2>4, MissedThen
<1> QED
  BY <1>2, <1>3 DEF ReadFile, Keep

LEMMA SystemMisses ==
  ASSUME IInv, External \/ Relock \/ ModifiedTimeout \/ OnWatchedFileChanged
               \/ UnblockAutoReload \/ ReloadDatabaseFile,
         Missed'
  PROVE  Missed \/ MissNamed
<1>1. /\ Now \in Outcome /\ TypeOK /\ watch \in GoodWatches
      /\ mode' \in Unlocked /\ mode' # "locked"
      /\ ~watch'.notified /\ ~watch'.reloadTimer
  BY NowType, TypeIsFields, MissedThen DEF IInv, FieldsOK
<1>2. CASE External
  <2>1. PICK c \in Changes : ExternalWrite(c)
    BY <1>2, MissedThen DEF External, ExternalRemove
  <2>2. PICK inPlace \in BOOLEAN :
          watch' = [watch EXCEPT !.notified = @ \/ watch.watched, !.watched = @ /\ inPlace]
    BY <2>1 DEF ExternalWrite
  <2>3. watch.watched => watch'.notified
    BY <1>1, <2>2 DEF GoodWatches, Watches
  <2>4. file' # file
    <3>1. c \in file' /\ (file # Absent => c \notin file) /\ file' # Absent
      BY <2>1, MissedThen DEF ExternalWrite, Fresh
    <3> QED
      BY <3>1
  <2> QED
    BY <1>1, <2>3, <2>4 DEF MissNamed, WrittenUnwatched
<1>3. ~Relock
  BY <1>1 DEF Relock, Lock
<1>4. CASE ModifiedTimeout
  <2> DEFINE o == [Now EXCEPT !.timer = FALSE]
  <2>1. o \in Outcome /\ o.watch = watch /\ o.file = file
    BY <1>1, NowIs DEF Outcome
  <2>2. PICK p \in Modified(o) :
          Becomes(p) /\ (UNCHANGED frames \/ AskRetry("retrySave", o, p, frames))
    BY <1>4 DEF ModifiedTimeout
  <2> HIDE DEF o
  <2>3. mode' = mode /\ mem' = mem /\ file' = p.file /\ watch' = p.watch
    BY <1>4, <2>2 DEF ModifiedTimeout, Keep, Becomes
  <2>4. mode # "locked" /\ mem \subseteq Changes /\ NoAsks
    <3>0. NoAsks'
      BY MissedThen
    <3>1. ASSUME UNCHANGED frames PROVE NoAsks
      BY <3>0, <3>1 DEF NoAsks, Without
    <3>2. ASSUME AskRetry("retrySave", o, p, frames) PROVE NoAsks
      <4> DEFINE f == [kind |-> "retrySave", current |-> TRUE, modified |-> FALSE,
                       content |-> {}]
      <4>1. f \in Frames /\ f.kind \notin Asks
        BY FrameType DEF Questions, Retries, Asks
      <4>2. frames' = <<f>> \o frames
        BY <2>1, <2>2, <3>2, AskRetryLeaves
      <4> HIDE DEF f
      <4> QED
        BY <3>0, <4>1, <4>2, PushingKeeps DEF NoAsks
    <3>3. NoAsks
      BY <2>2, <3>1, <3>2
    <3> QED
      BY <1>1, <2>3, <3>3 DEF TypeOK
  <2>5. p \in SaveDatabase(o) \/ (p.file = o.file /\ p.watch = o.watch)
    BY <2>1, <2>2, <2>4, ModifiedType
  <2>6. p.file = mem \/ (p.file = file /\ p.watch.notified = watch.notified)
    BY <2>1, <2>4, <2>5, SaveMisses
  <2> QED
    BY <1>1, <2>3, <2>4, <2>6, MissedThen, QuietStep
<1>5. CASE OnWatchedFileChanged
  <2>1. watch.notified /\ (~watch.ignored => watch'.reloadTimer)
    BY <1>1, <1>5 DEF OnWatchedFileChanged, GoodWatches, Watches
  <2> QED
    BY <1>1, <2>1 DEF MissNamed, ReportedWhileBlocked
<1>6. CASE UnblockAutoReload
  <2>1. watch'.notified = watch.notified
    BY <1>1, <1>6 DEF UnblockAutoReload, GoodWatches, Watches
  <2>2. file' = file /\ mem' = mem /\ mode' = mode /\ frames' = frames
    BY <1>6 DEF UnblockAutoReload, Keep
  <2>3. NoAsks /\ mode \in Unlocked
    BY <2>2, MissedThen DEF NoAsks, Without
  <2> QED
    BY <2>1, <2>2, <2>3, QuietStep
<1>7. CASE ReloadDatabaseFile
  <2> DEFINE o == [Now EXCEPT !.watch.reloadTimer = FALSE]
             f == [kind |-> "askReload", current |-> TRUE, modified |-> FALSE, content |-> {}]
  <2>1. o \in Outcome /\ o.file = file
    BY <1>1, NowIs DEF Outcome, GoodWatches, Watches
  <2>2. mode # "locked" /\ watch.reloadTimer
    BY <1>1, <1>7 DEF ReloadDatabaseFile, Keep
  <2>3. frames' = <<f>> \o frames \/ ReadFile(o, frames)
    BY <1>7, <2>2 DEF ReloadDatabaseFile, Push
  <2>4. f \in Frames /\ f.kind \in Asks /\ frames \in Seq(Frames)
    BY <1>1, FrameType DEF Questions, Retries, Asks, TypeOK
  <2> HIDE DEF o, f
  <2>5. frames' # <<f>> \o frames
    <3> SUFFICES ASSUME frames' = <<f>> \o frames PROVE FALSE
      OBVIOUS
    <3>1. DOMAIN frames' = 1..(Len(frames) + 1) /\ frames'[1] = f /\ Len(frames) \in Nat
      BY <2>4, PushedFacts
    <3>2. 1 \in DOMAIN frames'
      BY <3>1
    <3> QED
      BY <2>4, <3>1, <3>2, MissedThen DEF NoAsks, Without
  <2> QED
    BY <2>1, <2>2, <2>3, <2>5, ReadingMisses
<1> QED
  BY <1>2, <1>3, <1>4, <1>5, <1>6, <1>7

(***************************************************************************)
(* DatabaseWidget.cpp, blockAutoReload and reloadDatabaseFile: a tab shows *)
(* a database that lacks what another program wrote, with nothing under    *)
(* way that would find it, only after a write while the file was not       *)
(* watched, a report while saving blocked reports, a timer that a failed   *)
(* save or a failed reading spent, or an answer of the user.               *)
(***************************************************************************)
THEOREM MissesAreExplained == Spec => MissedIsExplained
<1>1. IInv /\ [Next]_vars =>
        [~Missed /\ Missed' =>
           \/ WrittenUnwatched \/ ReportedWhileBlocked \/ TimerStopped
           \/ Asked("askReload") \/ AnsweredLate]_vars
  <2> SUFFICES ASSUME IInv, Next, Missed'
               PROVE  Missed \/ MissNamed
    BY DEF MissNamed
  <2> QED
    BY UserMisses, AnswerMisses, SystemMisses DEF Next
<1> QED
  BY <1>1, InitInvariant, NextInvariant, PTL DEF Spec, MissedIsExplained

----------------------------------------------------------------------------
(* A locked tab is empty, where nothing locks by itself *)

LockedIsIdle == mode = "locked" => Idle /\ mem = {} /\ ~timer

LEMMA LockingEmpties ==
  ASSUME IInv, NEW o \in Outcome, Left(<< >>), Lock(o, << >>)
  PROVE  frames' = << >> /\ mem' = {} /\ ~timer'
<1>1. Len(<< >>) = 0 /\ frames' = Pulled(<< >>)
  BY LockingLeaves, EmptySeq
<1>2. DOMAIN << >> = {} /\ << >> \in Seq(Frames)
  BY EmptySeq
<1>3. frames' \in Seq(Frames) /\ Len(frames') = 0
  BY <1>1, <1>2, PulledFacts
<1>4. frames' = << >>
  BY <1>3, EmptySeq
<1> DEFINE p == [o EXCEPT !.unsaved = FALSE]
           q == [p EXCEPT !.timer = FALSE, !.tab = p.widget]
<1>5. Becomes(q) /\ mem' = {}
  BY DEF Lock, Replace
<1>6. p \in Outcome
  BY DEF Outcome
<1> HIDE DEF p
<1>7. ~q.timer
  BY <1>6 DEF Outcome
<1> HIDE DEF q
<1> QED
  BY <1>4, <1>5, <1>7 DEF Becomes

LEMMA LockUnlessModifiedEmpties ==
  ASSUME IInv, LockUnlessModified(<< >>), Left(<< >>), mode # "locked", mode' = "locked"
  PROVE  frames' = << >> /\ mem' = {} /\ ~timer'
<1>1. Now \in Outcome
  BY NowType DEF IInv
<1> QED
  BY <1>1, LockingEmpties DEF LockUnlessModified, Keep

LEMMA BeingLocked ==
  ASSUME IInv, Next, RelockAutoType = {FALSE}, mode # "locked", mode' = "locked"
  PROVE  frames' = << >> /\ mem' = {} /\ ~timer'
<1>1. /\ Now \in Outcome /\ TypeOK /\ ~Undefined /\ ~Keep /\ mode' # mode
      /\ mode' \notin Unlocked /\ mode' # "closed"
  BY NowType DEF IInv, Undefined, End, Keep, Unlocked, EditModes
<1>6. ~EditorActs
  BY <1>1, EditorLeaves DEF End, Unlocked
<1>2. CASE User
  <2>1. LockDatabases
    <3>1. ~CloseDatabase
      <4>1. tabModified \in BOOLEAN
        BY <1>1 DEF TypeOK
      <4> QED
        BY <1>1, <4>1, ClosingLeaves DEF CloseDatabase
    <3> QED
      BY <1>1, <1>2, <1>6, <3>1 DEF User, Change, Changed, EditorActs, OpenEditor,
         AskDelete, AskUpdate, UserSave, Unlock, OpenDatabase, Unlocked
  <2>2. LockUnlessModified(<< >>) /\ Left(<< >>)
    BY <1>1, <2>1 DEF LockDatabases, Left, Idle
  <2> QED
    BY <2>2, LockUnlessModifiedEmpties
<1>3. CASE Answer
  <2>1. LockEditDiscard \/ LockSave \/ LockDiscard \/ RetryEnds
    <3>1. ~CloseEditDiscard
      <4> SUFFICES ASSUME CloseEditDiscard PROVE FALSE
        OBVIOUS
      <4>1. Waiting = << >> /\ Top \in Frames
        BY OnlyQuestion DEF CloseEditDiscard, Questions, Nested
      <4>2. Top.modified \in BOOLEAN /\ Top.current \in BOOLEAN
        BY <4>1 DEF Frames
      <4> QED
        BY <1>1, <4>1, <4>2, ClosingLeaves DEF CloseEditDiscard
    <3> QED
      BY <1>1, <1>3, <1>6, <3>1, ReadFileKeepsMode, RetryLeaves
         DEF Answer, Cancel, CloseSave, CloseDiscard, Close, ReloadYes, ReloadNo,
             MergeYes, MergeNo, Reloaded, DeleteOrUpdate, Changed, EditorActs, RetryStays
  <2>2. Waiting = << >> /\ Left(<< >>)
    BY <1>1, <2>1, NothingWaits
       DEF LockEditDiscard, LockSave, LockDiscard, RetryEnds, Asked, Nested, IInv, Parts, Left,
           Waiting
  <2>6. CASE RetryEnds
    <3>1. PICK o \in Outcome : Lock(o, << >>) \/ Close(o)
      BY <2>6 DEF RetryEnds
    <3> QED
      BY <1>1, <2>2, <3>1, LockingEmpties DEF Close
  <2>3. CASE LockEditDiscard
    BY <1>1, <2>2, <2>3, LockUnlessModifiedEmpties DEF LockEditDiscard
  <2>4. CASE LockSave
    <3>1. PICK o \in SaveDatabase(Now) : Lock(o, << >>)
      BY <1>1, <2>2, <2>4 DEF LockSave
    <3> QED
      BY <1>1, <2>2, <3>1, SaveLeaves, LockingEmpties
  <2>5. CASE LockDiscard
    <3> DEFINE o == [Now EXCEPT !.tab = FALSE, !.widget = FALSE]
    <3>1. o \in Outcome
      BY <1>1 DEF Outcome
    <3>2. Lock(o, << >>)
      BY <1>1, <2>2, <2>5 DEF LockDiscard
    <3> HIDE DEF o
    <3> QED
      BY <2>2, <3>1, <3>2, LockingEmpties
  <2> QED
    BY <2>1, <2>3, <2>4, <2>5, <2>6
<1>4. ~(External \/ ModifiedTimeout \/ OnWatchedFileChanged \/ UnblockAutoReload
        \/ ReloadDatabaseFile)
  BY <1>1, ReadFileKeepsMode DEF External, ExternalRemove, ExternalWrite, ModifiedTimeout,
     OnWatchedFileChanged, UnblockAutoReload, ReloadDatabaseFile
<1>5. ~Relock
  BY DEF Relock
<1> QED
  BY <1>2, <1>3, <1>4, <1>5 DEF Next

LEMMA StayingLocked ==
  ASSUME IInv, Next, RelockAutoType = {FALSE}, LockedIsIdle, mode = "locked", mode' = "locked"
  PROVE  frames' = frames /\ mem' = mem /\ timer' = timer
<1>1. Idle /\ ~timer /\ TypeOK /\ Now \in Outcome
  BY NowType DEF LockedIsIdle, IInv
<1>2. ~Answer
  BY <1>1 DEF Answer, Cancel, Asked, LockEditDiscard, LockSave, LockDiscard, CloseEditDiscard,
         CloseSave, CloseDiscard, ReloadYes, ReloadNo, MergeYes, MergeNo, DeleteOrUpdate,
         ApplyEdit, SequenceEdit, CancelSave, CancelDiscard, Retry
<1>3. ~User
  <2>1. ~CloseDatabase
    <3>1. tabModified \in BOOLEAN
      BY <1>1 DEF TypeOK
    <3> QED
      BY <1>1, <3>1, ClosingLeaves DEF CloseDatabase, Undefined, End, EditModes
  <2> QED
    BY <1>1, <2>1 DEF User, Change, AcceptEdit, OpenEditor, CancelEdit, UserSave, LockDatabases,
       AskDelete, AskUpdate, Unlock, OpenDatabase, Unlocked, EditModes
<1>4. ~Relock /\ ~ModifiedTimeout
  BY <1>1 DEF Relock, ModifiedTimeout
<1>5. CASE External \/ OnWatchedFileChanged \/ UnblockAutoReload
  BY <1>5 DEF External, ExternalRemove, ExternalWrite, OnWatchedFileChanged,
     UnblockAutoReload, Keep
<1>6. CASE ReloadDatabaseFile
  <2> DEFINE o == [Now EXCEPT !.watch.reloadTimer = FALSE]
  <2>1. Becomes(o) /\ UNCHANGED frames /\ Keep
    BY <1>6 DEF ReloadDatabaseFile
  <2>2. o.timer = timer
    BY <1>1, NowIs DEF Outcome
  <2> HIDE DEF o
  <2> QED
    BY <2>1, <2>2 DEF Becomes, Keep
<1> QED
  BY <1>2, <1>3, <1>4, <1>5, <1>6 DEF Next

(***************************************************************************)
(* DatabaseWidget::lock, DatabaseTabWidget::lockDatabases: a locked tab    *)
(* holds no entry and no timer, for any other settings and any depth of    *)
(* questions, if locking again after auto-type is off.                     *)
(***************************************************************************)
THEOREM LockedTabsAreEmpty ==
  ASSUME RelockAutoType = {FALSE}
  PROVE  Spec => []LockedIsEmpty
<1>1. Init => LockedIsIdle
  BY DEF Init, LockedIsIdle
<1>2. IInv /\ LockedIsIdle /\ [Next]_vars => LockedIsIdle'
  <2> SUFFICES ASSUME IInv, LockedIsIdle, [Next]_vars, mode' = "locked"
               PROVE  Idle' /\ mem' = {} /\ ~timer'
    BY DEF LockedIsIdle
  <2>1. CASE Next /\ mode = "locked"
    BY <2>1, StayingLocked DEF LockedIsIdle, Idle
  <2>2. CASE Next /\ mode # "locked"
    BY <2>2, BeingLocked DEF Idle
  <2>3. CASE UNCHANGED vars
    BY <2>3 DEF vars, LockedIsIdle, Idle
  <2> QED
    BY <2>1, <2>2, <2>3
<1>3. IInv /\ LockedIsIdle => LockedIsEmpty
  BY DEF IInv, Parts, NothingUnsavedWithout, LockedIsIdle, LockedIsEmpty
<1> QED
  BY <1>1, <1>2, <1>3, InitInvariant, NextInvariant, PTL DEF Spec

----------------------------------------------------------------------------
(* With the default settings a change is always known *)

\* DatabaseWidget::m_databaseModified is never set, so nobody is asked to merge.
Declines == Asks \cup {"retryDeclined"}

NothingToMerge == ~widgetModified /\ Without(Declines)

\* With AutoSaveAfterEveryChange the widget's flag is not set.
LEMMA SavedInstead ==
  ASSUME IInv, AutoSave = {TRUE}, NEW o \in Outcome, ~o.widget, NEW p \in Modified(o)
  PROVE  p \in Outcome /\ ~p.widget
<1>1. mem \subseteq Changes /\ FALSE \notin AutoSave
  BY DEF IInv, TypeOK
<1>2. p \in SaveDatabase(o)
  BY <1>1, ModifiedType
<1>3. p \in Outcome /\ (p = o \/ p = Saved(o) \/ p \in SaveFailed(o))
  BY <1>1, <1>2, SaveDatabaseType
<1> QED
  BY <1>1, <1>3, SavedType, SaveFailedType

LEMMA SaveKeepsWidget ==
  ASSUME IInv, NEW o \in Outcome, ~o.widget, NEW p \in SaveDatabase(o)
  PROVE  p \in Outcome /\ ~p.widget
<1>1. mem \subseteq Changes
  BY DEF IInv, TypeOK
<1>2. p \in Outcome /\ (p = o \/ p = Saved(o) \/ p \in SaveFailed(o))
  BY <1>1, SaveDatabaseType
<1> QED
  BY <1>1, <1>2, SavedType, SaveFailedType

LEMMA AskedAlone ==
  ASSUME NEW f \in Frames, f.kind \notin Declines, frames' = <<f>> \o << >>
  PROVE  Without(Declines)'
<1>1. << >> \in Seq(Frames) /\ Len(<< >>) = 0
  BY EmptySeq
<1>2. DOMAIN frames' = 1..1 /\ frames'[1] = f
  BY <1>1, PushedFacts
<1> QED
  BY <1>2 DEF Without

LEMMA NobodyAsks == ASSUME frames' = << >> PROVE Without(Declines)'
BY EmptySeq DEF Without

LEMMA UndefinedNoMerge ==
  ASSUME NothingToMerge, Undefined
  PROVE  NothingToMerge'
BY NobodyAsks DEF Undefined, End, NothingToMerge

LEMMA PulledKeeps ==
  ASSUME IInv, Without(Declines), frames' = Pulled(frames)
  PROVE  Without(Declines)'
<1>1. frames \in Seq(Frames) /\ DOMAIN frames = 1..Len(frames)
  BY StackFacts DEF IInv, TypeOK
<1>2. DOMAIN frames' = 1..Len(frames)
      /\ \A i \in 1..Len(frames) : frames'[i].kind = frames[i].kind
  BY <1>1, PulledFacts
<1> QED
  BY <1>1, <1>2 DEF Without

LEMMA LockKeepsNoMerge ==
  ASSUME IInv, NothingToMerge, NEW o \in Outcome, ~o.widget, NEW waiting, Left(waiting),
         waiting = << >> \/ waiting = frames, Lock(o, waiting)
  PROVE  NothingToMerge'
<1> DEFINE p == [o EXCEPT !.unsaved = FALSE]
<1>1. p \in Outcome /\ ~p.widget
  BY DEF Outcome
<1>2. Replace(p, {}, waiting)
  BY DEF Lock
<1> HIDE DEF p
<1>3. ~widgetModified'
  BY <1>1, <1>2, ReplacingLeaves
<1>4. CASE waiting = << >>
  BY <1>3, <1>4, LockingEmpties, NobodyAsks DEF NothingToMerge
<1>5. CASE waiting = frames
  <2>1. frames' = Pulled(frames)
    BY <1>5, LockingLeaves
  <2> QED
    BY <1>3, <2>1, PulledKeeps DEF NothingToMerge
<1> QED
  BY <1>4, <1>5

LEMMA LockUnlessModifiedNoMerge ==
  ASSUME IInv, NothingToMerge, LockUnlessModified(<< >>), Left(<< >>)
  PROVE  NothingToMerge'
<1>1. Now \in Outcome /\ ~Now.widget
  BY NowType, NowIs DEF IInv, NothingToMerge
<1>2. CASE tabModified
  <2> DEFINE f == [kind |-> "lockSave", current |-> TRUE, modified |-> FALSE, content |-> {}]
  <2>1. f \in Frames /\ f.kind \notin Declines
    BY FrameType DEF Questions, Retries, Asks, Declines
  <2>2. frames' = <<f>> \o << >> /\ Becomes(Now)
    BY <1>2 DEF LockUnlessModified, Push
  <2> HIDE DEF f
  <2> QED
    BY <2>1, <2>2, AskedAlone, BecomesNow DEF NothingToMerge
<1>3. CASE ~tabModified
  BY <1>1, <1>3, LockKeepsNoMerge DEF LockUnlessModified
<1> QED
  BY <1>2, <1>3

LEMMA ClosedNoMerge ==
  ASSUME NEW o \in Outcome, ~o.widget, Close(o)
  PROVE  NothingToMerge'
<1> DEFINE p == [o EXCEPT !.timer = FALSE, !.unsaved = FALSE]
<1>1. ~p.widget
  BY DEF Outcome
<1>2. Becomes(p) /\ frames' = << >>
  BY DEF Close
<1> HIDE DEF p
<1> QED
  BY <1>1, <1>2, NobodyAsks DEF Becomes, NothingToMerge

\* A save that failed leaves the flag, and may ask.
LEMMA SavedNoMerge ==
  ASSUME NEW kind \in Retries \ Declines, NEW p \in Outcome, NEW o \in Outcome,
         Becomes(o), ~o.widget, frames' = << >> \/ AskRetry(kind, p, o, << >>)
  PROVE  NothingToMerge'
<1>1. ~widgetModified'
  BY DEF Becomes
<1>2. CASE frames' = << >>
  BY <1>1, <1>2, NobodyAsks DEF NothingToMerge
<1>3. CASE AskRetry(kind, p, o, << >>)
  <2> DEFINE f == [kind |-> kind, current |-> TRUE, modified |-> FALSE, content |-> {}]
  <2>1. f \in Frames /\ f.kind \notin Declines
    BY FrameType DEF Questions
  <2>2. frames' = <<f>> \o << >>
    BY <1>3 DEF AskRetry, Push
  <2> HIDE DEF f
  <2> QED
    BY <1>1, <2>1, <2>2, AskedAlone DEF NothingToMerge
<1> QED
  BY <1>2, <1>3

LEMMA ClosingNoMerge ==
  ASSUME IInv, NothingToMerge, NEW flag \in BOOLEAN, NEW current \in BOOLEAN,
         CloseUnlessModified(flag, current, << >>)
  PROVE  NothingToMerge'
<1>1. Now \in Outcome /\ ~Now.widget
  BY NowType, NowIs DEF IInv, NothingToMerge
<1>2. ASSUME Undefined PROVE NothingToMerge'
  BY <1>2, UndefinedNoMerge
<1>3. ASSUME NEW o \in Outcome, ~o.widget, Close(o) PROVE NothingToMerge'
  BY <1>3, ClosedNoMerge
<1>4. ASSUME NEW o \in SaveDatabase(Now),
             IF SaveSucceeded(o)
             THEN Close(o)
             ELSE /\ Becomes(o) /\ Keep
                  /\ frames' = << >> \/ AskRetry("retryClose", Now, o, << >>)
      PROVE  NothingToMerge'
  <2>1. o \in Outcome /\ ~o.widget
    BY <1>1, SaveKeepsWidget
  <2>2. CASE SaveSucceeded(o)
    BY <1>3, <1>4, <2>1, <2>2
  <2>3. CASE ~SaveSucceeded(o)
    <3>1. "retryClose" \in Retries \ Declines
      BY DEF Retries, Declines, Asks
    <3> QED
      BY <1>1, <1>4, <2>1, <2>3, <3>1, SavedNoMerge
  <2> QED
    BY <2>2, <2>3
<1>5. ASSUME frames' = <<[kind |-> "closeSave", current |-> current, modified |-> flag,
                          content |-> {}]>> \o << >>,
             Becomes(Now)
      PROVE  NothingToMerge'
  <2> DEFINE f == [kind |-> "closeSave", current |-> current, modified |-> flag, content |-> {}]
  <2>1. f \in Frames /\ f.kind \notin Declines
    BY FrameType DEF Questions, Retries, Asks, Declines
  <2>2. frames' = <<f>> \o << >>
    BY <1>5
  <2> HIDE DEF f
  <2> QED
    BY <1>5, <2>1, <2>2, AskedAlone, BecomesNow DEF NothingToMerge
<1> QED
  BY <1>1, <1>2, <1>3, <1>4, <1>5 DEF CloseUnlessModified

LEMMA EditorNoMerge ==
  ASSUME IInv, NothingToMerge, EditorActs
  PROVE  NothingToMerge'
<1>1. CASE frames' = << >> /\ widgetModified' = widgetModified
  BY <1>1, NobodyAsks DEF NothingToMerge
<1>2. CASE /\ \E f \in Frames : f.kind \in EditorAsks /\ frames' = <<f>> \o << >>
           /\ widgetModified' = widgetModified
  BY <1>2, AskedAlone DEF EditorAsks, Declines, Asks, NothingToMerge
<1> QED
  BY <1>1, <1>2, EditorLeaves DEF Undefined, End

LEMMA UserNoMerge ==
  ASSUME IInv, NothingToMerge, User
  PROVE  NothingToMerge'
<1>1. Now \in Outcome /\ TypeOK /\ ~Now.widget
  BY NowType, NowIs DEF IInv, NothingToMerge
<1>2. ASSUME UNCHANGED <<widgetModified, frames>> PROVE NothingToMerge'
  BY <1>2 DEF NothingToMerge, Without
<1>3. CASE (\E c \in Changes : Change(c) \/ AcceptEdit(c)) \/ OpenEditor \/ CancelEdit
  BY <1>2, <1>3, EditorNoMerge DEF Change, Changed, EditorActs, OpenEditor
<1>4. CASE UserSave
  <2>1. PICK o \in SaveDatabase(Now) :
          Becomes(o) /\ (frames' = << >> \/ AskRetry("retrySave", Now, o, << >>))
    BY <1>4 DEF UserSave, Idle
  <2>2. o \in Outcome /\ ~o.widget
    BY <1>1, <2>1, SaveKeepsWidget
  <2>3. "retrySave" \in Retries \ Declines
    BY DEF Retries, Declines, Asks
  <2> QED
    BY <1>1, <2>1, <2>2, <2>3, SavedNoMerge
<1>5. CASE LockDatabases
  <2>1. CASE Push("lockEdit", FALSE, {}, << >>) /\ Becomes(Now)
    <3> DEFINE f == [kind |-> "lockEdit", current |-> TRUE, modified |-> FALSE, content |-> {}]
    <3>1. f \in Frames /\ f.kind \notin Declines
      BY FrameType DEF Questions, Retries, Asks, Declines
    <3>2. frames' = <<f>> \o << >>
      BY <2>1 DEF Push
    <3> HIDE DEF f
    <3> QED
      BY <2>1, <3>1, <3>2, AskedAlone, BecomesNow DEF NothingToMerge
  <2>2. CASE LockUnlessModified(<< >>) /\ Idle
    BY <2>2, LockUnlessModifiedNoMerge DEF Left, Idle
  <2> QED
    BY <1>5, <2>1, <2>2, UndefinedNoMerge DEF LockDatabases
<1>6. CASE Unlock
  <2>1. Replace(Now, file, frames) /\ Left(frames)
    BY <1>6 DEF Unlock, Left
  <2>2. frames' = Pulled(frames) /\ widgetModified' = Now.widget
    BY <1>1, <2>1, ReplacingLeaves
  <2> QED
    BY <1>1, <2>2, PulledKeeps DEF NothingToMerge
<1>7. CASE CloseDatabase
  <2>1. tabModified \in BOOLEAN
    BY <1>1 DEF TypeOK
  <2>2. CASE Push("closeEdit", tabModified, {}, << >>) /\ Becomes(Now)
    <3> DEFINE f == [kind |-> "closeEdit", current |-> TRUE, modified |-> tabModified,
                     content |-> {}]
    <3>1. f \in Frames /\ f.kind \notin Declines
      BY <2>1, FrameType DEF Questions, Retries, Asks, Declines
    <3>2. frames' = <<f>> \o << >>
      BY <2>2 DEF Push
    <3> HIDE DEF f
    <3> QED
      BY <2>2, <3>1, <3>2, AskedAlone, BecomesNow DEF NothingToMerge
  <2>3. CASE CloseUnlessModified(tabModified, TRUE, << >>)
    BY <2>1, <2>3, ClosingNoMerge
  <2> QED
    BY <1>7, <2>2, <2>3, UndefinedNoMerge DEF CloseDatabase
<1>8. CASE OpenDatabase
  BY <1>8 DEF OpenDatabase, NothingToMerge, Without
<1>9. CASE AskDelete \/ AskUpdate
  <2>1. Becomes(Now)
    BY <1>9 DEF AskDelete, AskUpdate
  <2>2. Without(Declines)'
    <3>1. PICK kind \in {"askDelete", "askUpdate"} : Push(kind, FALSE, {}, frames)
      BY <1>9 DEF AskDelete, AskUpdate, Idle
    <3> DEFINE f == [kind |-> kind, current |-> TRUE, modified |-> FALSE, content |-> {}]
    <3>2. f \in Frames /\ f.kind \notin Declines
      BY FrameType DEF Questions, Declines, Asks
    <3>3. frames' = <<f>> \o frames
      BY <3>1 DEF Push
    <3> HIDE DEF f
    <3> QED
      BY <3>2, <3>3, PushingKeeps DEF NothingToMerge
  <2>3. ~widgetModified'
    BY <2>1, BecomesNow DEF NothingToMerge
  <2> QED
    BY <2>2, <2>3 DEF NothingToMerge
<1> QED
  BY <1>3, <1>4, <1>5, <1>6, <1>7, <1>8, <1>9 DEF User

LEMMA AnswerNoMerge ==
  ASSUME IInv, NothingToMerge, Answer
  PROVE  NothingToMerge'
<1>1. Now \in Outcome /\ TypeOK /\ ~Now.widget
  BY NowType, NowIs DEF IInv, NothingToMerge
<1>2. ~Idle /\ Top.kind \in Questions \ Declines
  <2>1. ~Idle
    BY DEF Answer, Cancel, Asked, LockEditDiscard, LockSave, LockDiscard, CloseEditDiscard,
           CloseSave, CloseDiscard, ReloadYes, ReloadNo, MergeYes, MergeNo, DeleteOrUpdate,
           ApplyEdit, SequenceEdit, CancelSave, CancelDiscard, Retry
  <2>2. Len(frames) \in Nat /\ Len(frames) # 0 /\ DOMAIN frames = 1..Len(frames)
        /\ Top = frames[1] /\ Top \in Frames
    BY <1>1, <2>1, StackFacts
  <2>3. 1 \in DOMAIN frames /\ Top.kind \in Questions
    BY <2>2 DEF Frames
  <2> QED
    BY <2>1, <2>2, <2>3 DEF NothingToMerge, Without
<1>3. ASSUME Top.kind \notin Nested
      PROVE  Waiting = << >> /\ Left(<< >>) /\ Top \in Frames
  BY <1>2, <1>3, OnlyQuestion DEF Asked
<1>4. ASSUME Undefined PROVE NothingToMerge'
  BY <1>4, UndefinedNoMerge
<1>5. ~ReloadYes /\ ~ReloadNo /\ ~MergeYes /\ ~MergeNo
  BY <1>2 DEF ReloadYes, ReloadNo, MergeYes, MergeNo, Asked, Declines, Asks
<1>6. CASE Cancel(Cancelable)
  BY <1>2, <1>6, BecomesNow, PoppingKeeps DEF Cancel, NothingToMerge
<1>7. CASE LockEditDiscard
  <2>1. Top.kind \notin Nested
    BY <1>7 DEF LockEditDiscard, Asked, Nested
  <2> QED
    BY <1>3, <1>4, <1>7, <2>1, LockUnlessModifiedNoMerge DEF LockEditDiscard
<1>8. CASE (LockSave \/ CloseSave) /\ ~Undefined
  <2>0. Waiting = << >> /\ Left(<< >>)
    BY <1>3, <1>8 DEF LockSave, CloseSave, Asked, Nested
  <2>1. PICK o \in SaveDatabase(Now) :
          \/ Lock(o, << >>)
          \/ Close(o)
          \/ \E kind \in Retries \ Declines :
               Becomes(o) /\ (frames' = << >> \/ AskRetry(kind, Now, o, << >>))
    <3>1. {"retryLock", "retryClose"} \subseteq Retries \ Declines
      BY DEF Retries, Declines, Asks
    <3> QED
      BY <1>8, <2>0, <3>1 DEF LockSave, CloseSave
  <2>2. o \in Outcome /\ ~o.widget
    BY <1>1, <2>1, SaveKeepsWidget
  <2>3. CASE Close(o)
    BY <2>2, <2>3, ClosedNoMerge
  <2>4. CASE Lock(o, << >>)
    BY <2>0, <2>2, <2>4, LockKeepsNoMerge
  <2>5. CASE \E kind \in Retries \ Declines :
               Becomes(o) /\ (frames' = << >> \/ AskRetry(kind, Now, o, << >>))
    BY <1>1, <2>2, <2>5, SavedNoMerge
  <2> QED
    BY <2>1, <2>3, <2>4, <2>5
<1>9. CASE (LockDiscard \/ CloseDiscard) /\ ~Undefined
  <2>0. Waiting = << >> /\ Left(<< >>)
    BY <1>3, <1>9 DEF LockDiscard, CloseDiscard, Asked, Nested
  <2>1. CASE LockDiscard
    <3> DEFINE o == [Now EXCEPT !.tab = FALSE, !.widget = FALSE]
    <3>1. o \in Outcome /\ ~o.widget
      BY <1>1 DEF Outcome
    <3>2. Lock(o, << >>)
      BY <1>9, <2>0, <2>1 DEF LockDiscard
    <3> HIDE DEF o
    <3> QED
      BY <2>0, <3>1, <3>2, LockKeepsNoMerge
  <2>2. CASE CloseDiscard
    BY <1>1, <1>9, <2>2, ClosedNoMerge DEF CloseDiscard
  <2> QED
    BY <1>9, <2>1, <2>2
<1>10. CASE CloseEditDiscard
  <2>1. Waiting = << >> /\ Top \in Frames
    BY <1>3, <1>10 DEF CloseEditDiscard, Asked, Nested
  <2>2. Top.modified \in BOOLEAN /\ Top.current \in BOOLEAN
    BY <2>1 DEF Frames
  <2> QED
    BY <1>10, <2>1, <2>2, ClosingNoMerge DEF CloseEditDiscard
<1>11. CASE (\E c \in Changes : DeleteOrUpdate(c)) /\ ~Undefined
  <2>1. frames' = Waiting /\ widgetModified' = widgetModified
    BY <1>11 DEF DeleteOrUpdate, Changed
  <2> QED
    BY <1>2, <2>1, PoppingKeeps DEF NothingToMerge
<1>12. CASE RetryEnds
  <2>1. PICK o \in Outcome : ~o.widget /\ (Lock(o, << >>) \/ Close(o))
    BY <1>12 DEF RetryEnds
  <2>2. CASE Lock(o, << >>)
    BY <1>12, <2>1, <2>2, LockKeepsNoMerge DEF RetryEnds
  <2>3. CASE Close(o)
    BY <2>1, <2>3, ClosedNoMerge
  <2> QED
    BY <2>1, <2>2, <2>3
<1>13. CASE RetryStays
  BY <1>2, <1>13, PoppingKeeps DEF RetryStays, Declines, NothingToMerge
<1>14. CASE EditorActs
  BY <1>14, EditorNoMerge
<1>15. CASE Retry
  BY <1>4, <1>12, <1>13, <1>15, RetryLeaves
<1> QED
  BY <1>4, <1>5, <1>6, <1>7, <1>8, <1>9, <1>10, <1>11, <1>14, <1>15 DEF Answer, EditorActs

LEMMA SystemNoMerge ==
  ASSUME IInv, NothingToMerge, AutoSave = {TRUE}, AutoReload = {TRUE},
         External \/ Relock \/ ModifiedTimeout \/ OnWatchedFileChanged
           \/ UnblockAutoReload \/ ReloadDatabaseFile
  PROVE  NothingToMerge'
<1>1. Now \in Outcome /\ TypeOK /\ ~Now.widget
  BY NowType, NowIs DEF IInv, NothingToMerge
<1>2. ASSUME UNCHANGED frames, ~widgetModified' PROVE NothingToMerge'
  BY <1>2 DEF NothingToMerge, Without
<1>7. ASSUME NEW p, NEW o, NEW kind \in Retries \ Declines,
             AskRetry(kind, o, p, frames), ~widgetModified'
      PROVE  NothingToMerge'
  <2> DEFINE f == [kind |-> kind, current |-> TRUE, modified |-> FALSE, content |-> {}]
  <2>1. f \in Frames /\ f.kind \notin Declines
    BY <1>7, FrameType DEF Questions
  <2>2. frames' = <<f>> \o frames
    BY <1>7 DEF AskRetry, Push
  <2> HIDE DEF f
  <2> QED
    BY <1>7, <2>1, <2>2, PushingKeeps DEF NothingToMerge
<1>3. CASE External \/ OnWatchedFileChanged \/ UnblockAutoReload
  BY <1>2, <1>3 DEF External, ExternalRemove, ExternalWrite, OnWatchedFileChanged,
     UnblockAutoReload, NothingToMerge
<1>4. CASE Relock
  <2>1. Left(frames)
    BY DEF Left
  <2>2. CASE Becomes(Now) /\ UNCHANGED frames
    BY <1>2, <2>2, BecomesNow DEF NothingToMerge
  <2>3. CASE Lock(Now, frames)
    BY <1>1, <2>1, <2>3, LockKeepsNoMerge
  <2> QED
    BY <1>4, <2>2, <2>3 DEF Relock
<1>5. CASE ModifiedTimeout
  <2> DEFINE o == [Now EXCEPT !.timer = FALSE]
  <2>1. o \in Outcome /\ ~o.widget
    BY <1>1 DEF Outcome
  <2>2. PICK p \in Modified(o) :
          Becomes(p) /\ (UNCHANGED frames \/ AskRetry("retrySave", o, p, frames))
    BY <1>5 DEF ModifiedTimeout
  <2> HIDE DEF o
  <2>3. ~widgetModified'
    BY <2>1, <2>2, SavedInstead DEF Becomes
  <2>4. "retrySave" \in Retries \ Declines
    BY DEF Retries, Declines, Asks
  <2> QED
    BY <1>2, <1>7, <2>2, <2>3, <2>4
<1>6. CASE ReloadDatabaseFile
  <2> DEFINE o == [Now EXCEPT !.watch.reloadTimer = FALSE]
  <2>1. o \in Outcome /\ ~o.widget
    BY <1>1 DEF Outcome, GoodWatches, Watches
  <2>2. (Becomes(o) /\ UNCHANGED frames) \/ ReadFile(o, frames)
    BY <1>6 DEF ReloadDatabaseFile
  <2> HIDE DEF o
  <2>3. CASE Becomes(o) /\ UNCHANGED frames
    BY <1>2, <2>1, <2>3 DEF Becomes
  <2>4. CASE \E p \in Modified(o) :
               \/ Becomes(Rewatched(p)) /\ frames' = frames
               \/ Becomes(p) /\ AskRetry("retryUnread", o, p, frames)
    <3>1. PICK p \in Modified(o) :
            \/ Becomes(Rewatched(p)) /\ frames' = frames
            \/ Becomes(p) /\ AskRetry("retryUnread", o, p, frames)
      BY <2>4
    <3>2. ~widgetModified'
      BY <2>1, <3>1, SavedInstead, RewatchedType DEF Becomes
    <3>3. "retryUnread" \in Retries \ Declines
      BY DEF Retries, Declines, Asks
    <3> QED
      BY <1>2, <1>7, <3>1, <3>2, <3>3
  <2>5. CASE Becomes(Rewatched(o)) /\ frames' = frames
    BY <1>2, <2>1, <2>5, RewatchedType DEF Becomes
  <2>6. CASE Reloaded([o EXCEPT !.unsaved = FALSE], file, frames)
    <3> DEFINE p == [o EXCEPT !.unsaved = FALSE]
    <3>1. p \in Outcome /\ ~p.widget
      BY <2>1 DEF Outcome
    <3>2. Rewatched(p) \in Outcome /\ ~Rewatched(p).widget
      BY <3>1, RewatchedType
    <3>3. Replace(Rewatched(p), file, frames) /\ Left(frames)
      BY <2>6 DEF Reloaded, Left
    <3> HIDE DEF p
    <3>4. frames' = Pulled(frames) /\ ~widgetModified'
      BY <3>2, <3>3, ReplacingLeaves
    <3> QED
      BY <3>4, PulledKeeps DEF NothingToMerge
  <2> QED
    BY <2>1, <2>2, <2>3, <2>4, <2>5, <2>6 DEF ReadFile
<1> QED
  BY <1>3, <1>4, <1>5, <1>6

(***************************************************************************)
(* DatabaseTabWidget::modified, with AutoSaveAfterEveryChange and          *)
(* AutoReloadOnChange on (the defaults): an unwritten change is known to   *)
(* the tab or about to be, whatever fails and however deep questions nest. *)
(***************************************************************************)
THEOREM ChangesAreTracked ==
  ASSUME AutoSave = {TRUE}, AutoReload = {TRUE}
  PROVE  Spec => []Tracked
<1>1. Init => NothingToMerge /\ Tracked
  BY EmptySeq DEF Init, NothingToMerge, Without, Tracked
<1>2. IInv /\ NothingToMerge /\ [Next]_vars => NothingToMerge'
  <2> SUFFICES ASSUME IInv, NothingToMerge, [Next]_vars PROVE NothingToMerge'
    OBVIOUS
  <2>1. CASE UNCHANGED vars
    BY <2>1 DEF vars, NothingToMerge, Without
  <2> QED
    BY <2>1, UserNoMerge, AnswerNoMerge, SystemNoMerge DEF Next
<1>3. IInv /\ NothingToMerge /\ Tracked /\ [Next]_vars => Tracked'
  <2> SUFFICES ASSUME IInv, NothingToMerge, Tracked, [Next]_vars PROVE Tracked'
    OBVIOUS
  <2>1. ~Asked("askMerge")
    <3> SUFFICES ASSUME ~Idle PROVE Top.kind # "askMerge"
      BY DEF Asked
    <3>1. Len(frames) \in Nat /\ Len(frames) # 0 /\ DOMAIN frames = 1..Len(frames)
          /\ Top = frames[1]
      BY StackFacts DEF IInv
    <3>2. 1 \in DOMAIN frames
      BY <3>1
    <3> QED
      BY <3>1, <3>2 DEF NothingToMerge, Without, Declines, Asks
  <2>2. CASE UNCHANGED vars
    BY <2>2 DEF vars, Tracked
  <2> QED
    BY <2>1, <2>2, AnswerTracked, UserTracked, SystemTracked DEF Next
<1> QED
  BY <1>1, <1>2, <1>3, InitInvariant, NextInvariant, PTL DEF Spec

=============================================================================
