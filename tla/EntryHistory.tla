---------------------------- MODULE EntryHistory ----------------------------
(***************************************************************************)
(* An entry, its history and the editor open on it.                        *)
(*                                                                         *)
(* core/Entry.cpp turns every update into a history item and truncates the *)
(* history by two limits.  gui/entry/EditEntryWidget.cpp edits a copy of   *)
(* the fields, and its EntryHistoryModel holds pointers to the history     *)
(* items, some marked for deletion, until the user saves.  Meanwhile       *)
(* browser/BrowserService.cpp may update the entry, which truncates too.   *)
(*                                                                         *)
(* The fields are one abstract value.  m_history is a list that only grows *)
(* at its end, so it is a function here: the item made from the n-th       *)
(* version of the entry is at n, and the order of the numbers is the order *)
(* of the list.                                                            *)
(***************************************************************************)
EXTENDS Integers, Sequences, FiniteSets, FiniteSetsExt, Functions

CONSTANTS
  Values,      \* contents of the fields
  Size,        \* size of a history item with given contents
  ItemLimits,  \* values of the setting historyMaxItems, -1 is no limit
  SizeLimits,  \* values of the setting historyMaxSize, -1 is no limit
  MaxVersions  \* bound on the versions explored

ASSUME SizeAssumption == Size \in [Values -> Nat]
ASSUME LimitAssumption == ItemLimits \subseteq Int /\ SizeLimits \subseteq Int
ASSUME BoundAssumption == MaxVersions \in Nat \ {0}

VARIABLES
  fields,      \* Entry::m_data, m_attributes, m_attachments, ...
  history,     \* Entry::m_history
  maxItems,    \* Metadata::historyMaxItems
  maxSize,     \* Metadata::historyMaxSize
  editor,      \* the EditEntryWidget is "closed" or "open" on the entry
  form,        \* what its widgets show
  equal,       \* EditEntryWidget::passwordsEqual
  saved,       \* EditEntryWidget::m_saved
  rows,        \* EntryHistoryModel::m_historyEntries
  doomed,      \* EntryHistoryModel::m_deletedHistoryEntries
  loaded,      \* history variable: the form as it was loaded or last saved
  quiet,       \* history variable: some input since then was reported by no widget
  program,     \* "running", "asserted" (a Q_ASSERT failed), or "stale" (freed memory was read)
  versions,    \* history variable: all contents the entry ever had
  removed      \* history variable: the items users deleted and saved

entry == <<fields, history, versions, removed>>
limits == <<maxItems, maxSize>>
widget == <<editor, form, equal, saved, rows, doomed, loaded, quiet>>
vars == <<entry, limits, widget, program>>

Items == DOMAIN history

----------------------------------------------------------------------------
(* core/Entry.cpp *)

\* The items of h from i on, newest last.
From(h, i) == {j \in DOMAIN h : j >= i}

TotalSize(h) == MapThenSumSet(LAMBDA j : Size[h[j]], DOMAIN h)

SizeFrom(h, i) == TotalSize(Restrict(h, From(h, i)))

\* The newest n items.
ItemsFit(h, n) == {i \in DOMAIN h : n > -1 => Cardinality(From(h, i)) <= n}

\* Seeded fault: an item that does not fit is dropped, older ones are kept.
SizesFitEach(h, n) == {i \in DOMAIN h : n > -1 => Size[h[i]] <= n}

\* From the newest back, up to the first item that takes the sum above n.
SizesFit(h, n) ==
  {i \in DOMAIN h : \A j \in From(h, i) : n > -1 => SizeFrom(h, j) <= n}

\* Entry::truncateHistory
Truncated(h, items, size) ==
  LET newest == Restrict(h, ItemsFit(h, items))
  IN  Restrict(newest, SizesFit(newest, size))

\* beginUpdate: the item is made from the contents before the update.
Updated(h, x) ==
  [n \in DOMAIN h \cup {Len(versions)} |-> IF n = Len(versions) THEN fields ELSE h[n]]

\* beginUpdate, the setters, endUpdate, on an entry whose history is h: no item
\* when nothing was modified in between.
Update(h, v) ==
  /\ fields' = v
  /\ IF v = fields
     THEN history' = h /\ UNCHANGED versions
     ELSE /\ Len(versions) < MaxVersions
          /\ history' = Truncated(Updated(h, v), maxItems, maxSize)
          /\ versions' = Append(versions, v)

----------------------------------------------------------------------------
(* An entry that was read from a file, with whatever history it had there. *)

Init ==
  /\ \E n \in 1 .. MaxVersions : versions \in [1 .. n -> Values]
  /\ fields = versions[Len(versions)]
  /\ history = [n \in 1 .. Len(versions) - 1 |-> versions[n]]
  /\ maxItems \in ItemLimits
  /\ maxSize \in SizeLimits
  /\ removed = {}
  /\ editor = "closed"
  /\ form = fields
  /\ equal = TRUE
  /\ saved = TRUE
  /\ rows = {}
  /\ doomed = {}
  /\ loaded = form
  /\ quiet = FALSE
  /\ program = "running"

----------------------------------------------------------------------------
(* gui/entry/EditEntryWidget.cpp *)

\* loadEntry, setForms
OpenEditor ==
  /\ editor = "closed"
  /\ editor' = "open"
  /\ form' = fields
  /\ equal' = TRUE
  /\ saved' = TRUE
  /\ rows' = Items
  /\ doomed' = {}
  /\ loaded' = fields
  /\ quiet' = FALSE
  /\ UNCHANGED <<entry, limits, program>>

\* Most widgets of the form report setUnsavedChanges.
EditForm(v, e) ==
  /\ editor = "open"
  /\ <<v, e>> # <<form, equal>>
  /\ form' = v
  /\ equal' = e
  /\ saved' = FALSE
  /\ UNCHANGED <<entry, limits, editor, rows, doomed, loaded, quiet, program>>

\* Nothing reports the removal of plugin data, nor an attribute that is renamed
\* in the list.
EditQuietly(v) ==
  /\ editor = "open"
  /\ v # form
  /\ form' = v
  /\ quiet' = TRUE
  /\ UNCHANGED <<entry, limits, editor, equal, saved, rows, doomed, loaded, program>>

\* restoreHistoryEntry: the form shows the item, the entry is as before.
RestoreHistoryEntry(i) ==
  /\ editor = "open"
  /\ i \in rows \cap Items
  /\ form' = history[i]
  /\ equal' = TRUE
  /\ saved' = FALSE
  /\ UNCHANGED <<entry, limits, editor, rows, doomed, loaded, quiet, program>>

\* deleteHistoryEntry: the item goes when the user saves.
DeleteHistoryEntry(i) ==
  /\ editor = "open"
  /\ i \in rows
  /\ rows' = rows \ {i}
  /\ doomed' = doomed \cup {i}
  /\ saved' = FALSE
  /\ UNCHANGED <<entry, limits, editor, form, equal, loaded, quiet, program>>

DeleteAllHistoryEntries ==
  /\ editor = "open"
  /\ rows # {}
  /\ rows' = {}
  /\ doomed' = doomed \cup rows
  /\ saved' = FALSE
  /\ UNCHANGED <<entry, limits, editor, form, equal, loaded, quiet, program>>

\* The part of commitEntry that changes the entry: removeHistoryItems, then an
\* update with the values of the form.
CommitToEntry ==
  /\ doomed \subseteq Items
  /\ Update(Restrict(history, Items \ doomed), form)
  /\ removed' = removed \cup doomed
  /\ UNCHANGED program

\* clear
CloseEditor ==
  /\ editor' = "closed"
  /\ rows' = {}
  /\ doomed' = {}
  /\ loaded' = form
  /\ quiet' = FALSE
  /\ UNCHANGED <<form, equal>>

\* Seeded fault: the model is not given the history after the update.
ApplyKeepingRows ==
  /\ editor = "open"
  /\ ~saved
  /\ equal
  /\ CommitToEntry
  /\ saved' = TRUE
  /\ doomed' = {}
  /\ loaded' = form
  /\ quiet' = FALSE
  /\ UNCHANGED <<limits, editor, form, equal, rows>>

\* The Apply button, enabled by unsaved changes.  With different passwords
\* commitEntry only shows an error.
Apply ==
  /\ editor = "open"
  /\ ~saved
  /\ equal
  /\ CommitToEntry
  /\ saved' = TRUE
  /\ rows' = DOMAIN history'
  /\ doomed' = {}
  /\ loaded' = form
  /\ quiet' = FALSE
  /\ UNCHANGED <<limits, editor, form, equal>>

\* acceptEntry
Accept ==
  /\ editor = "open"
  /\ equal
  /\ CommitToEntry
  /\ saved' = TRUE
  /\ CloseEditor
  /\ UNCHANGED limits

\* cancel, without unsaved changes or answered with Discard.
Discard ==
  /\ editor = "open"
  /\ CloseEditor
  /\ UNCHANGED <<entry, limits, saved, program>>

\* Seeded fault: m_saved is set, the entry is not.
SaveOnCancelOnlySaysSo ==
  /\ editor = "open"
  /\ ~saved
  /\ UNCHANGED <<entry, program>>
  /\ saved' = TRUE
  /\ CloseEditor
  /\ UNCHANGED limits

\* cancel, answered with Save: the result of commitEntry is ignored.
SaveOnCancel ==
  /\ editor = "open"
  /\ ~saved
  /\ IF equal THEN CommitToEntry ELSE UNCHANGED <<entry, program>>
  /\ saved' = TRUE
  /\ CloseEditor
  /\ UNCHANGED limits

\* commitEntry (by Apply, OK or Save) with items marked that are gone: the
\* assertion of removeHistoryItems, a second delete in a release build.
CommitStale ==
  /\ editor = "open"
  /\ equal
  /\ ~(doomed \subseteq Items)
  /\ program' = "asserted"
  /\ UNCHANGED <<entry, limits, widget>>

\* A row of an item that is gone is painted, shown or restored.
ReadStaleRow ==
  /\ editor = "open"
  /\ ~(rows \subseteq Items)
  /\ program' = "stale"
  /\ UNCHANGED <<entry, limits, widget>>

----------------------------------------------------------------------------
(* BrowserService::updateEntry, Entry::setTotp: an update from elsewhere,  *)
(* also while the editor is open.                                          *)
UpdateEntry(v) ==
  /\ v # fields
  /\ Update(history, v)
  /\ UNCHANGED <<removed, limits, widget, program>>

\* Seeded fault: the histories are not truncated when a limit changes.
ChangeLimitsOnly(items, size) ==
  /\ editor = "closed"
  /\ <<items, size>> # limits
  /\ maxItems' = items
  /\ maxSize' = size
  /\ UNCHANGED <<entry, widget, program>>

\* DatabaseSettingsWidget::save, out of reach while the editor is open: a change
\* of either limit truncates the histories by both.
ChangeLimits(items, size) ==
  /\ editor = "closed"
  /\ <<items, size>> # limits
  /\ maxItems' = items
  /\ maxSize' = size
  /\ history' = Truncated(history, items, size)
  /\ UNCHANGED <<fields, versions, removed, widget, program>>

Next ==
  /\ program = "running"
  /\ \/ OpenEditor
     \/ \E x \in Values, e \in BOOLEAN : EditForm(x, e)
     \/ \E x \in Values : EditQuietly(x)
     \/ \E i \in rows : RestoreHistoryEntry(i) \/ DeleteHistoryEntry(i)
     \/ DeleteAllHistoryEntries
     \/ Apply
     \/ Accept
     \/ Discard
     \/ SaveOnCancel
     \/ CommitStale
     \/ ReadStaleRow
     \/ \E x \in Values : UpdateEntry(x)
     \/ \E items \in ItemLimits, size \in SizeLimits : ChangeLimits(items, size)

Spec == Init /\ [][Next]_vars

----------------------------------------------------------------------------
(* Properties *)

Partial(S) == UNION {[D -> S] : D \in SUBSET (1 .. MaxVersions)}

\* Type correctness; the rows of a closed editor are gone.
TypeOK ==
  /\ fields \in Values
  /\ history \in Partial(Values)
  /\ maxItems \in ItemLimits
  /\ maxSize \in SizeLimits
  /\ editor \in {"closed", "open"}
  /\ form \in Values
  /\ equal \in BOOLEAN
  /\ saved \in BOOLEAN
  /\ rows \subseteq 1 .. MaxVersions
  /\ doomed \subseteq 1 .. MaxVersions
  /\ loaded \in Values
  /\ quiet \in BOOLEAN
  /\ editor = "closed" => rows = {} /\ doomed = {}
  /\ program \in {"running", "asserted", "stale"}
  /\ versions \in Seq(Values)
  /\ Len(versions) \in 1 .. MaxVersions
  /\ removed \subseteq 1 .. MaxVersions

\* Nothing the entry ever was is lost by an update, a stale form saved over
\* somebody else's update, or a restore: each version is the current one or is
\* in the history as it was, unless a user deleted it and saved, or the limits
\* cut it off, and then everything older is cut off as well.
VersionsKept ==
  /\ fields = versions[Len(versions)]
  /\ \A i \in Items : i < Len(versions) /\ history[i] = versions[i] /\ i \notin removed
  /\ \A i \in 1 .. Len(versions) - 1 :
       i \notin Items \cup removed => \A k \in Items : i < k

WithinLimits ==
  /\ maxItems > -1 => Cardinality(Items) <= maxItems
  /\ maxSize > -1 => TotalSize(history) <= maxSize

\* A step that adds a version or changes a limit leaves a history within both
\* limits, however far above them the history of the file was.
LimitsAreEnforced == [][<<versions, limits>>' # <<versions, limits>> => WithinLimits']_vars

\* An editor whose form was changed closes with the input in the entry, or by
\* Discard in answer to a question, or after Save was answered with different
\* passwords in the form; and without a question only over input of which some was
\* reported by no widget, although the form is saved as a whole.
HasInput == form # loaded \/ doomed # {}

InputSurvivesClosing ==
  [][editor = "open" /\ (HasInput \/ ~saved) /\ editor' = "closed" =>
       \/ fields' = form /\ doomed \cap DOMAIN history' = {}
       \/ ~saved'
       \/ ~saved /\ ~equal
       \/ saved /\ quiet]_vars

\* Pointers to freed items remain in an editor only while a save or a repaint
\* has not met them, and only when another update truncated the history under
\* the open editor: an editor alone never holds one.
StaleOnlyByOthers ==
  [][rows \cup doomed \subseteq Items /\ ~(rows' \cup doomed' \subseteq DOMAIN history')
       => editor = "open" /\ UNCHANGED widget /\ Len(versions') > Len(versions)]_vars
=============================================================================
