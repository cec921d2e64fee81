------------------------------ MODULE SshAgent ------------------------------
(***************************************************************************)
(* Keys that open databases lend to the SSH agent (sshagent/SSHAgent.cpp). *)
(*                                                                         *)
(* An entry may ask for its key to be added when its database is shown     *)
(* and to be removed when it is locked.  What must be removed is kept in   *)
(* m_keys under the UUID of the database, which is a new one for every     *)
(* Database object.  Tabs are locked, reloaded and closed meanwhile, the   *)
(* agent serves other programs, and any message to it may fail.            *)
(*                                                                         *)
(* m_keys is split: `keys` is what it holds under the UUID of a tab's      *)
(* present database, `orphans` what it holds under all other UUIDs, which  *)
(* nothing looks up again before the program ends.                         *)
(*                                                                         *)
(* What the entries ask for is read only when a database is shown.  Edits, *)
(* deleted entries, reloads and other versions of the file change it in    *)
(* between, so it may be anything there; deleting an entry does no more.   *)
(***************************************************************************)
EXTENDS FiniteSets

CONSTANTS
  Tabs,  \* database tabs
  Keys   \* SSH keys, told apart by fingerprint

VARIABLES
  agent,    \* keys the agent holds
  keys,     \* m_keys at the UUID of each tab's database
  orphans,  \* m_keys at all other UUIDs
  mode,     \* per tab: DatabaseWidget::currentMode, or "closed"
  running,  \* the program runs
  owed,     \* history variable: per tab, keys in the agent added for it, to be removed
  strayed,  \* history variable: those of owed added by hand, or before a reload
  missed    \* history variable: keys the agent did not remove when told to

map == <<keys, orphans>>
vars == <<agent, map, mode, running, owed, strayed, missed>>

TypeOK ==
  /\ agent \in SUBSET Keys
  /\ keys \in [Tabs -> SUBSET Keys]
  /\ orphans \in SUBSET Keys
  /\ mode \in [Tabs -> {"closed", "locked", "view", "edit"}]
  /\ running \in BOOLEAN
  /\ owed \in [Tabs -> SUBSET Keys]
  /\ strayed \in [Tabs -> SUBSET Keys]
  /\ missed \in SUBSET Keys

Open(t) == mode[t] \in {"view", "edit"}

Remembered == orphans \cup UNION {keys[t] : t \in Tabs}

\* The agent holds `held` now; `served` of the removals `asked` were done.
Settle(held, asked, served) ==
  /\ agent' = held
  /\ missed' = (missed \cup (asked \ served)) \cap held

Init ==
  /\ agent \in SUBSET Keys
  /\ keys = [t \in Tabs |-> {}] /\ orphans = {}
  /\ mode = [t \in Tabs |-> "closed"]
  /\ running = TRUE
  /\ owed = [t \in Tabs |-> {}] /\ strayed = [t \in Tabs |-> {}]
  /\ missed = {}

----------------------------------------------------------------------------
(* SSHAgent::databaseModeChanged *)

\* ViewMode: when nothing is remembered for the database (`known`), the keys
\* of its entries are remembered and added: some ask for it to be added at open,
\* some for it to be removed at close.  The agent may refuse any.
ViewShown(t, known) ==
  \/ /\ known # {}
     /\ keys' = [keys EXCEPT ![t] = known]
     /\ UNCHANGED <<agent, owed, strayed, missed>>
  \/ /\ known = {}
     /\ \E open, close \in SUBSET Keys : \E served \in SUBSET open :
          /\ keys' = [keys EXCEPT ![t] = close]
          /\ Settle(agent \cup served, {}, {})
          /\ owed' = [owed EXCEPT ![t] = @ \cup (served \cap close)]
          /\ strayed' = [strayed EXCEPT ![t] = @ \ close]

\* LockedMode: what is remembered for the database is taken and removed.
\* A removal that fails is shown to the user and not tried again.
LockedShown(t) ==
  \E served \in SUBSET keys[t] :
    /\ keys' = [keys EXCEPT ![t] = {}]
    /\ Settle(agent \ served, keys[t], served)
    /\ owed' = [u \in Tabs |-> owed[u] \ served]
    /\ strayed' = [u \in Tabs |-> strayed[u] \ served]

----------------------------------------------------------------------------
(* gui/DatabaseWidget.cpp, gui/DatabaseTabWidget.cpp *)

\* openDatabase, unlockDatabase: the database is replaced, then shown.
Show(t) ==
  /\ running
  /\ mode[t] \in {"closed", "locked"}
  /\ ViewShown(t, {})
  /\ mode' = [mode EXCEPT ![t] = "view"]
  /\ UNCHANGED <<orphans, running>>

\* switchToEntryEdit
StartEdit(t) ==
  /\ running
  /\ mode[t] = "view"
  /\ mode' = [mode EXCEPT ![t] = "edit"]
  /\ UNCHANGED <<agent, map, running, owed, strayed, missed>>

\* switchToView: the settings of the entry may have changed.
FinishEdit(t) ==
  /\ running
  /\ mode[t] = "edit"
  /\ ViewShown(t, keys[t])
  /\ mode' = [mode EXCEPT ![t] = "view"]
  /\ UNCHANGED <<orphans, running>>

\* reloadDatabaseFile: a new Database object with a new UUID, the mode stays.
Reload(t) ==
  /\ running
  /\ Open(t)
  /\ orphans' = orphans \cup keys[t]
  /\ keys' = [keys EXCEPT ![t] = {}]
  /\ strayed' = [strayed EXCEPT ![t] = owed[t]]
  /\ UNCHANGED <<agent, mode, running, owed, missed>>

\* Seeded fault: the database is replaced before the mode changes.
LockReplacingFirst(t) ==
  /\ running
  /\ Open(t)
  /\ orphans' = orphans \cup keys[t]
  /\ keys' = [keys EXCEPT ![t] = {}]
  /\ mode' = [mode EXCEPT ![t] = "locked"]
  /\ UNCHANGED <<agent, running, owed, strayed, missed>>

\* lock: the mode changes first, while m_db is still the unlocked database.
Lock(t) ==
  /\ running
  /\ Open(t)
  /\ LockedShown(t)
  /\ mode' = [mode EXCEPT ![t] = "locked"]
  /\ UNCHANGED <<orphans, running>>

\* Seeded fault: the keys of a closed database are forgotten.
CloseForgetting(t) ==
  /\ running
  /\ mode[t] # "closed"
  /\ keys' = [keys EXCEPT ![t] = {}]
  /\ mode' = [mode EXCEPT ![t] = "closed"]
  /\ strayed' = [strayed EXCEPT ![t] = owed[t]]
  /\ UNCHANGED <<agent, orphans, running, owed, missed>>

\* deleteDatabase: the widget is deleted without a change of mode; its signal
\* closeRequest, which the agent listens to, is not what closes a tab.
Close(t) ==
  /\ running
  /\ mode[t] # "closed"
  /\ orphans' = orphans \cup keys[t]
  /\ keys' = [keys EXCEPT ![t] = {}]
  /\ mode' = [mode EXCEPT ![t] = "closed"]
  /\ strayed' = [strayed EXCEPT ![t] = owed[t]]
  /\ UNCHANGED <<agent, running, owed, missed>>

\* EditEntryWidget::addKeyToAgent, which remembers under the entry's UUID.
AddByHand(t) ==
  /\ running
  /\ mode[t] = "edit"
  /\ \E k \in Keys, remove \in BOOLEAN :
       /\ agent' = agent \cup {k}
       /\ IF remove
          THEN /\ orphans' = orphans \cup {k}
               /\ owed' = [owed EXCEPT ![t] = @ \cup {k}]
               /\ strayed' = [strayed EXCEPT ![t] = @ \cup {k}]
          ELSE UNCHANGED <<orphans, owed, strayed>>
  /\ UNCHANGED <<keys, mode, running, missed>>

\* The agent loses k: it is not owed any more.
Loses(k) ==
  /\ agent' = agent \ {k}
  /\ owed' = [t \in Tabs |-> owed[t] \ {k}]
  /\ strayed' = [t \in Tabs |-> strayed[t] \ {k}]
  /\ missed' = missed \ {k}

\* EditEntryWidget::removeKeyFromAgent
RemoveByHand(t) ==
  /\ running
  /\ mode[t] = "edit"
  /\ \E k \in agent : Loses(k)
  /\ UNCHANGED <<map, mode, running>>

\* Other programs, a restart of the agent or the lifetime of a key.
AgentChanges ==
  /\ \E k \in Keys :
       \/ Loses(k)
       \/ agent' = agent \cup {k} /\ UNCHANGED <<owed, strayed, missed>>
  /\ UNCHANGED <<map, mode, running>>

\* SSHAgent::~SSHAgent, after every tab was closed.
Quit ==
  /\ running
  /\ \A t \in Tabs : mode[t] = "closed"
  /\ running' = FALSE
  /\ \E served \in SUBSET Remembered :
       /\ Settle(agent \ served, Remembered, served)
       /\ owed' = [t \in Tabs |-> owed[t] \ served]
       /\ strayed' = [t \in Tabs |-> strayed[t] \ served]
  /\ orphans' = {}
  /\ UNCHANGED <<keys, mode>>

TabStep(t) ==
  \/ Show(t) \/ StartEdit(t) \/ FinishEdit(t) \/ Reload(t)
  \/ Lock(t) \/ Close(t) \/ AddByHand(t) \/ RemoveByHand(t)

Next == (\E t \in Tabs : TabStep(t)) \/ AgentChanges \/ Quit

Spec == Init /\ [][Next]_vars

----------------------------------------------------------------------------
(* Properties *)

\* A key the program added for an entry that wants it removed is remembered
\* until it is out of the agent, through locks, reloads, closed tabs, two tabs
\* with the same key and the end of the program; only a removal that was tried
\* and failed ends that (m_keys.take in SSHAgent::databaseModeChanged).
OwedKeysAreRemembered ==
  \A t \in Tabs : owed[t] \subseteq missed \cup Remembered

\* A locked database has taken back the keys it lent, except those that the
\* agent did not remove, that were added by hand in the editor, or lent
\* before a reload gave the database another UUID.
LockedTookBack ==
  \A t \in Tabs : mode[t] = "locked" => owed[t] \subseteq missed \cup strayed[t]

\* What the entry's settings say (EditEntryWidgetSSHAgent.ui:76): remove the
\* key from the agent when the database is closed or locked.
KeysGoWhenClosed ==
  \A t \in Tabs : mode[t] \in {"closed", "locked"} => owed[t] \subseteq missed

=============================================================================
