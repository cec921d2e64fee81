--------------------------- MODULE SshAgentProofs ---------------------------
(***************************************************************************)
(* The keys of any number of databases are remembered until they are gone. *)
(***************************************************************************)
EXTENDS SshAgent, TLAPS

\* Only keys that are in the agent can still have to be taken back.
OwedAreInAgent == \A t \in Tabs : owed[t] \subseteq agent

\* What a tab owes is remembered under the UUID of its database, unless it was
\* added by hand or before a reload.
OwedAreTraced == \A t \in Tabs : owed[t] \subseteq missed \cup strayed[t] \cup keys[t]

\* A database that is not shown has nothing remembered under its UUID.
OnlyShownAreRemembered ==
  \A t \in Tabs : mode[t] \in {"closed", "locked"} => keys[t] = {}

IInv ==
  /\ TypeOK
  /\ OwedAreInAgent
  /\ OwedKeysAreRemembered
  /\ OwedAreTraced
  /\ OnlyShownAreRemembered

----------------------------------------------------------------------------
(* Type correctness *)

LEMMA InitType == Init => TypeOK
BY DEF Init, TypeOK

LEMMA ShowType ==
  ASSUME TypeOK, NEW t \in Tabs, Show(t) \/ FinishEdit(t)
  PROVE  TypeOK'
<1>1. PICK known \in SUBSET Keys : ViewShown(t, known)
  BY DEF Show, FinishEdit, TypeOK
<1>2. /\ agent' \in SUBSET Keys /\ keys' \in [Tabs -> SUBSET Keys]
      /\ owed' \in [Tabs -> SUBSET Keys] /\ strayed' \in [Tabs -> SUBSET Keys]
      /\ missed' \in SUBSET Keys
  BY <1>1 DEF ViewShown, Settle, TypeOK
<1>3. /\ mode' \in [Tabs -> {"closed", "locked", "view", "edit"}]
      /\ orphans' \in SUBSET Keys
  BY DEF Show, FinishEdit, TypeOK
<1>4. running' \in BOOLEAN
  BY Zenon DEF Show, FinishEdit, TypeOK
<1> QED
  BY <1>2, <1>3, <1>4 DEF TypeOK

LEMMA TypeStep == TypeOK /\ [Next]_vars => TypeOK'
<1> SUFFICES ASSUME TypeOK, [Next]_vars PROVE TypeOK'
  OBVIOUS
<1>1. ASSUME NEW t \in Tabs, Show(t) \/ FinishEdit(t) PROVE TypeOK'
  BY <1>1, ShowType
<1>2. ASSUME NEW t \in Tabs, StartEdit(t) PROVE TypeOK'
  BY <1>2 DEF StartEdit, TypeOK, map
<1>3. ASSUME NEW t \in Tabs, Reload(t) PROVE TypeOK'
  BY <1>3 DEF Reload, TypeOK
<1>4. ASSUME NEW t \in Tabs, Lock(t) PROVE TypeOK'
  BY <1>4 DEF Lock, LockedShown, Settle, TypeOK
<1>5. ASSUME NEW t \in Tabs, Close(t) PROVE TypeOK'
  BY <1>5 DEF Close, TypeOK
<1>6. ASSUME NEW t \in Tabs, AddByHand(t) PROVE TypeOK'
  BY <1>6 DEF AddByHand, TypeOK
<1>7. ASSUME NEW t \in Tabs, RemoveByHand(t) PROVE TypeOK'
  BY <1>7 DEF RemoveByHand, Loses, TypeOK, map
<1>8. ASSUME AgentChanges PROVE TypeOK'
  BY <1>8 DEF AgentChanges, Loses, TypeOK, map
<1>9. ASSUME Quit PROVE TypeOK'
  <2>1. running' \in BOOLEAN
    BY <1>9, Zenon DEF Quit
  <2>2. /\ agent' \in SUBSET Keys /\ missed' \in SUBSET Keys /\ orphans' \in SUBSET Keys
        /\ owed' \in [Tabs -> SUBSET Keys] /\ strayed' \in [Tabs -> SUBSET Keys]
    BY <1>9 DEF Quit, Settle, TypeOK
  <2>3. UNCHANGED <<keys, mode>>
    BY <1>9 DEF Quit
  <2> QED
    BY <2>1, <2>2, <2>3 DEF TypeOK
<1>10. ASSUME UNCHANGED vars PROVE TypeOK'
  BY <1>10 DEF vars, map, TypeOK
<1> QED
  BY <1>1, <1>2, <1>3, <1>4, <1>5, <1>6, <1>7, <1>8, <1>9, <1>10
  DEF Next, TabStep

----------------------------------------------------------------------------
(* What is remembered *)

LEMMA InitInv == Init => IInv
<1>1. ASSUME Init PROVE OwedAreInAgent /\ OwedKeysAreRemembered /\ OwedAreTraced
  BY <1>1 DEF Init, OwedAreInAgent, OwedKeysAreRemembered, OwedAreTraced
<1>2. ASSUME Init PROVE OnlyShownAreRemembered
  BY <1>2 DEF Init, OnlyShownAreRemembered
<1> QED
  BY <1>1, <1>2, InitType DEF IInv

\* Showing a database: what was remembered before still is, and what is newly
\* owed is remembered under its UUID.
LEMMA ShowStep ==
  ASSUME IInv, TypeOK', NEW t \in Tabs, Show(t) \/ FinishEdit(t)
  PROVE  IInv'
<1> USE DEF IInv, TypeOK
<1>1. PICK known \in SUBSET Keys : ViewShown(t, known) /\ known = keys[t]
  <2>1. CASE Show(t)
    BY <2>1 DEF Show, OnlyShownAreRemembered
  <2>2. CASE FinishEdit(t)
    BY <2>2 DEF FinishEdit
  <2> QED
    BY <2>1, <2>2
<1>2. UNCHANGED orphans /\ mode' = [mode EXCEPT ![t] = "view"]
  BY DEF Show, FinishEdit
<1>3. OnlyShownAreRemembered'
  BY <1>1, <1>2 DEF OnlyShownAreRemembered, ViewShown
<1>4. CASE known # {}
  <2>1. UNCHANGED <<agent, owed, strayed, missed>> /\ keys' = keys
    BY <1>1, <1>4 DEF ViewShown
  <2> QED
    BY <2>1, <1>2, <1>3
    DEF OwedAreInAgent, OwedKeysAreRemembered, OwedAreTraced, Remembered
<1>5. CASE known = {}
  <2>1. PICK close \in SUBSET Keys, served \in SUBSET Keys :
          /\ keys' = [keys EXCEPT ![t] = close]
          /\ Settle(agent \cup served, {}, {})
          /\ owed' = [owed EXCEPT ![t] = @ \cup (served \cap close)]
          /\ strayed' = [strayed EXCEPT ![t] = @ \ close]
    BY <1>1, <1>5 DEF ViewShown
  <2>2. keys[t] = {}
    BY <1>1, <1>5
  <2>3. OwedAreInAgent'
    BY <2>1 DEF OwedAreInAgent, Settle
  <2>4. missed' = missed \cap (agent \cup served) /\ agent' = agent \cup served
    BY <2>1 DEF Settle
  <2>5. \A u \in Tabs : keys[u] \subseteq keys'[u]
    BY <2>1, <2>2
  <2>6. keys'[t] = close
    BY <2>1
  <2>7. Remembered \subseteq Remembered'
    BY <1>2, <2>5 DEF Remembered
  <2>8. close \subseteq Remembered'
    BY <2>6 DEF Remembered
  <2>9. ASSUME NEW u \in Tabs
        PROVE  /\ owed'[u] \subseteq missed' \cup Remembered'
               /\ owed'[u] \subseteq missed' \cup strayed'[u] \cup keys'[u]
    <3>1. owed[u] \subseteq agent
      BY DEF OwedAreInAgent
    <3>2. owed[u] \subseteq missed \cup Remembered
      BY DEF OwedKeysAreRemembered
    <3>3. owed[u] \subseteq missed \cup strayed[u] \cup keys[u]
      BY DEF OwedAreTraced
    <3>4. CASE u = t
      BY <3>1, <3>2, <3>3, <3>4, <2>1, <2>2, <2>4, <2>6, <2>7, <2>8
    <3>5. CASE u # t
      BY <3>1, <3>2, <3>3, <3>5, <2>1, <2>4, <2>5, <2>7
    <3> QED
      BY <3>4, <3>5
  <2> QED
    BY <1>3, <2>3, <2>9 DEF OwedKeysAreRemembered, OwedAreTraced
<1> QED
  BY <1>4, <1>5

\* Taking keys back: what the agent did not give is missed.
LEMMA LockStep ==
  ASSUME IInv, TypeOK', NEW t \in Tabs, Lock(t)
  PROVE  IInv'
<1> USE DEF IInv, TypeOK
<1>1. PICK served \in SUBSET keys[t] :
        /\ keys' = [keys EXCEPT ![t] = {}]
        /\ Settle(agent \ served, keys[t], served)
        /\ owed' = [u \in Tabs |-> owed[u] \ served]
        /\ strayed' = [u \in Tabs |-> strayed[u] \ served]
  BY DEF Lock, LockedShown
<1>2. UNCHANGED orphans /\ mode' = [mode EXCEPT ![t] = "locked"]
  BY DEF Lock
<1>3. ASSUME NEW u \in Tabs
      PROVE  /\ owed'[u] \subseteq agent'
             /\ owed'[u] \cap (missed \cup keys[t]) \subseteq missed'
  <2>1. owed[u] \subseteq agent /\ owed'[u] = owed[u] \ served
    BY <1>1 DEF OwedAreInAgent
  <2> QED
    BY <2>1, <1>1 DEF Settle
<1>4. Remembered \subseteq Remembered' \cup keys[t]
  BY <1>1, <1>2 DEF Remembered
<1>5. ASSUME NEW u \in Tabs
      PROVE  /\ owed'[u] \subseteq missed' \cup Remembered'
             /\ owed'[u] \subseteq missed' \cup strayed'[u] \cup keys'[u]
  <2>1. /\ owed[u] \subseteq missed \cup Remembered
        /\ owed[u] \subseteq missed \cup strayed[u] \cup keys[u]
    BY DEF OwedKeysAreRemembered, OwedAreTraced
  <2>2. owed'[u] = owed[u] \ served /\ strayed'[u] = strayed[u] \ served
    BY <1>1
  <2>3. keys[u] \subseteq keys'[u] \cup keys[t]
    BY <1>1
  <2> QED
    BY <1>3, <1>4, <2>1, <2>2, <2>3
<1>6. OnlyShownAreRemembered'
  BY <1>1, <1>2 DEF OnlyShownAreRemembered
<1> QED
  BY <1>3, <1>5, <1>6 DEF OwedAreInAgent, OwedKeysAreRemembered, OwedAreTraced

\* A reload or a closed tab moves what is remembered to an old UUID.
LEMMA OrphanStep ==
  ASSUME IInv, TypeOK', NEW t \in Tabs, Reload(t) \/ Close(t)
  PROVE  IInv'
<1> USE DEF IInv, TypeOK
<1>1. /\ orphans' = orphans \cup keys[t] /\ keys' = [keys EXCEPT ![t] = {}]
      /\ strayed' = [strayed EXCEPT ![t] = owed[t]]
      /\ UNCHANGED <<agent, owed, missed>>
  BY DEF Reload, Close
<1>2. Remembered \subseteq Remembered'
  BY <1>1 DEF Remembered
<1>3. OnlyShownAreRemembered'
  BY <1>1 DEF OnlyShownAreRemembered, Reload, Close
<1>4. OwedAreTraced'
  BY <1>1 DEF OwedAreTraced
<1>5. OwedKeysAreRemembered' /\ OwedAreInAgent'
  BY <1>1, <1>2 DEF OwedKeysAreRemembered, OwedAreInAgent
<1> QED
  BY <1>3, <1>4, <1>5

LEMMA AddStep ==
  ASSUME IInv, TypeOK', NEW t \in Tabs, AddByHand(t)
  PROVE  IInv'
<1> USE DEF IInv, TypeOK
<1>1. PICK k \in Keys :
        /\ agent' = agent \cup {k}
        /\ \/ UNCHANGED <<orphans, owed, strayed>>
           \/ /\ orphans' = orphans \cup {k}
              /\ owed' = [owed EXCEPT ![t] = @ \cup {k}]
              /\ strayed' = [strayed EXCEPT ![t] = @ \cup {k}]
  BY DEF AddByHand
<1>2. UNCHANGED <<keys, mode, missed>>
  BY DEF AddByHand
<1>3. OnlyShownAreRemembered' /\ OwedAreInAgent'
  BY <1>1, <1>2 DEF OnlyShownAreRemembered, OwedAreInAgent
<1>4. CASE UNCHANGED <<orphans, owed, strayed>>
  BY <1>2, <1>3, <1>4 DEF OwedKeysAreRemembered, OwedAreTraced, Remembered
<1>5. CASE /\ orphans' = orphans \cup {k}
           /\ owed' = [owed EXCEPT ![t] = @ \cup {k}]
           /\ strayed' = [strayed EXCEPT ![t] = @ \cup {k}]
  <2>1. Remembered \cup {k} \subseteq Remembered'
    BY <1>2, <1>5 DEF Remembered
  <2>2. OwedKeysAreRemembered'
    BY <1>2, <1>5, <2>1 DEF OwedKeysAreRemembered
  <2>3. OwedAreTraced'
    BY <1>2, <1>5 DEF OwedAreTraced
  <2> QED
    BY <1>3, <2>2, <2>3
<1> QED
  BY <1>1, <1>4, <1>5

\* A key that is gone from the agent is not owed any more.
LEMMA LoseStep ==
  ASSUME IInv, TypeOK', NEW k, Loses(k), UNCHANGED <<map, mode>>
  PROVE  IInv'
<1> USE DEF IInv, TypeOK
<1>1. /\ agent' = agent \ {k} /\ missed' = missed \ {k}
      /\ owed' = [t \in Tabs |-> owed[t] \ {k}]
      /\ strayed' = [t \in Tabs |-> strayed[t] \ {k}]
      /\ UNCHANGED <<keys, orphans, mode>>
  BY DEF Loses, map
<1>2. Remembered' = Remembered
  BY <1>1 DEF Remembered
<1>3. OwedAreInAgent' /\ OwedKeysAreRemembered'
  BY <1>1, <1>2 DEF OwedAreInAgent, OwedKeysAreRemembered
<1>4. OwedAreTraced' /\ OnlyShownAreRemembered'
  BY <1>1 DEF OwedAreTraced, OnlyShownAreRemembered
<1> QED
  BY <1>3, <1>4

LEMMA QuitStep ==
  ASSUME IInv, TypeOK', Quit
  PROVE  IInv'
<1> USE DEF IInv, TypeOK
<1>1. PICK served \in SUBSET Remembered :
        /\ Settle(agent \ served, Remembered, served)
        /\ owed' = [t \in Tabs |-> owed[t] \ served]
        /\ strayed' = [t \in Tabs |-> strayed[t] \ served]
  BY DEF Quit
<1>2. UNCHANGED <<keys, mode>> /\ \A t \in Tabs : keys[t] = {}
  BY DEF Quit, OnlyShownAreRemembered
<1>3. ASSUME NEW t \in Tabs
      PROVE  owed'[t] \subseteq agent' /\ owed'[t] \subseteq missed'
  <2>1. /\ owed[t] \subseteq agent /\ owed[t] \subseteq missed \cup Remembered
        /\ owed'[t] = owed[t] \ served
    BY <1>1 DEF OwedAreInAgent, OwedKeysAreRemembered
  <2> QED
    BY <2>1, <1>1 DEF Settle
<1>4. OnlyShownAreRemembered'
  BY <1>2 DEF OnlyShownAreRemembered
<1> QED
  BY <1>3, <1>4 DEF OwedAreInAgent, OwedKeysAreRemembered, OwedAreTraced

LEMMA InvStep == IInv /\ [Next]_vars => IInv'
<1> SUFFICES ASSUME IInv, [Next]_vars PROVE IInv'
  OBVIOUS
<1>1. TypeOK'
  BY TypeStep DEF IInv
<1>2. ASSUME NEW t \in Tabs, StartEdit(t) PROVE IInv'
  <2>1. UNCHANGED <<agent, map, owed, strayed, missed>>
    BY <1>2 DEF StartEdit
  <2>2. OnlyShownAreRemembered'
    BY <1>2 DEF IInv, TypeOK, OnlyShownAreRemembered, StartEdit, map
  <2>3. OwedAreInAgent' /\ OwedKeysAreRemembered' /\ OwedAreTraced'
    BY <2>1
    DEF IInv, OwedAreInAgent, OwedKeysAreRemembered, OwedAreTraced, Remembered, map
  <2> QED
    BY <1>1, <2>2, <2>3 DEF IInv
<1>3. ASSUME NEW t \in Tabs, TabStep(t) PROVE IInv'
  <2>1. CASE Show(t) \/ FinishEdit(t) BY <1>1, <2>1, ShowStep
  <2>2. CASE StartEdit(t) BY <1>2, <2>2
  <2>3. CASE Reload(t) \/ Close(t) BY <1>1, <2>3, OrphanStep
  <2>4. CASE Lock(t) BY <1>1, <2>4, LockStep
  <2>5. CASE AddByHand(t) BY <1>1, <2>5, AddStep
  <2>6. CASE RemoveByHand(t) BY <1>1, <2>6, LoseStep DEF RemoveByHand
  <2> QED
    BY <1>3, <2>1, <2>2, <2>3, <2>4, <2>5, <2>6 DEF TabStep
<1>4. ASSUME AgentChanges PROVE IInv'
  <2>1. PICK k \in Keys :
          \/ Loses(k)
          \/ agent' = agent \cup {k} /\ UNCHANGED <<owed, strayed, missed>>
    BY <1>4 DEF AgentChanges
  <2>2. UNCHANGED <<map, mode>>
    BY <1>4 DEF AgentChanges
  <2>3. CASE Loses(k)
    BY <1>1, <2>2, <2>3, LoseStep
  <2>4. CASE agent' = agent \cup {k} /\ UNCHANGED <<owed, strayed, missed>>
    <3>1. OwedAreInAgent' /\ OwedAreTraced'
      BY <2>2, <2>4 DEF IInv, OwedAreInAgent, OwedAreTraced, map
    <3>2. OwedKeysAreRemembered' /\ OnlyShownAreRemembered'
      BY <2>2, <2>4
      DEF IInv, OwedKeysAreRemembered, OnlyShownAreRemembered, Remembered, map
    <3> QED
      BY <1>1, <3>1, <3>2 DEF IInv
  <2> QED
    BY <2>1, <2>3, <2>4
<1>5. ASSUME UNCHANGED vars PROVE IInv'
  <2>1. OwedAreInAgent' /\ OwedAreTraced'
    BY <1>5 DEF IInv, vars, map, OwedAreInAgent, OwedAreTraced
  <2>2. OwedKeysAreRemembered' /\ OnlyShownAreRemembered'
    BY <1>5
    DEF IInv, vars, map, OwedKeysAreRemembered, OnlyShownAreRemembered, Remembered
  <2> QED
    BY <1>1, <2>1, <2>2 DEF IInv
<1> QED
  BY <1>1, <1>3, <1>4, <1>5, QuitStep DEF Next

LEMMA Invariance == Spec => []IInv
  BY InitInv, InvStep, PTL DEF Spec

(***************************************************************************)
(* Type correctness of the agent, m_keys and the tabs.                     *)
(***************************************************************************)
THEOREM AgentTypeCorrect == Spec => []TypeOK
<1>1. IInv => TypeOK BY DEF IInv
<1> QED BY <1>1, Invariance, PTL

(***************************************************************************)
(* For any number of tabs and keys, a key that must be taken back from the *)
(* agent is remembered until it is gone (SSHAgent::m_keys).                *)
(***************************************************************************)
THEOREM KeysToRemoveAreRemembered == Spec => []OwedKeysAreRemembered
<1>1. IInv => OwedKeysAreRemembered BY DEF IInv
<1> QED BY <1>1, Invariance, PTL

(***************************************************************************)
(* Locking takes back what a database lent, but for the named exceptions   *)
(* (SSHAgent::databaseModeChanged).                                        *)
(***************************************************************************)
THEOREM LockingTakesKeysBack == Spec => []LockedTookBack
<1>1. IInv => LockedTookBack
  BY DEF IInv, OwedAreTraced, OnlyShownAreRemembered, LockedTookBack
<1> QED BY <1>1, Invariance, PTL

=============================================================================
