-------------------------- MODULE GroupTreeProofs --------------------------
(***************************************************************************)
(* Theorems about GroupTree, for every set of groups, entries and          *)
(* databases.                                                              *)
(*                                                                         *)
(* The subtree of a group is the least set that contains it and is closed  *)
(* under children; a cycle is a non-empty set closed under parents.  So no *)
(* step needs an induction: a cycle after a step gives a smaller set that  *)
(* was a cycle before.                                                     *)
(***************************************************************************)
EXTENDS GroupTree, TLAPS

TreeTyped ==
  /\ parent \in [Groups -> Groups \cup {None}]
  /\ children \in [Groups -> SUBSET Groups]
  /\ db \in [Groups -> Databases \cup {None}]
  /\ group \in [Entries -> Groups \cup {None}]
  /\ entries \in [Groups -> SUBSET Entries]

\* The roots stay the roots of their databases.
RootsOnTop == \A d \in Databases : parent[Root[d]] = None /\ db[Root[d]] = d

\* What is in a tree is not fresh.
UsedIsKnown ==
  /\ \A g \in Live : g \in was[db[g]]
  /\ \A e \in Placed : e \in was[DatabaseOf(e)]

TreeInv ==
  /\ TreeTyped
  /\ ListsAgree
  /\ DatabaseAgrees
  /\ NoCycles
  /\ RootsOnTop

IInv ==
  /\ TypeOK
  /\ TreeInv
  /\ UsedIsKnown
  /\ GoneIsRecorded
  /\ BinIsHereOrDeleted

----------------------------------------------------------------------------
(* Subtrees. *)

LEMMA SubtreeClosed ==
  ASSUME NEW g \in Groups
  PROVE  /\ g \in Subtree(g)
         /\ Subtree(g) \subseteq Groups
         /\ \A x \in Subtree(g) : \A y \in Groups : y \in children[x] => y \in Subtree(g)
  BY DEF Subtree

\* A set that contains g and is closed under children contains the subtree.
LEMMA SubtreeLeast ==
  ASSUME NEW g \in Groups, NEW S \in SUBSET Groups, g \in S,
         \A x \in S : children[x] \subseteq S
  PROVE  Subtree(g) \subseteq S
  BY DEF Subtree

\* All of the subtree but g has its parent in the subtree.
LEMMA SubtreeParents ==
  ASSUME TreeTyped, ListsAgree, NEW g \in Groups, NEW x \in Subtree(g), x # g
  PROVE  parent[x] \in Subtree(g)
<1> DEFINE S == Subtree(g) \ {x}
<1>0. x \in Groups /\ g \in S /\ S \in SUBSET Groups
  BY SubtreeClosed
<1>1. SUFFICES ASSUME parent[x] \notin Subtree(g) PROVE FALSE
  OBVIOUS
<1>2. ASSUME NEW y \in S, NEW z \in children[y] PROVE z \in S
  <2>1. y \in Groups /\ z \in Groups
    BY <1>0, <1>2 DEF TreeTyped
  <2>2. z \in Subtree(g)
    BY <2>1, SubtreeClosed, <1>2
  <2>3. z # x
    BY <2>1, <1>1, <1>2 DEF ListsAgree
  <2> QED BY <2>2, <2>3
<1>3. Subtree(g) \subseteq S
  BY <1>0, <1>2, SubtreeLeast
<1> QED BY <1>3

\* A subtree is in one database.
LEMMA SubtreeInOneDatabase ==
  ASSUME TreeTyped, ListsAgree, DatabaseAgrees, NEW g \in Groups
  PROVE  \A x \in Subtree(g) : db[x] = db[g]
<1> DEFINE S == {x \in Groups : db[x] = db[g]}
<1>1. ASSUME NEW x \in S, NEW y \in children[x] PROVE y \in S
  <2>1. y \in Groups /\ x \in Groups /\ parent[y] = x
    BY <1>1 DEF TreeTyped, ListsAgree
  <2> QED BY <2>1, NoneAssumption DEF DatabaseAgrees
<1>2. Subtree(g) \subseteq S
  BY <1>1, SubtreeLeast
<1> QED BY <1>2

----------------------------------------------------------------------------
(* The primitives keep the tree a tree. *)

LEMMA SetParentKeeps ==
  ASSUME TreeInv, NEW g \in Groups, NEW p \in Groups,
         db[p] # None, parent[g] # None, p \notin Subtree(g), SetParent(g, p)
  PROVE  TreeInv'
<1> USE DEF TreeInv
<1>1. TreeTyped'
  BY SubtreeClosed DEF TreeTyped, SetParent, ListsAfterMove, DatabasesAfterMove
<1>2. ListsAgree'
  <2>1. ASSUME NEW x \in Groups, NEW y \in Groups
        PROVE  x \in children'[y] <=> parent'[x] = y
    BY NoneAssumption DEF TreeTyped, ListsAgree, SetParent, ListsAfterMove
  <2>2. ASSUME NEW e \in Entries, NEW y \in Groups
        PROVE  e \in entries'[y] <=> group'[e] = y
    BY DEF ListsAgree, SetParent
  <2> QED BY <2>1, <2>2 DEF ListsAgree
<1>3. DatabaseAgrees'
  <2>0. db[p] \in Databases /\ p # g
    BY SubtreeClosed DEF TreeTyped
  <2>1. ASSUME NEW x \in Groups, parent'[x] # None
        PROVE  db'[x] = db'[parent'[x]] /\ db'[x] # None
    <3>1. CASE x = g
      BY <3>1, <2>0, SubtreeClosed DEF TreeTyped, SetParent, DatabasesAfterMove
    <3>2. CASE x # g /\ x \in Subtree(g)
      <4>1. parent[x] \in Subtree(g) /\ parent'[x] = parent[x]
        BY <3>2, SubtreeParents DEF TreeTyped, SetParent
      <4> QED BY <3>2, <4>1, <2>0, SubtreeClosed, NoneAssumption DEF TreeTyped, SetParent, DatabasesAfterMove
    <3>3. CASE x \notin Subtree(g)
      <4>1. x # g
        BY <3>3, SubtreeClosed
      <4>2. parent'[x] = parent[x] /\ parent[x] \in Groups
        BY <4>1, <2>1 DEF TreeTyped, SetParent
      <4>3. parent[x] \notin Subtree(g)
        BY <3>3, <4>2, SubtreeClosed DEF ListsAgree
      <4> QED BY <3>3, <4>2, <4>3, NoneAssumption DEF TreeTyped, SetParent, DatabasesAfterMove, DatabaseAgrees
    <3> QED BY <3>1, <3>2, <3>3
  <2>2. ASSUME NEW e \in Placed' PROVE db'[group'[e]] # None
    <3>1. e \in Placed /\ group'[e] = group[e] /\ group[e] \in Groups
      BY DEF TreeTyped, SetParent, Placed
    <3> QED BY <3>1, <2>0, NoneAssumption DEF TreeTyped, SetParent, DatabasesAfterMove, DatabaseAgrees
  <2> QED BY <2>1, <2>2 DEF DatabaseAgrees
<1>4. NoCycles'
  <2>1. SUFFICES ASSUME NEW S \in SUBSET Groups, \A x \in S : parent'[x] \in S
                 PROVE  S = {}
    BY DEF NoCycles
  <2>2. g \notin S
    <3>1. SUFFICES ASSUME g \in S PROVE FALSE
      OBVIOUS
    <3> DEFINE T == S \ Subtree(g)
    <3>2. p \in T
      BY <3>1, <2>1 DEF TreeTyped, SetParent
    <3>3. ASSUME NEW x \in T PROVE parent[x] \in T
      <4>1. x # g
        BY SubtreeClosed
      <4>2. parent[x] \in S
        BY <4>1, <2>1 DEF TreeTyped, SetParent
      <4>3. parent[x] \notin Subtree(g)
        BY <4>2, <3>3, SubtreeClosed DEF ListsAgree
      <4> QED BY <4>2, <4>3
    <3>4. T = {}
      BY <3>3 DEF NoCycles
    <3> QED BY <3>2, <3>4
  <2>3. \A x \in S : parent[x] \in S
    BY <2>1, <2>2 DEF TreeTyped, SetParent
  <2> QED BY <2>3 DEF NoCycles
<1>5. RootsOnTop'
  <2>1. ASSUME NEW d \in Databases PROVE parent'[Root[d]] = None /\ db'[Root[d]] = d
    <3>1. Root[d] \in Groups /\ Root[d] # g
      BY RootAssumption DEF RootsOnTop
    <3>2. Root[d] \notin Subtree(g)
      <4>1. SUFFICES ASSUME Root[d] \in Subtree(g) PROVE FALSE
        OBVIOUS
      <4>2. parent[Root[d]] \in Subtree(g)
        BY <3>1, <4>1, SubtreeParents
      <4> QED BY <4>2, SubtreeClosed, NoneAssumption DEF RootsOnTop
    <3> QED BY <3>1, <3>2 DEF RootsOnTop, TreeTyped, SetParent, DatabasesAfterMove
  <2> QED BY <2>1 DEF RootsOnTop
<1> QED BY <1>1, <1>2, <1>3, <1>4, <1>5

LEMMA SetGroupKeeps ==
  ASSUME TreeInv, NEW d \in Databases, NEW es \in SUBSET Entries, NEW g \in Groups,
         db[g] # None, SetGroup(d, es, g)
  PROVE  TreeInv'
<1> USE DEF TreeInv
<1>1. TreeTyped'
  BY DEF TreeTyped, SetGroup
<1>2. ListsAgree'
  <2>1. ASSUME NEW x \in Groups, NEW y \in Groups
        PROVE  x \in children'[y] <=> parent'[x] = y
    BY DEF ListsAgree, SetGroup
  <2>2. ASSUME NEW e \in Entries, NEW y \in Groups
        PROVE  e \in entries'[y] <=> group'[e] = y
    BY DEF TreeTyped, ListsAgree, SetGroup
  <2> QED BY <2>1, <2>2 DEF ListsAgree
<1>3. DatabaseAgrees'
  BY DEF DatabaseAgrees, TreeTyped, SetGroup, Placed
<1>4. NoCycles'
  BY DEF NoCycles, SetGroup
<1>5. RootsOnTop'
  BY DEF RootsOnTop, SetGroup
<1> QED BY <1>1, <1>2, <1>3, <1>4, <1>5

\* Destroying a set of groups that is closed under children and has no root,
\* with at least the entries of these groups.
LEMMA DestroyKeeps ==
  ASSUME TreeInv, NEW d \in Databases, NEW gs \in SUBSET Groups, NEW es \in SUBSET Entries,
         \A x \in gs : children[x] \subseteq gs /\ entries[x] \subseteq es /\ parent[x] # None,
         Destroy(d, gs, es)
  PROVE  TreeInv'
<1> USE DEF TreeInv
<1>1. TreeTyped'
  BY DEF TreeTyped, Destroy
<1>2. ListsAgree'
  <2>1. ASSUME NEW x \in Groups, NEW y \in Groups
        PROVE  x \in children'[y] <=> parent'[x] = y
    <3>1. CASE x \in gs
      BY <3>1, NoneAssumption DEF TreeTyped, Destroy
    <3>2. CASE x \notin gs
      BY <3>2 DEF TreeTyped, ListsAgree, Destroy
    <3> QED BY <3>1, <3>2
  <2>2. ASSUME NEW e \in Entries, NEW y \in Groups
        PROVE  e \in entries'[y] <=> group'[e] = y
    <3>1. CASE e \in es
      BY <3>1, NoneAssumption DEF TreeTyped, Destroy
    <3>2. CASE e \notin es
      BY <3>2 DEF TreeTyped, ListsAgree, Destroy
    <3> QED BY <3>1, <3>2
  <2> QED BY <2>1, <2>2 DEF ListsAgree
<1>3. DatabaseAgrees'
  <2>1. ASSUME NEW x \in Groups, parent'[x] # None
        PROVE  db'[x] = db'[parent'[x]] /\ db'[x] # None
    <3>1. x \notin gs /\ parent'[x] = parent[x] /\ parent[x] \in Groups
      BY <2>1 DEF TreeTyped, Destroy
    <3>2. parent[x] \notin gs
      BY <3>1 DEF ListsAgree
    <3> QED BY <3>1, <3>2, NoneAssumption DEF TreeTyped, DatabaseAgrees, Destroy
  <2>2. ASSUME NEW e \in Placed' PROVE db'[group'[e]] # None
    <3>1. e \in Placed /\ e \notin es /\ group'[e] = group[e] /\ group[e] \in Groups
      BY DEF TreeTyped, Destroy, Placed
    <3>2. group[e] \notin gs
      BY <3>1 DEF ListsAgree, Placed
    <3> QED BY <3>1, <3>2 DEF TreeTyped, DatabaseAgrees, Destroy
  <2> QED BY <2>1, <2>2 DEF DatabaseAgrees
<1>4. NoCycles'
  <2>1. SUFFICES ASSUME NEW S \in SUBSET Groups, \A x \in S : parent'[x] \in S
                 PROVE  S = {}
    BY DEF NoCycles
  <2>2. \A x \in S : parent[x] \in S
    BY <2>1, NoneAssumption DEF TreeTyped, Destroy
  <2> QED BY <2>2 DEF NoCycles
<1>5. RootsOnTop'
  BY RootAssumption DEF RootsOnTop, TreeTyped, Destroy
<1> QED BY <1>1, <1>2, <1>3, <1>4, <1>5

----------------------------------------------------------------------------
(* New groups and entries. *)

\* A group not seen before is in no tree and has nothing in it.
LEMMA FreshIsOut ==
  ASSUME IInv, NEW g \in Fresh(Groups)
  PROVE  /\ g \in Groups
         /\ db[g] = None /\ parent[g] = None
         /\ children[g] = {} /\ entries[g] = {}
         /\ \A x \in Groups : parent[x] # g
         /\ \A e \in Entries : group[e] # g
<1> USE DEF IInv, TreeInv
<1>1. g \in Groups /\ g \notin UNION {was[d] : d \in Databases}
  BY DEF Fresh
<1>2. db[g] = None
  <2>1. SUFFICES ASSUME db[g] # None PROVE FALSE
    OBVIOUS
  <2>2. g \in was[db[g]] /\ db[g] \in Databases
    BY <1>1, <2>1 DEF TreeTyped, UsedIsKnown, Live
  <2> QED BY <1>1, <2>2
<1>3. parent[g] = None
  BY <1>1, <1>2 DEF DatabaseAgrees
<1>4. \A x \in Groups : parent[x] # g
  BY <1>1, <1>2, NoneAssumption DEF DatabaseAgrees, TreeTyped
<1>5. \A e \in Entries : group[e] # g
  BY <1>1, <1>2, NoneAssumption DEF DatabaseAgrees, TreeTyped, Placed
<1>6. children[g] = {} /\ entries[g] = {}
  BY <1>1, <1>4, <1>5 DEF ListsAgree, TreeTyped
<1> QED BY <1>1, <1>2, <1>3, <1>4, <1>5, <1>6

LEMMA FreshEntryIsOut ==
  ASSUME IInv, NEW e \in Fresh(Entries)
  PROVE  e \in Entries /\ group[e] = None /\ \A x \in Groups : e \notin entries[x]
<1> USE DEF IInv, TreeInv
<1>1. e \in Entries /\ e \notin UNION {was[d] : d \in Databases}
  BY DEF Fresh
<1>2. group[e] = None
  <2>1. SUFFICES ASSUME group[e] # None PROVE FALSE
    OBVIOUS
  <2>2. e \in Placed /\ group[e] \in Groups
    BY <1>1, <2>1 DEF TreeTyped, Placed
  <2>3. e \in was[DatabaseOf(e)]
    BY <2>2 DEF UsedIsKnown
  <2>4. DatabaseOf(e) \in Databases
    BY <2>2 DEF TreeTyped, DatabaseAgrees, DatabaseOf
  <2> QED BY <1>1, <2>3, <2>4
<1>3. \A x \in Groups : e \notin entries[x]
  BY <1>1, <1>2, NoneAssumption DEF ListsAgree
<1> QED BY <1>1, <1>2, <1>3

LEMMA CreateGroupKeeps ==
  ASSUME IInv, NEW g \in Groups, NEW p \in Groups, CreateGroup(g, p)
  PROVE  TreeInv'
<1> USE DEF IInv, TreeInv
<1>0. /\ g \in Fresh(Groups) /\ db[g] = None /\ parent[g] = None
      /\ \A x \in Groups : parent[x] # g
      /\ p # g /\ db[p] # None
  BY FreshIsOut DEF CreateGroup, Live
<1>1. TreeTyped'
  BY DEF TreeTyped, CreateGroup, AddGroup
<1>2. ListsAgree'
  BY <1>0, NoneAssumption DEF TreeTyped, ListsAgree, CreateGroup, AddGroup
<1>3. DatabaseAgrees'
  BY <1>0, NoneAssumption DEF TreeTyped, DatabaseAgrees, CreateGroup, AddGroup, Placed
<1>4. NoCycles'
  <2>1. SUFFICES ASSUME NEW S \in SUBSET Groups, \A x \in S : parent'[x] \in S
                 PROVE  S = {}
    BY DEF NoCycles
  <2>2. ASSUME NEW x \in S \ {g} PROVE parent[x] \in S \ {g}
    BY <1>0, <2>1, NoneAssumption DEF TreeTyped, CreateGroup, AddGroup
  <2>3. S \ {g} = {}
    BY <2>2 DEF NoCycles
  <2> QED BY <2>1, <2>3, <1>0 DEF TreeTyped, CreateGroup, AddGroup
<1>5. RootsOnTop'
  BY <1>0, RootAssumption, NoneAssumption DEF RootsOnTop, TreeTyped, CreateGroup, AddGroup
<1> QED BY <1>1, <1>2, <1>3, <1>4, <1>5

LEMMA CreateEntryKeeps ==
  ASSUME IInv, NEW e \in Entries, NEW g \in Groups, CreateEntry(e, g)
  PROVE  TreeInv'
<1> USE DEF IInv, TreeInv
<1>0. group[e] = None /\ (\A x \in Groups : e \notin entries[x]) /\ db[g] # None
  BY FreshEntryIsOut DEF CreateEntry, Live
<1>1. TreeTyped'
  BY DEF TreeTyped, CreateEntry
<1>2. ListsAgree'
  BY <1>0, NoneAssumption DEF TreeTyped, ListsAgree, CreateEntry
<1>3. DatabaseAgrees'
  BY <1>0 DEF TreeTyped, DatabaseAgrees, CreateEntry, Placed
<1>4. NoCycles'
  BY DEF NoCycles, CreateEntry
<1>5. RootsOnTop'
  BY DEF RootsOnTop, CreateEntry
<1> QED BY <1>1, <1>2, <1>3, <1>4, <1>5

LEMMA RecycleEntriesIntoNewKeeps ==
  ASSUME IInv, NEW d \in Databases, NEW es \in SUBSET Entries, NEW b \in Groups,
         RecycleEntriesIntoNew(d, es, b)
  PROVE  TreeInv'
<1> USE DEF IInv, TreeInv
<1>0. /\ b \in Fresh(Groups) /\ db[b] = None /\ parent[b] = None
      /\ \A x \in Groups : parent[x] # b
      /\ \A e \in Entries : group[e] # b
      /\ Root[d] \in Groups /\ Root[d] # b /\ db[Root[d]] = d /\ d # None
  BY FreshIsOut, RootAssumption, NoneAssumption DEF RecycleEntriesIntoNew, RootsOnTop
<1>1. TreeTyped'
  BY <1>0 DEF TreeTyped, RecycleEntriesIntoNew, AddGroup
<1>2. ListsAgree'
  <2>1. ASSUME NEW x \in Groups, NEW y \in Groups
        PROVE  x \in children'[y] <=> parent'[x] = y
    BY <1>0, NoneAssumption DEF TreeTyped, ListsAgree, RecycleEntriesIntoNew, AddGroup
  <2>2. ASSUME NEW e \in Entries, NEW y \in Groups
        PROVE  e \in entries'[y] <=> group'[e] = y
    BY <1>0 DEF TreeTyped, ListsAgree, RecycleEntriesIntoNew
  <2> QED BY <2>1, <2>2 DEF ListsAgree
<1>3. DatabaseAgrees'
  BY <1>0, NoneAssumption DEF TreeTyped, DatabaseAgrees, RecycleEntriesIntoNew, AddGroup, Placed
<1>4. NoCycles'
  <2>1. SUFFICES ASSUME NEW S \in SUBSET Groups, \A x \in S : parent'[x] \in S
                 PROVE  S = {}
    BY DEF NoCycles
  <2>2. ASSUME NEW x \in S \ {b} PROVE parent[x] \in S \ {b}
    BY <1>0, <2>1, NoneAssumption DEF TreeTyped, RecycleEntriesIntoNew, AddGroup
  <2>3. S \ {b} = {}
    BY <2>2 DEF NoCycles
  <2> QED BY <2>1, <2>3, <1>0 DEF TreeTyped, RecycleEntriesIntoNew, AddGroup
<1>5. RootsOnTop'
  BY <1>0, RootAssumption, NoneAssumption DEF RootsOnTop, TreeTyped, RecycleEntriesIntoNew, AddGroup
<1> QED BY <1>1, <1>2, <1>3, <1>4, <1>5

LEMMA RecycleGroupIntoNewKeeps ==
  ASSUME IInv, NEW d \in Databases, NEW g \in Groups, NEW b \in Groups,
         db[g] = d, parent[g] # None, RecycleGroupIntoNew(d, g, b)
  PROVE  TreeInv'
<1> USE DEF IInv, TreeInv
<1>0. /\ b \in Fresh(Groups) /\ db[b] = None /\ parent[b] = None
      /\ children[b] = {} /\ entries[b] = {}
      /\ \A x \in Groups : parent[x] # b
      /\ \A e \in Entries : group[e] # b
      /\ Root[d] \in Groups /\ Root[d] # b /\ db[Root[d]] = d /\ parent[Root[d]] = None
      /\ d # None /\ g # b /\ g # Root[d]
  BY FreshIsOut, RootAssumption, NoneAssumption DEF RecycleGroupIntoNew, RootsOnTop
<1>1. TreeTyped'
  BY <1>0 DEF TreeTyped, RecycleGroupIntoNew
<1>2. ListsAgree'
  <2>1. ASSUME NEW x \in Groups, NEW y \in Groups
        PROVE  x \in children'[y] <=> parent'[x] = y
    <3>1. CASE x = b
      BY <3>1, <1>0, NoneAssumption DEF TreeTyped, ListsAgree, RecycleGroupIntoNew
    <3>2. CASE x = g
      BY <3>2, <1>0, NoneAssumption DEF TreeTyped, ListsAgree, RecycleGroupIntoNew
    <3>3. CASE x # b /\ x # g
      BY <3>3, <1>0, NoneAssumption DEF TreeTyped, ListsAgree, RecycleGroupIntoNew
    <3> QED BY <3>1, <3>2, <3>3
  <2>2. ASSUME NEW e \in Entries, NEW y \in Groups
        PROVE  e \in entries'[y] <=> group'[e] = y
    BY DEF ListsAgree, RecycleGroupIntoNew
  <2> QED BY <2>1, <2>2 DEF ListsAgree
<1>3. DatabaseAgrees'
  BY <1>0, NoneAssumption DEF TreeTyped, DatabaseAgrees, RecycleGroupIntoNew, Placed
<1>4. NoCycles'
  <2>1. SUFFICES ASSUME NEW S \in SUBSET Groups, \A x \in S : parent'[x] \in S
                 PROVE  S = {}
    BY DEF NoCycles
  <2>2. parent' = [parent EXCEPT ![b] = Root[d], ![g] = b]
    BY DEF RecycleGroupIntoNew
  <2>3. b \notin S
    BY <1>0, <2>1, <2>2, NoneAssumption DEF TreeTyped
  <2>4. g \notin S
    BY <1>0, <2>1, <2>2, <2>3 DEF TreeTyped
  <2>5. \A x \in S : parent[x] \in S
    BY <2>1, <2>2, <2>3, <2>4 DEF TreeTyped
  <2> QED BY <2>5 DEF NoCycles
<1>5. RootsOnTop'
  BY <1>0, RootAssumption, NoneAssumption DEF RootsOnTop, TreeTyped, RecycleGroupIntoNew
<1> QED BY <1>1, <1>2, <1>3, <1>4, <1>5

----------------------------------------------------------------------------
(* Copies. *)

\* The inverse of an injection, as CopyGroup uses it.
LEMMA InverseOfInjection ==
  ASSUME NEW S, NEW T, NEW f \in Injection(S, T)
  PROVE  /\ f \in [S -> T]
         /\ \A x, y \in S : f[x] = f[y] => x = y
         /\ Range(f) = {f[x] : x \in S}
         /\ \A x \in S : AntiFunction(f)[f[x]] = x
<1>1. f \in [S -> T] /\ DOMAIN f = S /\ \A x, y \in S : f[x] = f[y] => x = y
  BY DEF Injection, IsInjective
<1>2. Range(f) = {f[x] : x \in S}
  BY <1>1 DEF Range
<1>3. ASSUME NEW x \in S PROVE AntiFunction(f)[f[x]] = x
  <2>1. f[x] \in Range(f)
    BY <1>2
  <2>2. AntiFunction(f)[f[x]] = CHOOSE s \in S : f[x] \in Range(f) => f[s] = f[x]
    BY <1>1, <2>1 DEF AntiFunction, Inverse
  <2> QED BY <1>1, <2>1, <2>2
<1> QED BY <1>1, <1>2, <1>3

LEMMA CopyGroupKeeps ==
  ASSUME IInv, NEW g \in Groups, NEW p \in Groups,
         NEW cg \in Injection(Subtree(g), Fresh(Groups)),
         NEW ce \in Injection(EntriesBelow(g), Fresh(Entries)),
         CopyGroup(g, p, cg, ce)
  PROVE  TreeInv'
<1> USE DEF IInv, TreeInv
<1> DEFINE A == AntiFunction(cg)
           B == AntiFunction(ce)
           R == Range(cg)
           Q == Range(ce)
           Sub == Subtree(g)
           Ent == EntriesBelow(g)
<1>1. /\ cg \in [Sub -> Fresh(Groups)]
      /\ \A x, y \in Sub : cg[x] = cg[y] => x = y
      /\ R = {cg[x] : x \in Sub}
      /\ \A x \in Sub : A[cg[x]] = x
  BY InverseOfInjection
<1>2. /\ ce \in [Ent -> Fresh(Entries)]
      /\ \A x, y \in Ent : ce[x] = ce[y] => x = y
      /\ Q = {ce[x] : x \in Ent}
      /\ \A x \in Ent : B[ce[x]] = x
  BY InverseOfInjection
<1>3. \A x \in R : /\ A[x] \in Sub /\ cg[A[x]] = x
                   /\ x \in Groups /\ db[x] = None /\ parent[x] = None
                   /\ children[x] = {} /\ entries[x] = {}
                   /\ \A y \in Groups : parent[y] # x
                   /\ \A e \in Entries : group[e] # x
  BY <1>1, FreshIsOut
<1>4. \A e \in Q : /\ B[e] \in Ent /\ ce[B[e]] = e
                   /\ e \in Entries /\ group[e] = None
                   /\ \A x \in Groups : e \notin entries[x]
  BY <1>2, FreshEntryIsOut
<1>5. /\ Sub \subseteq Groups /\ g \in Sub /\ p \notin Sub /\ p \in Groups
      /\ db[p] # None /\ db[p] \in Databases /\ p \notin R /\ parent[g] # None
  <2>1. Sub \subseteq Groups /\ g \in Sub
    BY SubtreeClosed
  <2>2. p \notin Sub /\ db[p] # None /\ parent[g] # None
    BY DEF CopyGroup, Live
  <2>3. db[p] \in Databases
    BY <2>2 DEF TreeTyped
  <2> QED BY <2>1, <2>2, <2>3, <1>3
<1>6. \A x \in Sub : x # g => parent[x] \in Sub
  BY SubtreeParents
<1>7. \A x \in Sub : \A y \in Groups : parent[y] = x => y \in Sub
  BY SubtreeClosed DEF ListsAgree
<1>8. \A e \in Ent : e \in Entries /\ group[e] \in Sub
  <2>1. SUFFICES ASSUME NEW e \in Ent PROVE e \in Entries /\ group[e] \in Sub
    OBVIOUS
  <2>2. PICK x \in Sub : e \in entries[x]
    BY DEF EntriesBelow
  <2> QED BY <2>2, <1>5 DEF TreeTyped, ListsAgree
<1>9. \A e \in Entries : group[e] \in Sub => e \in Ent
  BY <1>5 DEF EntriesBelow, ListsAgree
\* The step, read at a copy and at everything else.
<1>10. /\ parent' = [x \in Groups |-> IF x = cg[g] THEN p
                        ELSE IF x \in R THEN cg[parent[A[x]]] ELSE parent[x]]
       /\ children' = [x \in Groups |->
                          IF x = p THEN children[x] \cup {cg[g]}
                          ELSE IF x \in R THEN {cg[y] : y \in children[A[x]]} ELSE children[x]]
       /\ db' = [x \in Groups |-> IF x \in R THEN db[p] ELSE db[x]]
       /\ group' = [e \in Entries |-> IF e \in Q THEN cg[group[B[e]]] ELSE group[e]]
       /\ entries' = [x \in Groups |-> IF x \in R THEN {ce[e] : e \in entries[A[x]]} ELSE entries[x]]
  BY DEF CopyGroup
<1>11. /\ parent'[cg[g]] = p
       /\ \A x \in Sub : x # g => parent'[cg[x]] = cg[parent[x]]
       /\ \A x \in Groups : x \notin R => parent'[x] = parent[x]
  BY <1>1, <1>3, <1>5, <1>10
<1>12. TreeTyped'
  <2>1. parent' \in [Groups -> Groups \cup {None}]
    <3>1. ASSUME NEW x \in R PROVE parent'[x] \in Groups
      BY <1>1, <1>3, <1>5, <1>6, <1>11
    <3> QED BY <3>1, <1>10, <1>11 DEF TreeTyped
  <2>2. children' \in [Groups -> SUBSET Groups]
    <3>1. ASSUME NEW x \in R PROVE {cg[y] : y \in children[A[x]]} \subseteq Groups
      <4>1. children[A[x]] \subseteq Sub
        BY <1>3, <1>5, <1>7 DEF TreeTyped, ListsAgree
      <4> QED BY <4>1, <1>1, <1>3
    <3>2. cg[g] \in Groups
      BY <1>1, <1>3, <1>5
    <3> QED BY <3>1, <3>2, <1>10 DEF TreeTyped
  <2>3. db' \in [Groups -> Databases \cup {None}]
    BY <1>5, <1>10 DEF TreeTyped
  <2>4. group' \in [Entries -> Groups \cup {None}]
    <3>1. ASSUME NEW e \in Q PROVE cg[group[B[e]]] \in Groups
      BY <1>1, <1>3, <1>4, <1>8
    <3> QED BY <3>1, <1>10 DEF TreeTyped
  <2>5. entries' \in [Groups -> SUBSET Entries]
    <3>1. ASSUME NEW x \in R PROVE {ce[e] : e \in entries[A[x]]} \subseteq Entries
      <4>1. entries[A[x]] \subseteq Ent
        BY <1>3 DEF EntriesBelow
      <4> QED BY <4>1, <1>2, <1>4
    <3> QED BY <3>1, <1>10 DEF TreeTyped
  <2> QED BY <2>1, <2>2, <2>3, <2>4, <2>5 DEF TreeTyped
<1>13. ListsAgree'
  <2>1. ASSUME NEW x \in Groups, NEW y \in Groups
        PROVE  x \in children'[y] <=> parent'[x] = y
    <3>1. CASE y = p
      <4>1. children'[p] = children[p] \cup {cg[g]}
        BY <1>5, <1>10
      <4>2. CASE x = cg[g]
        BY <3>1, <4>1, <4>2, <1>11
      <4>3. CASE x \in R /\ x # cg[g]
        <5>1. parent'[x] \in R
          BY <4>3, <1>1, <1>3, <1>6, <1>11
        <5>2. x \notin children[p]
          BY <4>3, <1>3, <1>5, NoneAssumption DEF ListsAgree
        <5> QED BY <3>1, <4>1, <4>3, <5>1, <5>2, <1>5
      <4>4. CASE x \notin R
        <5>1. x # cg[g]
          BY <4>4, <1>1, <1>5
        <5> QED BY <3>1, <4>1, <4>4, <5>1, <1>5, <1>11 DEF ListsAgree
      <4> QED BY <4>2, <4>3, <4>4
    <3>2. CASE y \in R
      <4>1. children'[y] = {cg[z] : z \in children[A[y]]}
        BY <3>2, <1>5, <1>3, <1>10
      <4>2. children[A[y]] = {z \in Sub : parent[z] = A[y]}
        BY <3>2, <1>3, <1>5, <1>7 DEF TreeTyped, ListsAgree
      <4>3. CASE x \in R
        <5>1. x \in children'[y] <=> parent[A[x]] = A[y]
          BY <4>1, <4>2, <4>3, <1>1, <1>3
        <5>2. CASE x = cg[g]
          <6>1. A[x] = g /\ parent[g] \notin Sub
            <7>1. A[x] = g
              BY <5>2, <1>1, <1>5
            <7>2. parent[g] \notin Sub
              <8>1. SUFFICES ASSUME parent[g] \in Sub PROVE FALSE
                OBVIOUS
              <8>2. \A z \in Sub : parent[z] \in Sub
                BY <8>1, <1>6
              <8>3. Sub = {}
                BY <8>2, <1>5 DEF NoCycles
              <8> QED BY <8>3, <1>5
            <7> QED BY <7>1, <7>2
          <6> QED BY <5>1, <5>2, <6>1, <3>2, <1>3, <1>5, <1>11
        <5>3. CASE x # cg[g]
          <6>1. A[x] # g /\ A[x] \in Sub /\ cg[A[x]] = x
            BY <5>3, <4>3, <1>3
          <6>2. parent'[x] = cg[parent[A[x]]] /\ parent[A[x]] \in Sub
            BY <6>1, <1>6, <1>11
          <6> QED BY <5>1, <6>1, <6>2, <3>2, <1>1, <1>3
        <5> QED BY <5>2, <5>3
      <4>4. CASE x \notin R
        <5>1. x \notin children'[y]
          BY <4>1, <4>2, <4>4, <1>1
        <5>2. parent'[x] # y
          BY <4>4, <3>2, <1>3, <1>11
        <5> QED BY <5>1, <5>2
      <4> QED BY <4>3, <4>4
    <3>3. CASE y # p /\ y \notin R
      <4>1. children'[y] = children[y]
        BY <3>3, <1>10
      <4>2. CASE x \in R
        BY <4>1, <4>2, <3>3, <1>1, <1>3, <1>6, <1>11, NoneAssumption DEF ListsAgree
      <4>3. CASE x \notin R
        BY <4>1, <4>3, <1>11 DEF ListsAgree
      <4> QED BY <4>2, <4>3
    <3> QED BY <3>1, <3>2, <3>3
  <2>2. ASSUME NEW e \in Entries, NEW y \in Groups
        PROVE  e \in entries'[y] <=> group'[e] = y
    <3>1. CASE y \in R
      <4>1. entries'[y] = {ce[z] : z \in entries[A[y]]}
        BY <3>1, <1>10
      <4>2. entries[A[y]] = {z \in Ent : group[z] = A[y]}
        BY <3>1, <1>3, <1>5, <1>8, <1>9 DEF TreeTyped, ListsAgree
      <4>3. CASE e \in Q
        <5>1. e \in entries'[y] <=> group[B[e]] = A[y]
          BY <4>1, <4>2, <4>3, <1>2, <1>4
        <5>2. group'[e] = cg[group[B[e]]] /\ group[B[e]] \in Sub
          BY <4>3, <1>4, <1>8, <1>10
        <5> QED BY <5>1, <5>2, <3>1, <1>1, <1>3
      <4>4. CASE e \notin Q
        <5>1. e \notin entries'[y]
          BY <4>1, <4>2, <4>4, <1>2
        <5>2. group'[e] # y
          BY <4>4, <3>1, <1>3, <1>10
        <5> QED BY <5>1, <5>2
      <4> QED BY <4>3, <4>4
    <3>2. CASE y \notin R
      <4>1. entries'[y] = entries[y]
        BY <3>2, <1>10
      <4>2. CASE e \in Q
        BY <4>1, <4>2, <3>2, <1>1, <1>4, <1>8, <1>10
      <4>3. CASE e \notin Q
        BY <4>1, <4>3, <1>10 DEF ListsAgree
      <4> QED BY <4>2, <4>3
    <3> QED BY <3>1, <3>2
  <2> QED BY <2>1, <2>2 DEF ListsAgree
<1>14. DatabaseAgrees'
  <2>1. ASSUME NEW x \in Groups, parent'[x] # None
        PROVE  db'[x] = db'[parent'[x]] /\ db'[x] # None
    <3>1. CASE x = cg[g]
      BY <3>1, <1>1, <1>3, <1>5, <1>10, <1>11
    <3>2. CASE x \in R /\ x # cg[g]
      <4>1. parent'[x] = cg[parent[A[x]]] /\ parent[A[x]] \in Sub
        BY <3>2, <1>3, <1>6, <1>11
      <4>2. parent'[x] \in R
        BY <4>1, <1>1
      <4> QED BY <4>2, <3>2, <1>3, <1>5, <1>10
    <3>3. CASE x \notin R
      <4>1. parent'[x] = parent[x] /\ parent[x] \in Groups /\ parent[x] \notin R
        BY <3>3, <2>1, <1>3, <1>11 DEF TreeTyped
      <4> QED BY <4>1, <3>3, <2>1, <1>10 DEF DatabaseAgrees
    <3> QED BY <3>1, <3>2, <3>3
  <2>2. ASSUME NEW e \in Placed' PROVE db'[group'[e]] # None
    <3>0. e \in Entries /\ group'[e] # None
      BY DEF Placed
    <3>1. CASE e \in Q
      <4>1. group'[e] \in R
        BY <3>1, <1>1, <1>4, <1>8, <1>10
      <4> QED BY <4>1, <1>3, <1>5, <1>10
    <3>2. CASE e \notin Q
      <4>1. group'[e] = group[e] /\ e \in Placed /\ group[e] \in Groups
        BY <3>0, <3>2, <1>10 DEF TreeTyped, Placed
      <4> QED BY <4>1, <3>0, <1>5, <1>10 DEF DatabaseAgrees
    <3> QED BY <3>1, <3>2
  <2> QED BY <2>1, <2>2 DEF DatabaseAgrees
<1>15. NoCycles'
  <2>1. SUFFICES ASSUME NEW S \in SUBSET Groups, \A x \in S : parent'[x] \in S
                 PROVE  S = {}
    BY DEF NoCycles
  <2>2. S \subseteq R
    <3>1. ASSUME NEW x \in S \ R PROVE parent[x] \in S \ R
      BY <2>1, <1>3, <1>11
    <3>2. S \ R = {}
      BY <3>1 DEF NoCycles
    <3> QED BY <3>2
  <2>3. cg[g] \notin S
    BY <2>1, <2>2, <1>5, <1>11
  <2> DEFINE T == {y \in Sub : cg[y] \in S}
  <2>4. ASSUME NEW y \in T PROVE parent[y] \in T
    <3>1. y # g /\ parent[y] \in Sub
      BY <2>3, <1>6
    <3>2. cg[parent[y]] \in S
      BY <3>1, <2>1, <1>11
    <3> QED BY <3>1, <3>2
  <2>5. T = {}
    BY <2>4, <1>5 DEF NoCycles
  <2> QED BY <2>2, <2>5, <1>3
<1>16. RootsOnTop'
  <2>1. ASSUME NEW d \in Databases PROVE parent'[Root[d]] = None /\ db'[Root[d]] = d
    <3>1. Root[d] \in Groups /\ Root[d] \notin R
      BY <1>3, RootAssumption, NoneAssumption DEF RootsOnTop
    <3> QED BY <3>1, <1>10, <1>11 DEF RootsOnTop
  <2> QED BY <2>1 DEF RootsOnTop
<1> QED BY <1>12, <1>13, <1>14, <1>15, <1>16

----------------------------------------------------------------------------
(* The records of deletions and the recycle bins. *)

Records == UsedIsKnown /\ GoneIsRecorded /\ BinIsHereOrDeleted

RecordsTyped ==
  /\ bin \in [Databases -> Groups \cup {None}]
  /\ deleted \in [Databases -> SUBSET Objects]
  /\ was \in [Databases -> SUBSET Objects]

\* An entry is below a group exactly if its own group is.
LEMMA BelowMeansInSubtree ==
  ASSUME TreeTyped, ListsAgree, NEW g \in Groups, NEW e \in Entries
  PROVE  e \in EntriesBelow(g) <=> group[e] \in Subtree(g)
<1>1. Subtree(g) \subseteq Groups
  BY SubtreeClosed
<1> QED BY <1>1 DEF EntriesBelow, TreeTyped, ListsAgree

LEMMA SetParentRecords ==
  ASSUME TreeInv, RecordsTyped, Records, NEW g \in Groups, NEW p \in Groups,
         db[p] # None, parent[g] # None, SetParent(g, p), bin' = bin
  PROVE  RecordsTyped' /\ Records'
<1> USE DEF TreeInv, Records
<1> DEFINE Sub == Subtree(g)
           Ent == EntriesBelow(g)
<1>1. /\ db[p] \in Databases /\ db[g] \in Databases
      /\ Sub \subseteq Groups /\ \A x \in Sub : db[x] = db[g]
      /\ \A e \in Entries : e \in Ent <=> group[e] \in Sub
      /\ Ent \subseteq Entries
  <2>1. db[p] \in Databases /\ db[g] \in Databases
    BY DEF TreeTyped, DatabaseAgrees
  <2>2. Sub \subseteq Groups /\ \A x \in Sub : db[x] = db[g]
    BY SubtreeClosed, SubtreeInOneDatabase
  <2>3. Ent \subseteq Entries
    BY <2>2 DEF EntriesBelow, TreeTyped
  <2> QED BY <2>1, <2>2, <2>3, BelowMeansInSubtree
<1>2. /\ db' = [x \in Groups |-> IF x \in Sub THEN db[p] ELSE db[x]]
      /\ group' = group
      /\ deleted' = [deleted EXCEPT ![db[g]] = @ \cup (IF db[g] = db[p] THEN {} ELSE Sub \cup Ent)]
      /\ was' = [was EXCEPT ![db[p]] = @ \cup Sub \cup Ent]
  BY DEF SetParent, DatabasesAfterMove, RecordDeleted, WasIn, RecordedByMove
<1>3. RecordsTyped'
  BY <1>1, <1>2 DEF RecordsTyped, Objects
<1>4. UsedIsKnown'
  <2>1. ASSUME NEW x \in Live' PROVE x \in was'[db'[x]]
    BY <1>1, <1>2 DEF Live, UsedIsKnown, RecordsTyped, TreeTyped
  <2>2. ASSUME NEW e \in Placed' PROVE e \in was'[DatabaseOf(e)']
    <3>1. e \in Placed /\ group'[e] = group[e] /\ group[e] \in Groups
      BY <1>2 DEF Placed, TreeTyped
    <3>2. e \in was[db[group[e]]] /\ db[group[e]] \in Databases
      BY <3>1 DEF UsedIsKnown, DatabaseOf, DatabaseAgrees, TreeTyped
    <3> QED BY <3>1, <3>2, <1>1, <1>2 DEF DatabaseOf, RecordsTyped, Placed
  <2> QED BY <2>1, <2>2 DEF UsedIsKnown
<1>5. GoneIsRecorded'
  <2>1. SUFFICES ASSUME NEW d \in Databases, NEW x \in was'[d], x \notin deleted'[d]
                 PROVE  x \in Contents(d)'
    BY DEF GoneIsRecorded
  <2>2. CASE x \in was[d]
    <3>1. x \in Contents(d)
      BY <2>1, <2>2, <1>2 DEF GoneIsRecorded, RecordsTyped
    <3>2. CASE x \in Groups /\ db[x] = d
      BY <2>1, <3>2, <1>1, <1>2 DEF Contents, RecordsTyped
    <3>3. CASE x \in Placed /\ DatabaseOf(x) = d
      BY <2>1, <3>3, <1>1, <1>2 DEF Contents, RecordsTyped, Placed, DatabaseOf, TreeTyped
    <3> QED BY <3>1, <3>2, <3>3 DEF Contents
  <2>3. CASE x \notin was[d]
    <3>1. d = db[p] /\ x \in Sub \cup Ent
      BY <2>1, <2>3, <1>2 DEF RecordsTyped
    <3>2. CASE x \in Sub
      BY <3>1, <3>2, <1>1, <1>2 DEF Contents
    <3>3. CASE x \in Ent
      BY <3>1, <3>3, <1>1, <1>2, NoneAssumption DEF Contents, Placed, DatabaseOf
    <3> QED BY <3>1, <3>2, <3>3
  <2> QED BY <2>2, <2>3
<1>6. BinIsHereOrDeleted'
  <2>1. SUFFICES ASSUME NEW d \in Databases, bin[d] # None
                 PROVE  bin[d] \in Live' /\ (db'[bin[d]] = d \/ bin[d] \in deleted'[d])
    BY DEF BinIsHereOrDeleted
  <2>2. bin[d] \in Groups /\ db[bin[d]] # None /\ (db[bin[d]] = d \/ bin[d] \in deleted[d])
    BY <2>1 DEF BinIsHereOrDeleted, Live, RecordsTyped
  <2> QED BY <2>2, <1>1, <1>2 DEF Live, RecordsTyped, TreeTyped
<1> QED BY <1>3, <1>4, <1>5, <1>6

LEMMA SetGroupRecords ==
  ASSUME TreeInv, RecordsTyped, Records, NEW d \in Databases, NEW g \in Groups,
         NEW es \in SUBSET {e \in Placed : DatabaseOf(e) = d},
         db[g] # None, SetGroup(d, es, g), bin' = bin
  PROVE  RecordsTyped' /\ Records'
<1> USE DEF TreeInv, Records
<1>1. db[g] \in Databases /\ es \subseteq Entries /\ \A e \in es : db[group[e]] = d
  BY DEF TreeTyped, Placed, DatabaseOf
<1>2. /\ db' = db
      /\ group' = [e \in Entries |-> IF e \in es THEN g ELSE group[e]]
      /\ deleted' = [deleted EXCEPT ![d] = @ \cup (IF db[g] = d THEN {} ELSE es)]
      /\ was' = [was EXCEPT ![db[g]] = @ \cup es]
  BY DEF SetGroup, RecordDeleted, WasIn
<1>3. RecordsTyped'
  BY <1>1, <1>2 DEF RecordsTyped, Objects
<1>4. UsedIsKnown'
  <2>1. ASSUME NEW x \in Live' PROVE x \in was'[db'[x]]
    BY <1>1, <1>2 DEF Live, UsedIsKnown, RecordsTyped, TreeTyped
  <2>2. ASSUME NEW e \in Placed' PROVE e \in was'[DatabaseOf(e)']
    <3>1. CASE e \in es
      BY <3>1, <1>1, <1>2 DEF DatabaseOf, RecordsTyped
    <3>2. CASE e \notin es
      <4>1. e \in Placed /\ group'[e] = group[e] /\ group[e] \in Groups
        BY <3>2, <1>2 DEF Placed, TreeTyped
      <4>2. e \in was[db[group[e]]] /\ db[group[e]] \in Databases
        BY <4>1 DEF UsedIsKnown, DatabaseOf, DatabaseAgrees, TreeTyped
      <4> QED BY <4>1, <4>2, <1>2 DEF DatabaseOf, RecordsTyped
    <3> QED BY <3>1, <3>2
  <2> QED BY <2>1, <2>2 DEF UsedIsKnown
<1>5. GoneIsRecorded'
  <2>1. SUFFICES ASSUME NEW c \in Databases, NEW x \in was'[c], x \notin deleted'[c]
                 PROVE  x \in Contents(c)'
    BY DEF GoneIsRecorded
  <2>2. CASE x \in was[c]
    <3>1. x \in Contents(c)
      BY <2>1, <2>2, <1>2 DEF GoneIsRecorded, RecordsTyped
    <3>2. CASE x \in Groups /\ db[x] = c
      BY <3>2, <1>2 DEF Contents
    <3>3. CASE x \in Placed /\ DatabaseOf(x) = c
      BY <2>1, <3>3, <1>1, <1>2, NoneAssumption DEF Contents, RecordsTyped, Placed, DatabaseOf, TreeTyped
    <3> QED BY <3>1, <3>2, <3>3 DEF Contents
  <2>3. CASE x \notin was[c]
    <3>1. c = db[g] /\ x \in es
      BY <2>1, <2>3, <1>2 DEF RecordsTyped
    <3> QED BY <3>1, <1>1, <1>2, NoneAssumption DEF Contents, Placed, DatabaseOf
  <2> QED BY <2>2, <2>3
<1>6. BinIsHereOrDeleted'
  BY <1>2 DEF BinIsHereOrDeleted, Live, RecordsTyped
<1> QED BY <1>3, <1>4, <1>5, <1>6

\* Destroying groups and entries of one database.
LEMMA DestroyRecords ==
  ASSUME TreeInv, RecordsTyped, Records, NEW d \in Databases,
         NEW gs \in SUBSET {g \in Groups : db[g] = d},
         NEW es \in SUBSET {e \in Placed : DatabaseOf(e) = d},
         \A x \in gs : entries[x] \subseteq es,
         Destroy(d, gs, es)
  PROVE  RecordsTyped' /\ Records'
<1> USE DEF TreeInv, Records
<1>1. gs \subseteq Groups /\ es \subseteq Entries /\ \A e \in Entries : group[e] \in gs => e \in es
  BY DEF Placed, ListsAgree, TreeTyped
<1>2. /\ db' = [g \in Groups |-> IF g \in gs THEN None ELSE db[g]]
      /\ group' = [e \in Entries |-> IF e \in es THEN None ELSE group[e]]
      /\ deleted' = [deleted EXCEPT ![d] = @ \cup (gs \cup es)]
      /\ was' = was
      /\ bin' = [x \in Databases |-> IF bin[x] \in gs THEN None ELSE bin[x]]
  BY DEF Destroy, RecordDeleted, DestructorsRecord
<1>3. RecordsTyped'
  BY <1>1, <1>2 DEF RecordsTyped, Objects
<1>4. UsedIsKnown'
  <2>1. ASSUME NEW x \in Live' PROVE x \in was'[db'[x]]
    BY <1>2 DEF Live, UsedIsKnown, TreeTyped
  <2>2. ASSUME NEW e \in Placed' PROVE e \in was'[DatabaseOf(e)']
    <3>1. e \in Placed /\ e \notin es /\ group'[e] = group[e] /\ group[e] \in Groups
      BY <1>2 DEF Placed, TreeTyped
    <3>2. group[e] \notin gs
      BY <3>1, <1>1 DEF Placed
    <3> QED BY <3>1, <3>2, <1>2 DEF UsedIsKnown, DatabaseOf
  <2> QED BY <2>1, <2>2 DEF UsedIsKnown
<1>5. GoneIsRecorded'
  <2>1. SUFFICES ASSUME NEW c \in Databases, NEW x \in was[c], x \notin deleted'[c]
                 PROVE  x \in Contents(c)'
    BY <1>2 DEF GoneIsRecorded
  <2>2. x \in Contents(c)
    BY <2>1, <1>2 DEF GoneIsRecorded, RecordsTyped
  <2>3. CASE x \in Groups /\ db[x] = c
    BY <2>1, <2>3, <1>2 DEF Contents, RecordsTyped
  <2>4. CASE x \in Placed /\ DatabaseOf(x) = c
    <3>1. x \notin es
      BY <2>1, <2>4, <1>2 DEF RecordsTyped
    <3>2. group[x] \in Groups /\ group[x] \notin gs /\ x \in Entries /\ group'[x] = group[x]
      BY <2>4, <3>1, <1>1, <1>2 DEF Placed, TreeTyped
    <3> QED BY <2>4, <3>2, <1>2 DEF Contents, Placed, DatabaseOf
  <2> QED BY <2>2, <2>3, <2>4 DEF Contents
<1>6. BinIsHereOrDeleted'
  BY <1>2 DEF BinIsHereOrDeleted, Live, RecordsTyped
<1> QED BY <1>3, <1>4, <1>5, <1>6

\* New objects N of database d, new to every record; nothing else is touched.
LEMMA AddedRecords ==
  ASSUME TreeInv, RecordsTyped, Records, TreeTyped', NEW d \in Databases,
         NEW N \in SUBSET Objects,
         \A x \in Live' : db'[x] = (IF x \in N THEN d ELSE db[x]),
         \A x \in Live : db'[x] = db[x],
         \A e \in Placed' : IF e \in N THEN DatabaseOf(e)' = d
                           ELSE e \in Placed /\ DatabaseOf(e)' = DatabaseOf(e),
         \A e \in Placed : e \in Placed' /\ DatabaseOf(e)' = DatabaseOf(e),
         \A x \in N : x \in Live' \/ x \in Placed',
         WasIn(d, N), deleted' = deleted, bin' \in [Databases -> Groups \cup {None}],
         \A c \in Databases : bin'[c] = bin[c] \/ (c = d /\ bin'[c] \in N \cap Live')
  PROVE  RecordsTyped' /\ Records'
<1> USE DEF TreeInv, Records
<1>1. was' = [was EXCEPT ![d] = @ \cup N]
  BY DEF WasIn
<1>2. RecordsTyped'
  BY <1>1 DEF RecordsTyped
<1>3. UsedIsKnown'
  <2>1. ASSUME NEW x \in Live' PROVE x \in was'[db'[x]]
    <3>1. CASE x \in N
      BY <3>1, <1>1 DEF RecordsTyped
    <3>2. CASE x \notin N
      <4>1. x \in Live /\ db'[x] = db[x] /\ db[x] \in Databases
        BY <3>2 DEF Live, TreeTyped
      <4> QED BY <4>1, <1>1 DEF UsedIsKnown, RecordsTyped
    <3> QED BY <3>1, <3>2
  <2>2. ASSUME NEW e \in Placed' PROVE e \in was'[DatabaseOf(e)']
    <3>1. CASE e \in N
      BY <3>1, <1>1 DEF RecordsTyped
    <3>2. CASE e \notin N
      <4>1. e \in Placed /\ DatabaseOf(e)' = DatabaseOf(e) /\ DatabaseOf(e) \in Databases
        BY <3>2 DEF Placed, TreeTyped, DatabaseAgrees, DatabaseOf
      <4> QED BY <4>1, <1>1 DEF UsedIsKnown, RecordsTyped
    <3> QED BY <3>1, <3>2
  <2> QED BY <2>1, <2>2 DEF UsedIsKnown
<1>4. GoneIsRecorded'
  <2>1. SUFFICES ASSUME NEW c \in Databases, NEW x \in was'[c], x \notin deleted[c]
                 PROVE  x \in Contents(c)'
    BY DEF GoneIsRecorded
  <2>2. CASE x \in was[c]
    <3>1. x \in Contents(c)
      BY <2>1, <2>2 DEF GoneIsRecorded
    <3>2. CASE x \in Groups /\ db[x] = c
      BY <3>2, NoneAssumption DEF Contents, Live
    <3>3. CASE x \in Placed /\ DatabaseOf(x) = c
      BY <3>3 DEF Contents
    <3> QED BY <3>1, <3>2, <3>3 DEF Contents
  <2>3. CASE x \notin was[c]
    <3>1. c = d /\ x \in N
      BY <2>1, <2>3, <1>1 DEF RecordsTyped
    <3> QED BY <3>1 DEF Contents, Live
  <2> QED BY <2>2, <2>3
<1>5. BinIsHereOrDeleted'
  <2>1. SUFFICES ASSUME NEW c \in Databases, bin'[c] # None
                 PROVE  bin'[c] \in Live' /\ (db'[bin'[c]] = c \/ bin'[c] \in deleted[c])
    BY DEF BinIsHereOrDeleted
  <2>2. CASE bin'[c] = bin[c]
    <3>1. bin[c] \in Live /\ (db[bin[c]] = c \/ bin[c] \in deleted[c])
      BY <2>1, <2>2 DEF BinIsHereOrDeleted
    <3> QED BY <2>2, <3>1 DEF Live
  <2>3. CASE c = d /\ bin'[c] \in N \cap Live'
    BY <2>3
  <2> QED BY <2>2, <2>3
<1> QED BY <1>2, <1>3, <1>4, <1>5

LEMMA CreateGroupRecords ==
  ASSUME IInv, NEW g \in Groups, NEW p \in Groups, CreateGroup(g, p)
  PROVE  RecordsTyped' /\ Records'
<1>1. /\ TreeInv /\ RecordsTyped /\ Records
  BY DEF IInv, Records, RecordsTyped, TypeOK
<1>2. TreeTyped'
  BY CreateGroupKeeps DEF TreeInv
<1>3. db[g] = None /\ db[p] \in Databases /\ \A e \in Entries : group[e] # g
  BY FreshIsOut, <1>1 DEF CreateGroup, Live, TreeInv, TreeTyped
<1>4. /\ db' = [db EXCEPT ![g] = db[p]] /\ group' = group /\ bin' = bin
      /\ deleted' = deleted /\ WasIn(db[p], {g})
  BY DEF CreateGroup, AddGroup
<1>5. g \notin Entries
  BY KindAssumption
<1>6. {g} \in SUBSET Objects
  BY DEF Objects
<1>7. \A x \in Live' : db'[x] = (IF x \in {g} THEN db[p] ELSE db[x])
  BY <1>1, <1>4 DEF Live, TreeInv, TreeTyped
<1>8. \A x \in Live : db'[x] = db[x]
  BY <1>1, <1>3, <1>4 DEF Live, TreeInv, TreeTyped
<1>9. \A e \in Entries : group[e] # None =>
         group[e] \in Groups /\ db'[group[e]] = db[group[e]]
  BY <1>1, <1>3, <1>4 DEF TreeInv, TreeTyped
<1>10. \A e \in Placed' : IF e \in {g} THEN DatabaseOf(e)' = db[p]
                          ELSE e \in Placed /\ DatabaseOf(e)' = DatabaseOf(e)
  BY <1>4, <1>5, <1>9 DEF Placed, DatabaseOf
<1>11. \A e \in Placed : e \in Placed' /\ DatabaseOf(e)' = DatabaseOf(e)
  BY <1>4, <1>9 DEF Placed, DatabaseOf
<1>12. g \in Live'
  BY <1>1, <1>3, <1>4, NoneAssumption DEF Live, TreeInv, TreeTyped
<1> QED BY <1>1, <1>2, <1>3, <1>4, <1>6, <1>7, <1>8, <1>10, <1>11, <1>12, AddedRecords DEF RecordsTyped

LEMMA CreateEntryRecords ==
  ASSUME IInv, NEW e \in Entries, NEW g \in Groups, CreateEntry(e, g)
  PROVE  RecordsTyped' /\ Records'
<1>1. /\ TreeInv /\ RecordsTyped /\ Records
  BY DEF IInv, Records, RecordsTyped, TypeOK
<1>2. TreeTyped'
  BY CreateEntryKeeps DEF TreeInv
<1>3. group[e] = None /\ db[g] \in Databases
  BY FreshEntryIsOut, <1>1 DEF CreateEntry, Live, TreeInv, TreeTyped
<1>4. /\ db' = db /\ group' = [group EXCEPT ![e] = g] /\ bin' = bin
      /\ deleted' = deleted /\ WasIn(db[g], {e})
  BY DEF CreateEntry
<1>5. e \notin Groups
  BY KindAssumption
<1>6. {e} \in SUBSET Objects
  BY DEF Objects
<1>7. \A x \in Live' : db'[x] = (IF x \in {e} THEN db[g] ELSE db[x])
  BY <1>4, <1>5 DEF Live
<1>8. \A f \in Placed' : IF f \in {e} THEN DatabaseOf(f)' = db[g]
                         ELSE f \in Placed /\ DatabaseOf(f)' = DatabaseOf(f)
  BY <1>1, <1>4 DEF Placed, DatabaseOf, TreeInv, TreeTyped
<1>9. \A f \in Placed : f \in Placed' /\ DatabaseOf(f)' = DatabaseOf(f)
  BY <1>1, <1>3, <1>4 DEF Placed, DatabaseOf, TreeInv, TreeTyped
<1>10. e \in Placed'
  BY <1>1, <1>4, NoneAssumption DEF Placed, TreeInv, TreeTyped
<1> QED BY <1>1, <1>2, <1>3, <1>4, <1>6, <1>7, <1>8, <1>9, <1>10, AddedRecords DEF RecordsTyped, Live

LEMMA RecycleEntriesIntoNewRecords ==
  ASSUME IInv, NEW d \in Databases, NEW b \in Groups,
         NEW es \in SUBSET {e \in Placed : DatabaseOf(e) = d},
         RecycleEntriesIntoNew(d, es, b)
  PROVE  RecordsTyped' /\ Records'
<1>1. /\ TreeInv /\ RecordsTyped /\ Records
  BY DEF IInv, Records, RecordsTyped, TypeOK
<1>2. es \in SUBSET Entries
  BY DEF Placed
<1>3. TreeTyped'
  BY <1>2, RecycleEntriesIntoNewKeeps DEF TreeInv
<1>4. /\ db[b] = None /\ Root[d] \in Groups /\ db[Root[d]] = d
      /\ \A e \in Entries : group[e] # b
  BY FreshIsOut, RootAssumption, <1>1 DEF RecycleEntriesIntoNew, TreeInv, RootsOnTop
<1>5. /\ db' = [db EXCEPT ![b] = d]
      /\ group' = [e \in Entries |-> IF e \in es THEN b ELSE group[e]]
      /\ bin' = [bin EXCEPT ![d] = b]
      /\ deleted' = deleted /\ WasIn(d, {b})
  BY <1>4 DEF RecycleEntriesIntoNew, AddGroup
<1>6. {b} \in SUBSET Objects /\ b \notin Entries
  BY KindAssumption DEF Objects
<1>7. b \in Live'
  BY <1>1, <1>5, NoneAssumption DEF Live, TreeInv, TreeTyped
<1>8. \A x \in Live' : db'[x] = (IF x \in {b} THEN d ELSE db[x])
  BY <1>1, <1>5 DEF Live, TreeInv, TreeTyped
<1>9. \A x \in Live : db'[x] = db[x]
  BY <1>1, <1>4, <1>5 DEF Live, TreeInv, TreeTyped
<1>10. \A e \in Entries : group[e] # None =>
          group[e] \in Groups /\ db'[group[e]] = db[group[e]]
  BY <1>1, <1>4, <1>5 DEF TreeInv, TreeTyped
<1>11. \A e \in es : e \in Placed /\ e \in Entries /\ db[group[e]] = d
  BY <1>2 DEF DatabaseOf
<1>12. db'[b] = d
  BY <1>1, <1>5 DEF TreeInv, TreeTyped
<1>13. \A e \in Placed' : e \in Placed /\ DatabaseOf(e)' = DatabaseOf(e)
  BY <1>5, <1>10, <1>11, <1>12 DEF Placed, DatabaseOf
<1>14. \A e \in Placed : e \in Placed' /\ DatabaseOf(e)' = DatabaseOf(e)
  BY <1>5, <1>10, <1>11, <1>12, NoneAssumption DEF Placed, DatabaseOf
<1>15. \A e \in Placed' : e \notin {b}
  BY <1>6 DEF Placed
<1>16. /\ bin' \in [Databases -> Groups \cup {None}]
       /\ \A c \in Databases : bin'[c] = bin[c] \/ (c = d /\ bin'[c] \in {b} \cap Live')
  BY <1>1, <1>5, <1>7 DEF RecordsTyped
<1> QED BY <1>1, <1>3, <1>5, <1>6, <1>7, <1>8, <1>9, <1>13, <1>14, <1>15, <1>16, AddedRecords

LEMMA RecycleGroupIntoNewRecords ==
  ASSUME IInv, NEW d \in Databases, NEW g \in Groups, NEW b \in Groups,
         db[g] = d, parent[g] # None, RecycleGroupIntoNew(d, g, b)
  PROVE  RecordsTyped' /\ Records'
<1>1. /\ TreeInv /\ RecordsTyped /\ Records
  BY DEF IInv, Records, RecordsTyped, TypeOK
<1>3. TreeTyped'
  BY RecycleGroupIntoNewKeeps DEF TreeInv
<1>4. db[b] = None
  BY FreshIsOut DEF RecycleGroupIntoNew
<1>5. /\ db' = [db EXCEPT ![b] = d]
      /\ group' = group
      /\ bin' = [bin EXCEPT ![d] = b]
      /\ deleted' = deleted /\ WasIn(d, {b})
  BY DEF RecycleGroupIntoNew
<1>6. {b} \in SUBSET Objects /\ b \notin Entries
  BY KindAssumption DEF Objects
<1>7. b \in Live'
  BY <1>1, <1>5, NoneAssumption DEF Live, TreeInv, TreeTyped
<1>8. \A x \in Live' : db'[x] = (IF x \in {b} THEN d ELSE db[x])
  BY <1>1, <1>5 DEF Live, TreeInv, TreeTyped
<1>9. \A x \in Live : db'[x] = db[x]
  BY <1>1, <1>4, <1>5 DEF Live, TreeInv, TreeTyped
<1>10. \A e \in Placed : group[e] \in Groups /\ db'[group[e]] = db[group[e]]
  <2>1. SUFFICES ASSUME NEW e \in Placed
                 PROVE  group[e] \in Groups /\ db'[group[e]] = db[group[e]]
    OBVIOUS
  <2>2. group[e] \in Groups /\ db[group[e]] # None
    BY <1>1 DEF Placed, TreeInv, TreeTyped, DatabaseAgrees
  <2> QED BY <2>2, <1>9 DEF Live
<1>13. Placed' = Placed /\ \A e \in Placed : DatabaseOf(e)' = DatabaseOf(e)
  BY <1>5, <1>10 DEF Placed, DatabaseOf
<1>15. \A e \in Placed' : e \notin {b}
  BY <1>6 DEF Placed
<1>16. /\ bin' \in [Databases -> Groups \cup {None}]
       /\ \A c \in Databases : bin'[c] = bin[c] \/ (c = d /\ bin'[c] \in {b} \cap Live')
  BY <1>1, <1>5, <1>7 DEF RecordsTyped
<1> QED BY <1>1, <1>3, <1>5, <1>6, <1>7, <1>8, <1>9, <1>13, <1>15, <1>16, AddedRecords

LEMMA CopyGroupRecords ==
  ASSUME IInv, NEW g \in Groups, NEW p \in Groups,
         NEW cg \in Injection(Subtree(g), Fresh(Groups)),
         NEW ce \in Injection(EntriesBelow(g), Fresh(Entries)),
         CopyGroup(g, p, cg, ce)
  PROVE  RecordsTyped' /\ Records'
<1> DEFINE R == Range(cg)
           Q == Range(ce)
           B == AntiFunction(ce)
<1>1. /\ TreeInv /\ RecordsTyped /\ Records
  BY DEF IInv, Records, RecordsTyped, TypeOK
<1>2. TreeTyped'
  BY CopyGroupKeeps DEF TreeInv
<1>3. \A x \in R : x \in Groups /\ db[x] = None /\ \A e \in Entries : group[e] # x
  BY InverseOfInjection, FreshIsOut
<1>4. \A e \in Q : e \in Entries /\ group[e] = None /\ B[e] \in EntriesBelow(g)
  BY InverseOfInjection, FreshEntryIsOut
<1>5. db[p] \in Databases
  BY <1>1 DEF CopyGroup, Live, TreeInv, TreeTyped
<1>6. \A e \in Q : cg[group[B[e]]] \in R
  <2>1. SUFFICES ASSUME NEW e \in Q PROVE cg[group[B[e]]] \in R
    OBVIOUS
  <2>2. B[e] \in Entries
    BY <1>1, <1>4, SubtreeClosed DEF EntriesBelow, TreeInv, TreeTyped
  <2>3. group[B[e]] \in Subtree(g)
    BY <1>1, <1>4, <2>2, BelowMeansInSubtree DEF TreeInv
  <2> QED BY <2>3, InverseOfInjection
<1>7. /\ db' = [x \in Groups |-> IF x \in R THEN db[p] ELSE db[x]]
      /\ group' = [e \in Entries |-> IF e \in Q THEN cg[group[B[e]]] ELSE group[e]]
      /\ bin' = bin /\ deleted' = deleted /\ WasIn(db[p], R \cup Q)
  BY DEF CopyGroup
<1>8. R \cup Q \in SUBSET Objects
  BY <1>3, <1>4 DEF Objects
<1>9. R \cap Entries = {} /\ Q \cap Groups = {}
  BY <1>3, <1>4, KindAssumption
<1>10. \A x \in Live' : db'[x] = (IF x \in R \cup Q THEN db[p] ELSE db[x])
  BY <1>7, <1>9 DEF Live
<1>11. \A x \in Live : db'[x] = db[x]
  BY <1>3, <1>7 DEF Live
<1>12. \A x \in R : x \in Live' /\ db'[x] = db[p]
  BY <1>3, <1>5, <1>7, NoneAssumption DEF Live
<1>13. \A e \in Q : e \in Placed' /\ DatabaseOf(e)' = db[p]
  BY <1>3, <1>4, <1>6, <1>7, <1>12, NoneAssumption DEF Placed, DatabaseOf
<1>14. \A e \in Placed : group[e] \in Groups /\ db'[group[e]] = db[group[e]] /\ e \notin Q
  <2>1. SUFFICES ASSUME NEW e \in Placed
                 PROVE  group[e] \in Groups /\ db'[group[e]] = db[group[e]] /\ e \notin Q
    OBVIOUS
  <2>2. group[e] \in Groups /\ db[group[e]] # None
    BY <1>1 DEF Placed, TreeInv, TreeTyped, DatabaseAgrees
  <2> QED BY <2>2, <1>4, <1>11 DEF Live, Placed
<1>15. \A e \in Placed : e \in Placed' /\ DatabaseOf(e)' = DatabaseOf(e)
  BY <1>7, <1>14 DEF Placed, DatabaseOf
<1>16. \A e \in Placed' : IF e \in R \cup Q THEN DatabaseOf(e)' = db[p]
                          ELSE e \in Placed /\ DatabaseOf(e)' = DatabaseOf(e)
  <2>1. SUFFICES ASSUME NEW e \in Placed', e \notin Q
                 PROVE  e \notin R /\ e \in Placed
    BY <1>13, <1>15, <1>9 DEF Placed
  <2> QED BY <2>1, <1>7, <1>9 DEF Placed
<1> QED BY <1>1, <1>2, <1>5, <1>7, <1>8, <1>10, <1>11, <1>12, <1>13, <1>15, <1>16, AddedRecords DEF RecordsTyped

----------------------------------------------------------------------------
(* The inductive invariant. *)

\* TypeOK without the one flag that only ToggleRecycleBin changes.
FlagTyped == binEnabled \in [Databases -> BOOLEAN]

LEMMA IInvParts ==
  IInv <=> TreeInv /\ RecordsTyped /\ Records /\ FlagTyped
  BY DEF IInv, TypeOK, TreeInv, TreeTyped, RecordsTyped, Records, FlagTyped

\* Deleting the subtree of a group, whole or below the group.
LEMMA DestroySubtreeKeeps ==
  ASSUME TreeInv, RecordsTyped, Records, NEW g \in Groups, db[g] # None,
         NEW gs \in SUBSET Subtree(g),
         (gs = Subtree(g) /\ parent[g] # None) \/ gs = Subtree(g) \ {g},
         Destroy(db[g], gs, EntriesBelow(g))
  PROVE  TreeInv' /\ RecordsTyped' /\ Records'
<1> USE DEF TreeInv
<1>1. db[g] \in Databases
  BY DEF TreeTyped
<1>2. gs \in SUBSET {x \in Groups : db[x] = db[g]}
  BY SubtreeClosed, SubtreeInOneDatabase
<1>3. EntriesBelow(g) \in SUBSET {e \in Placed : DatabaseOf(e) = db[g]}
  <2>1. SUFFICES ASSUME NEW e \in EntriesBelow(g)
                 PROVE  e \in Placed /\ DatabaseOf(e) = db[g]
    OBVIOUS
  <2>2. e \in Entries
    BY SubtreeClosed DEF EntriesBelow, TreeTyped
  <2>3. group[e] \in Subtree(g)
    BY <2>2, BelowMeansInSubtree
  <2> QED BY <2>2, <2>3, SubtreeInOneDatabase, SubtreeClosed, NoneAssumption DEF Placed, DatabaseOf
<1>4. \A x \in gs : /\ children[x] \subseteq gs
                   /\ entries[x] \subseteq EntriesBelow(g)
                   /\ parent[x] # None
  <2>1. SUFFICES ASSUME NEW x \in gs
                 PROVE  /\ children[x] \subseteq gs
                        /\ entries[x] \subseteq EntriesBelow(g)
                        /\ parent[x] # None
    OBVIOUS
  <2>2. x \in Groups /\ x \in Subtree(g)
    BY SubtreeClosed
  <2>3. children[x] \subseteq Subtree(g)
    BY <2>2, SubtreeClosed DEF TreeTyped
  <2>4. g \notin children[x]
    <3>1. SUFFICES ASSUME g \in children[x] PROVE FALSE
      OBVIOUS
    <3>2. parent[g] \in Subtree(g)
      BY <2>2, <3>1 DEF ListsAgree
    <3>3. \A y \in Subtree(g) : parent[y] \in Subtree(g)
      BY <3>2, SubtreeParents
    <3> QED BY <3>3, SubtreeClosed DEF NoCycles
  <2>5. CASE x = g
    BY <2>2, <2>3, <2>4, <2>5 DEF EntriesBelow
  <2>6. CASE x # g
    <3>1. parent[x] # None
      BY <2>2, <2>6, SubtreeParents, SubtreeClosed, NoneAssumption
    <3> QED BY <2>2, <2>3, <2>4, <3>1 DEF EntriesBelow
  <2> QED BY <2>5, <2>6
<1>5. EntriesBelow(g) \in SUBSET Entries
  BY <1>3 DEF Placed
<1>6. gs \in SUBSET Groups
  BY <1>2
<1>7. TreeInv'
  BY <1>1, <1>4, <1>5, <1>6, DestroyKeeps
<1> QED BY <1>1, <1>2, <1>3, <1>4, <1>7, DestroyRecords

LEMMA InitEstablishes ==
  ASSUME Init
  PROVE  IInv
<1>1. \A g \in Groups, d \in Databases : db[g] = d => g = Root[d]
  BY NoneAssumption DEF Init
<1>2. \A d \in Databases : Root[d] \in Groups /\ db[Root[d]] = d
  <2>1. SUFFICES ASSUME NEW d \in Databases PROVE Root[d] \in Groups /\ db[Root[d]] = d
    OBVIOUS
  <2>2. Root[d] \in Groups /\ \E c \in Databases : Root[c] = Root[d]
    BY RootAssumption
  <2>3. db[Root[d]] = CHOOSE c \in Databases : Root[c] = Root[d]
    BY <2>2 DEF Init
  <2> QED BY <2>2, <2>3, RootAssumption
<1>3. TreeTyped
  BY DEF Init, TreeTyped
<1>4. ListsAgree
  BY NoneAssumption DEF Init, ListsAgree
<1>5. DatabaseAgrees
  BY DEF Init, DatabaseAgrees, Placed
<1>6. NoCycles
  BY NoneAssumption DEF Init, NoCycles
<1>7. RootsOnTop
  BY <1>2 DEF Init, RootsOnTop
<1>8. RecordsTyped
  BY <1>2 DEF Init, RecordsTyped, Objects
<1>9. UsedIsKnown
  BY <1>1, <1>3, <1>2 DEF Init, UsedIsKnown, Live, Placed, TreeTyped
<1>10. GoneIsRecorded
  BY <1>2 DEF Init, GoneIsRecorded, Contents
<1>11. BinIsHereOrDeleted
  BY DEF Init, BinIsHereOrDeleted
<1>12. FlagTyped
  BY DEF Init, FlagTyped
<1> QED BY <1>3, <1>4, <1>5, <1>6, <1>7, <1>8, <1>9, <1>10, <1>11, <1>12, IInvParts
        DEF TreeInv, Records

LEMMA NextKeeps ==
  ASSUME IInv, Next
  PROVE  IInv'
<1>0. TreeInv /\ RecordsTyped /\ Records /\ FlagTyped
  BY IInvParts
<1>a. SUFFICES TreeInv' /\ RecordsTyped' /\ Records' /\ FlagTyped'
  BY DEF IInv, TypeOK, TreeInv, TreeTyped, RecordsTyped, Records, FlagTyped
<1>1. ASSUME NEW g \in Groups, NEW p \in Groups, CreateGroup(g, p)
      PROVE  TreeInv' /\ RecordsTyped' /\ Records' /\ FlagTyped'
  <2>1. FlagTyped'
    BY <1>0, <1>1 DEF CreateGroup, FlagTyped
  <2> QED BY <1>1, <2>1, CreateGroupKeeps, CreateGroupRecords
<1>2. ASSUME NEW e \in Entries, NEW g \in Groups, CreateEntry(e, g)
      PROVE  TreeInv' /\ RecordsTyped' /\ Records' /\ FlagTyped'
  <2>1. FlagTyped'
    BY <1>0, <1>2 DEF CreateEntry, FlagTyped
  <2> QED BY <1>2, <2>1, CreateEntryKeeps, CreateEntryRecords
<1>3. ASSUME NEW g \in Groups, NEW p \in Groups, DropGroup(g, p)
      PROVE  TreeInv' /\ RecordsTyped' /\ Records' /\ FlagTyped'
  <2>1. FlagTyped'
    BY <1>0, <1>3 DEF DropGroup, FlagTyped
  <2>2. db[p] # None /\ parent[g] # None /\ p \notin Subtree(g) /\ SetParent(g, p) /\ bin' = bin
    BY <1>3 DEF DropGroup, Live
  <2> QED BY <1>0, <2>1, <2>2, SetParentKeeps, SetParentRecords
<1>4. ASSUME NEW g \in Groups, NEW p \in Groups,
             NEW cg \in Injection(Subtree(g), Fresh(Groups)),
             NEW ce \in Injection(EntriesBelow(g), Fresh(Entries)),
             CopyGroup(g, p, cg, ce)
      PROVE  TreeInv' /\ RecordsTyped' /\ Records' /\ FlagTyped'
  <2>1. FlagTyped'
    BY <1>0, <1>4 DEF CopyGroup, FlagTyped
  <2> QED BY <1>4, <2>1, CopyGroupKeeps, CopyGroupRecords
<1>5. ASSUME NEW e \in Entries, NEW g \in Groups, DropEntry(e, g)
      PROVE  TreeInv' /\ RecordsTyped' /\ Records' /\ FlagTyped'
  <2>1. FlagTyped'
    BY <1>0, <1>5 DEF DropEntry, FlagTyped
  <2>2. /\ db[g] # None /\ SetGroup(DatabaseOf(e), {e}, g) /\ bin' = bin
        /\ e \in Placed /\ {e} \in SUBSET Entries
    BY <1>5 DEF DropEntry, Live
  <2>3. DatabaseOf(e) \in Databases
    BY <1>0, <2>2 DEF Placed, DatabaseOf, TreeInv, TreeTyped, DatabaseAgrees
  <2>4. {e} \in SUBSET {f \in Placed : DatabaseOf(f) = DatabaseOf(e)}
    BY <2>2
  <2> QED BY <1>0, <2>1, <2>2, <2>3, <2>4, SetGroupKeeps, SetGroupRecords
<1>6. ASSUME NEW d \in Databases, ToggleRecycleBin(d)
      PROVE  TreeInv' /\ RecordsTyped' /\ Records' /\ FlagTyped'
  <2>1. UNCHANGED <<tree, bin, deleted, was>> /\ binEnabled' = [binEnabled EXCEPT ![d] = ~@]
    BY <1>6 DEF ToggleRecycleBin
  <2>2. FlagTyped'
    BY <1>0, <2>1, Zenon DEF FlagTyped
  <2>3. TreeInv'
    BY <1>0, <2>1 DEF tree, TreeInv, TreeTyped, ListsAgree, DatabaseAgrees, NoCycles, RootsOnTop, Placed
  <2>4. RecordsTyped' /\ Records'
    BY <1>0, <2>1 DEF tree, RecordsTyped, Records, UsedIsKnown, GoneIsRecorded, BinIsHereOrDeleted,
                      Live, Placed, DatabaseOf, Contents
  <2> QED BY <2>2, <2>3, <2>4
<1>7. ASSUME NEW d \in Databases, NEW es \in SUBSET Entries, NEW e \in Entries,
             DeleteEntries(d, es, e)
      PROVE  TreeInv' /\ RecordsTyped' /\ Records' /\ FlagTyped'
  <2>0. es \in SUBSET {f \in Placed : DatabaseOf(f) = d}
    BY <1>7 DEF DeleteEntries
  <2>1. CASE RecycleEntries(d, es)
    <3>1. FlagTyped'
      BY <1>0, <2>1 DEF RecycleEntries, FlagTyped
    <3>2. SetGroup(d, es, bin[d]) /\ bin' = bin /\ bin[d] # None
      BY <2>1 DEF RecycleEntries
    <3>3. bin[d] \in Groups /\ db[bin[d]] # None
      BY <1>0, <3>2 DEF RecordsTyped, Records, BinIsHereOrDeleted, Live
    <3> QED BY <1>0, <2>0, <3>1, <3>2, <3>3, SetGroupKeeps, SetGroupRecords
  <2>2. ASSUME NEW b \in Groups, RecycleEntriesIntoNew(d, es, b)
        PROVE  TreeInv' /\ RecordsTyped' /\ Records' /\ FlagTyped'
    <3>1. FlagTyped'
      BY <1>0, <2>2 DEF RecycleEntriesIntoNew, FlagTyped
    <3> QED BY <2>0, <2>2, <3>1, RecycleEntriesIntoNewKeeps, RecycleEntriesIntoNewRecords
  <2>3. CASE Destroy(d, {}, es)
    <3>1. FlagTyped'
      BY <1>0, <2>3 DEF Destroy, FlagTyped
    <3>2. TreeInv'
      BY <1>0, <2>3, DestroyKeeps
    <3>3. RecordsTyped' /\ Records'
      BY <1>0, <2>0, <2>3, DestroyRecords
    <3> QED BY <3>1, <3>2, <3>3
  <2> QED BY <1>7, <2>1, <2>2, <2>3 DEF DeleteEntries
<1>8. ASSUME NEW g \in Groups, DeleteGroup(g)
      PROVE  TreeInv' /\ RecordsTyped' /\ Records' /\ FlagTyped'
  <2>0. db[g] \in Databases /\ parent[g] # None
    BY <1>0, <1>8 DEF DeleteGroup, Live, TreeInv, TreeTyped
  <2>a. db[g] # None
    BY <2>0, NoneAssumption
  <2>1. CASE GroupIsRecycled(db[g], g) /\ RecycleGroup(db[g], g)
    <3>1. FlagTyped'
      BY <1>0, <2>1 DEF RecycleGroup, FlagTyped
    <3>2. SetParent(g, bin[db[g]]) /\ bin' = bin /\ bin[db[g]] # None
      BY <2>1 DEF RecycleGroup
    <3>3. bin[db[g]] \in Groups /\ db[bin[db[g]]] # None
      BY <1>0, <2>0, <3>2 DEF RecordsTyped, Records, BinIsHereOrDeleted, Live
    <3>4. bin[db[g]] \notin Subtree(g)
      BY <2>1, NoneAssumption DEF GroupIsRecycled, HasChild
    <3> QED BY <1>0, <2>0, <3>1, <3>2, <3>3, <3>4, SetParentKeeps, SetParentRecords
  <2>2. ASSUME NEW b \in Groups, RecycleGroupIntoNew(db[g], g, b)
        PROVE  TreeInv' /\ RecordsTyped' /\ Records' /\ FlagTyped'
    <3>1. FlagTyped'
      BY <1>0, <2>2 DEF RecycleGroupIntoNew, FlagTyped
    <3> QED BY <2>0, <2>2, <3>1, RecycleGroupIntoNewKeeps, RecycleGroupIntoNewRecords
  <2>3. CASE DestroyGroup(g)
    <3>1. Destroy(db[g], Subtree(g), EntriesBelow(g))
      BY <2>3 DEF DestroyGroup
    <3>2. FlagTyped'
      BY <1>0, <3>1 DEF Destroy, FlagTyped
    <3> QED BY <1>0, <2>0, <2>a, <3>1, <3>2, DestroySubtreeKeeps
  <2> QED BY <1>8, <2>1, <2>2, <2>3 DEF DeleteGroup
<1>9. ASSUME NEW d \in Databases, EmptyRecycleBin(d)
      PROVE  TreeInv' /\ RecordsTyped' /\ Records' /\ FlagTyped'
  <2>1. /\ bin[d] # None /\ db[bin[d]] = d
        /\ Destroy(d, Subtree(bin[d]) \ {bin[d]}, EntriesBelow(bin[d]))
    BY <1>9 DEF EmptyRecycleBin
  <2>2. bin[d] \in Groups
    BY <1>0, <2>1 DEF RecordsTyped
  <2>3. FlagTyped'
    BY <1>0, <2>1 DEF Destroy, FlagTyped
  <2>4. db[bin[d]] # None
    BY <2>1, NoneAssumption
  <2> QED BY <1>0, <2>1, <2>2, <2>3, <2>4, DestroySubtreeKeeps
<1> QED BY <1>1, <1>2, <1>3, <1>4, <1>5, <1>6, <1>7, <1>8, <1>9 DEF Next

LEMMA StutterKeeps ==
  ASSUME IInv, UNCHANGED vars
  PROVE  IInv'
<1>0. TreeInv /\ RecordsTyped /\ Records /\ FlagTyped
  BY IInvParts
<1>1. TreeInv'
  BY <1>0 DEF vars, tree, TreeInv, TreeTyped, ListsAgree, DatabaseAgrees, NoCycles, RootsOnTop, Placed
<1>2. RecordsTyped' /\ Records'
  BY <1>0 DEF vars, tree, RecordsTyped, Records, UsedIsKnown, GoneIsRecorded, BinIsHereOrDeleted,
              Live, Placed, DatabaseOf, Contents
<1>3. FlagTyped'
  BY <1>0 DEF vars, FlagTyped
<1> QED BY <1>1, <1>2, <1>3 DEF IInv, TypeOK, TreeInv, TreeTyped, RecordsTyped, Records, FlagTyped

LEMMA Inductive == Spec => []IInv
<1>1. Init => IInv
  BY InitEstablishes
<1>2. IInv /\ [Next]_vars => IInv'
  BY NextKeeps, StutterKeeps
<1> QED BY <1>1, <1>2, PTL DEF Spec

\* A group without a parent is a root: no step leaves a living group without
\* a parent that had one.
LEMMA OnlyRootsKeeps ==
  ASSUME IInv, IInv', OnlyRootsOnTop, [Next]_vars
  PROVE  OnlyRootsOnTop'
<1> USE DEF IInv, TreeInv
<1>1. SUFFICES ASSUME NEW x \in Groups, db'[x] # None, parent'[x] = None
               PROVE  db[x] # None /\ parent[x] = None
  BY DEF OnlyRootsOnTop, RootsOnTop, Live
<1>2. ASSUME NEW g \in Groups, NEW p \in Groups, p \in Live,
             parent' = [parent EXCEPT ![g] = p], parent[g] # None,
             db' = DatabasesAfterMove(g, p)
      PROVE  db[x] # None /\ parent[x] = None
  <2>1. x # g /\ parent[x] = None
    BY <1>1, <1>2, NoneAssumption DEF TreeTyped
  <2>2. x \notin Subtree(g)
    BY <2>1, SubtreeParents, SubtreeClosed, NoneAssumption
  <2> QED BY <1>1, <1>2, <2>1, <2>2 DEF DatabasesAfterMove
<1>3. ASSUME NEW gs \in SUBSET Groups,
             parent' = [g \in Groups |-> IF g \in gs THEN None ELSE parent[g]],
             db' = [g \in Groups |-> IF g \in gs THEN None ELSE db[g]]
      PROVE  db[x] # None /\ parent[x] = None
  BY <1>1, <1>3
<1>4. ASSUME parent' = parent, db' = db
      PROVE  db[x] # None /\ parent[x] = None
  BY <1>1, <1>4
<1>5. CASE \E g, p \in Groups : CreateGroup(g, p)
  BY <1>1, <1>5, NoneAssumption DEF CreateGroup, AddGroup, TreeTyped
<1>6. CASE \E e \in Entries, g \in Groups : CreateEntry(e, g)
  BY <1>4, <1>6 DEF CreateEntry
<1>7. CASE \E g, p \in Groups : DropGroup(g, p)
  BY <1>2, <1>7 DEF DropGroup, SetParent
<1>8. ASSUME NEW g \in Groups, NEW p \in Groups,
             NEW cg \in Injection(Subtree(g), Fresh(Groups)),
             NEW ce \in Injection(EntriesBelow(g), Fresh(Entries)),
             CopyGroup(g, p, cg, ce)
      PROVE  db[x] # None /\ parent[x] = None
  <2>1. /\ parent' = [y \in Groups |-> IF y = cg[g] THEN p
                       ELSE IF y \in Range(cg) THEN cg[parent[AntiFunction(cg)[y]]]
                       ELSE parent[y]]
        /\ db' = [y \in Groups |-> IF y \in Range(cg) THEN db[p] ELSE db[y]]
    BY <1>8 DEF CopyGroup
  <2>2. /\ Range(cg) = {cg[y] : y \in Subtree(g)}
        /\ \A y \in Subtree(g) : AntiFunction(cg)[cg[y]] = y /\ cg[y] \in Groups
        /\ g \in Subtree(g)
    BY InverseOfInjection, FreshIsOut, SubtreeClosed
  <2>3. x \notin Range(cg)
    <3>1. SUFFICES ASSUME NEW y \in Subtree(g), x = cg[y] PROVE FALSE
      BY <2>2
    <3>2. CASE y = g
      BY <1>1, <2>1, <3>1, <3>2, NoneAssumption
    <3>3. CASE y # g
      <4>1. parent[y] \in Subtree(g)
        BY <3>3, SubtreeParents
      <4>2. parent'[x] \in Groups
        BY <2>1, <2>2, <3>1, <4>1, <1>1
      <4> QED BY <4>2, <1>1, NoneAssumption
    <3> QED BY <3>2, <3>3
  <2> QED BY <1>1, <2>1, <2>2, <2>3
<1>9. CASE \E e \in Entries, g \in Groups : DropEntry(e, g)
  BY <1>4, <1>9 DEF DropEntry, SetGroup
<1>10. CASE \E d \in Databases : ToggleRecycleBin(d)
  BY <1>4, <1>10 DEF ToggleRecycleBin, tree
<1>11. ASSUME NEW d \in Databases, NEW es \in SUBSET Entries, NEW e \in Entries,
              DeleteEntries(d, es, e)
       PROVE  db[x] # None /\ parent[x] = None
  <2>1. CASE RecycleEntries(d, es)
    BY <1>4, <2>1 DEF RecycleEntries, SetGroup
  <2>2. ASSUME NEW b \in Groups, RecycleEntriesIntoNew(d, es, b)
        PROVE  db[x] # None /\ parent[x] = None
    <3>1. /\ parent' = [parent EXCEPT ![b] = Root[d]]
          /\ db' = [db EXCEPT ![b] = db[Root[d]]]
      BY <2>2 DEF RecycleEntriesIntoNew, AddGroup
    <3> QED BY <1>1, <3>1, RootAssumption, NoneAssumption DEF TreeTyped
  <2>3. CASE Destroy(d, {}, es)
    <3>1. /\ parent' = [g \in Groups |-> IF g \in {} THEN None ELSE parent[g]]
          /\ db' = [g \in Groups |-> IF g \in {} THEN None ELSE db[g]]
      BY <2>3 DEF Destroy
    <3> QED BY <1>1, <3>1
  <2> QED BY <1>11, <2>1, <2>2, <2>3 DEF DeleteEntries
<1>12. ASSUME NEW g \in Groups, DeleteGroup(g)
       PROVE  db[x] # None /\ parent[x] = None
  <2>0. db[g] \in Databases /\ parent[g] # None
    BY <1>12 DEF DeleteGroup, Live, TreeTyped
  <2>1. CASE RecycleGroup(db[g], g)
    <3>1. bin[db[g]] \in Live
      BY <2>0, <2>1 DEF RecycleGroup, BinIsHereOrDeleted
    <3> QED BY <1>2, <2>0, <2>1, <3>1 DEF RecycleGroup, SetParent, Live
  <2>2. ASSUME NEW b \in Groups, RecycleGroupIntoNew(db[g], g, b)
        PROVE  db[x] # None /\ parent[x] = None
    <3>1. /\ parent' = [parent EXCEPT ![b] = Root[db[g]], ![g] = b]
          /\ db' = [db EXCEPT ![b] = db[g]]
      BY <2>2 DEF RecycleGroupIntoNew
    <3> QED BY <1>1, <2>0, <3>1, RootAssumption, NoneAssumption DEF TreeTyped
  <2>3. CASE DestroyGroup(g)
    BY <1>3, <2>3, SubtreeClosed DEF DestroyGroup, Destroy
  <2> QED BY <1>12, <2>1, <2>2, <2>3 DEF DeleteGroup
<1>13. ASSUME NEW d \in Databases, EmptyRecycleBin(d)
       PROVE  db[x] # None /\ parent[x] = None
  <2>1. bin[d] \in Groups
    BY <1>13 DEF EmptyRecycleBin, TypeOK
  <2> QED BY <1>3, <1>13, <2>1, SubtreeClosed DEF EmptyRecycleBin, Destroy
<1>14. CASE UNCHANGED vars
  BY <1>4, <1>14 DEF vars, tree
<1> QED BY <1>5, <1>6, <1>7, <1>8, <1>9, <1>10, <1>11, <1>12, <1>13, <1>14 DEF Next

LEMMA InitOnlyRoots == Init => OnlyRootsOnTop
  BY RootAssumption, NoneAssumption DEF Init, OnlyRootsOnTop, Live

----------------------------------------------------------------------------
(* Theorems. *)

\* Type correctness of the groups, entries, bins and records.
THEOREM TreeTypeCorrect == Spec => []TypeOK
<1>1. IInv => TypeOK
  BY DEF IInv
<1> QED BY <1>1, Inductive, PTL

\* Parent pointers and lists agree after every operation, in every number of
\* databases.
THEOREM ListsAlwaysAgree == Spec => []ListsAgree
<1>1. IInv => ListsAgree
  BY DEF IInv, TreeInv
<1> QED BY <1>1, Inductive, PTL

\* Every group and entry in a tree knows the database of that tree.
THEOREM DatabasesAlwaysAgree == Spec => []DatabaseAgrees
<1>1. IInv => DatabaseAgrees
  BY DEF IInv, TreeInv
<1> QED BY <1>1, Inductive, PTL

\* No sequence of creating, dragging, copying, recycling and deleting makes a
\* cycle of groups or cuts a group off its root.
THEOREM EverythingHangsOnARoot == Spec => []HangsOnARoot
<1>1. IInv /\ OnlyRootsOnTop /\ [Next]_vars /\ IInv' => OnlyRootsOnTop'
  BY OnlyRootsKeeps
<1>2. IInv /\ OnlyRootsOnTop => HangsOnARoot
  BY DEF IInv, TreeInv, HangsOnARoot
<1> QED BY <1>1, <1>2, Inductive, InitOnlyRoots, PTL DEF Spec

\* What left a database, in whatever way, is among its deleted objects.
THEOREM DeletionsAreRecorded == Spec => []GoneIsRecorded
<1>1. IInv => GoneIsRecorded
  BY DEF IInv
<1> QED BY <1>1, Inductive, PTL

\* A recycle bin is never a dead group, and it is out of its database only
\* after the database recorded its deletion.
THEOREM BinsAreTracked == Spec => []BinIsHereOrDeleted
<1>1. IInv => BinIsHereOrDeleted
  BY DEF IInv
<1> QED BY <1>1, Inductive, PTL

----------------------------------------------------------------------------
(* What is destroyed. *)

\* Where nothing dies and no entry loses its group, nothing is destroyed: it is
\* in some database, by the invariant after the step.
LEMMA NothingDestroyed ==
  ASSUME IInv', Live \subseteq Live', Placed \subseteq Placed', NEW d \in Databases
  PROVE  Destroyed(d) = {}
<1>1. ASSUME NEW g \in Live PROVE \E c \in Databases : g \in Contents(c)'
  <2>1. g \in Groups /\ db'[g] \in Databases
    BY <1>1 DEF Live, IInv, TypeOK
  <2> QED BY <2>1 DEF Contents
<1>2. ASSUME NEW e \in Placed PROVE \E c \in Databases : e \in Contents(c)'
  <2>1. e \in Entries /\ group'[e] # None
    BY <1>2 DEF Placed
  <2>2. group'[e] \in Groups
    BY <2>1 DEF IInv, TypeOK
  <2>3. db'[group'[e]] # None
    BY <2>1 DEF IInv, TreeInv, DatabaseAgrees, Placed
  <2>4. db'[group'[e]] \in Databases
    BY <2>2, <2>3 DEF IInv, TypeOK
  <2> QED BY <2>1, <2>4 DEF Contents, Placed, DatabaseOf
<1>3. Contents(d) \subseteq Live \cup Placed
  BY NoneAssumption DEF Contents, Live
<1> QED BY <1>1, <1>2, <1>3 DEF Destroyed

\* ~Group and ~Entry destroy their own objects and no other.
LEMMA DestroyTakes ==
  ASSUME IInv, IInv', NEW d \in Databases, NEW gs \in SUBSET Groups, NEW es \in SUBSET Entries,
         Destroy(d, gs, es), NEW c \in Databases
  PROVE  Destroyed(c) = Contents(c) \cap (gs \cup es)
<1>1. /\ \A g \in Groups : db'[g] = IF g \in gs THEN None ELSE db[g]
      /\ \A e \in Entries : group'[e] = IF e \in es THEN None ELSE group[e]
  BY DEF Destroy
<1>2. ASSUME NEW x \in gs \cup es, NEW b \in Databases PROVE x \notin Contents(b)'
  BY <1>1, <1>2, NoneAssumption, KindAssumption DEF Contents, Placed
<1>3. ASSUME NEW x \in Contents(c), x \notin gs \cup es
      PROVE  \E b \in Databases : x \in Contents(b)'
  <2>1. CASE x \in Groups /\ db[x] = c
    BY <1>1, <1>3, <2>1 DEF Contents
  <2>2. CASE x \in Placed
    <3>1. x \in Entries /\ group'[x] # None
      BY <1>1, <1>3, <2>2 DEF Placed
    <3>2. group'[x] \in Groups
      BY <3>1 DEF IInv, TypeOK
    <3>3. db'[group'[x]] # None
      BY <3>1 DEF IInv, TreeInv, DatabaseAgrees, Placed
    <3>4. db'[group'[x]] \in Databases
      BY <3>2, <3>3 DEF IInv, TypeOK
    <3> QED BY <3>1, <3>4 DEF Contents, Placed, DatabaseOf
  <2> QED BY <1>3, <2>1, <2>2 DEF Contents
<1> QED BY <1>2, <1>3 DEF Destroyed

\* The groups and entries below a group are in its database and in no other.
LEMMA BelowIsInDatabase ==
  ASSUME IInv, NEW g \in Groups, NEW x \in Subtree(g) \cup EntriesBelow(g), NEW c \in Databases
  PROVE  x \in Contents(c) => c = db[g]
<1>1. TreeTyped /\ ListsAgree /\ DatabaseAgrees
  BY DEF IInv, TreeInv
<1>2. CASE x \in Subtree(g)
  <2>1. x \in Groups /\ db[x] = db[g]
    BY <1>1, <1>2, SubtreeClosed, SubtreeInOneDatabase
  <2> QED BY <2>1, KindAssumption DEF Contents, Placed
<1>3. CASE x \in EntriesBelow(g)
  <2>1. PICK h \in Subtree(g) : x \in entries[h]
    BY <1>3 DEF EntriesBelow
  <2>2. h \in Groups /\ db[h] = db[g]
    BY <1>1, SubtreeClosed, SubtreeInOneDatabase
  <2>3. x \in Entries /\ group[x] = h
    BY <1>1, <2>1, <2>2 DEF TreeTyped, ListsAgree
  <2> QED BY <2>2, <2>3, KindAssumption DEF Contents, DatabaseOf
<1> QED BY <1>2, <1>3

\* Deleting entries for good, as the first of them decides.
LEMMA DeletingEntriesReachesTheBin ==
  ASSUME IInv, IInv', NEW d \in Databases, NEW es \in SUBSET Entries, NEW first \in es,
         es \subseteq {e \in Placed : DatabaseOf(e) = d},
         ~EntryIsRecycled(d, first), Destroy(d, {}, es),
         NEW c \in Databases, binEnabled[c], Destroyed(c) # {}
  PROVE  Destroyed(c) \cap InBin(c) # {}
<1>1. Destroyed(c) = Contents(c) \cap es
  <2>1. {} \in SUBSET Groups
    OBVIOUS
  <2>2. Destroyed(c) = Contents(c) \cap ({} \cup es)
    BY <2>1, DestroyTakes
  <2> QED BY <2>2
<1>2. c = d
  <2>1. PICK x \in es : x \in Contents(c)
    BY <1>1
  <2> QED BY <2>1, KindAssumption DEF Contents
<1>3. bin[d] # None /\ first \in EntriesBelow(bin[d])
  BY <1>2 DEF EntryIsRecycled, HasEntry
<1>4. first \in InBin(d)
  BY <1>3 DEF InBin
<1>5. first \in Contents(d)
  BY DEF Contents
<1> QED BY <1>1, <1>2, <1>4, <1>5

\* Deleting a group for good: it is below the bin, the bin, or above it.
LEMMA DeletingAGroupReachesTheBin ==
  ASSUME IInv, IInv', NEW g \in Live,
         ~GroupIsRecycled(db[g], g), DestroyGroup(g),
         NEW c \in Databases, binEnabled[c], Destroyed(c) # {}
  PROVE  Destroyed(c) \cap InBin(c) # {}
<1>1. g \in Groups /\ db[g] \in Databases
  BY DEF Live, IInv, TypeOK
<1>2. Subtree(g) \in SUBSET Groups /\ EntriesBelow(g) \in SUBSET Entries
  <2>1. Subtree(g) \subseteq Groups
    BY <1>1, SubtreeClosed
  <2> QED BY <2>1 DEF EntriesBelow, IInv, TypeOK
<1>3. Destroyed(c) = Contents(c) \cap (Subtree(g) \cup EntriesBelow(g))
  <2>1. PICK d \in Databases, gs \in SUBSET Groups, es \in SUBSET Entries :
          d = db[g] /\ gs = Subtree(g) /\ es = EntriesBelow(g)
    BY <1>1, <1>2
  <2>2. Destroy(d, gs, es)
    BY <2>1 DEF DestroyGroup
  <2>3. Destroyed(c) = Contents(c) \cap (gs \cup es)
    BY <2>2, DestroyTakes
  <2> QED BY <2>1, <2>3
<1>4. c = db[g]
  <2>1. PICK x \in Subtree(g) \cup EntriesBelow(g) : x \in Contents(c)
    BY <1>3
  <2> QED BY <1>1, <2>1, BelowIsInDatabase
<1>5. bin[c] \in Groups \cup {None}
  BY DEF IInv, TypeOK
<1>6. ASSUME NEW h \in Subtree(g), db[h] = c, h \in Subtree(bin[c]), bin[c] # None
      PROVE  Destroyed(c) \cap InBin(c) # {}
  <2>1. h \in Contents(c) /\ h \in InBin(c)
    BY <1>2, <1>6 DEF Contents, InBin
  <2> QED BY <1>3, <2>1
<1>7. g \in Subtree(g) /\ db[g] = c
  BY <1>1, <1>4, SubtreeClosed
<1>8. CASE HasChild(bin[c], g)
  BY <1>6, <1>7, <1>8 DEF HasChild
<1>9. CASE g = bin[c]
  BY <1>1, <1>6, <1>7, <1>9, NoneAssumption
<1>10. CASE HasChild(g, bin[c])
  <2>1. bin[c] \in Subtree(g)
    BY <1>10 DEF HasChild
  <2>2. bin[c] \in Groups /\ bin[c] # None
    BY <1>2, <2>1, NoneAssumption
  <2>3. bin[c] \in Subtree(bin[c])
    BY <2>2, SubtreeClosed
  <2>4. db[bin[c]] = c
    BY <1>1, <1>4, <2>1, SubtreeInOneDatabase DEF IInv, TreeInv
  <2> QED BY <1>6, <2>1, <2>2, <2>3, <2>4
<1> QED BY <1>4, <1>8, <1>9, <1>10 DEF GroupIsRecycled

\* Emptying the bin destroys only what is in it.
LEMMA EmptyingReachesTheBin ==
  ASSUME IInv, IInv', NEW d \in Databases, EmptyRecycleBin(d),
         NEW c \in Databases, Destroyed(c) # {}
  PROVE  Destroyed(c) \cap InBin(c) # {}
<1>1. /\ bin[d] # None /\ db[bin[d]] = d
      /\ Destroy(d, Subtree(bin[d]) \ {bin[d]}, EntriesBelow(bin[d]))
  BY DEF EmptyRecycleBin
<1>2. PICK b \in Groups : b = bin[d]
  BY <1>1 DEF IInv, TypeOK
<1>3. Subtree(b) \ {b} \in SUBSET Groups /\ EntriesBelow(b) \in SUBSET Entries
  <2>1. Subtree(b) \subseteq Groups
    BY SubtreeClosed
  <2> QED BY <2>1 DEF EntriesBelow, IInv, TypeOK
<1>4. Destroyed(c) = Contents(c) \cap ((Subtree(b) \ {b}) \cup EntriesBelow(b))
  <2>1. PICK gs \in SUBSET Groups, es \in SUBSET Entries :
          gs = Subtree(b) \ {b} /\ es = EntriesBelow(b)
    BY <1>3
  <2>2. Destroy(d, gs, es)
    BY <1>1, <1>2, <2>1
  <2>3. Destroyed(c) = Contents(c) \cap (gs \cup es)
    BY <2>2, DestroyTakes
  <2> QED BY <2>1, <2>3
<1>5. PICK x \in Destroyed(c) : TRUE
  OBVIOUS
<1>6. x \in Subtree(b) \cup EntriesBelow(b) /\ x \in Contents(c)
  BY <1>4, <1>5
<1>7. c = d
  BY <1>1, <1>2, <1>6, BelowIsInDatabase
<1>8. x \in InBin(c)
  BY <1>1, <1>2, <1>6, <1>7 DEF InBin
<1> QED BY <1>5, <1>8

\* With the recycle bin enabled, nothing is destroyed unless something of the
\* bin is destroyed with it: in every step, of every database.
THEOREM NothingSkipsTheBin == Spec => DestructionReachesTheBin
<1>1. ASSUME IInv, IInv', [Next]_vars, NEW c \in Databases, binEnabled[c], Destroyed(c) # {}
      PROVE  Destroyed(c) \cap InBin(c) # {}
  <2>0. ASSUME Live \subseteq Live', Placed \subseteq Placed' PROVE FALSE
    BY <1>1, <2>0, NothingDestroyed
  <2>t. /\ db \in [Groups -> Databases \cup {None}] /\ group \in [Entries -> Groups \cup {None}]
        /\ children \in [Groups -> SUBSET Groups]
    BY <1>1 DEF IInv, TypeOK
  <2>1. ASSUME NEW g \in Groups, NEW p \in Groups, CreateGroup(g, p) PROVE FALSE
    BY <2>0, <2>1, <2>t DEF CreateGroup, AddGroup, Live, Placed
  <2>2. ASSUME NEW e \in Entries, NEW g \in Groups, CreateEntry(e, g) PROVE FALSE
    BY <2>0, <2>2, <2>t, NoneAssumption DEF CreateEntry, Live, Placed
  <2>3. ASSUME NEW g \in Groups, NEW p \in Live, SetParent(g, p) PROVE FALSE
    BY <2>0, <2>3, <2>t DEF SetParent, DatabasesAfterMove, Live, Placed
  <2>4. ASSUME NEW d \in Databases, NEW es, NEW g \in Groups, SetGroup(d, es, g) PROVE FALSE
    BY <2>0, <2>4, <2>t, NoneAssumption DEF SetGroup, Live, Placed
  <2>5. ASSUME NEW g \in Groups, NEW p \in Groups,
               NEW cg \in Injection(Subtree(g), Fresh(Groups)),
               NEW ce \in Injection(EntriesBelow(g), Fresh(Entries)),
               CopyGroup(g, p, cg, ce)
        PROVE  FALSE
    <3>1. Live \subseteq Live'
      BY <2>5, <2>t DEF CopyGroup, Live
    <3>2. ASSUME NEW e \in Placed PROVE e \in Placed'
      <4>1. e \notin Fresh(Entries)
        BY <1>1, <3>2, FreshEntryIsOut DEF Placed
      <4>2. e \notin Range(ce)
        BY <2>5, <4>1 DEF Injection, Range
      <4>3. group'[e] = group[e]
        BY <2>5, <3>2, <4>2 DEF CopyGroup, Placed
      <4> QED BY <3>2, <4>3 DEF Placed
    <3> QED BY <2>0, <3>1, <3>2
  <2>6. ASSUME NEW d \in Databases, NEW es \in SUBSET Entries, NEW e \in Entries,
               DeleteEntries(d, es, e)
        PROVE  Destroyed(c) \cap InBin(c) # {}
    <3>1. ~RecycleEntries(d, es)
      BY <1>1, <2>4 DEF RecycleEntries, IInv, TypeOK
    <3>2. ASSUME NEW b \in Groups, RecycleEntriesIntoNew(d, es, b) PROVE FALSE
      <4>1. d = db[Root[d]] /\ Root[d] \in Groups
        BY <1>1, RootAssumption DEF IInv, TreeInv, RootsOnTop
      <4> QED
        BY <2>0, <2>t, <3>2, <4>1, NoneAssumption
        DEF RecycleEntriesIntoNew, AddGroup, Live, Placed
    <3>3. /\ es \subseteq {f \in Placed : DatabaseOf(f) = d} /\ e \in es
          /\ ~EntryIsRecycled(d, e) /\ Destroy(d, {}, es)
      BY <2>6, <3>1, <3>2 DEF DeleteEntries
    <3> QED BY <1>1, <3>3, DeletingEntriesReachesTheBin
  <2>7. ASSUME NEW g \in Groups, DeleteGroup(g)
        PROVE  Destroyed(c) \cap InBin(c) # {}
    <3>1. g \in Live /\ db[g] \in Databases
      BY <2>t, <2>7 DEF DeleteGroup, Live
    <3>2. ~RecycleGroup(db[g], g)
      <4>1. bin[db[g]] # None => bin[db[g]] \in Live
        BY <1>1, <3>1 DEF IInv, BinIsHereOrDeleted
      <4> QED BY <2>3, <4>1 DEF RecycleGroup
    <3>3. ASSUME NEW b \in Groups, RecycleGroupIntoNew(db[g], g, b) PROVE FALSE
      BY <2>0, <2>t, <3>1, <3>3, NoneAssumption DEF RecycleGroupIntoNew, Live, Placed
    <3>4. ~GroupIsRecycled(db[g], g) /\ DestroyGroup(g)
      BY <2>7, <3>2, <3>3 DEF DeleteGroup
    <3> QED BY <1>1, <3>1, <3>4, DeletingAGroupReachesTheBin
  <2>8. ASSUME NEW d \in Databases, EmptyRecycleBin(d)
        PROVE  Destroyed(c) \cap InBin(c) # {}
    BY <1>1, <2>8, EmptyingReachesTheBin
  <2>9. ASSUME UNCHANGED tree PROVE FALSE
    BY <2>0, <2>9 DEF tree, Live, Placed
  <2>10. ASSUME \E d \in Databases : ToggleRecycleBin(d) PROVE FALSE
    BY <2>9, <2>10 DEF ToggleRecycleBin
  <2>11. ASSUME NEW g \in Groups, NEW p \in Groups, DropGroup(g, p) PROVE FALSE
    BY <2>3, <2>11 DEF DropGroup
  <2>12. ASSUME NEW e \in Entries, NEW g \in Groups, DropEntry(e, g) PROVE FALSE
    <3>1. DatabaseOf(e) \in Databases
      BY <1>1, <2>12, <2>t DEF DropEntry, DatabaseOf, IInv, TreeInv, DatabaseAgrees, Placed
    <3> QED BY <2>4, <2>12, <3>1 DEF DropEntry
  <2>13. CASE UNCHANGED vars
    BY <2>9, <2>13 DEF vars
  <2> QED
    BY <1>1, <2>1, <2>2, <2>5, <2>6, <2>7, <2>8, <2>10, <2>11, <2>12, <2>13 DEF Next
<1>2. IInv /\ IInv' /\ [Next]_vars =>
        [\A d \in Databases :
           binEnabled[d] /\ Destroyed(d) # {} => Destroyed(d) \cap InBin(d) # {}]_vars
  BY <1>1
<1> QED BY <1>2, Inductive, PTL DEF Spec, DestructionReachesTheBin
=============================================================================
