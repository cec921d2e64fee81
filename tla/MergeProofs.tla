---------------------------- MODULE MergeProofs ----------------------------
(***************************************************************************)
(* What a merge makes of two copies, for any trees, any edits and any      *)
(* number of groups and entries.                                           *)
(***************************************************************************)
EXTENDS Merge, TLAPS

Trees == [Groups -> Places]

----------------------------------------------------------------------------
(* What is below a group *)

\* Every group of S, and nothing else, would be below g in p: S has each group
\* whose parent is in S, or is g.
Closed(p, g, S) == \A h \in Groups : p[h] \in S \cup {g} => h \in S

LEMMA BelowIsClosed ==
  ASSUME NEW p, NEW g
  PROVE  Below(p, g) \in SUBSET Groups /\ Closed(p, g, Below(p, g))
BY DEF Below, Closed

LEMMA BelowIsLeast ==
  ASSUME NEW p, NEW g, NEW S \in SUBSET Groups, Closed(p, g, S)
  PROVE  Below(p, g) \subseteq S
BY DEF Below, Closed

\* A group is below another one by its parent.
LEMMA BelowByParent ==
  ASSUME NEW p, NEW g, NEW h \in Below(p, g)
  PROVE  p[h] \in Below(p, g) \cup {g}
<1> DEFINE S == {x \in Below(p, g) : p[x] \in Below(p, g) \cup {g}}
<1>1. Below(p, g) \in SUBSET Groups /\ Closed(p, g, Below(p, g))
  BY BelowIsClosed
<1>2. S \in SUBSET Groups /\ Closed(p, g, S)
  BY <1>1 DEF Closed
<1> QED
  BY <1>2, BelowIsLeast

LEMMA BelowIsTransitive ==
  ASSUME NEW p, NEW g, NEW h \in Below(p, g)
  PROVE  Below(p, h) \subseteq Below(p, g)
<1>1. Below(p, g) \in SUBSET Groups /\ Closed(p, g, Below(p, g))
  BY BelowIsClosed
<1>2. Closed(p, h, Below(p, g))
  BY <1>1 DEF Closed
<1> QED
  BY <1>1, <1>2, BelowIsLeast

\* What is below g is a child of g, or below one.
LEMMA BelowByChild ==
  ASSUME NEW p, NEW g, NEW h \in Below(p, g)
  PROVE  \E c \in Groups : p[c] = g /\ (h = c \/ h \in Below(p, c))
<1> DEFINE S == {x \in Groups : \E c \in Groups : p[c] = g /\ (x = c \/ x \in Below(p, c))}
<1>1. S \in SUBSET Groups
  OBVIOUS
<1>2. Closed(p, g, S)
  <2> SUFFICES ASSUME NEW x \in Groups, p[x] \in S \cup {g} PROVE x \in S
    BY DEF Closed
  <2>1. CASE p[x] = g
    BY <2>1
  <2>2. CASE p[x] \in S
    <3>1. PICK c \in Groups : p[c] = g /\ (p[x] = c \/ p[x] \in Below(p, c))
      BY <2>2
    <3>2. x \in Below(p, c)
      BY <3>1, BelowIsClosed DEF Closed
    <3> QED
      BY <3>1, <3>2
  <2> QED
    BY <2>1, <2>2
<1> HIDE DEF S
<1>3. h \in S
  BY <1>1, <1>2, BelowIsLeast
<1> QED
  BY <1>3 DEF S

LEMMA ChildIsBelow ==
  ASSUME NEW p, NEW h \in Groups
  PROVE  h \in Below(p, p[h])
BY BelowIsClosed DEF Closed

\* In a tree the groups of the copy are those below the root.
LEMMA TreeIsBelowRoot ==
  ASSUME NEW p \in Trees, IsTree(p)
  PROVE  \A g \in Groups : p[g] # None <=> g \in Below(p, Root)
<1>1. {g \in Groups : p[g] # None} \in SUBSET Groups
  OBVIOUS
<1>2. Closed(p, Root, {g \in Groups : p[g] # None})
  BY NamesAssumption DEF Closed
<1>3. Below(p, Root) \subseteq {g \in Groups : p[g] # None}
  BY <1>1, <1>2, BelowIsLeast
<1> QED
  BY <1>3 DEF IsTree

LEMMA TreeHasParents ==
  ASSUME NEW p \in Trees, IsTree(p), NEW g \in Groups, p[g] \in Groups
  PROVE  p[p[g]] # None
<1>1. g \in Below(p, Root)
  BY TreeIsBelowRoot, NamesAssumption
<1>2. p[g] \in Below(p, Root) \cup {Root}
  BY <1>1, BelowByParent
<1> QED
  BY <1>2, TreeIsBelowRoot, NamesAssumption

LEMMA TreeHasNoCycle ==
  ASSUME NEW p \in Trees, IsTree(p), NEW g \in Groups
  PROVE  g \notin Below(p, g)
<1> DEFINE S == {h \in Below(p, Root) : h \notin Below(p, h)}
<1>1. \A h \in Groups : p[h] \in {Root, None} => h \notin Below(p, h)
  <2> SUFFICES ASSUME NEW h \in Groups, p[h] \in {Root, None} PROVE h \notin Below(p, h)
    OBVIOUS
  <2>1. Below(p, h) \in SUBSET Groups /\ Closed(p, h, Below(p, h))
    BY BelowIsClosed
  <2>2. Closed(p, h, Below(p, h) \ {h})
    BY <2>1, NamesAssumption DEF Closed
  <2>3. Below(p, h) \subseteq Below(p, h) \ {h}
    BY <2>1, <2>2, BelowIsLeast
  <2> QED
    BY <2>3
<1>2. S \in SUBSET Groups
  BY BelowIsClosed
<1>3. Closed(p, Root, S)
  <2> SUFFICES ASSUME NEW h \in Groups, p[h] \in S \cup {Root} PROVE h \in S
    BY DEF Closed
  <2>1. h \in Below(p, Root)
    BY BelowIsClosed DEF Closed
  <2>2. CASE p[h] = Root
    BY <1>1, <2>1, <2>2
  <2>3. CASE p[h] \in S
    <3> SUFFICES ASSUME h \in Below(p, h) PROVE FALSE
      BY <2>1
    <3> DEFINE m == p[h]
    <3>1. m \notin Below(p, m) /\ m \in Groups
      BY <2>3, <1>2
    <3>2. h \in Below(p, m)
      BY ChildIsBelow
    <3>3. m \in Below(p, h) \cup {h}
      BY BelowByParent
    <3> QED
      BY <3>1, <3>2, <3>3, BelowIsTransitive
  <2> QED
    BY <2>2, <2>3
<1> HIDE DEF S
<1>4. Below(p, Root) \subseteq S
  BY <1>2, <1>3, BelowIsLeast
<1>5. CASE p[g] = None
  BY <1>1, <1>5
<1>6. CASE p[g] # None
  BY <1>4, <1>6, TreeIsBelowRoot DEF S
<1> QED
  BY <1>5, <1>6

----------------------------------------------------------------------------
(* Moving and adding a group *)

\* A group that is moved to a group of the tree, or added to it, keeps the tree
\* unless it makes a cycle.
LEMMA MoveKeepsTree ==
  ASSUME NEW p \in Trees, IsTree(p), NEW k \in Groups,
         NEW q \in Groups \cup {Root}, q \in Groups => p[q] # None \/ q = k,
         NEW r, r = [p EXCEPT ![k] = q], k \notin Below(r, k)
  PROVE  r \in Trees /\ IsTree(r)
<1>1. r \in Trees /\ r[k] = q /\ \A h \in Groups \ {k} : r[h] = p[h]
  BY DEF Trees, Places
<1>2. q # k
  BY <1>1, ChildIsBelow
<1> DEFINE R == Below(r, Root)
           B == Below(r, k)
<1>3. R \in SUBSET Groups /\ Closed(r, Root, R) /\ B \in SUBSET Groups /\ Closed(r, k, B)
  BY BelowIsClosed
<1>4. Closed(p, Root, R \cup B \cup {k})
  BY <1>1, <1>3 DEF Closed
<1> HIDE DEF R, B
<1>5. Below(p, Root) \subseteq R \cup B \cup {k}
  BY <1>3, <1>4, BelowIsLeast
<1>6. q \notin B
  BY <1>1, <1>3 DEF Closed, B
<1>7. q \in R \cup {Root}
  BY <1>2, <1>5, <1>6, TreeIsBelowRoot
<1>8. k \in R
  BY <1>1, <1>3, <1>7 DEF Closed
<1>9. Closed(p, Root, R)
  BY <1>1, <1>3, <1>8 DEF Closed
<1>10. Below(p, Root) \subseteq R
  BY <1>3, <1>9, BelowIsLeast
<1>11. IsTree(r)
  BY <1>1, <1>8, <1>10, TreeIsBelowRoot DEF IsTree, R
<1> QED
  BY <1>1, <1>11

\* A group that is dropped outside itself makes no cycle,
LEMMA MoveOutsideMakesNoCycle ==
  ASSUME NEW p \in Trees, IsTree(p), NEW k \in Groups,
         NEW q \in Groups \cup {Root}, q \notin Below(p, k) \cup {k}
  PROVE  k \notin Below([p EXCEPT ![k] = q], k)
<1> DEFINE r == [p EXCEPT ![k] = q]
<1>1. r[k] = q /\ \A h \in Groups \ {k} : r[h] = p[h]
  BY DEF Trees, Places
<1>2. Below(p, k) \in SUBSET Groups /\ Closed(p, k, Below(p, k))
  BY BelowIsClosed
<1> HIDE DEF r
<1>3. Closed(r, k, Below(p, k))
  BY <1>1, <1>2 DEF Closed
<1>4. Below(r, k) \subseteq Below(p, k)
  BY <1>2, <1>3, BelowIsLeast
<1> QED
  BY <1>4, TreeHasNoCycle DEF r

\* nor does a group that was not there.
LEMMA NewMakesNoCycle ==
  ASSUME NEW p \in Trees, IsTree(p), NEW k \in Groups, p[k] = None,
         NEW q \in Groups \cup {Root}, q # k
  PROVE  k \notin Below([p EXCEPT ![k] = q], k)
<1> DEFINE r == [p EXCEPT ![k] = q]
<1>1. r[k] = q /\ \A h \in Groups \ {k} : r[h] = p[h]
  BY DEF Trees, Places
<1>2. \A h \in Groups : p[h] # k
  BY TreeHasParents
<1> HIDE DEF r
<1>3. Closed(r, k, {})
  BY <1>1, <1>2 DEF Closed
<1>4. Below(r, k) \subseteq {}
  BY <1>3, BelowIsLeast
<1> QED
  BY <1>4 DEF r

----------------------------------------------------------------------------
(* The walk: the calls of Group::merge that run, over the tree p with the  *)
(* entries in w                                                            *)

\* The groups that the calls s have still to take.
PendingIn(s, p) ==
  {k \in Groups : \E i \in DOMAIN s : \E c \in s[i].children : k = c \/ k \in Below(p, c)}

PendingEntriesIn(s, p, w) ==
  {e \in Entries : w[e] \in PendingIn(s, p) \/ \E i \in DOMAIN s : e \in s[i].entries}

\* The calls are for a group, its parent, and so on up to the root; what they
\* have still to do lies in their groups and was not done before.
WalkOK(s, p, w) ==
  /\ \A i \in DOMAIN s :
       /\ \A c \in s[i].children : p[c] = s[i].group
       /\ \A e \in s[i].entries : w[e] = s[i].group
       /\ s[i].group \notin PendingIn(s, p)
       /\ s[i].group # Root => \E j \in DOMAIN s : i < j /\ s[j].group = p[s[i].group]
  /\ \A i, j \in DOMAIN s : i < j => s[i].group \in Below(p, s[j].group)

LEMMA StackFacts ==
  ASSUME NEW s \in Seq(Calls), s # <<>>
  PROVE  /\ Len(s) \in Nat \ {0} /\ DOMAIN s = 1..Len(s) /\ 1 \in DOMAIN s
         /\ Head(s) = s[1] /\ Head(s) \in Calls
         /\ Tail(s) \in Seq(Calls) /\ Len(Tail(s)) = Len(s) - 1
         /\ DOMAIN Tail(s) = 1..(Len(s) - 1)
         /\ \A i \in 1..(Len(s) - 1) : Tail(s)[i] = s[i + 1]
<1>1. Len(s) \in Nat /\ DOMAIN s = 1..Len(s) /\ Len(s) # 0
  OBVIOUS
<1>2. 1 \in DOMAIN s
  BY <1>1
<1> QED
  BY <1>1, <1>2

LEMMA ReplacedFacts ==
  ASSUME NEW s \in Seq(Calls), s # <<>>, NEW a \in Calls, NEW t, t = <<a>> \o Tail(s)
  PROVE  /\ t \in Seq(Calls) /\ t # <<>> /\ DOMAIN t = DOMAIN s /\ t[1] = a
         /\ \A i \in DOMAIN s : i # 1 => t[i] = s[i]
<1>1. /\ Len(s) \in Nat \ {0} /\ DOMAIN s = 1..Len(s) /\ Tail(s) \in Seq(Calls)
      /\ Len(Tail(s)) = Len(s) - 1 /\ \A i \in 1..(Len(s) - 1) : Tail(s)[i] = s[i + 1]
  BY StackFacts
<1> DEFINE r == Tail(s)
<1> HIDE DEF r
<1>2. /\ t \in Seq(Calls) /\ Len(t) = 1 + Len(r) /\ t[1] = a
      /\ \A i \in 2..(1 + Len(r)) : t[i] = r[i - 1]
  <2>1. r \in Seq(Calls) /\ <<a>> \in Seq(Calls) /\ Len(<<a>>) = 1 /\ <<a>>[1] = a
    BY <1>1 DEF r
  <2> QED
    BY <2>1 DEF r
<1>3. Len(t) = Len(s) /\ DOMAIN t = 1..Len(t)
  BY <1>1, <1>2 DEF r
<1>4. \A i \in DOMAIN s : i # 1 => i \in 2..(1 + Len(r)) /\ i - 1 \in 1..(Len(s) - 1) /\ (i - 1) + 1 = i
  BY <1>1 DEF r
<1>5. \A i \in DOMAIN s : i # 1 => t[i] = s[i]
  BY <1>1, <1>2, <1>4 DEF r
<1> QED
  BY <1>1, <1>2, <1>3, <1>5

LEMMA PushedFacts ==
  ASSUME NEW s \in Seq(Calls), s # <<>>, NEW a \in Calls, NEW b \in Calls,
         NEW t, t = <<a, b>> \o Tail(s)
  PROVE  /\ t \in Seq(Calls) /\ t # <<>> /\ t[1] = a /\ t[2] = b
         /\ 1 \in DOMAIN t /\ 2 \in DOMAIN t
         /\ \A i \in DOMAIN t : i \in Nat /\ (i # 1 => i - 1 \in DOMAIN s /\ i = (i - 1) + 1)
         /\ \A i \in DOMAIN s : i \in Nat /\ i + 1 \in DOMAIN t /\ i + 1 # 1
         /\ \A i \in DOMAIN s : i # 1 => t[i + 1] = s[i]
<1>1. /\ Len(s) \in Nat \ {0} /\ DOMAIN s = 1..Len(s) /\ Tail(s) \in Seq(Calls)
      /\ Len(Tail(s)) = Len(s) - 1 /\ \A i \in 1..(Len(s) - 1) : Tail(s)[i] = s[i + 1]
  BY StackFacts
<1> DEFINE r == Tail(s)
<1> HIDE DEF r
<1>2. /\ t \in Seq(Calls) /\ Len(t) = 2 + Len(r) /\ t[1] = a /\ t[2] = b
      /\ \A i \in 3..(2 + Len(r)) : t[i] = r[i - 2]
  <2>1. /\ r \in Seq(Calls) /\ <<a, b>> \in Seq(Calls) /\ Len(<<a, b>>) = 2
        /\ <<a, b>>[1] = a /\ <<a, b>>[2] = b
    BY <1>1 DEF r
  <2> QED
    BY <2>1 DEF r
<1>3. Len(t) = Len(s) + 1 /\ DOMAIN t = 1..Len(t)
  BY <1>1, <1>2 DEF r
<1>4. \A i \in DOMAIN s : i # 1 => /\ i + 1 \in 3..(2 + Len(r)) /\ (i + 1) - 2 = i - 1
                                   /\ i - 1 \in 1..(Len(s) - 1) /\ (i - 1) + 1 = i
  BY <1>1 DEF r
<1>5. \A i \in DOMAIN s : i # 1 => t[i + 1] = s[i]
  BY <1>1, <1>2, <1>4 DEF r
<1>6. \A i \in DOMAIN t : i \in Nat /\ (i # 1 => i - 1 \in DOMAIN s /\ i = (i - 1) + 1)
  BY <1>1, <1>3
<1>7. \A i \in DOMAIN s : i \in Nat /\ i + 1 \in DOMAIN t /\ i + 1 # 1
  BY <1>1, <1>3
<1>8. 1 \in DOMAIN t /\ 2 \in DOMAIN t /\ t # <<>>
  BY <1>1, <1>3
<1> QED
  BY <1>1, <1>2, <1>5, <1>6, <1>7, <1>8

\* t is the walk s after its innermost call, which had nothing left to do, returned.
Popped(s, t) ==
  /\ \A i \in DOMAIN s : i \in Nat \ {0} /\ (i # 1 => i - 1 \in DOMAIN t /\ t[i - 1] = s[i])
  /\ \A i \in DOMAIN t : i \in Nat \ {0} /\ i + 1 \in DOMAIN s /\ t[i] = s[i + 1]
  /\ s[1].entries = {} /\ s[1].children = {}

LEMMA TailIsPopped ==
  ASSUME NEW s \in Seq(Calls), s # <<>>, Head(s).entries = {}, Head(s).children = {},
         NEW t, t = Tail(s)
  PROVE  t \in Seq(Calls) /\ Popped(s, t)
<1>1. /\ t \in Seq(Calls) /\ Head(s) = s[1]
      /\ \A i \in DOMAIN t : i \in Nat \ {0} /\ i + 1 \in DOMAIN s /\ t[i] = s[i + 1]
  BY StackFacts
<1>2. \A i \in DOMAIN s : i \in Nat \ {0} /\ (i # 1 => i - 1 \in DOMAIN t /\ (i - 1) + 1 = i)
  BY StackFacts
<1>3. \A i \in DOMAIN s : i # 1 => t[i - 1] = s[i]
  BY <1>1, <1>2
<1> QED
  BY <1>1, <1>2, <1>3 DEF Popped

\* A call that has nothing left to do is dropped,
LEMMA PopWalk ==
  ASSUME NEW p, NEW w, NEW s, WalkOK(s, p, w), NEW t, Popped(s, t)
  PROVE  /\ WalkOK(t, p, w)
         /\ PendingIn(t, p) = PendingIn(s, p)
         /\ PendingEntriesIn(t, p, w) = PendingEntriesIn(s, p, w)
<1>1. \A i \in DOMAIN t : i \in Nat \ {0} /\ i + 1 \in DOMAIN s /\ t[i] = s[i + 1]
  BY DEF Popped
<1>2. \A i \in DOMAIN s : i \in Nat \ {0} /\ (i # 1 => i - 1 \in DOMAIN t)
  BY DEF Popped
<1>3. /\ \A i \in DOMAIN s : i # 1 => t[i - 1] = s[i]
      /\ s[1].entries = {} /\ s[1].children = {}
  BY DEF Popped
<1>4. PendingIn(t, p) = PendingIn(s, p)
  BY <1>1, <1>2, <1>3 DEF PendingIn
<1>5. PendingEntriesIn(t, p, w) = PendingEntriesIn(s, p, w)
  BY <1>1, <1>2, <1>3, <1>4 DEF PendingEntriesIn
<1>6. WalkOK(t, p, w)
  <2> SUFFICES ASSUME NEW i \in DOMAIN t
               PROVE  /\ \A c \in t[i].children : p[c] = t[i].group
                      /\ \A e \in t[i].entries : w[e] = t[i].group
                      /\ t[i].group \notin PendingIn(t, p)
                      /\ t[i].group # Root =>
                           \E j \in DOMAIN t : i < j /\ t[j].group = p[t[i].group]
                      /\ \A j \in DOMAIN t : i < j => t[i].group \in Below(p, t[j].group)
    BY DEF WalkOK
  <2>1. /\ \A c \in t[i].children : p[c] = t[i].group
        /\ \A e \in t[i].entries : w[e] = t[i].group
        /\ t[i].group \notin PendingIn(t, p)
    BY <1>1, <1>4 DEF WalkOK
  <2>2. ASSUME t[i].group # Root
        PROVE  \E j \in DOMAIN t : i < j /\ t[j].group = p[t[i].group]
    <3>1. PICK j \in DOMAIN s : i + 1 < j /\ s[j].group = p[s[i + 1].group]
      BY <1>1, <2>2 DEF WalkOK
    <3>2. j # 1 /\ i < j - 1
      BY <3>1, <1>1, <1>2
    <3> QED
      BY <1>1, <1>2, <1>3, <3>1, <3>2
  <2>3. ASSUME NEW j \in DOMAIN t, i < j PROVE t[i].group \in Below(p, t[j].group)
    <3>1. i + 1 < j + 1
      BY <1>1, <2>3
    <3> QED
      BY <1>1, <3>1 DEF WalkOK
  <2> QED
    BY <2>1, <2>2, <2>3
<1> QED
  BY <1>4, <1>5, <1>6

\* a group that is taken gets a call for what it holds,
\* t is the walk s after the group k, a child of the innermost call's group, got a
\* call of its own.
Pushed(s, t, k, p, w) ==
  /\ 1 \in DOMAIN s /\ 1 \in DOMAIN t /\ 2 \in DOMAIN t
  /\ \A i \in DOMAIN s : i \in Nat \ {0} /\ i + 1 \in DOMAIN t
  /\ \A i \in DOMAIN t : i \in Nat \ {0} /\ (i # 1 => i - 1 \in DOMAIN s)
  /\ t[1].group = k
  /\ t[1].entries = {e \in Entries : w[e] = k}
  /\ t[1].children = {h \in Groups : p[h] = k}
  /\ k \notin t[2].children
  /\ \A i \in DOMAIN t : i # 1 => /\ t[i].group = s[i - 1].group
                                 /\ t[i].entries = s[i - 1].entries
                                 /\ t[i].children \subseteq s[i - 1].children
  /\ \A i \in DOMAIN s : /\ t[i + 1].group = s[i].group
                         /\ t[i + 1].entries = s[i].entries
                         /\ s[i].children \subseteq t[i + 1].children \cup {k}
  /\ \A i \in DOMAIN s : s[i].children \subseteq Groups

LEMMA PushIsPushed ==
  ASSUME NEW s \in Seq(Calls), s # <<>>, NEW p, NEW w, NEW a \in Calls, NEW b \in Calls,
         NEW k, a.group = k, a.entries = {e \in Entries : w[e] = k},
         a.children = {h \in Groups : p[h] = k},
         b.group = Head(s).group, b.entries = Head(s).entries,
         b.children = Head(s).children \ {k},
         NEW t, t = <<a, b>> \o Tail(s)
  PROVE  Pushed(s, t, k, p, w)
<1>1. /\ t \in Seq(Calls) /\ t # <<>> /\ t[1] = a /\ t[2] = b
      /\ 1 \in DOMAIN t /\ 2 \in DOMAIN t
      /\ \A i \in DOMAIN t : i \in Nat /\ (i # 1 => i - 1 \in DOMAIN s /\ i = (i - 1) + 1)
      /\ \A i \in DOMAIN s : i \in Nat /\ i + 1 \in DOMAIN t /\ i + 1 # 1
      /\ \A i \in DOMAIN s : i # 1 => t[i + 1] = s[i]
  BY PushedFacts
<1>2. 1 \in DOMAIN s /\ Head(s) = s[1]
  BY StackFacts
<1>3. \A i \in DOMAIN s : i \in Nat \ {0}
  OBVIOUS
<1>4. \A i \in DOMAIN t : i \in Nat \ {0}
  BY <1>1
<1>5. \A i \in DOMAIN s : s[i].children \subseteq Groups
  <2>1. \A i \in DOMAIN s : s[i] \in Calls
    OBVIOUS
  <2>2. \A c \in Calls : c.children \subseteq Groups
    BY DEF Calls
  <2> QED
    BY <2>1, <2>2
<1>6. \A i \in DOMAIN s : /\ t[i + 1].group = s[i].group
                         /\ t[i + 1].entries = s[i].entries
                         /\ s[i].children \subseteq t[i + 1].children \cup {k}
                         /\ t[i + 1].children \subseteq s[i].children
  <2> TAKE i \in DOMAIN s
  <2>1. CASE i = 1
    <3>1. t[i + 1] = b /\ s[i] = Head(s)
      BY <2>1, <1>1, <1>2
    <3> QED
      BY <3>1
  <2>2. CASE i # 1
    BY <2>2, <1>1
  <2> QED
    BY <2>1, <2>2
<1>7. \A i \in DOMAIN t : i # 1 => /\ t[i].group = s[i - 1].group
                                  /\ t[i].entries = s[i - 1].entries
                                  /\ t[i].children \subseteq s[i - 1].children
  <2> SUFFICES ASSUME NEW i \in DOMAIN t, i # 1
               PROVE  /\ t[i].group = s[i - 1].group
                      /\ t[i].entries = s[i - 1].entries
                      /\ t[i].children \subseteq s[i - 1].children
    OBVIOUS
  <2>1. i - 1 \in DOMAIN s /\ i = (i - 1) + 1
    BY <1>1
  <2> QED
    BY <2>1, <1>6
<1> QED
  BY <1>1, <1>2, <1>3, <1>4, <1>5, <1>6, <1>7 DEF Pushed

LEMMA PushWalk ==
  ASSUME NEW p \in Trees, IsTree(p), NEW w, NEW s, WalkOK(s, p, w),
         s[1].entries = {}, NEW k \in s[1].children,
         NEW t, Pushed(s, t, k, p, w)
  PROVE  /\ WalkOK(t, p, w)
         /\ k \notin PendingIn(t, p)
         /\ PendingIn(s, p) = PendingIn(t, p) \cup {k}
         /\ PendingEntriesIn(t, p, w) = PendingEntriesIn(s, p, w)
<1> DEFINE g == s[1].group
<1>1. /\ 1 \in DOMAIN s /\ 1 \in DOMAIN t /\ 2 \in DOMAIN t /\ k \in Groups
  BY DEF Pushed
<1>2. /\ \A i \in DOMAIN s : i \in Nat \ {0} /\ i + 1 \in DOMAIN t
      /\ \A i \in DOMAIN t : i \in Nat \ {0} /\ (i # 1 => i - 1 \in DOMAIN s)
  BY DEF Pushed
<1>3. /\ t[1].group = k /\ t[1].entries = {e \in Entries : w[e] = k}
      /\ t[1].children = {h \in Groups : p[h] = k}
      /\ k \notin t[2].children
  BY DEF Pushed
<1>4. \A i \in DOMAIN t : i # 1 => /\ t[i].group = s[i - 1].group
                                   /\ t[i].entries = s[i - 1].entries
                                   /\ t[i].children \subseteq s[i - 1].children
  BY DEF Pushed
<1>5. \A i \in DOMAIN s : /\ t[i + 1].group = s[i].group
                          /\ t[i + 1].entries = s[i].entries
                          /\ s[i].children \subseteq t[i + 1].children \cup {k}
  BY DEF Pushed
<1>6. \A i \in DOMAIN s : s[i].children \subseteq Groups
  BY DEF Pushed
<1>7. p[k] = g /\ g \notin PendingIn(s, p)
  BY <1>1 DEF WalkOK
<1>15. t[2].group = g
  <2>1. 2 # 1 /\ 2 - 1 = 1
    OBVIOUS
  <2> QED
    BY <2>1, <1>1, <1>4
<1>8. k \in Below(p, g) /\ k \notin Below(p, k)
  BY <1>1, <1>7, ChildIsBelow, TreeHasNoCycle
<1> HIDE DEF g
<1>9. PendingIn(s, p) \subseteq PendingIn(t, p) \cup {k}
  <2> SUFFICES ASSUME NEW x \in PendingIn(s, p), x # k PROVE x \in PendingIn(t, p)
    OBVIOUS
  <2>1. PICK i \in DOMAIN s : \E c \in s[i].children : x = c \/ x \in Below(p, c)
    BY DEF PendingIn
  <2>2. PICK c \in s[i].children : x = c \/ x \in Below(p, c)
    BY <2>1
  <2>3. CASE c # k
    <3>1. c \in t[i + 1].children /\ i + 1 \in DOMAIN t
      BY <1>2, <1>5, <2>3
    <3> QED
      BY <2>2, <3>1 DEF PendingIn
  <2>4. CASE c = k
    <3>1. PICK d \in Groups : p[d] = k /\ (x = d \/ x \in Below(p, d))
      BY <2>2, <2>4, BelowByChild
    <3>2. d \in t[1].children
      BY <3>1, <1>2, <1>3
    <3> QED
      BY <3>1, <3>2, <1>1 DEF PendingIn
  <2> QED
    BY <2>3, <2>4
<1>10. k \in PendingIn(s, p)
  BY <1>1 DEF PendingIn
<1>11. PendingIn(t, p) \subseteq PendingIn(s, p)
  <2> SUFFICES ASSUME NEW x \in PendingIn(t, p) PROVE x \in PendingIn(s, p)
    OBVIOUS
  <2>1. PICK i \in DOMAIN t : \E c \in t[i].children : x = c \/ x \in Below(p, c)
    BY DEF PendingIn
  <2>2. PICK c \in t[i].children : x = c \/ x \in Below(p, c)
    BY <2>1
  <2>3. CASE i = 1
    <3>1. p[c] = k /\ c \in Groups
      BY <2>3, <1>2, <1>3
    <3>2. x \in Below(p, k)
      BY <2>2, <3>1, ChildIsBelow, BelowIsTransitive
    <3> QED
      BY <3>2, <1>1 DEF PendingIn
  <2>4. CASE i # 1
    BY <2>2, <2>4, <1>2, <1>4 DEF PendingIn
  <2> QED
    BY <2>3, <2>4
<1>12. k \notin PendingIn(t, p)
  <2> SUFFICES ASSUME k \in PendingIn(t, p) PROVE FALSE
    OBVIOUS
  <2>1. PICK i \in DOMAIN t : \E c \in t[i].children : k = c \/ k \in Below(p, c)
    BY DEF PendingIn
  <2>2. PICK c \in t[i].children : k = c \/ k \in Below(p, c)
    BY <2>1
  <2>3. CASE i = 1
    <3>1. p[c] = k /\ c \in Groups
      BY <2>3, <1>2, <1>3
    <3>2. c \in Below(p, k) /\ Below(p, c) \subseteq Below(p, k)
      BY <3>1, ChildIsBelow, BelowIsTransitive
    <3> QED
      BY <2>2, <3>2, <1>8
  <2>4. CASE i # 1
    <3>1. i - 1 \in DOMAIN s /\ c \in s[i - 1].children
      BY <2>4, <1>2, <1>4
    <3>2. CASE k = c
      <4>1. i # 2
        BY <3>2, <1>2, <1>3
      <4>2. i - 1 # 1 /\ 1 < i - 1
        <5>1. i \in Nat \ {0}
          BY <1>2
        <5> QED
          BY <4>1, <2>4, <5>1
      <4>3. s[i - 1].group = g
        BY <3>1, <3>2, <1>7 DEF WalkOK
      <4>4. g \in Below(p, g)
        BY <4>2, <4>3, <3>1, <1>1 DEF WalkOK, g
      <4> QED
        BY <4>4, TreeHasNoCycle, BelowIsClosed
    <3>3. CASE k \in Below(p, c)
      <4>1. g \in Below(p, c) \cup {c}
        BY <3>3, <1>7, BelowByParent
      <4>2. g \in Groups
        BY <4>1, <3>1, <1>6, BelowIsClosed
      <4> QED
        BY <4>1, <4>2, <3>1, <1>7 DEF PendingIn
    <3> QED
      BY <2>2, <3>2, <3>3
  <2> QED
    BY <2>3, <2>4
<1>13. PendingEntriesIn(t, p, w) = PendingEntriesIn(s, p, w)
  <2>1. PendingEntriesIn(t, p, w) \subseteq PendingEntriesIn(s, p, w)
    <3> SUFFICES ASSUME NEW e \in PendingEntriesIn(t, p, w)
                 PROVE  e \in PendingEntriesIn(s, p, w)
      OBVIOUS
    <3>1. CASE w[e] \in PendingIn(t, p)
      BY <3>1, <1>11 DEF PendingEntriesIn
    <3>2. CASE \E i \in DOMAIN t : e \in t[i].entries
      <4>1. PICK i \in DOMAIN t : e \in t[i].entries
        BY <3>2
      <4>2. CASE i = 1
        <5>1. w[e] = k
          BY <4>1, <4>2, <1>3
        <5> QED
          BY <5>1, <1>10 DEF PendingEntriesIn
      <4>3. CASE i # 1
        BY <4>1, <4>3, <1>2, <1>4 DEF PendingEntriesIn
      <4> QED
        BY <4>2, <4>3
    <3> QED
      BY <3>1, <3>2 DEF PendingEntriesIn
  <2>2. PendingEntriesIn(s, p, w) \subseteq PendingEntriesIn(t, p, w)
    <3> SUFFICES ASSUME NEW e \in PendingEntriesIn(s, p, w)
                 PROVE  e \in PendingEntriesIn(t, p, w)
      OBVIOUS
    <3>1. CASE w[e] \in PendingIn(t, p)
      BY <3>1 DEF PendingEntriesIn
    <3>2. CASE w[e] = k
      <4>1. e \in t[1].entries
        BY <3>2, <1>2, <1>3 DEF PendingEntriesIn
      <4> QED
        BY <4>1, <1>1 DEF PendingEntriesIn
    <3>3. CASE \E i \in DOMAIN s : e \in s[i].entries
      BY <3>3, <1>2, <1>5 DEF PendingEntriesIn
    <3> QED
      BY <3>1, <3>2, <3>3, <1>9 DEF PendingEntriesIn
  <2> QED
    BY <2>1, <2>2
<1>14. WalkOK(t, p, w)
  <2> SUFFICES ASSUME NEW i \in DOMAIN t
               PROVE  /\ \A c \in t[i].children : p[c] = t[i].group
                      /\ \A e \in t[i].entries : w[e] = t[i].group
                      /\ t[i].group \notin PendingIn(t, p)
                      /\ t[i].group # Root =>
                           \E j \in DOMAIN t : i < j /\ t[j].group = p[t[i].group]
                      /\ \A j \in DOMAIN t : i < j => t[i].group \in Below(p, t[j].group)
    BY DEF WalkOK
  <2>1. CASE i = 1
    <3>1. /\ \A c \in t[i].children : p[c] = t[i].group
          /\ \A e \in t[i].entries : w[e] = t[i].group
          /\ t[i].group \notin PendingIn(t, p)
      BY <2>1, <1>2, <1>3, <1>12
    <3>2. 2 \in DOMAIN t /\ i < 2 /\ t[2].group = p[t[i].group]
      BY <2>1, <1>1, <1>3, <1>7, <1>15
    <3>3. ASSUME NEW j \in DOMAIN t, i < j PROVE t[i].group \in Below(p, t[j].group)
      <4>1. j # 1 /\ j - 1 \in DOMAIN s /\ t[j].group = s[j - 1].group
        BY <2>1, <3>3, <1>2, <1>4
      <4>2. CASE j = 2
        BY <4>2, <2>1, <1>3, <1>8, <1>15
      <4>3. CASE j # 2
        <5>1. 1 < j - 1
          <6>1. j \in Nat \ {0}
            BY <1>2
          <6> QED
            BY <4>1, <4>3, <6>1
        <5>2. g \in Below(p, s[j - 1].group)
          BY <4>1, <5>1, <1>1 DEF WalkOK, g
        <5> QED
          BY <5>2, <4>1, <2>1, <1>3, <1>8, BelowIsTransitive
      <4> QED
        BY <4>2, <4>3
    <3> QED
      BY <3>1, <3>2, <3>3
  <2>2. CASE i # 1
    <3>1. i - 1 \in DOMAIN s /\ i \in Nat
      BY <2>2, <1>2
    <3>2. /\ \A c \in t[i].children : p[c] = t[i].group
          /\ \A e \in t[i].entries : w[e] = t[i].group
          /\ t[i].group \notin PendingIn(t, p)
      BY <2>2, <3>1, <1>4, <1>11 DEF WalkOK
    <3>3. ASSUME t[i].group # Root
          PROVE  \E j \in DOMAIN t : i < j /\ t[j].group = p[t[i].group]
      <4>1. PICK j \in DOMAIN s : i - 1 < j /\ s[j].group = p[s[i - 1].group]
        BY <2>2, <3>1, <3>3, <1>4 DEF WalkOK
      <4>2. j + 1 \in DOMAIN t /\ i < j + 1 /\ t[j + 1].group = s[j].group
        BY <4>1, <3>1, <1>2, <1>5
      <4> QED
        BY <4>1, <4>2, <2>2, <1>4
    <3>4. ASSUME NEW j \in DOMAIN t, i < j PROVE t[i].group \in Below(p, t[j].group)
      <4>1. j # 1 /\ j - 1 \in DOMAIN s /\ i - 1 < j - 1
        BY <2>2, <3>1, <3>4, <1>2
      <4> QED
        BY <4>1, <2>2, <3>1, <1>4 DEF WalkOK
    <3> QED
      BY <3>2, <3>3, <3>4
  <2> QED
    BY <2>1, <2>2
<1> QED
  BY <1>9, <1>10, <1>11, <1>12, <1>13, <1>14

\* t is the walk s after its innermost call took the entry e.
Taken(s, t, e) ==
  /\ 1 \in DOMAIN s /\ DOMAIN t = DOMAIN s
  /\ \A i \in DOMAIN s : /\ i \in Nat \ {0} /\ s[i] \in Calls
                         /\ t[i].group = s[i].group /\ t[i].children = s[i].children
  /\ t[1].entries = s[1].entries \ {e}
  /\ \A i \in DOMAIN s : i # 1 => t[i].entries = s[i].entries

LEMMA TakeIsTaken ==
  ASSUME NEW s \in Seq(Calls), s # <<>>, NEW e, NEW a \in Calls, a.group = Head(s).group,
         a.children = Head(s).children, a.entries = Head(s).entries \ {e},
         NEW t, t = <<a>> \o Tail(s)
  PROVE  Taken(s, t, e)
<1>1. 1 \in DOMAIN s /\ Head(s) = s[1]
  BY StackFacts
<1>2. DOMAIN t = DOMAIN s /\ t[1] = a /\ \A i \in DOMAIN s : i # 1 => t[i] = s[i]
  BY ReplacedFacts
<1>3. \A i \in DOMAIN s : i \in Nat \ {0} /\ s[i] \in Calls
  OBVIOUS
<1> QED
  BY <1>1, <1>2, <1>3 DEF Taken

\* and an entry that is taken is not met again.
LEMMA TakeWalk ==
  ASSUME NEW p \in Trees, IsTree(p), NEW w, NEW s, WalkOK(s, p, w),
         NEW e \in s[1].entries, NEW t, Taken(s, t, e)
  PROVE  /\ WalkOK(t, p, w)
         /\ PendingIn(t, p) = PendingIn(s, p)
         /\ PendingEntriesIn(t, p, w) = PendingEntriesIn(s, p, w) \ {e}
         /\ e \in PendingEntriesIn(s, p, w)
<1>1. 1 \in DOMAIN s /\ s[1] \in Calls /\ \A i \in DOMAIN s : i \in Nat \ {0}
  BY DEF Taken
<1>2. DOMAIN t = DOMAIN s
  BY DEF Taken
<1>3. \A i \in DOMAIN s : t[i].group = s[i].group /\ t[i].children = s[i].children
  BY DEF Taken
<1>4. /\ t[1].entries = s[1].entries \ {e}
      /\ \A i \in DOMAIN s : i # 1 => t[i].entries = s[i].entries
  BY DEF Taken
<1>5. PendingIn(t, p) = PendingIn(s, p)
  BY <1>2, <1>3 DEF PendingIn
<1>6. e \in Entries /\ w[e] = s[1].group
  BY <1>1 DEF Calls, WalkOK
<1>7. WalkOK(t, p, w)
  <2>1. ASSUME NEW i \in DOMAIN s
        PROVE  /\ \A c \in t[i].children : p[c] = t[i].group
               /\ \A x \in t[i].entries : w[x] = t[i].group
               /\ t[i].group \notin PendingIn(t, p)
    <3>1. t[i].entries \subseteq s[i].entries
      BY <1>4
    <3> QED
      BY <3>1, <1>3, <1>5 DEF WalkOK
  <2>2. ASSUME NEW i \in DOMAIN s, t[i].group # Root
        PROVE  \E j \in DOMAIN s : i < j /\ t[j].group = p[t[i].group]
    BY <2>2, <1>3 DEF WalkOK
  <2>3. ASSUME NEW i \in DOMAIN s, NEW j \in DOMAIN s, i < j
        PROVE  t[i].group \in Below(p, t[j].group)
    BY <2>3, <1>3 DEF WalkOK
  <2>4. DOMAIN t = DOMAIN s
    BY <1>2
  <2>5. \A i \in DOMAIN t :
          /\ \A c \in t[i].children : p[c] = t[i].group
          /\ \A x \in t[i].entries : w[x] = t[i].group
          /\ t[i].group \notin PendingIn(t, p)
          /\ t[i].group # Root => \E j \in DOMAIN t : i < j /\ t[j].group = p[t[i].group]
    BY <2>1, <2>2, <2>4, Zenon
  <2>6. \A i, j \in DOMAIN t : i < j => t[i].group \in Below(p, t[j].group)
    BY <2>3, <2>4, Zenon
  <2> QED
    BY <2>5, <2>6, Zenon DEF WalkOK
<1>8. \A i \in DOMAIN s : i # 1 => e \notin s[i].entries
  <2> SUFFICES ASSUME NEW i \in DOMAIN s, i # 1, e \in s[i].entries PROVE FALSE
    OBVIOUS
  <2>1. 1 < i
    BY <1>1
  <2>2. s[1].group \in Below(p, s[i].group) /\ s[i].group = s[1].group
    BY <1>1, <1>6, <2>1 DEF WalkOK
  <2> QED
    BY <2>2, TreeHasNoCycle, BelowIsClosed
<1>9. w[e] \notin PendingIn(s, p)
  BY <1>1, <1>6 DEF WalkOK
<1>10. PendingEntriesIn(t, p, w) = PendingEntriesIn(s, p, w) \ {e}
  <2>1. \A x \in Entries : (\E i \in DOMAIN t : x \in t[i].entries)
                              <=> x # e /\ (\E i \in DOMAIN s : x \in s[i].entries)
    BY <1>1, <1>2, <1>4, <1>8
  <2> QED
    BY <2>1, <1>5, <1>9 DEF PendingEntriesIn
<1>11. e \in PendingEntriesIn(s, p, w)
  BY <1>1, <1>6 DEF PendingEntriesIn
<1> QED
  BY <1>5, <1>7, <1>10, <1>11

\* The entries are in groups of the copy.
InGroups(p, w) ==
  \A e \in Entries : w[e] # None => w[e] = Root \/ (w[e] \in Groups /\ p[w[e]] # None)

\* c is a call for the group g that has done nothing yet.
IsCall(c, g, p, w) ==
  /\ c \in Calls
  /\ c.group = g
  /\ c.entries = {e \in Entries : w[e] = g}
  /\ c.children = {h \in Groups : p[h] = g}

\* The walk starts with all that the copy has.
LEMMA StartWalk ==
  ASSUME NEW p \in Trees, IsTree(p), NEW w \in [Entries -> Places],
         InGroups(p, w), NEW s, DOMAIN s = {1}, IsCall(s[1], Root, p, w)
  PROVE  /\ WalkOK(s, p, w)
         /\ PendingIn(s, p) = {k \in Groups : p[k] # None}
         /\ PendingEntriesIn(s, p, w) = {e \in Entries : w[e] # None}
<1>1. /\ DOMAIN s = {1} /\ s[1].group = Root
      /\ s[1].entries = {e \in Entries : w[e] = Root}
      /\ s[1].children = {h \in Groups : p[h] = Root}
  BY DEF IsCall
<1>2. \A k \in Groups : (\E h \in s[1].children : k = h \/ k \in Below(p, h))
                          <=> k \in Below(p, Root)
  <2> TAKE k \in Groups
  <2>1. ASSUME NEW h \in s[1].children, k = h \/ k \in Below(p, h)
        PROVE  k \in Below(p, Root)
    BY <1>1, <2>1, ChildIsBelow, BelowIsTransitive
  <2>2. ASSUME k \in Below(p, Root)
        PROVE  \E h \in s[1].children : k = h \/ k \in Below(p, h)
    BY <1>1, <2>2, BelowByChild
  <2> QED
    BY <2>1, <2>2
<1>3. PendingIn(s, p) = {k \in Groups : p[k] # None}
  <2>1. \A k \in Groups : k \in PendingIn(s, p) <=> k \in Below(p, Root)
    BY <1>2 DEF PendingIn
  <2> QED
    BY <2>1, TreeIsBelowRoot DEF PendingIn
<1>4. PendingEntriesIn(s, p, w) = {e \in Entries : w[e] # None}
  BY <1>1, <1>3, NamesAssumption DEF PendingEntriesIn, Places, InGroups
<1>5. WalkOK(s, p, w)
  BY <1>1, <1>3, NamesAssumption DEF WalkOK
<1> QED
  BY <1>1, <1>3, <1>4, <1>5

----------------------------------------------------------------------------
(* How two copies can differ *)

\* What was not changed since the copies were equal is the same in both.
Consistent(a, b) ==
  /\ \A k \in Groups : a.parent[k] # None /\ b.parent[k] # None /\ a.placed[k] = b.placed[k]
                         => a.parent[k] = b.parent[k]
  /\ \A e \in Entries : a.group[e] # None /\ b.group[e] # None =>
       /\ a.moved[e] = b.moved[e] => a.group[e] = b.group[e]
       /\ a.body[e] = b.body[e] => a.history[e] = b.history[e]

\* No group was moved later in b than in a, or no group in a than in b; nor did
\* the groups that both moved last to the same place.
GroupsLead(a, b) ==
  \A k \in Groups : a.parent[k] # None /\ b.parent[k] # None =>
    a.parent[k] = b.parent[k] \/ b.placed[k] <= a.placed[k]

GroupsFollow(a, b) ==
  \A k \in Groups : a.parent[k] # None /\ b.parent[k] # None =>
    a.parent[k] = b.parent[k] \/ a.placed[k] < b.placed[k]

\* b has all that a has, and what differs is later in b.
Follows(a, b) ==
  /\ \A k \in Groups : a.parent[k] # None => b.parent[k] # None
  /\ GroupsFollow(a, b)
  /\ \A e \in Entries : a.group[e] # None =>
       /\ b.group[e] # None
       /\ a.group[e] = b.group[e] \/ a.moved[e] < b.moved[e]
       /\ (a.body[e] = b.body[e] /\ a.history[e] = b.history[e]) \/ a.body[e] < b.body[e]

----------------------------------------------------------------------------
(* The inductive invariant *)

CopyType == [parent : Trees, placed : [Groups -> Nat], name : [Groups -> Nat],
             settings : [Groups -> Nat], touched : [Groups -> Nat], group : [Entries -> Places],
             moved : [Entries -> Nat], body : [Entries -> Nat],
             history : [Entries -> SUBSET Nat]]

Shape ==
  /\ parent \in [Copies -> Trees]
  /\ group \in [Copies -> [Entries -> Places]]

\* No time is later than the current one.
Times ==
  /\ placed \in [Copies -> [Groups -> 0 .. clock]]
  /\ name \in [Copies -> [Groups -> 0 .. clock]]
  /\ settings \in [Copies -> [Groups -> 0 .. clock]]
  /\ touched \in [Copies -> [Groups -> 0 .. clock]]
  /\ moved \in [Copies -> [Entries -> 0 .. clock]]
  /\ body \in [Copies -> [Entries -> 0 .. clock]]
  /\ history \in [Copies -> [Entries -> SUBSET (0 .. clock)]]

TreesStay ==
  status # "hung" =>
    \A c \in Copies : IsTree(parent[c]) /\ InGroups(parent[c], group[c])

\* The phases of the merges and the clock.
Control ==
  /\ clock \in Nat /\ clock <= MaxEdits + Len(rounds)
  /\ status \in {"apart", "merging", "merged", "hung"}
  /\ into \in Copies
  /\ stack \in Seq(Calls)
  /\ rounds \in Seq(Copies) /\ Len(rounds) <= 2
  /\ status = "apart" => rounds = <<>>
  /\ status # "apart" => Len(rounds) \in 1 .. 2 /\ into = rounds[Len(rounds)]
  /\ status = "merging" => stack # <<>>
  /\ status \in {"apart", "merged"} => stack = <<>>
  /\ before \in CopyType

\* What the edits and an earlier merge have made of the two copies.
Related ==
  /\ status = "apart" => Consistent(Snapshot("ours"), Snapshot("theirs"))
  /\ status # "apart" /\ Len(rounds) = 1 => Consistent(before, Snapshot(from))
  /\ status # "apart" /\ Len(rounds) = 2 =>
       IF rounds[1] = rounds[2] THEN GroupsLead(before, Snapshot(from))
                                ELSE Follows(before, Snapshot(from))

\* The calls walk the copy that is read; their groups are in the other one too.
Walking ==
  status = "merging" =>
    /\ WalkOK(stack, parent[from], group[from])
    /\ \A i \in DOMAIN stack : stack[i].group \in GroupsOf(into) \cup {Root}

Emptied(k) == \E e \in Entries : before.group[e] = k /\ group[from][e] \notin {k, None}

GroupWaits(k) ==
  /\ parent[into][k] = before.parent[k]
  /\ placed[into][k] = before.placed[k]
  /\ name[into][k] = before.name[k]
  /\ settings[into][k] = before.settings[k]
  /\ before.touched[k] <= touched[into][k]
  /\ before.touched[k] = touched[into][k] \/ Emptied(k)

GroupIsDone(k) ==
  LET known == before.parent[k] # None
      other == parent[from][k] # None
      later == other /\ (~known \/ before.placed[k] < placed[from][k])
      newer == other /\ (~known \/ before.touched[k] < touched[from][k])
  IN  /\ later => parent[into][k] = parent[from][k]
      /\ ~later => parent[into][k] = before.parent[k] /\ placed[into][k] = before.placed[k]
      /\ settings[into][k] = IF known \/ ~other THEN before.settings[k] ELSE settings[from][k]
      /\ ~newer => name[into][k] = before.name[k]
      /\ newer /\ ~(known /\ later) /\ ~Emptied(k) => name[into][k] = name[from][k]

EntryWaits(e) ==
  /\ group[into][e] = before.group[e]
  /\ moved[into][e] = before.moved[e]
  /\ body[into][e] = before.body[e]
  /\ history[into][e] = before.history[e]

EntryIsDone(e) ==
  LET known == before.group[e] # None
      other == group[from][e] # None
      newer == other /\ (~known \/ before.body[e] < body[from][e])
      later == other /\ (~known \/ before.moved[e] < moved[from][e])
  IN  /\ later => group[into][e] = group[from][e]
      /\ ~later => group[into][e] = before.group[e] /\ before.moved[e] <= moved[into][e]
      /\ newer => body[into][e] = body[from][e] /\ history[into][e] = history[from][e]
      /\ ~newer => body[into][e] = before.body[e] /\ history[into][e] = before.history[e]

\* What the walk has not reached is as the merge found it, and the rest is as the
\* merge is to leave it.
Progress ==
  status \in {"merging", "merged"} =>
    /\ \A k \in Groups : IF k \in PendingIn(stack, parent[from])
                         THEN GroupWaits(k) ELSE GroupIsDone(k)
    /\ \A e \in Entries : IF e \in PendingEntriesIn(stack, parent[from], group[from])
                          THEN EntryWaits(e) ELSE EntryIsDone(e)

\* A merge of two copies only one of which moved groups does not hang.
HungCross ==
  status = "hung" =>
    ~GroupsLead(before, Snapshot(from)) /\ ~GroupsFollow(before, Snapshot(from))

IInv == Shape /\ Times /\ TreesStay /\ Control /\ Related /\ Walking /\ Progress /\ HungCross


LEMMA InvariantHasTypes ==
  IInv => TypeOK
<1> SUFFICES ASSUME IInv PROVE TypeOK
  OBVIOUS
<1>1. parent \in [Copies -> [Groups -> Places]] /\ group \in [Copies -> [Entries -> Places]]
  BY DEF IInv, Shape, Trees
<1>2. \A f \in {placed, name, settings, touched} : f \in [Copies -> [Groups -> 0 .. clock]]
  BY DEF IInv, Times
<1>3. \A f \in {moved, body} : f \in [Copies -> [Entries -> 0 .. clock]]
  BY DEF IInv, Times
<1>4. history \in [Copies -> [Entries -> SUBSET (0 .. clock)]]
  BY DEF IInv, Times
<1>5. clock \in 0 .. MaxEdits + 2
  <2>1. clock \in Nat /\ clock <= MaxEdits + Len(rounds) /\ Len(rounds) <= 2 /\ Len(rounds) \in Nat
    BY DEF IInv, Control
  <2> QED
    BY <2>1, BoundAssumption
<1>6. /\ status \in {"apart", "merging", "merged", "hung"}
      /\ into \in Copies
      /\ stack \in Seq(Calls)
      /\ rounds \in Seq(Copies) /\ Len(rounds) <= 2
  BY DEF IInv, Control
<1>7. ASSUME status # "hung", NEW c \in Copies
      PROVE  IsTree(parent[c]) /\ \A e \in EntriesOf(c) : group[c][e] \in GroupsOf(c) \cup {Root}
  BY <1>7 DEF IInv, TreesStay, InGroups, EntriesOf, GroupsOf
<1> QED
  BY <1>1, <1>2, <1>3, <1>4, <1>5, <1>6, <1>7 DEF TypeOK

----------------------------------------------------------------------------
(* Steps *)

LEMMA TheOther ==
  ASSUME NEW c \in Copies
  PROVE  Other(c) \in Copies /\ Other(c) # c /\ \A d \in Copies : d = c \/ d = Other(c)
BY DEF Copies, Other

LEMMA WidenTimes ==
  ASSUME NEW m \in Nat, NEW n \in Nat, m <= n
  PROVE  /\ \A D : \A f \in [Copies -> [D -> 0 .. m]] : f \in [Copies -> [D -> 0 .. n]]
         /\ \A D : \A f \in [Copies -> [D -> SUBSET (0 .. m)]] :
              f \in [Copies -> [D -> SUBSET (0 .. n)]]
<1>1. 0 .. m \subseteq 0 .. n
  OBVIOUS
<1>2. ASSUME NEW X, NEW Y, X \subseteq Y, NEW D, NEW f \in [Copies -> [D -> X]]
      PROVE  f \in [Copies -> [D -> Y]]
  BY <1>2
<1>3. SUBSET (0 .. m) \subseteq SUBSET (0 .. n)
  BY <1>1
<1> QED
  BY <1>1, <1>2, <1>3

LEMMA TouchedSome ==
  ASSUME NEW m \in Nat, NEW n \in Nat, m <= n, touched \in [Copies -> [Groups -> 0 .. m]],
         NEW c \in Copies, NEW gs, NEW f, f = Touched(c, gs, n)
  PROVE  /\ f \in [Copies -> [Groups -> 0 .. n]]
         /\ \A k \in Groups : f[c][k] = IF k \in gs THEN n ELSE touched[c][k]
         /\ \A d \in Copies : d # c => f[d] = touched[d]
<1>1. \A d \in Copies : touched[d] \in [Groups -> 0 .. m]
  OBVIOUS
<1>2. \A d \in Copies, k \in Groups : touched[d][k] \in 0 .. n
  BY <1>1
<1>3. \A k \in Groups : (IF k \in gs THEN n ELSE touched[c][k]) \in 0 .. n
  BY <1>2
<1>4. touched \in [Copies -> [Groups -> 0 .. n]]
  BY WidenTimes
<1>5. f = [touched EXCEPT ![c] = [k \in Groups |-> IF k \in gs THEN n ELSE touched[c][k]]]
  BY DEF Touched
<1>6. [k \in Groups |-> IF k \in gs THEN n ELSE touched[c][k]] \in [Groups -> 0 .. n]
  BY <1>3
<1> QED
  BY <1>4, <1>5, <1>6

LEMMA SnapshotHasType ==
  ASSUME Shape, Times, clock \in Nat, NEW c \in Copies
  PROVE  Snapshot(c) \in CopyType
<1>1. parent[c] \in Trees /\ group[c] \in [Entries -> Places]
  BY DEF Shape
<1>2. 0 .. clock \subseteq Nat /\ SUBSET (0 .. clock) \subseteq SUBSET Nat
  OBVIOUS
<1>3. placed[c] \in [Groups -> 0 .. clock] /\ name[c] \in [Groups -> 0 .. clock]
      /\ settings[c] \in [Groups -> 0 .. clock] /\ touched[c] \in [Groups -> 0 .. clock]
      /\ moved[c] \in [Entries -> 0 .. clock] /\ body[c] \in [Entries -> 0 .. clock]
      /\ history[c] \in [Entries -> SUBSET (0 .. clock)]
  BY DEF Times
<1>4. placed[c] \in [Groups -> Nat] /\ name[c] \in [Groups -> Nat]
      /\ settings[c] \in [Groups -> Nat] /\ touched[c] \in [Groups -> Nat]
      /\ moved[c] \in [Entries -> Nat] /\ body[c] \in [Entries -> Nat]
      /\ history[c] \in [Entries -> SUBSET Nat]
  BY <1>2, <1>3
<1> QED
  BY <1>1, <1>4 DEF CopyType, Snapshot

LEMMA ConsistentIsSymmetric ==
  ASSUME NEW a, NEW b, Consistent(a, b)
  PROVE  Consistent(b, a)
BY DEF Consistent

LEMMA InitIsInvariant ==
  Init => IInv
<1> SUFFICES ASSUME Init PROVE IInv
  OBVIOUS
<1>1. PICK p \in [Groups -> Groups \cup {Root, None}] :
        IsTree(p) /\ parent = [c \in Copies |-> p]
  BY DEF Init
<1>2. PICK w \in [Entries -> Groups \cup {Root, None}] :
        /\ \A e \in Entries : w[e] \in Groups => parent["ours"][w[e]] # None
        /\ group = [c \in Copies |-> w]
  BY DEF Init
<1>3. "ours" \in Copies /\ "theirs" \in Copies
  BY DEF Copies
<1>4. Shape
  BY <1>1, <1>2 DEF Shape, Trees, Places
<1>5. Times
  BY DEF Init, Times
<1>6. TreesStay
  BY <1>1, <1>2, <1>3 DEF TreesStay, InGroups
<1>7. Control
  <2>1. before \in CopyType
    BY <1>3, <1>4, <1>5, SnapshotHasType DEF Init
  <2>2. stack \in Seq(Calls) /\ rounds \in Seq(Copies) /\ Len(rounds) = 0
    BY DEF Init
  <2> QED
    BY <2>1, <2>2, <1>3, BoundAssumption DEF Init, Control
<1>8. Related
  <2>1. Consistent(Snapshot("ours"), Snapshot("theirs"))
    BY <1>1, <1>2, <1>3 DEF Init, Consistent, Snapshot
  <2> QED
    BY <2>1 DEF Init, Related
<1>9. Walking /\ Progress /\ HungCross
  BY DEF Init, Walking, Progress, HungCross
<1> QED
  BY <1>4, <1>5, <1>6, <1>7, <1>8, <1>9 DEF IInv

LEMMA EditFacts ==
  ASSUME IInv, NEW kind, Edit(kind)
  PROVE  /\ clock \in Nat /\ clock' \in Nat /\ clock <= clock' /\ clock < clock'
         /\ clock' \in 0 .. clock'
         /\ \A t \in 0 .. clock : t \in 0 .. clock' /\ t # clock'
         /\ status = "apart" /\ status' = "apart" /\ rounds' = <<>> /\ Len(rounds') = 0
         /\ Control' /\ Walking' /\ Progress' /\ HungCross'
<1>1. /\ clock \in Nat /\ clock < MaxEdits /\ clock' = clock + 1
      /\ status = "apart" /\ status' = "apart" /\ rounds = <<>> /\ rounds' = <<>>
      /\ into' = into /\ stack' = stack /\ before' = before
  BY DEF IInv, Control, Edit, merging
<1>2. /\ clock' \in Nat /\ clock <= clock' /\ clock < clock' /\ clock' \in 0 .. clock'
      /\ \A t \in 0 .. clock : t \in 0 .. clock' /\ t # clock'
  BY <1>1
<1>3. Walking' /\ Progress' /\ HungCross'
  BY <1>1 DEF Walking, Progress, HungCross
<1>4. Len(rounds') = 0
  BY <1>1
<1>5. clock' <= MaxEdits + Len(rounds')
  BY <1>1, <1>4, BoundAssumption
<1>6. Control'
  BY <1>1, <1>2, <1>5 DEF IInv, Control
<1> QED
  BY <1>1, <1>2, <1>3, <1>4, <1>6

\* An edit of the copy c is later than all that was done to the other copy.
LEMMA EditKeepsRelated ==
  ASSUME IInv, NEW kind, Edit(kind), NEW c \in Copies, NEW d, d = Other(c),
         Snapshot(d)' = Snapshot(d),
         \A k \in Groups : parent'[c][k] # None /\ parent[d][k] # None =>
           \/ parent'[c][k] = parent[c][k] /\ placed'[c][k] = placed[c][k]
           \/ placed'[c][k] = clock',
         \A e \in Entries : group'[c][e] # None /\ group[d][e] # None =>
           /\ group[c][e] # None
           /\ \/ group'[c][e] = group[c][e] /\ moved'[c][e] = moved[c][e]
              \/ moved'[c][e] = clock'
           /\ \/ body'[c][e] = body[c][e] /\ history'[c][e] = history[c][e]
              \/ body'[c][e] = clock'
  PROVE  Related'
<1>1. /\ \A t \in 0 .. clock : t # clock'
      /\ status = "apart" /\ status' = "apart" /\ Len(rounds') = 0
  BY EditFacts
<1>2. d \in Copies /\ d # c
  BY TheOther
<1>3. Consistent(Snapshot(c), Snapshot(d))
  <2>1. Consistent(Snapshot("ours"), Snapshot("theirs"))
    BY <1>1 DEF IInv, Related
  <2> QED
    BY <2>1, <1>2, ConsistentIsSymmetric DEF Copies
<1>4. /\ \A k \in Groups : placed[d][k] # clock'
      /\ \A e \in Entries : moved[d][e] # clock' /\ body[d][e] # clock'
  BY <1>1, <1>2 DEF IInv, Times
<1>5. Consistent(Snapshot(c)', Snapshot(d))
  <2>1. ASSUME NEW k \in Groups, parent'[c][k] # None, parent[d][k] # None,
               placed'[c][k] = placed[d][k]
        PROVE  parent'[c][k] = parent[d][k]
    <3>1. parent'[c][k] = parent[c][k] /\ placed'[c][k] = placed[c][k]
      BY <2>1, <1>4
    <3> QED
      BY <3>1, <2>1, <1>3 DEF Consistent, Snapshot
  <2>2. ASSUME NEW e \in Entries, group'[c][e] # None, group[d][e] # None
        PROVE  /\ moved'[c][e] = moved[d][e] => group'[c][e] = group[d][e]
               /\ body'[c][e] = body[d][e] => history'[c][e] = history[d][e]
    <3>1. group[c][e] # None
      BY <2>2
    <3>2. /\ moved[c][e] = moved[d][e] => group[c][e] = group[d][e]
          /\ body[c][e] = body[d][e] => history[c][e] = history[d][e]
      BY <3>1, <2>2, <1>3 DEF Consistent, Snapshot
    <3> QED
      BY <3>2, <2>2, <1>4
  <2> QED
    BY <2>1, <2>2 DEF Consistent, Snapshot
<1>6. Consistent(Snapshot(c)', Snapshot(d)')
  BY <1>5
<1>7. Consistent(Snapshot("ours"), Snapshot("theirs"))'
  <2>1. CASE c = "ours"
    <3>1. d = "theirs"
      BY <2>1 DEF Other
    <3> QED
      BY <1>6, <2>1, <3>1 DEF Consistent, Snapshot
  <2>2. CASE c = "theirs"
    <3>1. d = "ours"
      BY <2>2 DEF Other
    <3>2. Consistent(Snapshot(d)', Snapshot(c)')
      BY <1>6, ConsistentIsSymmetric
    <3> QED
      BY <3>2, <2>2, <3>1 DEF Consistent, Snapshot
  <2> QED
    BY <2>1, <2>2 DEF Copies
<1> QED
  BY <1>1, <1>7 DEF Related

LEMMA MoveGroupKeeps ==
  ASSUME IInv, NEW c \in Copies, NEW g \in Groups, NEW q \in Groups \cup {Root},
         MoveGroup(c, g, q)
  PROVE  IInv'
<1> DEFINE d == Other(c)
<1>1. /\ Edit("move group")
      /\ parent[c][g] # None /\ q \in (GroupsOf(c) \cup {Root}) \ (Below(parent[c], g) \cup {g})
      /\ parent' = [parent EXCEPT ![c][g] = q]
      /\ placed' = [placed EXCEPT ![c][g] = clock']
      /\ touched' = Touched(c, {g}, clock')
      /\ name' = name /\ settings' = settings /\ group' = group /\ moved' = moved /\ body' = body /\ history' = history
  BY DEF MoveGroup, entries, GroupsOf
<1>2. /\ clock \in Nat /\ clock' \in Nat /\ clock <= clock' /\ clock' \in 0 .. clock'
      /\ status = "apart" /\ Control' /\ Walking' /\ Progress' /\ HungCross'
  BY <1>1, EditFacts
<1>3. d \in Copies /\ d # c /\ \A x \in Copies : x = c \/ x = d
  BY TheOther
<1> HIDE DEF d
<1>4. /\ parent \in [Copies -> [Groups -> Places]] /\ q \in Places
      /\ group \in [Copies -> [Entries -> Places]]
  BY DEF IInv, Shape, Trees, Places
<1>5. /\ parent' \in [Copies -> [Groups -> Places]]
      /\ parent'[c] = [parent[c] EXCEPT ![g] = q]
      /\ parent'[c][g] = q /\ \A y \in Groups : y # g => parent'[c][y] = parent[c][y]
      /\ \A x \in Copies : x # c => parent'[x] = parent[x]
  BY <1>1, <1>4
<1>6. Shape'
  BY <1>1, <1>4, <1>5 DEF Shape, Trees
<1>7. placed \in [Copies -> [Groups -> 0 .. clock']]
  BY <1>2, WidenTimes DEF IInv, Times
<1>8. /\ placed' \in [Copies -> [Groups -> 0 .. clock']]
      /\ placed'[c][g] = clock' /\ \A y \in Groups : y # g => placed'[c][y] = placed[c][y]
      /\ \A x \in Copies : x # c => placed'[x] = placed[x]
  BY <1>1, <1>2, <1>7
<1>9. /\ touched' \in [Copies -> [Groups -> 0 .. clock']]
      /\ \A x \in Copies : x # c => touched'[x] = touched[x]
  <2>1. touched \in [Copies -> [Groups -> 0 .. clock]]
    BY DEF IInv, Times
  <2>2. \A f : f = Touched(c, {g}, clock') => /\ f \in [Copies -> [Groups -> 0 .. clock']]
                                              /\ \A x \in Copies : x # c => f[x] = touched[x]
    BY <2>1, <1>2, TouchedSome
  <2> QED
    BY <2>2, <1>1
<1>10. Times'
  BY <1>1, <1>2, <1>8, <1>9, WidenTimes DEF IInv, Times
<1>11. TreesStay'
  <2>1. /\ \A x \in Copies : IsTree(parent[x]) /\ InGroups(parent[x], group[x])
        /\ parent[c] \in Trees
    BY <1>2, <1>4 DEF IInv, TreesStay, Trees
  <2>2. g \notin Below(parent'[c], g)
    BY <1>1, <1>5, <2>1, MoveOutsideMakesNoCycle
  <2>3. IsTree(parent'[c])
    <3>1. q \in Groups => parent[c][q] # None \/ q = g
      BY <1>1, NamesAssumption DEF GroupsOf
    <3> QED
      BY <1>5, <2>1, <2>2, <3>1, MoveKeepsTree
  <2>4. InGroups(parent'[c], group[c])
    BY <1>5, <2>1, NamesAssumption DEF InGroups
  <2>5. \A x \in Copies : IsTree(parent'[x]) /\ InGroups(parent'[x], group[x])
    BY <1>3, <1>5, <2>1, <2>3, <2>4
  <2> QED
    BY <2>5, <1>1 DEF TreesStay
<1>12. Related'
  <2>1. Snapshot(d)' = Snapshot(d)
    BY <1>1, <1>3, <1>5, <1>8, <1>9 DEF Snapshot
  <2>2. \A k \in Groups : parent'[c][k] # None /\ parent[d][k] # None =>
           \/ parent'[c][k] = parent[c][k] /\ placed'[c][k] = placed[c][k]
           \/ placed'[c][k] = clock'
    BY <1>5, <1>8
  <2>3. \A e \in Entries : group'[c][e] # None /\ group[d][e] # None =>
           /\ group[c][e] # None
           /\ \/ group'[c][e] = group[c][e] /\ moved'[c][e] = moved[c][e]
              \/ moved'[c][e] = clock'
           /\ \/ body'[c][e] = body[c][e] /\ history'[c][e] = history[c][e]
              \/ body'[c][e] = clock'
    BY <1>1
  <2> QED
    BY <1>1, <2>1, <2>2, <2>3, EditKeepsRelated DEF d
<1> QED
  BY <1>2, <1>6, <1>10, <1>11, <1>12 DEF IInv

LEMMA EditTouches ==
  ASSUME IInv, NEW kind, Edit(kind), NEW c \in Copies, NEW gs,
         touched' = Touched(c, gs, clock')
  PROVE  /\ touched' \in [Copies -> [Groups -> 0 .. clock']]
         /\ \A x \in Copies : x # c => touched'[x] = touched[x]
<1>1. clock \in Nat /\ clock' \in Nat /\ clock <= clock'
  BY EditFacts
<1>2. touched \in [Copies -> [Groups -> 0 .. clock]]
  BY DEF IInv, Times
<1>3. \A f : f = Touched(c, gs, clock') => /\ f \in [Copies -> [Groups -> 0 .. clock']]
                                           /\ \A x \in Copies : x # c => f[x] = touched[x]
  BY <1>1, <1>2, TouchedSome
<1> QED
  BY <1>3

\* The times so far are times at the next clock too.
LEMMA EditWidens ==
  ASSUME IInv, NEW kind, Edit(kind)
  PROVE  /\ placed \in [Copies -> [Groups -> 0 .. clock']]
         /\ name \in [Copies -> [Groups -> 0 .. clock']]
         /\ settings \in [Copies -> [Groups -> 0 .. clock']]
         /\ moved \in [Copies -> [Entries -> 0 .. clock']]
         /\ body \in [Copies -> [Entries -> 0 .. clock']]
         /\ history \in [Copies -> [Entries -> SUBSET (0 .. clock')]]
<1>1. clock \in Nat /\ clock' \in Nat /\ clock <= clock'
  BY EditFacts
<1> QED
  BY <1>1, WidenTimes DEF IInv, Times

LEMMA RenameGroupKeeps ==
  ASSUME IInv, NEW c \in Copies, NEW g \in Groups, RenameGroup(c, g)
  PROVE  IInv'
<1> DEFINE d == Other(c)
<1>1. /\ Edit("rename group")
      /\ name' = [name EXCEPT ![c][g] = clock']
      /\ touched' = Touched(c, {g}, clock')
      /\ parent' = parent /\ placed' = placed /\ settings' = settings
      /\ group' = group /\ moved' = moved /\ body' = body /\ history' = history
  BY DEF RenameGroup, entries
<1>2. clock' \in 0 .. clock' /\ status = "apart" /\ Control' /\ Walking' /\ Progress' /\ HungCross'
  BY <1>1, EditFacts
<1>3. d \in Copies /\ d # c
  BY TheOther
<1> HIDE DEF d
<1>4. Shape'
  BY <1>1 DEF IInv, Shape
<1>5. /\ placed \in [Copies -> [Groups -> 0 .. clock']]
      /\ name \in [Copies -> [Groups -> 0 .. clock']]
      /\ settings \in [Copies -> [Groups -> 0 .. clock']]
      /\ moved \in [Copies -> [Entries -> 0 .. clock']]
      /\ body \in [Copies -> [Entries -> 0 .. clock']]
      /\ history \in [Copies -> [Entries -> SUBSET (0 .. clock')]]
  BY <1>1, EditWidens
<1>6. /\ name' \in [Copies -> [Groups -> 0 .. clock']]
      /\ \A x \in Copies : x # c => name'[x] = name[x]
  BY <1>1, <1>2, <1>5
<1>7. /\ touched' \in [Copies -> [Groups -> 0 .. clock']]
      /\ \A x \in Copies : x # c => touched'[x] = touched[x]
  BY <1>1, EditTouches
<1>8. Times'
  BY <1>1, <1>5, <1>6, <1>7 DEF Times
<1>9. TreesStay'
  BY <1>1, <1>2 DEF IInv, TreesStay
<1>10. Related'
  <2>1. Snapshot(d)' = Snapshot(d)
    BY <1>1, <1>3, <1>6, <1>7 DEF Snapshot
  <2> QED
    BY <1>1, <2>1, EditKeepsRelated DEF d
<1> QED
  BY <1>2, <1>4, <1>8, <1>9, <1>10 DEF IInv

LEMMA ChangeSettingsKeeps ==
  ASSUME IInv, NEW c \in Copies, NEW g \in Groups, ChangeSettings(c, g)
  PROVE  IInv'
<1> DEFINE d == Other(c)
<1>1. /\ Edit("change settings")
      /\ settings' = [settings EXCEPT ![c][g] = clock']
      /\ touched' = Touched(c, {g}, clock')
      /\ parent' = parent /\ placed' = placed /\ name' = name
      /\ group' = group /\ moved' = moved /\ body' = body /\ history' = history
  BY DEF ChangeSettings, entries
<1>2. clock' \in 0 .. clock' /\ status = "apart" /\ Control' /\ Walking' /\ Progress' /\ HungCross'
  BY <1>1, EditFacts
<1>3. d \in Copies /\ d # c
  BY TheOther
<1> HIDE DEF d
<1>4. Shape'
  BY <1>1 DEF IInv, Shape
<1>5. /\ placed \in [Copies -> [Groups -> 0 .. clock']]
      /\ name \in [Copies -> [Groups -> 0 .. clock']]
      /\ settings \in [Copies -> [Groups -> 0 .. clock']]
      /\ moved \in [Copies -> [Entries -> 0 .. clock']]
      /\ body \in [Copies -> [Entries -> 0 .. clock']]
      /\ history \in [Copies -> [Entries -> SUBSET (0 .. clock')]]
  BY <1>1, EditWidens
<1>6. /\ settings' \in [Copies -> [Groups -> 0 .. clock']]
      /\ \A x \in Copies : x # c => settings'[x] = settings[x]
  BY <1>1, <1>2, <1>5
<1>7. /\ touched' \in [Copies -> [Groups -> 0 .. clock']]
      /\ \A x \in Copies : x # c => touched'[x] = touched[x]
  BY <1>1, EditTouches
<1>8. Times'
  BY <1>1, <1>5, <1>6, <1>7 DEF Times
<1>9. TreesStay'
  BY <1>1, <1>2 DEF IInv, TreesStay
<1>10. Related'
  <2>1. Snapshot(d)' = Snapshot(d)
    BY <1>1, <1>3, <1>6, <1>7 DEF Snapshot
  <2> QED
    BY <1>1, <2>1, EditKeepsRelated DEF d
<1> QED
  BY <1>2, <1>4, <1>8, <1>9, <1>10 DEF IInv

LEMMA CreateGroupKeeps ==
  ASSUME IInv, NEW c \in Copies, NEW g \in Groups, NEW q \in Groups \cup {Root},
         CreateGroup(c, g, q)
  PROVE  IInv'
<1> DEFINE d == Other(c)
<1>1. /\ Edit("create group")
      /\ \A x \in Copies : parent[x][g] = None
      /\ q \in GroupsOf(c) \cup {Root}
      /\ parent' = [parent EXCEPT ![c][g] = q]
      /\ placed' = [placed EXCEPT ![c][g] = clock']
      /\ name' = [name EXCEPT ![c][g] = clock']
      /\ settings' = [settings EXCEPT ![c][g] = clock']
      /\ touched' = Touched(c, {g}, clock')
      /\ group' = group /\ moved' = moved /\ body' = body /\ history' = history
  BY DEF CreateGroup, entries, GroupsOf, Copies
<1>2. clock' \in 0 .. clock' /\ status = "apart" /\ Control' /\ Walking' /\ Progress' /\ HungCross'
  BY <1>1, EditFacts
<1>3. d \in Copies /\ d # c /\ \A x \in Copies : x = c \/ x = d
  BY TheOther
<1> HIDE DEF d
<1>4. /\ parent \in [Copies -> [Groups -> Places]] /\ q \in Places
      /\ group \in [Copies -> [Entries -> Places]]
  BY DEF IInv, Shape, Trees, Places
<1>5. /\ parent' \in [Copies -> [Groups -> Places]]
      /\ parent'[c] = [parent[c] EXCEPT ![g] = q]
      /\ parent'[c][g] = q /\ \A y \in Groups : y # g => parent'[c][y] = parent[c][y]
      /\ \A x \in Copies : x # c => parent'[x] = parent[x]
  BY <1>1, <1>4
<1>6. Shape'
  BY <1>1, <1>4, <1>5 DEF Shape, Trees
<1>7. /\ placed \in [Copies -> [Groups -> 0 .. clock']]
      /\ name \in [Copies -> [Groups -> 0 .. clock']]
      /\ settings \in [Copies -> [Groups -> 0 .. clock']]
      /\ moved \in [Copies -> [Entries -> 0 .. clock']]
      /\ body \in [Copies -> [Entries -> 0 .. clock']]
      /\ history \in [Copies -> [Entries -> SUBSET (0 .. clock')]]
  BY <1>1, EditWidens
<1>8. /\ placed' \in [Copies -> [Groups -> 0 .. clock']]
      /\ placed'[c][g] = clock' /\ \A y \in Groups : y # g => placed'[c][y] = placed[c][y]
      /\ \A x \in Copies : x # c => placed'[x] = placed[x]
  BY <1>1, <1>2, <1>7
<1>9. /\ name' \in [Copies -> [Groups -> 0 .. clock']]
      /\ \A x \in Copies : x # c => name'[x] = name[x]
      /\ settings' \in [Copies -> [Groups -> 0 .. clock']]
      /\ \A x \in Copies : x # c => settings'[x] = settings[x]
  BY <1>1, <1>2, <1>7
<1>10. /\ touched' \in [Copies -> [Groups -> 0 .. clock']]
       /\ \A x \in Copies : x # c => touched'[x] = touched[x]
  BY <1>1, EditTouches
<1>11. Times'
  BY <1>1, <1>7, <1>8, <1>9, <1>10 DEF Times
<1>12. TreesStay'
  <2>1. /\ \A x \in Copies : IsTree(parent[x]) /\ InGroups(parent[x], group[x])
        /\ parent[c] \in Trees
    BY <1>2, <1>4 DEF IInv, TreesStay, Trees
  <2>2. parent[c][g] = None /\ q # g /\ (q \in Groups => parent[c][q] # None)
    BY <1>1, NamesAssumption DEF GroupsOf
  <2>3. g \notin Below(parent'[c], g)
    BY <1>5, <2>1, <2>2, NewMakesNoCycle
  <2>4. IsTree(parent'[c])
    BY <1>5, <2>1, <2>2, <2>3, MoveKeepsTree
  <2>5. InGroups(parent'[c], group[c])
    BY <1>5, <2>1, <2>2 DEF InGroups
  <2>6. \A x \in Copies : IsTree(parent'[x]) /\ InGroups(parent'[x], group[x])
    BY <1>3, <1>5, <2>1, <2>4, <2>5
  <2> QED
    BY <2>6, <1>1 DEF TreesStay
<1>13. Related'
  <2>1. Snapshot(d)' = Snapshot(d)
    BY <1>1, <1>3, <1>5, <1>8, <1>9, <1>10 DEF Snapshot
  <2>2. \A k \in Groups : parent'[c][k] # None /\ parent[d][k] # None =>
           \/ parent'[c][k] = parent[c][k] /\ placed'[c][k] = placed[c][k]
           \/ placed'[c][k] = clock'
    BY <1>5, <1>8
  <2> QED
    BY <1>1, <2>1, <2>2, EditKeepsRelated DEF d
<1> QED
  BY <1>2, <1>6, <1>11, <1>12, <1>13 DEF IInv

LEMMA MoveEntryKeeps ==
  ASSUME IInv, NEW c \in Copies, NEW e \in Entries, NEW q \in Groups \cup {Root},
         MoveEntry(c, e, q)
  PROVE  IInv'
<1> DEFINE d == Other(c)
<1>1. /\ Edit("move entry")
      /\ group[c][e] # None /\ q \in GroupsOf(c) \cup {Root}
      /\ group' = [group EXCEPT ![c][e] = q]
      /\ moved' = [moved EXCEPT ![c][e] = clock']
      /\ touched' = Touched(c, {q, group[c][e]}, clock')
      /\ parent' = parent /\ placed' = placed /\ name' = name /\ settings' = settings /\ body' = body /\ history' = history
  BY DEF MoveEntry, EntriesOf
<1>2. clock' \in 0 .. clock' /\ status = "apart" /\ Control' /\ Walking' /\ Progress' /\ HungCross'
  BY <1>1, EditFacts
<1>3. d \in Copies /\ d # c
  BY TheOther
<1> HIDE DEF d
<1>4. group \in [Copies -> [Entries -> Places]] /\ q \in Places
  BY DEF IInv, Shape, Places
<1>5. /\ group' \in [Copies -> [Entries -> Places]]
      /\ group'[c][e] = q /\ \A y \in Entries : y # e => group'[c][y] = group[c][y]
      /\ \A x \in Copies : x # c => group'[x] = group[x]
  BY <1>1, <1>4
<1>6. Shape'
  BY <1>1, <1>5 DEF IInv, Shape
<1>7. /\ placed \in [Copies -> [Groups -> 0 .. clock']]
      /\ name \in [Copies -> [Groups -> 0 .. clock']]
      /\ settings \in [Copies -> [Groups -> 0 .. clock']]
      /\ moved \in [Copies -> [Entries -> 0 .. clock']]
      /\ body \in [Copies -> [Entries -> 0 .. clock']]
      /\ history \in [Copies -> [Entries -> SUBSET (0 .. clock')]]
  BY <1>1, EditWidens
<1>8. /\ moved' \in [Copies -> [Entries -> 0 .. clock']]
      /\ moved'[c][e] = clock' /\ \A y \in Entries : y # e => moved'[c][y] = moved[c][y]
      /\ \A x \in Copies : x # c => moved'[x] = moved[x]
  BY <1>1, <1>2, <1>7
<1>9. /\ touched' \in [Copies -> [Groups -> 0 .. clock']]
      /\ \A x \in Copies : x # c => touched'[x] = touched[x]
  BY <1>1, EditTouches
<1>10. Times'
  BY <1>1, <1>7, <1>8, <1>9 DEF Times
<1>11. TreesStay'
  <2>1. \A x \in Copies : IsTree(parent[x]) /\ InGroups(parent[x], group[x])
    BY <1>2 DEF IInv, TreesStay
  <2>2. InGroups(parent[c], group'[c])
    BY <1>1, <1>5, <2>1 DEF InGroups, GroupsOf
  <2>3. \A x \in Copies : IsTree(parent[x]) /\ InGroups(parent[x], group'[x])
    BY <1>5, <2>1, <2>2
  <2> QED
    BY <2>3, <1>1 DEF TreesStay
<1>12. Related'
  <2>1. Snapshot(d)' = Snapshot(d)
    BY <1>1, <1>3, <1>5, <1>8, <1>9 DEF Snapshot
  <2>2. \A y \in Entries : group'[c][y] # None /\ group[d][y] # None =>
           /\ group[c][y] # None
           /\ \/ group'[c][y] = group[c][y] /\ moved'[c][y] = moved[c][y]
              \/ moved'[c][y] = clock'
           /\ \/ body'[c][y] = body[c][y] /\ history'[c][y] = history[c][y]
              \/ body'[c][y] = clock'
    BY <1>1, <1>5, <1>8
  <2> QED
    BY <1>1, <2>1, <2>2, EditKeepsRelated DEF d
<1> QED
  BY <1>2, <1>6, <1>10, <1>11, <1>12 DEF IInv

LEMMA UpdateEntryKeeps ==
  ASSUME IInv, NEW c \in Copies, NEW e \in Entries, UpdateEntry(c, e)
  PROVE  IInv'
<1> DEFINE d == Other(c)
<1>1. /\ Edit("update entry")
      /\ body' = [body EXCEPT ![c][e] = clock']
      /\ history' = [history EXCEPT ![c][e] = history[c][e] \cup {body[c][e]}]
      /\ parent' = parent /\ placed' = placed /\ name' = name /\ settings' = settings /\ touched' = touched
      /\ group' = group /\ moved' = moved
  BY DEF UpdateEntry, groups
<1>2. /\ clock \in Nat /\ clock' \in Nat /\ clock <= clock' /\ clock' \in 0 .. clock'
      /\ status = "apart" /\ Control' /\ Walking' /\ Progress' /\ HungCross'
  BY <1>1, EditFacts
<1>3. d \in Copies /\ d # c
  BY TheOther
<1> HIDE DEF d
<1>4. Shape'
  BY <1>1 DEF IInv, Shape
<1>5. /\ placed \in [Copies -> [Groups -> 0 .. clock']]
      /\ name \in [Copies -> [Groups -> 0 .. clock']]
      /\ settings \in [Copies -> [Groups -> 0 .. clock']]
      /\ moved \in [Copies -> [Entries -> 0 .. clock']]
      /\ body \in [Copies -> [Entries -> 0 .. clock']]
      /\ history \in [Copies -> [Entries -> SUBSET (0 .. clock')]]
  BY <1>1, EditWidens
<1>6. touched \in [Copies -> [Groups -> 0 .. clock']]
  BY <1>2, WidenTimes DEF IInv, Times
<1>7. /\ body' \in [Copies -> [Entries -> 0 .. clock']]
      /\ body'[c][e] = clock' /\ \A y \in Entries : y # e => body'[c][y] = body[c][y]
      /\ \A x \in Copies : x # c => body'[x] = body[x]
  BY <1>1, <1>2, <1>5
<1>8. /\ history' \in [Copies -> [Entries -> SUBSET (0 .. clock')]]
      /\ \A y \in Entries : y # e => history'[c][y] = history[c][y]
      /\ \A x \in Copies : x # c => history'[x] = history[x]
  <2>1. body[c][e] \in 0 .. clock' /\ history[c][e] \in SUBSET (0 .. clock')
    BY <1>5
  <2>2. history[c][e] \cup {body[c][e]} \in SUBSET (0 .. clock')
    BY <2>1
  <2> QED
    BY <1>1, <1>5, <2>2
<1>9. Times'
  BY <1>1, <1>5, <1>6, <1>7, <1>8 DEF Times
<1>10. TreesStay'
  BY <1>1, <1>2 DEF IInv, TreesStay
<1>11. Related'
  <2>1. Snapshot(d)' = Snapshot(d)
    BY <1>1, <1>3, <1>7, <1>8 DEF Snapshot
  <2>2. \A y \in Entries : group'[c][y] # None /\ group[d][y] # None =>
           /\ group[c][y] # None
           /\ \/ group'[c][y] = group[c][y] /\ moved'[c][y] = moved[c][y]
              \/ moved'[c][y] = clock'
           /\ \/ body'[c][y] = body[c][y] /\ history'[c][y] = history[c][y]
              \/ body'[c][y] = clock'
    BY <1>1, <1>7, <1>8
  <2> QED
    BY <1>1, <2>1, <2>2, EditKeepsRelated DEF d
<1> QED
  BY <1>2, <1>4, <1>9, <1>10, <1>11 DEF IInv

LEMMA CreateEntryKeeps ==
  ASSUME IInv, NEW c \in Copies, NEW e \in Entries, NEW q \in Groups \cup {Root},
         CreateEntry(c, e, q)
  PROVE  IInv'
<1> DEFINE d == Other(c)
<1>1. /\ Edit("create entry")
      /\ \A x \in Copies : group[x][e] = None
      /\ q \in GroupsOf(c) \cup {Root}
      /\ group' = [group EXCEPT ![c][e] = q]
      /\ moved' = [moved EXCEPT ![c][e] = clock']
      /\ body' = [body EXCEPT ![c][e] = clock']
      /\ history' = [history EXCEPT ![c][e] = {}]
      /\ touched' = Touched(c, {q}, clock')
      /\ parent' = parent /\ placed' = placed /\ name' = name /\ settings' = settings
  BY DEF CreateEntry, EntriesOf, Copies
<1>2. clock' \in 0 .. clock' /\ status = "apart" /\ Control' /\ Walking' /\ Progress' /\ HungCross'
  BY <1>1, EditFacts
<1>3. d \in Copies /\ d # c
  BY TheOther
<1> HIDE DEF d
<1>4. group \in [Copies -> [Entries -> Places]] /\ q \in Places
  BY DEF IInv, Shape, Places
<1>5. /\ group' \in [Copies -> [Entries -> Places]]
      /\ group'[c][e] = q /\ \A y \in Entries : y # e => group'[c][y] = group[c][y]
      /\ \A x \in Copies : x # c => group'[x] = group[x]
  BY <1>1, <1>4
<1>6. Shape'
  BY <1>1, <1>5 DEF IInv, Shape
<1>7. /\ placed \in [Copies -> [Groups -> 0 .. clock']]
      /\ name \in [Copies -> [Groups -> 0 .. clock']]
      /\ settings \in [Copies -> [Groups -> 0 .. clock']]
      /\ moved \in [Copies -> [Entries -> 0 .. clock']]
      /\ body \in [Copies -> [Entries -> 0 .. clock']]
      /\ history \in [Copies -> [Entries -> SUBSET (0 .. clock')]]
  BY <1>1, EditWidens
<1>8. /\ moved' \in [Copies -> [Entries -> 0 .. clock']]
      /\ \A y \in Entries : y # e => moved'[c][y] = moved[c][y]
      /\ \A x \in Copies : x # c => moved'[x] = moved[x]
  BY <1>1, <1>2, <1>7
<1>9. /\ body' \in [Copies -> [Entries -> 0 .. clock']]
      /\ \A y \in Entries : y # e => body'[c][y] = body[c][y]
      /\ \A x \in Copies : x # c => body'[x] = body[x]
  BY <1>1, <1>2, <1>7
<1>10. /\ history' \in [Copies -> [Entries -> SUBSET (0 .. clock')]]
       /\ \A y \in Entries : y # e => history'[c][y] = history[c][y]
       /\ \A x \in Copies : x # c => history'[x] = history[x]
  <2>1. {} \in SUBSET (0 .. clock')
    OBVIOUS
  <2> QED
    BY <1>1, <1>7, <2>1
<1>11. /\ touched' \in [Copies -> [Groups -> 0 .. clock']]
       /\ \A x \in Copies : x # c => touched'[x] = touched[x]
  BY <1>1, EditTouches
<1>12. Times'
  BY <1>1, <1>7, <1>8, <1>9, <1>10, <1>11 DEF Times
<1>13. TreesStay'
  <2>1. \A x \in Copies : IsTree(parent[x]) /\ InGroups(parent[x], group[x])
    BY <1>2 DEF IInv, TreesStay
  <2>2. InGroups(parent[c], group'[c])
    BY <1>1, <1>5, <2>1 DEF InGroups, GroupsOf
  <2>3. \A x \in Copies : IsTree(parent[x]) /\ InGroups(parent[x], group'[x])
    BY <1>5, <2>1, <2>2
  <2> QED
    BY <2>3, <1>1 DEF TreesStay
<1>14. Related'
  <2>1. Snapshot(d)' = Snapshot(d)
    BY <1>1, <1>3, <1>5, <1>8, <1>9, <1>10, <1>11 DEF Snapshot
  <2>2. \A y \in Entries : group'[c][y] # None /\ group[d][y] # None =>
           /\ group[c][y] # None
           /\ \/ group'[c][y] = group[c][y] /\ moved'[c][y] = moved[c][y]
              \/ moved'[c][y] = clock'
           /\ \/ body'[c][y] = body[c][y] /\ history'[c][y] = history[c][y]
              \/ body'[c][y] = clock'
    <3> SUFFICES ASSUME NEW y \in Entries, group'[c][y] # None, group[d][y] # None
                 PROVE  /\ group[c][y] # None
                        /\ group'[c][y] = group[c][y] /\ moved'[c][y] = moved[c][y]
                        /\ body'[c][y] = body[c][y] /\ history'[c][y] = history[c][y]
      OBVIOUS
    <3>1. y # e
      BY <1>1, <1>3
    <3> QED
      BY <3>1, <1>5, <1>8, <1>9, <1>10
  <2> QED
    BY <1>1, <2>1, <2>2, EditKeepsRelated DEF d
<1> QED
  BY <1>2, <1>6, <1>12, <1>13, <1>14 DEF IInv

LEMMA DeleteEntryKeeps ==
  ASSUME IInv, NEW c \in Copies, NEW e \in Entries, DeleteEntry(c, e)
  PROVE  IInv'
<1> DEFINE d == Other(c)
<1>1. /\ Edit("delete entry")
      /\ group' = [group EXCEPT ![c][e] = None]
      /\ touched' = Touched(c, {group[c][e]}, clock')
      /\ parent' = parent /\ placed' = placed /\ name' = name /\ settings' = settings
      /\ moved' = moved /\ body' = body /\ history' = history
  BY DEF DeleteEntry
<1>2. clock' \in 0 .. clock' /\ status = "apart" /\ Control' /\ Walking' /\ Progress' /\ HungCross'
  BY <1>1, EditFacts
<1>3. d \in Copies /\ d # c
  BY TheOther
<1> HIDE DEF d
<1>4. group \in [Copies -> [Entries -> Places]] /\ None \in Places
  BY DEF IInv, Shape, Places
<1>5. /\ group' \in [Copies -> [Entries -> Places]]
      /\ group'[c][e] = None /\ \A y \in Entries : y # e => group'[c][y] = group[c][y]
      /\ \A x \in Copies : x # c => group'[x] = group[x]
  BY <1>1, <1>4
<1>6. Shape'
  BY <1>1, <1>5 DEF IInv, Shape
<1>7. /\ placed \in [Copies -> [Groups -> 0 .. clock']]
      /\ name \in [Copies -> [Groups -> 0 .. clock']]
      /\ settings \in [Copies -> [Groups -> 0 .. clock']]
      /\ moved \in [Copies -> [Entries -> 0 .. clock']]
      /\ body \in [Copies -> [Entries -> 0 .. clock']]
      /\ history \in [Copies -> [Entries -> SUBSET (0 .. clock')]]
  BY <1>1, EditWidens
<1>8. /\ touched' \in [Copies -> [Groups -> 0 .. clock']]
      /\ \A x \in Copies : x # c => touched'[x] = touched[x]
  BY <1>1, EditTouches
<1>9. Times'
  BY <1>1, <1>7, <1>8 DEF Times
<1>10. TreesStay'
  <2>1. \A x \in Copies : IsTree(parent[x]) /\ InGroups(parent[x], group[x])
    BY <1>2 DEF IInv, TreesStay
  <2>2. InGroups(parent[c], group'[c])
    BY <1>5, <2>1 DEF InGroups
  <2>3. \A x \in Copies : IsTree(parent[x]) /\ InGroups(parent[x], group'[x])
    BY <1>5, <2>1, <2>2
  <2> QED
    BY <2>3, <1>1 DEF TreesStay
<1>11. Related'
  <2>1. Snapshot(d)' = Snapshot(d)
    BY <1>1, <1>3, <1>5, <1>8 DEF Snapshot
  <2>2. \A y \in Entries : group'[c][y] # None /\ group[d][y] # None =>
           /\ group[c][y] # None
           /\ \/ group'[c][y] = group[c][y] /\ moved'[c][y] = moved[c][y]
              \/ moved'[c][y] = clock'
           /\ \/ body'[c][y] = body[c][y] /\ history'[c][y] = history[c][y]
              \/ body'[c][y] = clock'
    BY <1>1, <1>5
  <2> QED
    BY <1>1, <2>1, <2>2, EditKeepsRelated DEF d
<1> QED
  BY <1>2, <1>6, <1>9, <1>10, <1>11 DEF IInv

LEMMA CallStarts ==
  ASSUME Shape, NEW c \in Copies, NEW g \in Groups \cup {Root}
  PROVE  IsCall(Call(c, g), g, parent[c], group[c])
BY DEF IsCall, Call, Calls

LEMMA OneCall ==
  ASSUME NEW a \in Calls, NEW s, s = <<a>>
  PROVE  s \in Seq(Calls) /\ s # <<>> /\ DOMAIN s = {1} /\ s[1] = a
OBVIOUS

LEMMA NothingPending ==
  ASSUME NEW p, NEW w
  PROVE  PendingIn(<<>>, p) = {} /\ PendingEntriesIn(<<>>, p, w) = {}
<1>1. DOMAIN <<>> = {}
  OBVIOUS
<1>2. PendingIn(<<>>, p) = {}
  BY <1>1 DEF PendingIn
<1> QED
  BY <1>1, <1>2 DEF PendingEntriesIn

\* What a merge leaves is what a merge in either direction starts from.
LEMMA MergedIsRelated ==
  ASSUME IInv, status = "merged", Len(rounds) = 1
  PROVE  /\ GroupsLead(Snapshot(into), Snapshot(from))
         /\ Follows(Snapshot(from), Snapshot(into))
<1>1. /\ \A k \in Groups : GroupIsDone(k)
      /\ \A e \in Entries : EntryIsDone(e)
  <2>1. stack = <<>>
    BY DEF IInv, Control
  <2> QED
    <3>1. /\ PendingIn(stack, parent[from]) = {}
          /\ PendingEntriesIn(stack, parent[from], group[from]) = {}
      BY <2>1, NothingPending
    <3> QED
      BY <3>1 DEF IInv, Progress
<1>2. Consistent(before, Snapshot(from))
  BY DEF IInv, Related
<1>3. /\ \A k \in Groups : placed[into][k] \in Nat /\ placed[from][k] \in Nat /\ before.placed[k] \in Nat
      /\ \A e \in Entries : /\ moved[into][e] \in Nat /\ moved[from][e] \in Nat /\ before.moved[e] \in Nat
                            /\ body[into][e] \in Nat /\ body[from][e] \in Nat /\ before.body[e] \in Nat
  <2>1. into \in Copies /\ from \in Copies /\ clock \in Nat /\ before \in CopyType
    BY TheOther DEF IInv, Control, from
  <2>2. Snapshot(into) \in CopyType /\ Snapshot(from) \in CopyType
    BY <2>1, SnapshotHasType DEF IInv
  <2> QED
    BY <2>1, <2>2 DEF CopyType, Snapshot
<1>4. ASSUME NEW k \in Groups, parent[from][k] # None
      PROVE  /\ parent[into][k] # None
             /\ parent[into][k] = parent[from][k] \/ placed[from][k] < placed[into][k]
  <2>1. CASE before.parent[k] = None \/ before.placed[k] < placed[from][k]
    BY <1>1, <1>4, <2>1 DEF GroupIsDone
  <2>2. CASE before.parent[k] # None /\ ~(before.placed[k] < placed[from][k])
    <3>1. parent[into][k] = before.parent[k] /\ placed[into][k] = before.placed[k]
      BY <1>1, <2>2 DEF GroupIsDone
    <3>2. CASE before.placed[k] = placed[from][k]
      BY <3>1, <3>2, <2>2, <1>2, <1>4 DEF Consistent, Snapshot
    <3>3. CASE before.placed[k] # placed[from][k]
      BY <3>1, <3>3, <2>2, <1>3
    <3> QED
      BY <3>2, <3>3
  <2> QED
    BY <2>1, <2>2
<1>5. ASSUME NEW e \in Entries, group[from][e] # None
      PROVE  /\ group[into][e] # None
             /\ group[from][e] = group[into][e] \/ moved[from][e] < moved[into][e]
             /\ \/ body[from][e] = body[into][e] /\ history[from][e] = history[into][e]
                \/ body[from][e] < body[into][e]
  <2>1. CASE before.group[e] = None
    BY <1>1, <1>5, <2>1 DEF EntryIsDone
  <2>2. CASE before.group[e] # None
    <3>1. /\ before.moved[e] = moved[from][e] => before.group[e] = group[from][e]
          /\ before.body[e] = body[from][e] => before.history[e] = history[from][e]
      BY <1>2, <1>5, <2>2 DEF Consistent, Snapshot
    <3>2. /\ group[into][e] # None
          /\ group[from][e] = group[into][e] \/ moved[from][e] < moved[into][e]
      <4>1. CASE before.moved[e] < moved[from][e]
        BY <4>1, <1>1, <1>5 DEF EntryIsDone
      <4>2. CASE ~(before.moved[e] < moved[from][e])
        <5>1. group[into][e] = before.group[e] /\ before.moved[e] <= moved[into][e]
          BY <4>2, <1>1, <2>2 DEF EntryIsDone
        <5>2. before.moved[e] = moved[from][e] \/ moved[from][e] < moved[into][e]
          BY <4>2, <5>1, <1>3
        <5> QED
          BY <5>1, <5>2, <3>1, <2>2
      <4> QED
        BY <4>1, <4>2
    <3>3. \/ body[from][e] = body[into][e] /\ history[from][e] = history[into][e]
          \/ body[from][e] < body[into][e]
      <4>1. CASE before.body[e] < body[from][e]
        BY <4>1, <1>1, <1>5 DEF EntryIsDone
      <4>2. CASE ~(before.body[e] < body[from][e])
        <5>1. body[into][e] = before.body[e] /\ history[into][e] = before.history[e]
          BY <4>2, <1>1, <2>2 DEF EntryIsDone
        <5>2. before.body[e] = body[from][e] \/ body[from][e] < before.body[e]
          BY <4>2, <1>3
        <5> QED
          BY <5>1, <5>2, <3>1
      <4> QED
        BY <4>1, <4>2
    <3> QED
      BY <3>2, <3>3
  <2> QED
    BY <2>1, <2>2
<1>6. GroupsLead(Snapshot(into), Snapshot(from))
  <2>1. \A k \in Groups : placed[from][k] < placed[into][k] => placed[from][k] <= placed[into][k]
    BY <1>3
  <2> QED
    BY <2>1, <1>4 DEF GroupsLead, Snapshot
<1>7. Follows(Snapshot(from), Snapshot(into))
  BY <1>4, <1>5 DEF Follows, GroupsFollow, Snapshot
<1> QED
  BY <1>6, <1>7

LEMMA StartMergeKeeps ==
  ASSUME IInv, NEW c \in Copies, StartMerge(c)
  PROVE  IInv'
<1> DEFINE d == Other(c)
<1>1. /\ status \in {"apart", "merged"} /\ Len(rounds) < 2
      /\ status' = "merging" /\ into' = c /\ stack' = <<Call(d, Root)>>
      /\ before' = Snapshot(c) /\ rounds' = Append(rounds, c) /\ clock' = clock + 1
      /\ parent' = parent /\ placed' = placed /\ name' = name /\ settings' = settings /\ touched' = touched
      /\ group' = group /\ moved' = moved /\ body' = body /\ history' = history
  BY DEF StartMerge, groups, entries
<1>2. d \in Copies /\ d # c /\ from' = d /\ \A x \in Copies : x = c \/ x = d
  BY <1>1, TheOther DEF from
<1> HIDE DEF d
<1>3. /\ parent \in [Copies -> Trees] /\ group \in [Copies -> [Entries -> Places]]
      /\ \A x \in Copies : IsTree(parent[x]) /\ InGroups(parent[x], group[x])
  BY <1>1 DEF IInv, Shape, TreesStay
<1>4. Shape' /\ TreesStay'
  BY <1>1, <1>3 DEF Shape, TreesStay
<1>5. clock \in Nat /\ clock' \in Nat /\ clock <= clock'
  BY <1>1 DEF IInv, Control
<1>6. Times'
  BY <1>1, <1>5, WidenTimes DEF IInv, Times
<1>7. /\ stack' \in Seq(Calls) /\ stack' # <<>> /\ DOMAIN stack' = {1}
      /\ IsCall(stack'[1], Root, parent[d], group[d])
  <2>1. IsCall(Call(d, Root), Root, parent[d], group[d])
    BY <1>2, CallStarts DEF IInv
  <2>2. Call(d, Root) \in Calls
    BY <2>1 DEF IsCall
  <2>3. /\ stack' \in Seq(Calls) /\ stack' # <<>> /\ DOMAIN stack' = {1}
        /\ stack'[1] = Call(d, Root)
    BY <1>1, <2>2, OneCall
  <2> QED
    BY <2>1, <2>3
<1>8. /\ rounds \in Seq(Copies) /\ Len(rounds) \in Nat
      /\ rounds' \in Seq(Copies) /\ Len(rounds') = Len(rounds) + 1
      /\ rounds'[Len(rounds')] = c
      /\ \A i \in 1 .. Len(rounds) : rounds'[i] = rounds[i]
  BY <1>1 DEF IInv, Control
<1>9. Control'
  <2>1. before' \in CopyType
    BY <1>1, <1>5, SnapshotHasType DEF IInv
  <2>2. Len(rounds') \in 1 .. 2
    BY <1>1, <1>8
  <2>3. clock' <= MaxEdits + Len(rounds')
    <3>1. clock <= MaxEdits + Len(rounds)
      BY DEF IInv, Control
    <3> QED
      BY <3>1, <1>1, <1>5, <1>8, BoundAssumption
  <2> QED
    BY <1>1, <1>5, <1>7, <1>8, <2>1, <2>2, <2>3 DEF Control
<1>10. Related'
  <2>1. CASE status = "apart"
    <3>1. Consistent(Snapshot("ours"), Snapshot("theirs"))
      BY <2>1 DEF IInv, Related
    <3>2. Consistent(Snapshot(c), Snapshot(d))
      BY <3>1, <1>2, ConsistentIsSymmetric DEF Copies
    <3>3. Snapshot(from)' = Snapshot(d)
      BY <1>1, <1>2 DEF Snapshot
    <3>4. Len(rounds') = 1
      BY <2>1, <1>8 DEF IInv, Control
    <3>5. Consistent(before, Snapshot(from))'
      BY <3>2, <3>3, <1>1 DEF Consistent
    <3> QED
      BY <3>4, <3>5, <1>1 DEF Related
  <2>2. CASE status = "merged"
    <3>1. Len(rounds) = 1 /\ rounds[1] = into /\ into \in Copies /\ Len(rounds') = 2
      BY <2>2, <1>1, <1>8 DEF IInv, Control
    <3>2. rounds'[1] = into /\ rounds'[2] = c
      BY <3>1, <1>8
    <3>3. /\ GroupsLead(Snapshot(into), Snapshot(from))
          /\ Follows(Snapshot(from), Snapshot(into))
      BY <2>2, <3>1, MergedIsRelated
    <3>4. Snapshot(from)' = Snapshot(d)
      BY <1>1, <1>2 DEF Snapshot
    <3>5. CASE into = c
      <4>1. GroupsLead(before, Snapshot(from))'
        BY <3>3, <3>4, <3>5, <1>1, <1>2 DEF GroupsLead, from, d
      <4> QED
        BY <4>1, <3>1, <3>2, <3>5, <1>1 DEF Related
    <3>6. CASE into # c
      <4>1. from = c /\ into = d
        BY <3>1, <3>6, <1>2, TheOther DEF from
      <4>2. Follows(before, Snapshot(from))'
        BY <3>3, <3>4, <4>1, <1>1 DEF Follows, GroupsFollow
      <4> QED
        BY <4>2, <3>1, <3>2, <3>6, <1>1 DEF Related
    <3> QED
      BY <3>5, <3>6
  <2> QED
    BY <2>1, <2>2, <1>1
<1>11. /\ WalkOK(stack', parent[d], group[d])
       /\ PendingIn(stack', parent[d]) = {k \in Groups : parent[d][k] # None}
       /\ PendingEntriesIn(stack', parent[d], group[d]) = {e \in Entries : group[d][e] # None}
       /\ stack'[1].group = Root
  <2>1. parent[d] \in Trees /\ group[d] \in [Entries -> Places]
    BY <1>2, <1>3
  <2>2. stack'[1].group = Root
    BY <1>7 DEF IsCall
  <2> QED
    BY <1>2, <1>3, <1>7, <2>1, <2>2, StartWalk
<1>12. Walking'
  BY <1>1, <1>2, <1>7, <1>11 DEF Walking
<1>13. Progress'
  <2>1. ASSUME NEW k \in Groups
        PROVE  (IF k \in PendingIn(stack, parent[from]) THEN GroupWaits(k) ELSE GroupIsDone(k))'
    <3>1. touched[c][k] \in Nat
      BY <1>5 DEF IInv, Times
    <3>2. GroupWaits(k)'
      BY <3>1, <1>1 DEF GroupWaits, Snapshot
    <3>3. parent[d][k] = None => GroupIsDone(k)'
      BY <1>1, <1>2 DEF GroupIsDone, Snapshot
    <3> QED
      BY <3>2, <3>3, <1>1, <1>2, <1>11
  <2>2. ASSUME NEW e \in Entries
        PROVE  (IF e \in PendingEntriesIn(stack, parent[from], group[from])
                THEN EntryWaits(e) ELSE EntryIsDone(e))'
    <3>1. moved[c][e] \in Nat
      BY <1>5 DEF IInv, Times
    <3>2. EntryWaits(e)'
      BY <1>1 DEF EntryWaits, Snapshot
    <3>3. group[d][e] = None => EntryIsDone(e)'
      BY <3>1, <1>1, <1>2 DEF EntryIsDone, Snapshot
    <3> QED
      BY <3>2, <3>3, <1>1, <1>2, <1>11
  <2> QED
    BY <2>1, <2>2 DEF Progress
<1>14. HungCross'
  BY <1>1 DEF HungCross
<1> QED
  BY <1>4, <1>6, <1>9, <1>10, <1>12, <1>13, <1>14 DEF IInv

LEMMA MergeFacts ==
  ASSUME IInv, status = "merging"
  PROVE  /\ into \in Copies /\ from \in Copies /\ from # into
         /\ \A x \in Copies : x = into \/ x = from
         /\ clock \in Nat
         /\ \A x \in Copies : /\ parent[x] \in Trees /\ group[x] \in [Entries -> Places]
                              /\ IsTree(parent[x]) /\ InGroups(parent[x], group[x])
         /\ stack \in Seq(Calls) /\ stack # <<>> /\ 1 \in DOMAIN stack
         /\ Head(stack) = stack[1] /\ Head(stack) \in Calls
         /\ WalkOK(stack, parent[from], group[from])
         /\ \A i \in DOMAIN stack : stack[i].group \in GroupsOf(into) \cup {Root}
         /\ this = stack[1].group /\ this \in GroupsOf(into) \cup {Root}
         /\ this \notin PendingIn(stack, parent[from])
<1>1. into \in Copies /\ clock \in Nat /\ stack \in Seq(Calls) /\ stack # <<>>
  BY DEF IInv, Control
<1>2. from \in Copies /\ from # into /\ \A x \in Copies : x = into \/ x = from
  BY <1>1, TheOther DEF from
<1>3. \A x \in Copies : /\ parent[x] \in Trees /\ group[x] \in [Entries -> Places]
                        /\ IsTree(parent[x]) /\ InGroups(parent[x], group[x])
  BY DEF IInv, Shape, TreesStay
<1>4. /\ WalkOK(stack, parent[from], group[from])
      /\ \A i \in DOMAIN stack : stack[i].group \in GroupsOf(into) \cup {Root}
  BY DEF IInv, Walking
<1>5. 1 \in DOMAIN stack /\ Head(stack) = stack[1] /\ Head(stack) \in Calls
  BY <1>1, StackFacts
<1>6. this = stack[1].group /\ this \in GroupsOf(into) \cup {Root}
  BY <1>4, <1>5 DEF this
<1>7. this \notin PendingIn(stack, parent[from])
  BY <1>4, <1>5, <1>6 DEF WalkOK
<1> QED
  BY <1>1, <1>2, <1>3, <1>4, <1>5, <1>6, <1>7

\* The copy that is read stays as it is.
LEMMA MergeKeepsRelated ==
  ASSUME IInv, status = "merging", status' # "apart", UNCHANGED <<into, before, rounds>>,
         Snapshot(from)' = Snapshot(from)
  PROVE  Related'
<1>1. /\ Len(rounds) = 1 => Consistent(before, Snapshot(from))
      /\ Len(rounds) = 2 =>
           IF rounds[1] = rounds[2] THEN GroupsLead(before, Snapshot(from))
                                    ELSE Follows(before, Snapshot(from))
  BY DEF IInv, Related
<1>2. (Consistent(before, Snapshot(from)) => Consistent(before, Snapshot(from))')
  BY DEF Consistent
<1>3. (GroupsLead(before, Snapshot(from)) => GroupsLead(before, Snapshot(from))')
  BY DEF GroupsLead
<1>4. (Follows(before, Snapshot(from)) => Follows(before, Snapshot(from))')
  BY DEF Follows, GroupsFollow
<1> QED
  BY <1>1, <1>2, <1>3, <1>4 DEF Related

LEMMA TakeFacts ==
  ASSUME IInv, NEW e \in Entries, TakeEntry(e)
  PROVE  /\ status = "merging" /\ status' = "merging" /\ into' = into /\ from' = from
         /\ before' = before /\ rounds' = rounds /\ clock' = clock
         /\ group[from][e] = this /\ this # None
         /\ EntryWaits(e)
         /\ Control'
         /\ WalkOK(stack', parent[from], group[from])
         /\ \A i \in DOMAIN stack' : stack'[i].group \in GroupsOf(into) \cup {Root}
         /\ PendingIn(stack', parent[from]) = PendingIn(stack, parent[from])
         /\ PendingEntriesIn(stack', parent[from], group[from])
              = PendingEntriesIn(stack, parent[from], group[from]) \ {e}
<1>1. /\ status = "merging" /\ status' = "merging" /\ into' = into
      /\ before' = before /\ rounds' = rounds /\ clock' = clock
      /\ e \in Head(stack).entries
      /\ stack' = <<[Head(stack) EXCEPT !.entries = Head(stack).entries \ {e}]>> \o Tail(stack)
  BY DEF TakeEntry
<1>2. from' = from
  BY <1>1 DEF from
<1>3. /\ stack \in Seq(Calls) /\ stack # <<>> /\ 1 \in DOMAIN stack
      /\ Head(stack) = stack[1] /\ Head(stack) \in Calls
      /\ WalkOK(stack, parent[from], group[from])
      /\ \A i \in DOMAIN stack : stack[i].group \in GroupsOf(into) \cup {Root}
      /\ parent[from] \in Trees /\ IsTree(parent[from])
      /\ this = stack[1].group /\ this \in GroupsOf(into) \cup {Root}
  BY <1>1, MergeFacts
<1>4. group[from][e] = this /\ this # None
  BY <1>1, <1>3, NamesAssumption DEF WalkOK, GroupsOf
<1> DEFINE a == [Head(stack) EXCEPT !.entries = Head(stack).entries \ {e}]
<1>5. /\ a \in Calls /\ a.group = stack[1].group
      /\ a.group = Head(stack).group /\ a.children = Head(stack).children
      /\ a.entries = Head(stack).entries \ {e}
  BY <1>3 DEF Calls
<1>6. stack' = <<a>> \o Tail(stack)
  BY <1>1
<1> HIDE DEF a
<1>7. /\ WalkOK(stack', parent[from], group[from])
      /\ PendingIn(stack', parent[from]) = PendingIn(stack, parent[from])
      /\ PendingEntriesIn(stack', parent[from], group[from])
              = PendingEntriesIn(stack, parent[from], group[from]) \ {e}
      /\ e \in PendingEntriesIn(stack, parent[from], group[from])
  <2>1. Taken(stack, stack', e)
    BY <1>3, <1>5, <1>6, TakeIsTaken
  <2>2. e \in stack[1].entries
    BY <1>1, <1>3
  <2>3. /\ parent[from] \in Trees /\ IsTree(parent[from])
        /\ WalkOK(stack, parent[from], group[from])
    BY <1>3
  <2> QED
    BY <2>1, <2>2, <2>3, TakeWalk
<1>8. /\ stack' \in Seq(Calls) /\ stack' # <<>> /\ DOMAIN stack' = DOMAIN stack /\ stack'[1] = a
      /\ \A i \in DOMAIN stack : i # 1 => stack'[i] = stack[i]
  BY <1>3, <1>5, <1>6, ReplacedFacts
<1>9. \A i \in DOMAIN stack' : stack'[i].group \in GroupsOf(into) \cup {Root}
  BY <1>3, <1>5, <1>8
<1>10. Control'
  BY <1>1, <1>8 DEF IInv, Control
<1>11. EntryWaits(e)
  BY <1>1, <1>7 DEF IInv, Progress
<1> QED
  BY <1>1, <1>2, <1>4, <1>7, <1>9, <1>10, <1>11

\* An entry that is taken is done, and it takes a group out of the comparison of
\* modification times only if that group loses it.
LEMMA EntryStepKeeps ==
  ASSUME IInv, NEW e \in Entries, TakeEntry(e), UNCHANGED <<parent, placed, name, settings>>,
         group' \in [Copies -> [Entries -> Places]],
         moved' \in [Copies -> [Entries -> 0 .. clock]],
         body' \in [Copies -> [Entries -> 0 .. clock]],
         history' \in [Copies -> [Entries -> SUBSET (0 .. clock)]],
         group'[from] = group[from], moved'[from] = moved[from],
         body'[from] = body[from], history'[from] = history[from],
         \A x \in Entries : x # e =>
           /\ group'[into][x] = group[into][x] /\ moved'[into][x] = moved[into][x]
           /\ body'[into][x] = body[into][x] /\ history'[into][x] = history[into][x],
         group'[into][e] \in {this, group[into][e]},
         NEW gs \in SUBSET {this, group[into][e]}, touched' = Touched(into, gs, clock),
         EntryIsDone(e)'
  PROVE  IInv'
<1>1. /\ into \in Copies /\ from \in Copies /\ from # into
      /\ \A x \in Copies : x = into \/ x = from
      /\ clock \in Nat /\ clock <= clock
      /\ \A x \in Copies : IsTree(parent[x]) /\ InGroups(parent[x], group[x])
      /\ this \in GroupsOf(into) \cup {Root}
      /\ this \notin PendingIn(stack, parent[from])
  BY MergeFacts, TakeFacts
<1>2. /\ status = "merging" /\ status' = "merging" /\ into' = into /\ from' = from
      /\ before' = before /\ rounds' = rounds /\ clock' = clock
      /\ group[from][e] = this /\ this # None
      /\ EntryWaits(e)
      /\ Control'
      /\ WalkOK(stack', parent[from], group[from])
      /\ \A i \in DOMAIN stack' : stack'[i].group \in GroupsOf(into) \cup {Root}
      /\ PendingIn(stack', parent[from]) = PendingIn(stack, parent[from])
      /\ PendingEntriesIn(stack', parent[from], group[from])
           = PendingEntriesIn(stack, parent[from], group[from]) \ {e}
  BY TakeFacts
<1>3. parent' = parent /\ placed' = placed /\ name' = name /\ settings' = settings
  OBVIOUS
<1>4. /\ touched' \in [Copies -> [Groups -> 0 .. clock]]
      /\ \A k \in Groups : touched'[into][k] = IF k \in gs THEN clock ELSE touched[into][k]
      /\ touched'[from] = touched[from]
  <2>1. touched \in [Copies -> [Groups -> 0 .. clock]]
    BY DEF IInv, Times
  <2>2. \A f : f = Touched(into, gs, clock) =>
          /\ f \in [Copies -> [Groups -> 0 .. clock]]
          /\ \A k \in Groups : f[into][k] = IF k \in gs THEN clock ELSE touched[into][k]
          /\ \A d \in Copies : d # into => f[d] = touched[d]
    BY <2>1, <1>1, TouchedSome
  <2> QED
    BY <2>2, <1>1
<1>5. Shape'
  BY <1>3 DEF IInv, Shape
<1>6. Times'
  BY <1>2, <1>3, <1>4 DEF IInv, Times
<1>7. TreesStay'
  <2>1. InGroups(parent[into], group'[into])
    <3> SUFFICES ASSUME NEW x \in Entries, group'[into][x] # None
                 PROVE  group'[into][x] \in GroupsOf(into) \cup {Root}
      BY DEF InGroups, GroupsOf
    <3>1. \A y \in Entries : group[into][y] # None => group[into][y] \in GroupsOf(into) \cup {Root}
      BY <1>1 DEF InGroups, GroupsOf
    <3>2. CASE x = e
      BY <3>1, <3>2, <1>1
    <3>3. CASE x # e
      BY <3>1, <3>3
    <3> QED
      BY <3>2, <3>3
  <2>2. \A x \in Copies : IsTree(parent[x]) /\ InGroups(parent[x], group'[x])
    BY <1>1, <2>1
  <2> QED
    BY <2>2, <1>3 DEF TreesStay
<1>8. Related'
  <2>1. Snapshot(from)' = Snapshot(from)
    BY <1>2, <1>3, <1>4 DEF Snapshot
  <2> QED
    BY <2>1, <1>2, MergeKeepsRelated
<1>9. Walking'
  <2>1. WalkOK(stack', parent'[from'], group'[from'])
    BY <1>2, <1>3
  <2>2. \A i \in DOMAIN stack' : stack'[i].group \in GroupsOf(into)' \cup {Root}
    BY <1>2, <1>3 DEF GroupsOf
  <2> QED
    BY <2>1, <2>2 DEF Walking
<1>10. Progress'
  <2>1. ASSUME NEW k \in Groups
        PROVE  (IF k \in PendingIn(stack, parent[from]) THEN GroupWaits(k) ELSE GroupIsDone(k))'
    <3>1. CASE k \in PendingIn(stack, parent[from])
      <4>1. GroupWaits(k)
        BY <1>2, <3>1 DEF IInv, Progress
      <4>2. touched[into][k] \in 0 .. clock /\ before.touched[k] \in Nat
        BY <1>1 DEF IInv, Times, Control, CopyType
      <4>3. CASE k \notin gs
        <5>1. touched'[into][k] = touched[into][k]
          BY <4>3, <1>4
        <5>2. Emptied(k) => Emptied(k)'
          BY <1>2 DEF Emptied
        <5>3. GroupWaits(k)'
          BY <4>1, <5>1, <5>2, <1>2, <1>3 DEF GroupWaits
        <5> QED
          BY <5>3, <3>1, <1>2, <1>3
      <4>4. CASE k \in gs
        <5>1. k = group[into][e] /\ k # this
          BY <4>4, <3>1, <1>1
        <5>2. before.group[e] = k
          BY <5>1, <1>2 DEF EntryWaits
        <5>3. Emptied(k)'
          BY <5>1, <5>2, <1>2 DEF Emptied
        <5>4. touched'[into][k] = clock
          BY <4>4, <1>4
        <5>5. before.touched[k] <= touched[into][k]
          BY <4>1 DEF GroupWaits
        <5>6. before.touched[k] <= clock
          BY <4>2, <5>5, <1>1
        <5>7. GroupWaits(k)'
          BY <4>1, <5>3, <5>4, <5>6, <1>2, <1>3 DEF GroupWaits
        <5> QED
          BY <5>7, <3>1, <1>2, <1>3
      <4> QED
        BY <4>3, <4>4
    <3>2. CASE k \notin PendingIn(stack, parent[from])
      <4>1. GroupIsDone(k)
        BY <1>2, <3>2 DEF IInv, Progress
      <4>2. Emptied(k)' = Emptied(k)
        BY <1>2 DEF Emptied
      <4>3. touched'[from][k] = touched[from][k]
        BY <1>4
      <4>4. GroupIsDone(k)'
        BY <4>1, <4>2, <4>3, <1>2, <1>3 DEF GroupIsDone
      <4> QED
        BY <4>4, <3>2, <1>2, <1>3
    <3> QED
      BY <3>1, <3>2
  <2>2. ASSUME NEW x \in Entries
        PROVE  (IF x \in PendingEntriesIn(stack, parent[from], group[from])
                THEN EntryWaits(x) ELSE EntryIsDone(x))'
    <3>1. CASE x = e
      BY <3>1, <1>2, <1>3
    <3>2. CASE x # e /\ x \in PendingEntriesIn(stack, parent[from], group[from])
      <4>1. EntryWaits(x)
        BY <1>2, <3>2 DEF IInv, Progress
      <4>2. EntryWaits(x)'
        BY <4>1, <3>2, <1>2 DEF EntryWaits
      <4> QED
        BY <4>2, <3>2, <1>2, <1>3
    <3>3. CASE x # e /\ x \notin PendingEntriesIn(stack, parent[from], group[from])
      <4>1. EntryIsDone(x)
        BY <1>2, <3>3 DEF IInv, Progress
      <4>2. EntryIsDone(x)'
        BY <4>1, <3>3, <1>2 DEF EntryIsDone
      <4> QED
        BY <4>2, <3>3, <1>2, <1>3
    <3> QED
      BY <3>1, <3>2, <3>3
  <2> QED
    BY <2>1, <2>2 DEF Progress
<1>11. HungCross'
  BY <1>2 DEF HungCross
<1> QED
  BY <1>2, <1>5, <1>6, <1>7, <1>8, <1>9, <1>10, <1>11 DEF IInv

LEMMA AddEntryKeeps ==
  ASSUME IInv, NEW e \in Entries, AddEntry(e)
  PROVE  IInv'
<1>1. /\ TakeEntry(e) /\ group[into][e] = None
      /\ group' = [group EXCEPT ![into][e] = this]
      /\ moved' = [moved EXCEPT ![into][e] = clock]
      /\ body' = [body EXCEPT ![into][e] = body[from][e]]
      /\ history' = [history EXCEPT ![into][e] = history[from][e]]
      /\ touched' = Touched(into, {this}, clock)
      /\ UNCHANGED <<parent, placed, name, settings>>
  BY DEF AddEntry, EntriesOf
<1>2. /\ status = "merging" /\ into' = into /\ from' = from /\ before' = before
      /\ group[from][e] = this /\ this # None /\ EntryWaits(e)
  BY <1>1, TakeFacts
<1>3. /\ into \in Copies /\ from \in Copies /\ from # into /\ clock \in Nat
      /\ this \in GroupsOf(into) \cup {Root}
  BY <1>2, MergeFacts
<1>4. this \in Places /\ clock \in 0 .. clock
  BY <1>3 DEF GroupsOf, Places
<1>5. /\ group' \in [Copies -> [Entries -> Places]]
      /\ group'[into][e] = this /\ \A x \in Entries : x # e => group'[into][x] = group[into][x]
      /\ group'[from] = group[from]
  BY <1>1, <1>3, <1>4 DEF IInv, Shape
<1>6. /\ moved' \in [Copies -> [Entries -> 0 .. clock]]
      /\ \A x \in Entries : x # e => moved'[into][x] = moved[into][x]
      /\ moved'[from] = moved[from]
  BY <1>1, <1>3, <1>4 DEF IInv, Times
<1>7. /\ body' \in [Copies -> [Entries -> 0 .. clock]]
      /\ body'[into][e] = body[from][e]
      /\ \A x \in Entries : x # e => body'[into][x] = body[into][x]
      /\ body'[from] = body[from]
  BY <1>1, <1>3 DEF IInv, Times
<1>8. /\ history' \in [Copies -> [Entries -> SUBSET (0 .. clock)]]
      /\ history'[into][e] = history[from][e]
      /\ \A x \in Entries : x # e => history'[into][x] = history[into][x]
      /\ history'[from] = history[from]
  BY <1>1, <1>3 DEF IInv, Times
<1>9. before.group[e] = None
  BY <1>1, <1>2 DEF EntryWaits
<1>10. EntryIsDone(e)'
  BY <1>2, <1>5, <1>7, <1>8, <1>9 DEF EntryIsDone
<1> DEFINE gs == {this}
<1>11. gs \in SUBSET {this, group[into][e]} /\ touched' = Touched(into, gs, clock)
  BY <1>1
<1> HIDE DEF gs
<1> QED
  BY <1>1, <1>5, <1>6, <1>7, <1>8, <1>10, <1>11, EntryStepKeeps

LEMMA MergeEntryKeeps ==
  ASSUME IInv, NEW e \in Entries, MergeEntry(e)
  PROVE  IInv'
<1> DEFINE there == EntryRelocated(e)
           newer == EntryNewer(e)
           home == IF there THEN this ELSE group[into][e]
           gs == (IF there THEN {home, group[into][e]} ELSE {}) \cup (IF newer THEN {home} ELSE {})
<1>1. /\ TakeEntry(e) /\ group[into][e] # None
      /\ group' = [group EXCEPT ![into][e] = home]
      /\ moved' = IF there \/ newer THEN [moved EXCEPT ![into][e] = clock] ELSE moved
      /\ body' = IF newer THEN [body EXCEPT ![into][e] = body[from][e]] ELSE body
      /\ history' = IF newer THEN [history EXCEPT ![into][e] = history[from][e]] ELSE history
      /\ touched' = Touched(into, gs, clock)
      /\ UNCHANGED <<parent, placed, name, settings>>
  BY DEF MergeEntry, EntriesOf
<1>2. /\ status = "merging" /\ into' = into /\ from' = from /\ before' = before
      /\ group[from][e] = this /\ this # None /\ EntryWaits(e)
  BY <1>1, TakeFacts
<1>3. /\ into \in Copies /\ from \in Copies /\ from # into /\ clock \in Nat
      /\ this \in GroupsOf(into) \cup {Root} /\ group[into] \in [Entries -> Places]
  BY <1>2, MergeFacts
<1>4. /\ home \in {this, group[into][e]} /\ home \in Places /\ clock \in 0 .. clock
      /\ gs \in SUBSET {this, group[into][e]}
      /\ there => home = this
      /\ ~there => home = group[into][e]
  BY <1>3 DEF GroupsOf, Places
<1>5. /\ there <=> moved[into][e] < moved[from][e] /\ group[into][e] # this
      /\ newer <=> body[into][e] < body[from][e]
  BY DEF EntryRelocated, EntryNewer
<1> HIDE DEF there, newer, home, gs
<1>6. /\ group' \in [Copies -> [Entries -> Places]]
      /\ group'[into][e] = home /\ \A x \in Entries : x # e => group'[into][x] = group[into][x]
      /\ group'[from] = group[from]
  BY <1>1, <1>3, <1>4 DEF IInv, Shape
<1>7. /\ moved' \in [Copies -> [Entries -> 0 .. clock]]
      /\ moved'[into][e] \in {clock, moved[into][e]}
      /\ \A x \in Entries : x # e => moved'[into][x] = moved[into][x]
      /\ moved'[from] = moved[from]
  <2>1. moved \in [Copies -> [Entries -> 0 .. clock]]
    BY DEF IInv, Times
  <2>2. CASE moved' = moved
    BY <2>1, <2>2
  <2>3. CASE moved' = [moved EXCEPT ![into][e] = clock]
    BY <2>1, <2>3, <1>3, <1>4
  <2> QED
    BY <2>2, <2>3, <1>1
<1>8. /\ body' \in [Copies -> [Entries -> 0 .. clock]]
      /\ body'[into][e] = IF newer THEN body[from][e] ELSE body[into][e]
      /\ \A x \in Entries : x # e => body'[into][x] = body[into][x]
      /\ body'[from] = body[from]
  <2>1. body \in [Copies -> [Entries -> 0 .. clock]]
    BY DEF IInv, Times
  <2>2. CASE newer
    BY <2>1, <2>2, <1>1, <1>3
  <2>3. CASE ~newer
    BY <2>1, <2>3, <1>1
  <2> QED
    BY <2>2, <2>3
<1>9. /\ history' \in [Copies -> [Entries -> SUBSET (0 .. clock)]]
      /\ history'[into][e] = IF newer THEN history[from][e] ELSE history[into][e]
      /\ \A x \in Entries : x # e => history'[into][x] = history[into][x]
      /\ history'[from] = history[from]
  <2>1. history \in [Copies -> [Entries -> SUBSET (0 .. clock)]]
    BY DEF IInv, Times
  <2>2. CASE newer
    BY <2>1, <2>2, <1>1, <1>3
  <2>3. CASE ~newer
    BY <2>1, <2>3, <1>1
  <2> QED
    BY <2>2, <2>3
<1>10. EntryIsDone(e)'
  <2>1. /\ before.group[e] # None /\ group[into][e] = before.group[e]
        /\ moved[into][e] = before.moved[e] /\ body[into][e] = before.body[e]
        /\ history[into][e] = before.history[e]
    BY <1>1, <1>2 DEF EntryWaits
  <2>2. before.moved[e] \in 0 .. clock
    BY <2>1, <1>3 DEF IInv, Times
  <2>3. before.moved[e] <= clock /\ before.moved[e] <= before.moved[e]
    BY <2>2, <1>3
  <2>4. before.moved[e] < moved[from][e] => group'[into][e] = group[from][e]
    BY <2>1, <1>2, <1>4, <1>5, <1>6
  <2>5. ~(before.moved[e] < moved[from][e]) =>
          group'[into][e] = before.group[e] /\ before.moved[e] <= moved'[into][e]
    BY <2>1, <2>3, <1>4, <1>5, <1>6, <1>7
  <2>6. newer <=> before.body[e] < body[from][e]
    BY <2>1, <1>5
  <2> QED
    BY <2>1, <2>4, <2>5, <2>6, <1>2, <1>6, <1>7, <1>8, <1>9 DEF EntryIsDone
<1> QED
  BY <1>1, <1>4, <1>6, <1>7, <1>8, <1>9, <1>10, EntryStepKeeps

LEMMA TakeGroupFacts ==
  ASSUME IInv, NEW k \in Groups, NEW q, TakeGroup(k, q)
  PROVE  /\ status = "merging" /\ status' \in {"merging", "hung"} /\ into' = into /\ from' = from
         /\ before' = before /\ rounds' = rounds /\ clock' = clock
         /\ parent' = [parent EXCEPT ![into][k] = q]
         /\ group' = group /\ moved' = moved /\ body' = body /\ history' = history
         /\ status' = "hung" <=> k \in Below(parent'[into], k)
         /\ parent[from][k] = this /\ this # None /\ this # k
         /\ GroupWaits(k)
         /\ Control'
         /\ WalkOK(stack', parent[from], group[from])
         /\ \A i \in DOMAIN stack' : stack'[i].group \in GroupsOf(into) \cup {Root, k}
         /\ k \notin PendingIn(stack', parent[from])
         /\ PendingIn(stack, parent[from]) = PendingIn(stack', parent[from]) \cup {k}
         /\ PendingEntriesIn(stack', parent[from], group[from])
              = PendingEntriesIn(stack, parent[from], group[from])
<1>1. /\ status = "merging" /\ into' = into
      /\ before' = before /\ rounds' = rounds /\ clock' = clock
      /\ parent' = [parent EXCEPT ![into][k] = q]
      /\ group' = group /\ moved' = moved /\ body' = body /\ history' = history
      /\ status' = IF k \in Below(parent'[into], k) THEN "hung" ELSE "merging"
      /\ Head(stack).entries = {} /\ k \in Head(stack).children
      /\ stack' = <<Call(from, k), [Head(stack) EXCEPT !.children = Head(stack).children \ {k}]>>
                    \o Tail(stack)
  BY DEF TakeGroup, entries
<1>2. from' = from
  BY <1>1 DEF from
<1>3. /\ stack \in Seq(Calls) /\ stack # <<>> /\ 1 \in DOMAIN stack
      /\ Head(stack) = stack[1] /\ Head(stack) \in Calls
      /\ WalkOK(stack, parent[from], group[from])
      /\ \A i \in DOMAIN stack : stack[i].group \in GroupsOf(into) \cup {Root}
      /\ from \in Copies /\ parent[from] \in Trees /\ IsTree(parent[from])
      /\ this = stack[1].group /\ this \in GroupsOf(into) \cup {Root}
  BY <1>1, MergeFacts
<1>4. parent[from][k] = this /\ this # None
  BY <1>1, <1>3, NamesAssumption DEF WalkOK, GroupsOf
<1>5. this # k
  BY <1>3, <1>4, ChildIsBelow, TreeHasNoCycle
<1> DEFINE a == Call(from, k)
           b == [Head(stack) EXCEPT !.children = Head(stack).children \ {k}]
<1>6. IsCall(a, k, parent[from], group[from])
  BY <1>3, CallStarts DEF IInv
<1>7. /\ b \in Calls /\ b.group = Head(stack).group /\ b.entries = Head(stack).entries
      /\ b.children = Head(stack).children \ {k}
  BY <1>3 DEF Calls
<1>8. stack' = <<a, b>> \o Tail(stack)
  BY <1>1
<1> HIDE DEF a, b
<1>9. /\ a \in Calls /\ a.group = k /\ a.entries = {e \in Entries : group[from][e] = k}
      /\ a.children = {h \in Groups : parent[from][h] = k}
  BY <1>6 DEF IsCall
<1>10. Pushed(stack, stack', k, parent[from], group[from])
  BY <1>3, <1>7, <1>8, <1>9, PushIsPushed
<1>11. stack' \in Seq(Calls) /\ stack' # <<>>
  BY <1>3, <1>7, <1>8, <1>9, PushedFacts
<1>12. /\ WalkOK(stack', parent[from], group[from])
       /\ k \notin PendingIn(stack', parent[from])
       /\ PendingIn(stack, parent[from]) = PendingIn(stack', parent[from]) \cup {k}
       /\ PendingEntriesIn(stack', parent[from], group[from])
            = PendingEntriesIn(stack, parent[from], group[from])
  <2>1. stack[1].entries = {} /\ k \in stack[1].children
    BY <1>1, <1>3
  <2>2. /\ parent[from] \in Trees /\ IsTree(parent[from])
        /\ WalkOK(stack, parent[from], group[from])
    BY <1>3
  <2> QED
    BY <1>10, <2>1, <2>2, PushWalk
<1>13. \A i \in DOMAIN stack' : stack'[i].group \in GroupsOf(into) \cup {Root, k}
  <2> SUFFICES ASSUME NEW i \in DOMAIN stack'
               PROVE  stack'[i].group \in GroupsOf(into) \cup {Root, k}
    OBVIOUS
  <2>1. CASE i = 1
    BY <2>1, <1>10 DEF Pushed
  <2>2. CASE i # 1
    <3>1. i - 1 \in DOMAIN stack /\ stack'[i].group = stack[i - 1].group
      BY <2>2, <1>10 DEF Pushed
    <3> QED
      BY <3>1, <1>3
  <2> QED
    BY <2>1, <2>2
<1>14. Control'
  BY <1>1, <1>11 DEF IInv, Control
<1>15. GroupWaits(k)
  BY <1>1, <1>12 DEF IInv, Progress
<1> QED
  BY <1>1, <1>2, <1>4, <1>5, <1>12, <1>13, <1>14, <1>15

\* A group that is taken is done; it is moved where the other copy has it, into a
\* cycle only if that is possible at all.
LEMMA GroupStepKeeps ==
  ASSUME IInv, NEW k \in Groups, NEW q \in GroupsOf(into) \cup {Root}, TakeGroup(k, q),
         placed' \in [Copies -> [Groups -> 0 .. clock]],
         name' \in [Copies -> [Groups -> 0 .. clock]],
         settings' \in [Copies -> [Groups -> 0 .. clock]],
         touched' \in [Copies -> [Groups -> 0 .. clock]],
         placed'[from] = placed[from], name'[from] = name[from],
         settings'[from] = settings[from], touched'[from] = touched[from],
         \A h \in Groups : h # k =>
           /\ placed'[into][h] = placed[into][h] /\ name'[into][h] = name[into][h]
           /\ settings'[into][h] = settings[into][h] /\ touched'[into][h] = touched[into][h],
         GroupIsDone(k)',
         k \in Below([parent[into] EXCEPT ![k] = q], k) =>
           ~GroupsLead(before, Snapshot(from)) /\ ~GroupsFollow(before, Snapshot(from))
  PROVE  IInv'
<1>1. /\ status = "merging" /\ status' \in {"merging", "hung"} /\ into' = into /\ from' = from
      /\ before' = before /\ rounds' = rounds /\ clock' = clock
      /\ parent' = [parent EXCEPT ![into][k] = q]
      /\ group' = group /\ moved' = moved /\ body' = body /\ history' = history
      /\ status' = "hung" <=> k \in Below(parent'[into], k)
      /\ Control'
      /\ WalkOK(stack', parent[from], group[from])
      /\ \A i \in DOMAIN stack' : stack'[i].group \in GroupsOf(into) \cup {Root, k}
      /\ k \notin PendingIn(stack', parent[from])
      /\ PendingIn(stack, parent[from]) = PendingIn(stack', parent[from]) \cup {k}
      /\ PendingEntriesIn(stack', parent[from], group[from])
           = PendingEntriesIn(stack, parent[from], group[from])
  BY TakeGroupFacts
<1>2. /\ into \in Copies /\ from \in Copies /\ from # into
      /\ \A x \in Copies : x = into \/ x = from
      /\ parent[into] \in Trees
      /\ \A x \in Copies : IsTree(parent[x]) /\ InGroups(parent[x], group[x])
  BY <1>1, MergeFacts
<1>3. q \in Places /\ q \in Groups \cup {Root} /\ q # None /\ (q \in Groups => parent[into][q] # None)
  BY NamesAssumption DEF GroupsOf, Places
<1>4. /\ parent' \in [Copies -> Trees]
      /\ parent'[into] = [parent[into] EXCEPT ![k] = q]
      /\ parent'[into][k] = q /\ \A h \in Groups : h # k => parent'[into][h] = parent[into][h]
      /\ parent'[from] = parent[from]
  <2>1. parent \in [Copies -> [Groups -> Places]]
    BY DEF IInv, Shape, Trees
  <2>2. /\ parent' \in [Copies -> [Groups -> Places]]
        /\ parent'[into] = [parent[into] EXCEPT ![k] = q]
        /\ parent'[into][k] = q /\ \A h \in Groups : h # k => parent'[into][h] = parent[into][h]
        /\ parent'[from] = parent[from]
    BY <2>1, <1>1, <1>2, <1>3
  <2> QED
    BY <2>2 DEF Trees
<1>5. Shape'
  BY <1>1, <1>4 DEF IInv, Shape
<1>6. Times'
  BY <1>1 DEF IInv, Times
<1>7. TreesStay'
  <2> SUFFICES ASSUME status' # "hung", NEW x \in Copies
               PROVE  IsTree(parent'[x]) /\ InGroups(parent'[x], group'[x])
    BY DEF TreesStay
  <2>1. CASE x = from
    BY <2>1, <1>1, <1>2, <1>4
  <2>2. CASE x = into
    <3>1. k \notin Below(parent'[into], k)
      BY <1>1
    <3>2. IsTree(parent'[into])
      BY <3>1, <1>2, <1>3, <1>4, MoveKeepsTree
    <3>3. InGroups(parent'[into], group[into])
      BY <1>2, <1>3, <1>4 DEF InGroups
    <3> QED
      BY <3>2, <3>3, <2>2, <1>1
  <2> QED
    BY <2>1, <2>2, <1>2
<1>8. Related'
  <2>1. Snapshot(from)' = Snapshot(from)
    BY <1>1, <1>4 DEF Snapshot
  <2> QED
    BY <2>1, <1>1, MergeKeepsRelated
<1>9. Walking'
  <2>1. WalkOK(stack', parent'[from], group'[from])
    BY <1>1, <1>4
  <2>2. \A i \in DOMAIN stack' : stack'[i].group \in GroupsOf(into)' \cup {Root}
    BY <1>1, <1>3, <1>4 DEF GroupsOf
  <2> QED
    BY <2>1, <2>2, <1>1 DEF Walking
<1>10. Progress'
  <2>1. ASSUME NEW h \in Groups
        PROVE  (IF h \in PendingIn(stack, parent[from]) THEN GroupWaits(h) ELSE GroupIsDone(h))'
    <3>1. CASE h = k
      BY <3>1, <1>1, <1>4
    <3>2. CASE h # k /\ h \in PendingIn(stack, parent[from])
      <4>1. GroupWaits(h)
        BY <1>1, <3>2 DEF IInv, Progress
      <4>2. Emptied(h)' = Emptied(h)
        BY <1>1 DEF Emptied
      <4>3. GroupWaits(h)'
        BY <4>1, <4>2, <3>2, <1>1, <1>4 DEF GroupWaits
      <4> QED
        BY <4>3, <3>2, <1>1, <1>4
    <3>3. CASE h # k /\ h \notin PendingIn(stack, parent[from])
      <4>1. GroupIsDone(h)
        BY <1>1, <3>3 DEF IInv, Progress
      <4>2. Emptied(h)' = Emptied(h)
        BY <1>1 DEF Emptied
      <4>3. GroupIsDone(h)'
        BY <4>1, <4>2, <3>3, <1>1, <1>4 DEF GroupIsDone
      <4> QED
        BY <4>3, <3>3, <1>1, <1>4
    <3> QED
      BY <3>1, <3>2, <3>3
  <2>2. ASSUME NEW x \in Entries
        PROVE  (IF x \in PendingEntriesIn(stack, parent[from], group[from])
                THEN EntryWaits(x) ELSE EntryIsDone(x))'
    <3>1. CASE x \in PendingEntriesIn(stack, parent[from], group[from])
      <4>1. EntryWaits(x)
        BY <1>1, <3>1 DEF IInv, Progress
      <4>2. EntryWaits(x)'
        BY <4>1, <1>1 DEF EntryWaits
      <4> QED
        BY <4>2, <3>1, <1>1, <1>4
    <3>2. CASE x \notin PendingEntriesIn(stack, parent[from], group[from])
      <4>1. EntryIsDone(x)
        BY <1>1, <3>2 DEF IInv, Progress
      <4>2. EntryIsDone(x)'
        BY <4>1, <1>1 DEF EntryIsDone
      <4> QED
        BY <4>2, <3>2, <1>1, <1>4
    <3> QED
      BY <3>1, <3>2
  <2> QED
    BY <2>1, <2>2 DEF Progress
<1>11. HungCross'
  <2>1. Snapshot(from)' = Snapshot(from)
    BY <1>1, <1>4 DEF Snapshot
  <2>2. status' = "hung" =>
          ~GroupsLead(before, Snapshot(from)) /\ ~GroupsFollow(before, Snapshot(from))
    BY <1>1, <1>4
  <2>3. GroupsLead(before, Snapshot(from))' => GroupsLead(before, Snapshot(from))
    BY <2>1, <1>1 DEF GroupsLead
  <2>4. GroupsFollow(before, Snapshot(from))' => GroupsFollow(before, Snapshot(from))
    BY <2>1, <1>1 DEF GroupsFollow
  <2> QED
    BY <2>2, <2>3, <2>4 DEF HungCross
<1> QED
  BY <1>1, <1>5, <1>6, <1>7, <1>8, <1>9, <1>10, <1>11 DEF IInv

\* The time that a merge sets.
LEMMA MergeTouches ==
  ASSUME clock \in Nat, clock <= clock, touched \in [Copies -> [Groups -> 0 .. clock]],
         into \in Copies, from \in Copies, from # into, NEW g, touched' = Touched(into, {g}, clock)
  PROVE  /\ touched' \in [Copies -> [Groups -> 0 .. clock]]
         /\ \A h \in Groups : h # g => touched'[into][h] = touched[into][h]
         /\ touched'[from] = touched[from]
<1>1. \A gs : \A f : f = Touched(into, gs, clock) =>
        /\ f \in [Copies -> [Groups -> 0 .. clock]]
        /\ \A k \in Groups : f[into][k] = IF k \in gs THEN clock ELSE touched[into][k]
        /\ \A d \in Copies : d # into => f[d] = touched[d]
  BY TouchedSome
<1>2. /\ touched' \in [Copies -> [Groups -> 0 .. clock]]
      /\ \A k \in Groups : touched'[into][k] = IF k \in {g} THEN clock ELSE touched[into][k]
      /\ \A d \in Copies : d # into => touched'[d] = touched[d]
  BY <1>1
<1> QED
  BY <1>2

LEMMA AddGroupKeeps ==
  ASSUME IInv, NEW k \in Groups, AddGroup(k)
  PROVE  IInv'
<1>1. /\ TakeGroup(k, this) /\ parent[into][k] = None
      /\ placed' = [placed EXCEPT ![into][k] = clock]
      /\ name' = [name EXCEPT ![into][k] = name[from][k]]
      /\ settings' = [settings EXCEPT ![into][k] = settings[from][k]]
      /\ touched' = Touched(into, {k}, clock)
  BY DEF AddGroup, GroupsOf
<1>2. /\ status = "merging" /\ into' = into /\ from' = from /\ before' = before
      /\ parent' = [parent EXCEPT ![into][k] = this]
      /\ parent[from][k] = this /\ this # None /\ this # k
      /\ GroupWaits(k)
  BY <1>1, TakeGroupFacts
<1>3. /\ into \in Copies /\ from \in Copies /\ from # into /\ clock \in Nat
      /\ parent[into] \in Trees /\ IsTree(parent[into])
      /\ this \in GroupsOf(into) \cup {Root} /\ this \in Groups \cup {Root}
  BY <1>2, MergeFacts DEF GroupsOf
<1>4. /\ clock \in 0 .. clock /\ clock <= clock
      /\ placed \in [Copies -> [Groups -> 0 .. clock]]
      /\ name \in [Copies -> [Groups -> 0 .. clock]]
      /\ settings \in [Copies -> [Groups -> 0 .. clock]]
      /\ touched \in [Copies -> [Groups -> 0 .. clock]]
  BY <1>3 DEF IInv, Times
<1>5. /\ placed' \in [Copies -> [Groups -> 0 .. clock]]
      /\ \A h \in Groups : h # k => placed'[into][h] = placed[into][h]
      /\ placed'[from] = placed[from]
  BY <1>1, <1>3, <1>4
<1>6. /\ name' \in [Copies -> [Groups -> 0 .. clock]]
      /\ name'[into][k] = name[from][k]
      /\ \A h \in Groups : h # k => name'[into][h] = name[into][h]
      /\ name'[from] = name[from]
      /\ settings' \in [Copies -> [Groups -> 0 .. clock]]
      /\ settings'[into][k] = settings[from][k] /\ settings'[from] = settings[from]
      /\ \A h \in Groups : h # k => settings'[into][h] = settings[into][h]
  BY <1>1, <1>3, <1>4
<1>7. /\ touched' \in [Copies -> [Groups -> 0 .. clock]]
      /\ \A h \in Groups : h # k => touched'[into][h] = touched[into][h]
      /\ touched'[from] = touched[from]
  BY <1>1, <1>3, <1>4, MergeTouches
<1>8. GroupIsDone(k)'
  <2>1. before.parent[k] = None
    BY <1>1, <1>2 DEF GroupWaits
  <2>2. parent'[into][k] = this /\ parent'[from][k] = this
    <3>1. parent \in [Copies -> [Groups -> Places]]
      BY DEF IInv, Shape, Trees
    <3> QED
      BY <3>1, <1>2, <1>3
  <2> QED
    BY <2>1, <2>2, <1>2, <1>6 DEF GroupIsDone
<1>9. k \notin Below([parent[into] EXCEPT ![k] = this], k)
  BY <1>1, <1>2, <1>3, NewMakesNoCycle
<1> QED
  BY <1>1, <1>3, <1>5, <1>6, <1>7, <1>8, <1>9, GroupStepKeeps

\* If what differs was moved later in the copy that is read, the groups that the
\* calls are for are already where that copy has them.
LEMMA FollowingMakesNoCycle ==
  ASSUME IInv, status = "merging", NEW k \in PendingIn(stack, parent[from]),
         parent[from][k] = this, this # k, GroupsFollow(before, Snapshot(from))
  PROVE  k \notin Below([parent[into] EXCEPT ![k] = this], k)
<1> DEFINE A == {h \in Groups : \E i \in DOMAIN stack : stack[i].group = h}
           S == Groups \ (A \cup {k})
           r == [parent[into] EXCEPT ![k] = this]
<1>1. /\ into \in Copies /\ from \in Copies
      /\ parent[into] \in Trees /\ parent[from] \in Trees
      /\ 1 \in DOMAIN stack /\ this = stack[1].group /\ this \in GroupsOf(into) \cup {Root}
      /\ WalkOK(stack, parent[from], group[from])
      /\ \A i \in DOMAIN stack : stack[i].group \in GroupsOf(into) \cup {Root}
  BY MergeFacts
<1>2. k \in Groups
  BY DEF PendingIn
<1>3. r[k] = this /\ \A h \in Groups : h # k => r[h] = parent[into][h]
  BY <1>1, <1>2 DEF Trees
<1>4. this \in A \cup {Root}
  BY <1>1 DEF GroupsOf
<1>5. \A h \in A : /\ h # k /\ h \notin PendingIn(stack, parent[from])
                   /\ parent[from][h] \in A \cup {Root}
  <2> TAKE h \in A
  <2>1. PICK i \in DOMAIN stack : stack[i].group = h
    OBVIOUS
  <2>2. h \notin PendingIn(stack, parent[from])
    BY <1>1, <2>1 DEF WalkOK
  <2>3. h # Root
    BY NamesAssumption
  <2>4. PICK j \in DOMAIN stack : stack[j].group = parent[from][h]
    BY <1>1, <2>1, <2>3 DEF WalkOK
  <2>5. parent[from][h] \in A \cup {Root}
    BY <1>1, <2>4 DEF GroupsOf
  <2> QED
    BY <2>2, <2>5
<1>6. \A h \in A : parent[into][h] = parent[from][h]
  <2> TAKE h \in A
  <2>1. GroupIsDone(h)
    BY <1>5 DEF IInv, Progress
  <2>2. parent[from][h] # None
    BY <1>5, NamesAssumption
  <2>3. before.parent[h] # None =>
          before.parent[h] = parent[from][h] \/ before.placed[h] < placed[from][h]
    BY <2>2 DEF GroupsFollow, Snapshot
  <2> QED
    BY <2>1, <2>2, <2>3 DEF GroupIsDone
<1>7. k \notin A /\ A \in SUBSET Groups
  BY <1>5
<1> HIDE DEF A, r
<1>8. S \in SUBSET Groups /\ k \notin S
  OBVIOUS
<1>9. Closed(r, k, S)
  <2> SUFFICES ASSUME NEW h \in Groups, r[h] \in S \cup {k}, h \notin S PROVE FALSE
    BY DEF Closed
  <2>1. CASE h = k
    BY <2>1, <1>3, <1>4, NamesAssumption, <1>2
  <2>2. CASE h # k
    <3>1. h \in A
      BY <2>2
    <3>2. r[h] \in A \cup {Root}
      BY <2>2, <3>1, <1>3, <1>5, <1>6
    <3> QED
      BY <3>2, <1>7, <1>2, NamesAssumption
  <2> QED
    BY <2>1, <2>2
<1>10. Below(r, k) \subseteq S
  BY <1>8, <1>9, BelowIsLeast
<1> QED
  BY <1>8, <1>10 DEF r

LEMMA MergeGroupKeeps ==
  ASSUME IInv, NEW k \in Groups, MergeGroup(k)
  PROVE  IInv'
<1> DEFINE there == GroupRelocated(k)
           newer == GroupNewer(k)
           q == IF there THEN this ELSE parent[into][k]
<1>1. /\ TakeGroup(k, q) /\ parent[into][k] # None
      /\ placed' = IF there THEN [placed EXCEPT ![into][k] = clock] ELSE placed
      /\ name' = IF newer THEN [name EXCEPT ![into][k] = name[from][k]] ELSE name
      /\ touched' = Touched(into, {k}, clock) \/ touched' = touched
      /\ settings' = settings
  BY DEF MergeGroup, TakenOver, GroupsOf
<1>2. /\ there <=> placed[into][k] < placed[from][k] /\ parent[into][k] # this
      /\ newer <=> ~there /\ touched[into][k] < touched[from][k]
      /\ there => q = this
      /\ ~there => q = parent[into][k]
  BY DEF GroupRelocated, GroupNewer
<1> HIDE DEF there, newer, q
<1>3. /\ status = "merging" /\ into' = into /\ from' = from /\ before' = before
      /\ parent' = [parent EXCEPT ![into][k] = q]
      /\ parent[from][k] = this /\ this # None /\ this # k
      /\ GroupWaits(k) /\ group' = group
      /\ k \in PendingIn(stack, parent[from])
  BY <1>1, TakeGroupFacts
<1>4. /\ into \in Copies /\ from \in Copies /\ from # into /\ clock \in Nat
      /\ parent[into] \in Trees /\ IsTree(parent[into])
      /\ this \in GroupsOf(into) \cup {Root}
  BY <1>3, MergeFacts
<1>5. q \in GroupsOf(into) \cup {Root}
  <2>1. parent[into][k] \in GroupsOf(into) \cup {Root}
    BY <1>1, <1>4, TreeHasParents DEF GroupsOf, Trees, Places
  <2> QED
    BY <2>1, <1>2, <1>4
<1>6. /\ clock \in 0 .. clock /\ clock <= clock
      /\ placed \in [Copies -> [Groups -> 0 .. clock]]
      /\ name \in [Copies -> [Groups -> 0 .. clock]]
      /\ settings \in [Copies -> [Groups -> 0 .. clock]]
      /\ touched \in [Copies -> [Groups -> 0 .. clock]]
  BY <1>4 DEF IInv, Times
<1>7. /\ placed' \in [Copies -> [Groups -> 0 .. clock]]
      /\ ~there => placed'[into][k] = placed[into][k]
      /\ \A h \in Groups : h # k => placed'[into][h] = placed[into][h]
      /\ placed'[from] = placed[from]
  <2>1. CASE there
    BY <2>1, <1>1, <1>4, <1>6
  <2>2. CASE ~there
    BY <2>2, <1>1, <1>6
  <2> QED
    BY <2>1, <2>2
<1>8. /\ name' \in [Copies -> [Groups -> 0 .. clock]]
      /\ name'[into][k] = IF newer THEN name[from][k] ELSE name[into][k]
      /\ \A h \in Groups : h # k => name'[into][h] = name[into][h]
      /\ name'[from] = name[from]
  <2>1. CASE newer
    BY <2>1, <1>1, <1>4, <1>6
  <2>2. CASE ~newer
    BY <2>2, <1>1, <1>6
  <2> QED
    BY <2>1, <2>2
<1>9. /\ touched' \in [Copies -> [Groups -> 0 .. clock]]
      /\ \A h \in Groups : h # k => touched'[into][h] = touched[into][h]
      /\ touched'[from] = touched[from]
  <2>1. CASE touched' = touched
    BY <2>1, <1>6
  <2>2. CASE touched' = Touched(into, {k}, clock)
    BY <2>2, <1>4, <1>6, MergeTouches
  <2> QED
    BY <2>1, <2>2, <1>1
<1>10. /\ before.parent[k] = parent[into][k] /\ before.placed[k] = placed[into][k]
       /\ before.name[k] = name[into][k] /\ before.settings[k] = settings[into][k]
       /\ before.touched[k] <= touched[into][k]
       /\ before.touched[k] = touched[into][k] \/ Emptied(k)
  BY <1>3 DEF GroupWaits
<1>11. GroupIsDone(k)'
  <2>1. parent'[into][k] = q /\ parent'[from][k] = this
    <3>1. parent \in [Copies -> [Groups -> Places]] /\ q \in Places
      BY <1>5 DEF IInv, Shape, Trees, Places, GroupsOf
    <3> QED
      BY <3>1, <1>3, <1>4
  <2>2. before.placed[k] < placed[from][k] => q = this
    BY <1>2, <1>10
  <2>3. ~(before.placed[k] < placed[from][k]) => q = before.parent[k] /\ placed'[into][k] = before.placed[k]
    BY <1>2, <1>7, <1>10
  <2>4. ~(before.touched[k] < touched[from][k]) => name'[into][k] = before.name[k]
    <3>1. before.touched[k] \in Nat /\ touched[into][k] \in Nat /\ touched[from][k] \in Nat
      BY <1>4 DEF IInv, Times, Control, CopyType
    <3>2. ~(before.touched[k] < touched[from][k]) => ~newer
      BY <3>1, <1>2, <1>10
    <3> QED
      BY <3>2, <1>8, <1>10
  <2>5. before.touched[k] < touched[from][k] /\ ~(before.placed[k] < placed[from][k]) /\ ~Emptied(k)
          => name'[into][k] = name[from][k]
    BY <1>2, <1>8, <1>10
  <2>6. Emptied(k)' = Emptied(k)
    BY <1>3 DEF Emptied
  <2> QED
    BY <2>1, <2>2, <2>3, <2>4, <2>5, <2>6, <1>1, <1>3, <1>7, <1>8, <1>9, <1>10 DEF GroupIsDone
<1>12. /\ settings' \in [Copies -> [Groups -> 0 .. clock]]
       /\ settings'[from] = settings[from]
       /\ \A h \in Groups : h # k => settings'[into][h] = settings[into][h]
  BY <1>1, <1>6
<1>13. k \in Below([parent[into] EXCEPT ![k] = q], k) =>
         ~GroupsLead(before, Snapshot(from)) /\ ~GroupsFollow(before, Snapshot(from))
  <2>1. CASE ~there
    <3>1. [parent[into] EXCEPT ![k] = q] = parent[into]
      BY <2>1, <1>2, <1>4 DEF Trees
    <3> QED
      BY <3>1, <1>4, TreeHasNoCycle
  <2>2. CASE there
    <3>1. q = this /\ before.placed[k] < placed[from][k] /\ before.parent[k] # parent[from][k]
      BY <2>2, <1>2, <1>3, <1>10
    <3>2. ~GroupsLead(before, Snapshot(from))
      <4>1. before.placed[k] \in Nat /\ placed[from][k] \in Nat
        BY <1>4 DEF IInv, Times, Control, CopyType
      <4>2. ~(placed[from][k] <= before.placed[k])
        BY <4>1, <3>1
      <4> QED
        BY <4>2, <3>1, <1>1, <1>3, <1>10 DEF GroupsLead, Snapshot
    <3>3. GroupsFollow(before, Snapshot(from)) => k \notin Below([parent[into] EXCEPT ![k] = q], k)
      BY <3>1, <1>3, FollowingMakesNoCycle
    <3> QED
      BY <3>2, <3>3
  <2> QED
    BY <2>1, <2>2
<1> QED
  BY <1>1, <1>5, <1>7, <1>8, <1>9, <1>11, <1>12, <1>13, GroupStepKeeps

LEMMA ReturnKeeps ==
  ASSUME IInv, Return
  PROVE  IInv'
<1>1. /\ status = "merging" /\ Head(stack).entries = {} /\ Head(stack).children = {}
      /\ stack' = Tail(stack)
      /\ status' = IF Tail(stack) = <<>> THEN "merged" ELSE "merging"
      /\ touched' = Touched(into, {this}, clock)
      /\ into' = into /\ before' = before /\ rounds' = rounds /\ clock' = clock
      /\ parent' = parent /\ placed' = placed /\ name' = name /\ settings' = settings
      /\ group' = group /\ moved' = moved /\ body' = body /\ history' = history
  BY DEF Return, entries
<1>2. from' = from
  BY <1>1 DEF from
<1>3. /\ into \in Copies /\ from \in Copies /\ from # into /\ clock \in Nat
      /\ stack \in Seq(Calls) /\ stack # <<>>
      /\ WalkOK(stack, parent[from], group[from])
      /\ \A i \in DOMAIN stack : stack[i].group \in GroupsOf(into) \cup {Root}
      /\ this \notin PendingIn(stack, parent[from])
  BY <1>1, MergeFacts
<1>4. /\ stack' \in Seq(Calls)
      /\ \A i \in DOMAIN stack' : i + 1 \in DOMAIN stack /\ stack'[i] = stack[i + 1]
      /\ WalkOK(stack', parent[from], group[from])
      /\ PendingIn(stack', parent[from]) = PendingIn(stack, parent[from])
      /\ PendingEntriesIn(stack', parent[from], group[from])
           = PendingEntriesIn(stack, parent[from], group[from])
  <2>1. stack' \in Seq(Calls) /\ Popped(stack, stack')
    BY <1>1, <1>3, TailIsPopped
  <2>2. \A i \in DOMAIN stack' : i + 1 \in DOMAIN stack /\ stack'[i] = stack[i + 1]
    BY <2>1 DEF Popped
  <2> QED
    BY <1>3, <2>1, <2>2, PopWalk
<1>5. /\ touched' \in [Copies -> [Groups -> 0 .. clock]]
      /\ \A h \in Groups : h # this => touched'[into][h] = touched[into][h]
      /\ touched'[from] = touched[from]
  <2>1. clock <= clock /\ touched \in [Copies -> [Groups -> 0 .. clock]]
    BY <1>3 DEF IInv, Times
  <2> QED
    BY <2>1, <1>1, <1>3, MergeTouches
<1>6. Shape' /\ TreesStay'
  BY <1>1 DEF IInv, Shape, TreesStay
<1>7. Times'
  BY <1>1, <1>5 DEF IInv, Times
<1>8. Control'
  <2>1. status' = "merging" => stack' # <<>>
    BY <1>1
  <2>2. status' = "merged" => stack' = <<>>
    BY <1>1
  <2> QED
    BY <2>1, <2>2, <1>1, <1>4 DEF IInv, Control
<1>9. Related'
  <2>1. Snapshot(from)' = Snapshot(from)
    BY <1>1, <1>2, <1>5 DEF Snapshot
  <2> QED
    BY <2>1, <1>1, MergeKeepsRelated
<1>10. Walking'
  <2>1. WalkOK(stack', parent'[from'], group'[from'])
    BY <1>1, <1>2, <1>4
  <2>2. \A i \in DOMAIN stack' : stack'[i].group \in GroupsOf(into)' \cup {Root}
    BY <1>1, <1>3, <1>4 DEF GroupsOf
  <2> QED
    BY <2>1, <2>2, <1>1 DEF Walking
<1>11. Progress'
  <2>1. ASSUME NEW h \in Groups
        PROVE  (IF h \in PendingIn(stack, parent[from]) THEN GroupWaits(h) ELSE GroupIsDone(h))'
    <3>1. Emptied(h)' = Emptied(h)
      BY <1>1, <1>2 DEF Emptied
    <3>2. CASE h \in PendingIn(stack, parent[from])
      <4>1. GroupWaits(h) /\ h # this
        BY <1>1, <1>3, <3>2 DEF IInv, Progress
      <4>2. GroupWaits(h)'
        BY <4>1, <3>1, <1>1, <1>5 DEF GroupWaits
      <4> QED
        BY <4>2, <3>2, <1>1, <1>2, <1>4
    <3>3. CASE h \notin PendingIn(stack, parent[from])
      <4>1. GroupIsDone(h)
        BY <1>1, <3>3 DEF IInv, Progress
      <4>2. GroupIsDone(h)'
        BY <4>1, <3>1, <1>1, <1>2, <1>5 DEF GroupIsDone
      <4> QED
        BY <4>2, <3>3, <1>1, <1>2, <1>4
    <3> QED
      BY <3>2, <3>3
  <2>2. ASSUME NEW x \in Entries
        PROVE  (IF x \in PendingEntriesIn(stack, parent[from], group[from])
                THEN EntryWaits(x) ELSE EntryIsDone(x))'
    <3>1. CASE x \in PendingEntriesIn(stack, parent[from], group[from])
      <4>1. EntryWaits(x)
        BY <1>1, <3>1 DEF IInv, Progress
      <4>2. EntryWaits(x)'
        BY <4>1, <1>1 DEF EntryWaits
      <4> QED
        BY <4>2, <3>1, <1>1, <1>2, <1>4
    <3>2. CASE x \notin PendingEntriesIn(stack, parent[from], group[from])
      <4>1. EntryIsDone(x)
        BY <1>1, <3>2 DEF IInv, Progress
      <4>2. EntryIsDone(x)'
        BY <4>1, <1>1, <1>2 DEF EntryIsDone
      <4> QED
        BY <4>2, <3>2, <1>1, <1>2, <1>4
    <3> QED
      BY <3>1, <3>2
  <2> QED
    BY <2>1, <2>2 DEF Progress
<1>12. HungCross'
  BY <1>1 DEF HungCross
<1> QED
  BY <1>6, <1>7, <1>8, <1>9, <1>10, <1>11, <1>12 DEF IInv

----------------------------------------------------------------------------
(* The theorems *)

LEMMA StutterKeeps ==
  ASSUME IInv, UNCHANGED vars
  PROVE  IInv'
<1>1. /\ parent' = parent /\ placed' = placed /\ name' = name /\ settings' = settings /\ touched' = touched
      /\ group' = group /\ moved' = moved /\ body' = body /\ history' = history
      /\ clock' = clock /\ status' = status /\ into' = into /\ stack' = stack
      /\ before' = before /\ rounds' = rounds
  BY DEF vars, groups, entries, merging
<1>2. from' = from
  BY <1>1 DEF from
<1>3. Shape' /\ Times' /\ TreesStay' /\ Control'
  BY <1>1 DEF IInv, Shape, Times, TreesStay, Control
<1>4. Related'
  BY <1>1, <1>2 DEF IInv, Related, Snapshot, Consistent, GroupsLead, GroupsFollow, Follows
<1>5. Walking'
  BY <1>1, <1>2 DEF IInv, Walking, GroupsOf
<1>6. Progress'
  BY <1>1, <1>2 DEF IInv, Progress, GroupWaits, GroupIsDone, EntryWaits, EntryIsDone, Emptied
<1>7. HungCross'
  BY <1>1, <1>2 DEF IInv, HungCross, Snapshot, GroupsLead, GroupsFollow
<1> QED
  BY <1>3, <1>4, <1>5, <1>6, <1>7 DEF IInv

LEMMA NextKeepsInvariant ==
  ASSUME IInv, [Next]_vars
  PROVE  IInv'
<1>1. CASE UNCHANGED vars
  BY <1>1, StutterKeeps
<1>2. CASE Next
  <2>1. ASSUME NEW c \in Copies, NEW g \in Groups, NEW p \in Groups \cup {Root},
               MoveGroup(c, g, p) \/ CreateGroup(c, g, p)
        PROVE  IInv'
    BY <2>1, MoveGroupKeeps, CreateGroupKeeps
  <2>2. ASSUME NEW c \in Copies, NEW g \in Groups, RenameGroup(c, g) \/ ChangeSettings(c, g)
        PROVE  IInv'
    BY <2>2, RenameGroupKeeps, ChangeSettingsKeeps
  <2>3. ASSUME NEW c \in Copies, NEW e \in Entries, NEW g \in Groups \cup {Root},
               MoveEntry(c, e, g) \/ CreateEntry(c, e, g)
        PROVE  IInv'
    BY <2>3, MoveEntryKeeps, CreateEntryKeeps
  <2>4. ASSUME NEW c \in Copies, NEW e \in Entries, UpdateEntry(c, e) \/ DeleteEntry(c, e)
        PROVE  IInv'
    BY <2>4, UpdateEntryKeeps, DeleteEntryKeeps
  <2>5. ASSUME NEW c \in Copies, StartMerge(c) PROVE IInv'
    BY <2>5, StartMergeKeeps
  <2>6. ASSUME NEW e \in Entries, AddEntry(e) \/ MergeEntry(e) PROVE IInv'
    BY <2>6, AddEntryKeeps, MergeEntryKeeps
  <2>7. ASSUME NEW k \in Groups, AddGroup(k) \/ MergeGroup(k) PROVE IInv'
    BY <2>7, AddGroupKeeps, MergeGroupKeeps
  <2>8. CASE Return
    BY <2>8, ReturnKeeps
  <2> QED
    BY <1>2, <2>1, <2>2, <2>3, <2>4, <2>5, <2>6, <2>7, <2>8 DEF Next
<1> QED
  BY <1>1, <1>2

LEMMA InvariantHolds ==
  Spec => []IInv
<1>1. IInv /\ [Next]_vars => IInv'
  BY NextKeepsInvariant
<1> QED
  BY <1>1, InitIsInvariant, PTL DEF Spec

\* Types are kept and both copies stay trees, with their entries in their groups,
\* through every edit and every step of a merge, unless it gets caught in a cycle
\* (Group::setParent, Group::merge).
THEOREM MergeTypeCorrect ==
  Spec => []TypeOK
BY InvariantHolds, InvariantHasTypes, PTL

LEMMA AllIsDone ==
  ASSUME IInv, status = "merged"
  PROVE  /\ \A k \in Groups : GroupIsDone(k)
         /\ \A e \in Entries : EntryIsDone(e)
<1>1. stack = <<>>
  BY DEF IInv, Control
<1>2. /\ PendingIn(stack, parent[from]) = {}
      /\ PendingEntriesIn(stack, parent[from], group[from]) = {}
  BY <1>1, NothingPending
<1> QED
  BY <1>2 DEF IInv, Progress

\* Whatever the trees and the order of the walk, an entry is where it was moved to
\* last, with the contents and the history of the later version (Group::merge,
\* resolveEntryConflict).
THEOREM EntriesMerge ==
  Spec => []EntriesAreMerged
<1>1. ASSUME IInv PROVE EntriesAreMerged
  BY <1>1, AllIsDone DEF EntriesAreMerged, EntryIsDone
<1> QED
  BY <1>1, InvariantHolds, PTL

\* A group is where it was moved to last, and has the later name, notes, icon and
\* expiry time unless the merge itself has set its modification time first; its
\* other fields stay what they were (resolveGroupConflict).
THEOREM GroupsMerge ==
  Spec => []GroupsAreMerged
<1>1. ASSUME IInv PROVE GroupsAreMerged
  BY <1>1, AllIsDone DEF GroupsAreMerged, GroupIsDone, Emptied
<1> QED
  BY <1>1, InvariantHolds, PTL

\* After a merge in each direction both copies have the same tree, entries and
\* histories (Database::merge, Group::merge).
THEOREM MergingBothWaysConverges ==
  Spec => []CopiesConverge
<1>1. ASSUME IInv PROVE CopiesConverge
  <2> SUFFICES ASSUME status = "merged", Len(rounds) = 2, rounds[1] # rounds[2]
               PROVE  /\ parent["ours"] = parent["theirs"]
                      /\ group["ours"] = group["theirs"]
                      /\ \A e \in EntriesOf("ours") : /\ body["ours"][e] = body["theirs"][e]
                                                      /\ history["ours"][e] = history["theirs"][e]
    BY DEF CopiesConverge
  <2>1. /\ \A k \in Groups : GroupIsDone(k)
        /\ \A e \in Entries : EntryIsDone(e)
    BY <1>1, AllIsDone
  <2>2. Follows(before, Snapshot(from))
    BY <1>1 DEF IInv, Related
  <2>3. \A k \in Groups : parent[into][k] = parent[from][k]
    <3> TAKE k \in Groups
    <3>1. GroupIsDone(k)
      BY <2>1
    <3>2. /\ before.parent[k] # None => parent[from][k] # None
          /\ before.parent[k] # None /\ parent[from][k] # None =>
               before.parent[k] = parent[from][k] \/ before.placed[k] < placed[from][k]
      BY <2>2 DEF Follows, GroupsFollow, Snapshot
    <3> QED
      BY <3>1, <3>2 DEF GroupIsDone
  <2>4. \A e \in Entries : group[into][e] = group[from][e]
    BY <2>1, <2>2 DEF EntryIsDone, Follows, Snapshot
  <2>5. \A e \in Entries : group[from][e] # None =>
          body[into][e] = body[from][e] /\ history[into][e] = history[from][e]
    BY <2>1, <2>2 DEF EntryIsDone, Follows, Snapshot
  <2>6. into \in Copies /\ from \in Copies /\ from # into
    BY <1>1, TheOther DEF IInv, Control, from
  <2>7. parent[into] = parent[from] /\ group[into] = group[from]
    <3>1. /\ parent[into] \in Trees /\ parent[from] \in Trees
          /\ group[into] \in [Entries -> Places] /\ group[from] \in [Entries -> Places]
      BY <1>1, <2>6 DEF IInv, Shape
    <3>2. parent[into] = parent[from]
      BY <3>1, <2>3 DEF Trees
    <3> QED
      BY <3>1, <3>2, <2>4
  <2>8. (into = "ours" /\ from = "theirs") \/ (into = "theirs" /\ from = "ours")
    BY <2>6 DEF Copies
  <2> QED
    BY <2>4, <2>5, <2>7, <2>8 DEF EntriesOf
<1> QED
  BY <1>1, InvariantHolds, PTL

\* A merge gets caught in a cycle only when both copies moved groups, and never
\* when the result of a merge is merged back (the loop at the start of
\* Group::merge).
THEOREM MergeHangsOnlyOnCrossMoves ==
  Spec => []HangsOnlyOnCrossMoves
<1>1. ASSUME IInv PROVE HangsOnlyOnCrossMoves
  <2> SUFFICES ASSUME status = "hung"
               PROVE  /\ Len(rounds) = 1
                      /\ \E g, h \in Groups : /\ g # h /\ before.placed[g] > placed[from][g]
                                              /\ placed[from][h] > before.placed[h]
    BY DEF HangsOnlyOnCrossMoves
  <2>1. ~GroupsLead(before, Snapshot(from)) /\ ~GroupsFollow(before, Snapshot(from))
    BY <1>1 DEF IInv, HungCross
  <2>2. Len(rounds) \in 1 .. 2 /\ into \in Copies /\ from \in Copies /\ before \in CopyType
    BY <1>1, TheOther DEF IInv, Control, from
  <2>3. Len(rounds) # 2
    BY <1>1, <2>1 DEF IInv, Related, Follows
  <2>4. Len(rounds) = 1
    BY <2>2, <2>3
  <2>5. Consistent(before, Snapshot(from))
    BY <1>1, <2>4 DEF IInv, Related
  <2>6. \A k \in Groups : before.placed[k] \in Nat /\ placed[from][k] \in Nat
    BY <1>1, <2>2 DEF IInv, Times, Control, CopyType
  <2>7. PICK h \in Groups : ~(placed[from][h] <= before.placed[h])
    BY <2>1 DEF GroupsLead, Snapshot
  <2>8. PICK g \in Groups : /\ before.parent[g] # None /\ parent[from][g] # None
                            /\ before.parent[g] # parent[from][g]
                            /\ ~(before.placed[g] < placed[from][g])
    BY <2>1 DEF GroupsFollow, Snapshot
  <2>9. before.placed[g] # placed[from][g]
    BY <2>5, <2>8 DEF Consistent, Snapshot
  <2>10. before.placed[g] > placed[from][g] /\ placed[from][h] > before.placed[h]
    BY <2>6, <2>7, <2>8, <2>9
  <2>11. g # h
    BY <2>6, <2>10
  <2> QED
    BY <2>4, <2>10, <2>11
<1> QED
  BY <1>1, InvariantHolds, PTL

=============================================================================
