------------------------- MODULE EntryHistoryProofs -------------------------
(***************************************************************************)
(* Theorems about EntryHistory: no version of an entry is lost but by the  *)
(* limits, oldest first, or by a user who deletes and saves; the limits    *)
(* hold after every update; and what a user typed is not lost by closing.  *)
(***************************************************************************)
EXTENDS EntryHistory, FiniteSetTheorems, WellFoundedInduction, TLAPS

\* What users deleted are earlier versions, never the current one.
RemovedArePast == \A i \in removed : i < Len(versions)

IInv == TypeOK /\ VersionsKept /\ RemovedArePast

----------------------------------------------------------------------------
(* Truncation *)

\* Items from a later one on are among the items from an earlier one on.
LEMMA FromIsMonotone ==
  ASSUME NEW h, NEW i \in Int, NEW k \in Int, DOMAIN h \subseteq Int, i >= k
  PROVE  From(h, i) \subseteq From(h, k)
  BY DEF From

\* The items that the size limit leaves are the newest ones.
LEMMA SizesFitIsUpward ==
  ASSUME NEW h, DOMAIN h \subseteq Int, NEW n \in Int,
         NEW i \in DOMAIN h, NEW k \in SizesFit(h, n), i >= k
  PROVE  i \in SizesFit(h, n)
<1>1. k \in DOMAIN h
  BY DEF SizesFit
<1>2. From(h, i) \subseteq From(h, k)
  BY <1>1, FromIsMonotone
<1> QED
  BY <1>2 DEF SizesFit

\* Entry::truncateHistory only drops items, changes none, and when it drops one
\* drops all older ones, whatever the two limits are.
LEMMA TruncationKeepsNewest ==
  ASSUME NEW h, IsFiniteSet(DOMAIN h), DOMAIN h \subseteq Int,
         NEW items \in Int, NEW size \in Int
  PROVE  LET t == Truncated(h, items, size)
         IN  /\ DOMAIN t \subseteq DOMAIN h
             /\ \A i \in DOMAIN t : t[i] = h[i]
             /\ \A i \in DOMAIN h : \A k \in DOMAIN t : i >= k => i \in DOMAIN t
<1> DEFINE newest == Restrict(h, ItemsFit(h, items))
           kept == SizesFit(newest, size)
           t == Restrict(newest, kept)
<1>1. DOMAIN newest = ItemsFit(h, items) /\ \A i \in DOMAIN newest : newest[i] = h[i]
  BY DEF Restrict
<1>2. DOMAIN newest \subseteq DOMAIN h
  BY <1>1 DEF ItemsFit
<1>3. \A i \in DOMAIN h : \A k \in DOMAIN newest : i >= k => i \in DOMAIN newest
  <2> SUFFICES ASSUME NEW i \in DOMAIN h, NEW k \in DOMAIN newest, i >= k, items > -1
               PROVE  Cardinality(From(h, i)) <= items
    BY <1>1 DEF ItemsFit
  <2>1. From(h, i) \subseteq From(h, k)
    BY <1>2, FromIsMonotone
  <2>2. IsFiniteSet(From(h, k))
    BY FS_Subset DEF From
  <2>3. /\ Cardinality(From(h, i)) \in Nat
        /\ Cardinality(From(h, k)) \in Nat
        /\ Cardinality(From(h, i)) <= Cardinality(From(h, k))
    BY <2>1, <2>2, FS_Subset, FS_CardinalityType
  <2>4. Cardinality(From(h, k)) <= items
    BY <1>1 DEF ItemsFit
  <2> QED
    BY <2>3, <2>4
<1>4. DOMAIN t = kept /\ \A i \in kept : t[i] = newest[i]
  BY DEF Restrict
<1>5. kept \subseteq DOMAIN newest
  BY DEF SizesFit
<1>6. \A i \in DOMAIN newest : \A k \in kept : i >= k => i \in kept
  <2> HIDE DEF newest
  <2> QED
    BY <1>2, SizesFitIsUpward
<1>7. t = Truncated(h, items, size)
  BY DEF Truncated
<1> HIDE DEF newest, kept, t
<1>8. \A i \in DOMAIN h : \A k \in DOMAIN t : i >= k => i \in DOMAIN t
  BY <1>3, <1>4, <1>5, <1>6
<1>9. DOMAIN t \subseteq DOMAIN h /\ \A i \in DOMAIN t : t[i] = h[i]
  BY <1>1, <1>2, <1>4, <1>5
<1> QED
  BY <1>7, <1>8, <1>9

\* A set of numbers has a least one.
LEMMA LeastItem ==
  ASSUME NEW S \in SUBSET Nat, S # {}
  PROVE  \E m \in S : \A k \in S : m <= k
<1> DEFINE R == OpToRel(<, Nat)
<1>1. IsWellFoundedOn(R, Nat)
  BY NatLessThanWellFounded
<1>2. \A i, k \in Nat : i < k => <<i, k>> \in R
  BY DEF OpToRel
<1> HIDE DEF R
<1>3. PICK m \in S : \A k \in S : ~(<<k, m>> \in R)
  BY <1>1, WFMin
<1>4. \A k \in S : k \in Nat /\ m \in Nat /\ ~(k < m)
  BY <1>2, <1>3
<1> QED
  BY <1>4

\* A history without items has size 0.
LEMMA NoItemsNoSize ==
  ASSUME NEW h, DOMAIN h = {}
  PROVE  TotalSize(h) = 0
<1> DEFINE D == DOMAIN h
           F(g) == [s \in SUBSET D |-> IF s = {} THEN 0
                                       ELSE LET x == CHOOSE x \in s : TRUE
                                            IN  Size[h[x]] + g[s \ {x}]]
           sum == CHOOSE g : g = F(g)
<1>1. TotalSize(h) = sum[D]
  BY DEF TotalSize, MapThenSumSet, MapThenFoldSet
<1>2. \E g : g = F(g)
  <2> DEFINE zero == [s \in SUBSET D |-> 0]
  <2>1. zero = F(zero)
    OBVIOUS
  <2> HIDE DEF zero, F
  <2> QED
    BY <2>1
<1>3. sum = F(sum)
  <2> HIDE DEF F
  <2> QED
    BY <1>2, Zenon
<1>4. sum[D] = 0
  <2> HIDE DEF sum
  <2> QED
    BY <1>3
<1> QED
  BY <1>1, <1>4

\* Entry::truncateHistory leaves a history within both limits, also one of
\* which the first limit left nothing for the second.
LEMMA TruncationFits ==
  ASSUME NEW h, IsFiniteSet(DOMAIN h), DOMAIN h \subseteq Nat,
         NEW items \in Int, NEW size \in Int
  PROVE  LET t == Truncated(h, items, size)
         IN  /\ items > -1 => Cardinality(DOMAIN t) <= items
             /\ size > -1 => TotalSize(t) <= size
<1> DEFINE newest == Restrict(h, ItemsFit(h, items))
           kept == SizesFit(newest, size)
           t == Restrict(newest, kept)
<1>1. DOMAIN newest = ItemsFit(h, items)
  BY DEF Restrict
<1>2. DOMAIN newest \subseteq DOMAIN h
  BY <1>1 DEF ItemsFit
<1>3. DOMAIN t = kept
  BY DEF Restrict
<1>4. kept \subseteq DOMAIN newest
  BY DEF SizesFit
<1>5. t = Truncated(h, items, size)
  BY DEF Truncated
<1>6. CASE kept = {}
  <2> HIDE DEF t
  <2>1. Cardinality(DOMAIN t) = 0
    BY <1>3, <1>6, FS_EmptySet
  <2>2. TotalSize(t) = 0
    BY <1>3, <1>6, NoItemsNoSize
  <2> QED
    BY <1>5, <2>1, <2>2
<1>7. CASE kept # {}
  <2>1. PICK m \in kept : \A k \in kept : m <= k
    <3> HIDE DEF kept
    <3> QED
      BY <1>2, <1>4, <1>7, LeastItem
  <2>2. m \in DOMAIN newest /\ m \in Nat /\ DOMAIN newest \subseteq Int
    BY <1>2, <1>4, <2>1
  <2>3. items > -1 => Cardinality(DOMAIN t) <= items
    <3> SUFFICES ASSUME items > -1 PROVE Cardinality(kept) <= items
      BY <1>3
    <3>1. kept \subseteq From(h, m)
      BY <1>2, <1>4, <2>1 DEF From
    <3>2. IsFiniteSet(From(h, m))
      BY FS_Subset DEF From
    <3>3. /\ Cardinality(From(h, m)) \in Nat
          /\ Cardinality(kept) \in Nat
          /\ Cardinality(kept) <= Cardinality(From(h, m))
      BY <3>1, <3>2, FS_Subset, FS_CardinalityType
    <3>4. Cardinality(From(h, m)) <= items
      BY <1>1, <2>2 DEF ItemsFit
    <3> QED
      BY <3>3, <3>4
  <2>4. size > -1 => TotalSize(t) <= size
    <3>1. From(newest, m) = kept
      <4> HIDE DEF newest
      <4>1. ASSUME NEW i \in DOMAIN newest, i >= m PROVE i \in kept
        BY <2>1, <2>2, <4>1, SizesFitIsUpward
      <4>2. \A i \in kept : i >= m
        BY <1>4, <2>1, <2>2
      <4> QED
        BY <1>4, <4>1, <4>2 DEF From
    <3>2. SizeFrom(newest, m) = TotalSize(t)
      BY <3>1 DEF SizeFrom
    <3>3. size > -1 => SizeFrom(newest, m) <= size
      <4>1. m \in From(newest, m)
        BY <2>1, <3>1
      <4> QED
        BY <2>1, <4>1 DEF SizesFit
    <3> QED
      BY <3>2, <3>3
  <2> QED
    BY <1>5, <2>3, <2>4
<1> QED
  BY <1>6, <1>7

----------------------------------------------------------------------------
(* Steps *)

\* The items of a typed history are finitely many versions.
LEMMA ItemsAreVersions ==
  ASSUME TypeOK
  PROVE  /\ Items \subseteq 1 .. MaxVersions
         /\ IsFiniteSet(Items)
         /\ \A i \in Items : history[i] \in Values
<1>1. PICK D \in SUBSET (1 .. MaxVersions) : history \in [D -> Values]
  BY DEF TypeOK, Partial
<1>2. IsFiniteSet(1 .. MaxVersions)
  BY BoundAssumption, FS_Interval
<1> QED
  BY <1>1, <1>2, FS_Subset DEF Items

\* A function on versions with contents as values is a typed history.
LEMMA PartialIntro ==
  ASSUME NEW h, h = [i \in DOMAIN h |-> h[i]],
         DOMAIN h \subseteq 1 .. MaxVersions, \A i \in DOMAIN h : h[i] \in Values
  PROVE  h \in Partial(Values)
<1>1. h \in [DOMAIN h -> Values]
  OBVIOUS
<1>2. [DOMAIN h -> Values] \in {[D -> Values] : D \in SUBSET (1 .. MaxVersions)}
  OBVIOUS
<1> QED
  BY <1>1, <1>2 DEF Partial

\* beginUpdate .. endUpdate on the history without the items that the user
\* deleted: the versions are still kept, and everything stays typed.
LEMMA UpdateKeepsVersions ==
  ASSUME IInv, NEW gone \in SUBSET Items, NEW x \in Values,
         Update(Restrict(history, Items \ gone), x), removed' = removed \cup gone
  PROVE  /\ VersionsKept'
         /\ RemovedArePast'
         /\ fields' \in Values
         /\ history' \in Partial(Values)
         /\ versions' \in Seq(Values)
         /\ Len(versions') \in 1 .. MaxVersions
         /\ removed' \subseteq 1 .. MaxVersions
<1> DEFINE L == Len(versions)
           h == Restrict(history, Items \ gone)
           h2 == Updated(h, x)
<1>1. /\ L \in 1 .. MaxVersions
      /\ versions \in Seq(Values)
      /\ removed \subseteq 1 .. MaxVersions
      /\ fields \in Values
      /\ maxItems \in Int
      /\ maxSize \in Int
  BY LimitAssumption DEF IInv, TypeOK
<1>2. DOMAIN h = Items \ gone /\ \A i \in DOMAIN h : h[i] = history[i]
  BY DEF Restrict
<1>3. /\ Items \subseteq 1 .. MaxVersions
      /\ IsFiniteSet(Items)
      /\ \A i \in Items : history[i] \in Values
  BY ItemsAreVersions DEF IInv
<1>4. /\ fields = versions[L]
      /\ \A i \in Items : i < L /\ history[i] = versions[i] /\ i \notin removed
      /\ \A i \in 1 .. L - 1 : i \notin Items \cup removed => \A k \in Items : i < k
      /\ \A i \in removed : i < L
  BY DEF IInv, VersionsKept, RemovedArePast
<1>5. removed' \subseteq 1 .. MaxVersions /\ \A i \in removed' : i < L
  BY <1>1, <1>3, <1>4
<1>6. CASE x = fields
  <2>1. history' = h /\ versions' = versions /\ fields' = fields
    BY <1>6 DEF Update
  <2>2. DOMAIN history' = Items \ gone /\ \A i \in DOMAIN history' : history'[i] = history[i]
    BY <1>2, <2>1
  <2>3. history' = [i \in DOMAIN history' |-> history'[i]]
    BY <2>1, <1>2 DEF Restrict
  <2>4. history' \in Partial(Values)
    BY <1>3, <2>2, <2>3, PartialIntro
  <2>5. VersionsKept'
    <3>1. fields' = versions'[Len(versions')]
      BY <1>4, <2>1
    <3>2. \A i \in DOMAIN history' : i < Len(versions') /\ history'[i] = versions'[i] /\ i \notin removed'
      BY <1>4, <2>1, <2>2
    <3>3. \A i \in 1 .. Len(versions') - 1 :
            i \notin DOMAIN history' \cup removed' => \A k \in DOMAIN history' : i < k
      BY <1>4, <2>1, <2>2
    <3> QED
      BY <3>1, <3>2, <3>3 DEF VersionsKept, Items
  <2> QED
    BY <1>1, <1>5, <2>1, <2>4, <2>5 DEF RemovedArePast
<1>7. CASE x # fields
  <2>1. /\ L < MaxVersions
        /\ history' = Truncated(h2, maxItems, maxSize)
        /\ versions' = Append(versions, x)
        /\ fields' = x
    BY <1>7 DEF Update
  <2>2. /\ DOMAIN h2 = DOMAIN h \cup {L}
        /\ h2[L] = fields
        /\ \A i \in DOMAIN h : i # L => h2[i] = h[i]
    BY DEF Updated
  <2> HIDE DEF h, h2
  <2>3. /\ Len(versions') = L + 1
        /\ versions' \in Seq(Values)
        /\ versions'[L + 1] = x
        /\ \A i \in 1 .. L : versions'[i] = versions[i]
    BY <1>1, <2>1
  <2>4. \A i \in DOMAIN h2 : i \in 1 .. L /\ h2[i] = versions'[i] /\ h2[i] \in Values /\ i \notin removed'
    <3>1. ASSUME NEW i \in DOMAIN h
          PROVE  i \in 1 .. L - 1 /\ h2[i] = versions'[i] /\ h2[i] \in Values /\ i \notin removed'
      <4>1. i \in Items \ gone /\ h[i] = history[i]
        BY <1>2, <3>1
      <4>2. i < L /\ history[i] = versions[i] /\ history[i] \in Values /\ i \notin removed'
        BY <1>3, <1>4, <4>1
      <4>3. i \in 1 .. L - 1
        <5>1. i \in 1 .. MaxVersions
          BY <1>3, <4>1
        <5>2. L \in 1 .. MaxVersions /\ i < L
          BY <1>1, <4>2
        <5> HIDE DEF L
        <5> QED
          BY <5>1, <5>2, BoundAssumption
      <4>4. i # L /\ i \in 1 .. L
        BY <1>1, <4>3
      <4>5. versions'[i] = versions[i] /\ h2[i] = h[i]
        BY <2>2, <2>3, <3>1, <4>4
      <4> QED
        BY <4>1, <4>2, <4>3, <4>5
    <3>2. h2[L] = versions'[L] /\ h2[L] \in Values /\ L \notin removed'
      BY <1>1, <1>4, <1>5, <2>2, <2>3
    <3> QED
      BY <1>1, <2>2, <3>1, <3>2
  <2>5. IsFiniteSet(DOMAIN h2) /\ DOMAIN h2 \subseteq Int
    <3>1. IsFiniteSet(Items \cup {L})
      BY <1>3, FS_AddElement
    <3>2. DOMAIN h2 \subseteq Items \cup {L}
      BY <1>2, <2>2
    <3> QED
      BY <3>1, <3>2, <2>4, <1>1, FS_Subset
  <2>6. /\ DOMAIN history' \subseteq DOMAIN h2
        /\ \A i \in DOMAIN history' : history'[i] = h2[i]
        /\ \A i \in DOMAIN h2 : \A k \in DOMAIN history' : i >= k => i \in DOMAIN history'
    BY <1>1, <2>1, <2>5, TruncationKeepsNewest
  <2>7. history' = [i \in DOMAIN history' |-> history'[i]]
    BY <2>1 DEF Truncated, Restrict
  <2>8. history' \in Partial(Values)
    <3>1. DOMAIN history' \subseteq 1 .. MaxVersions /\ \A i \in DOMAIN history' : history'[i] \in Values
      <4>1. 1 .. L \subseteq 1 .. MaxVersions
        BY <1>1, BoundAssumption
      <4> QED
        BY <2>4, <2>6, <4>1
    <3> QED
      BY <2>7, <3>1, PartialIntro
  <2>9. VersionsKept'
    <3>1. fields' = versions'[Len(versions')]
      BY <2>1, <2>3
    <3>2. \A i \in DOMAIN history' : i < Len(versions') /\ history'[i] = versions'[i] /\ i \notin removed'
      BY <1>1, <2>3, <2>4, <2>6
    <3>3. ASSUME NEW i \in 1 .. Len(versions') - 1,
                 i \notin DOMAIN history' \cup removed', NEW k \in DOMAIN history'
          PROVE  i < k
      <4>1. k \in DOMAIN h2 /\ k \in 1 .. L
        BY <2>4, <2>6
      <4>2. CASE i \in DOMAIN h2
        BY <1>1, <2>3, <2>6, <3>3, <4>1, <4>2
      <4>3. CASE i \notin DOMAIN h2
        <5>1. i \in 1 .. L - 1 /\ i \notin Items \cup removed
          BY <1>1, <1>2, <2>2, <2>3, <3>3, <4>3
        <5>2. k = L \/ k \in Items
          BY <1>2, <2>2, <4>1
        <5> QED
          BY <1>1, <1>4, <5>1, <5>2
      <4> QED
        BY <4>2, <4>3
    <3> QED
      BY <3>1, <3>2, <3>3 DEF VersionsKept, Items
  <2>10. RemovedArePast'
    BY <1>1, <1>5, <2>3 DEF RemovedArePast
  <2>11. Len(versions') \in 1 .. MaxVersions
    BY <1>1, <2>1, <2>3, BoundAssumption
  <2> QED
    BY <1>5, <2>1, <2>3, <2>8, <2>9, <2>10, <2>11
<1> QED
  BY <1>6, <1>7

----------------------------------------------------------------------------
(* The invariant *)

\* A restriction of the history to fewer items is a typed history.
LEMMA RestrictionIsTyped ==
  ASSUME TypeOK, NEW K \in SUBSET Items
  PROVE  Restrict(history, K) \in Partial(Values)
<1>1. Items \subseteq 1 .. MaxVersions /\ \A i \in Items : history[i] \in Values
  BY ItemsAreVersions
<1>2. DOMAIN Restrict(history, K) = K /\ \A i \in K : Restrict(history, K)[i] = history[i]
  BY DEF Restrict
<1>3. Restrict(history, K) = [i \in DOMAIN Restrict(history, K) |-> Restrict(history, K)[i]]
  BY DEF Restrict
<1> QED
  BY <1>1, <1>2, <1>3, PartialIntro

LEMMA InitEstablishes == Init => IInv
<1> SUFFICES ASSUME Init PROVE IInv
  OBVIOUS
<1> USE DEF Init
<1>1. PICK n \in 1 .. MaxVersions : versions \in [1 .. n -> Values]
  OBVIOUS
<1>2. versions \in Seq(Values) /\ Len(versions) = n
  BY <1>1, BoundAssumption
<1>3. Items = 1 .. n - 1 /\ \A i \in Items : history[i] = versions[i]
  BY <1>2, BoundAssumption DEF Items
<1>4. history \in Partial(Values)
  <2>1. Items \subseteq 1 .. MaxVersions /\ \A i \in Items : history[i] \in Values
    BY <1>1, <1>3, BoundAssumption
  <2>2. history = [i \in DOMAIN history |-> history[i]]
    OBVIOUS
  <2> QED
    BY <2>1, <2>2, PartialIntro DEF Items
<1>5. fields \in Values
  BY <1>1, <1>2, BoundAssumption
<1>6. TypeOK
  BY <1>1, <1>2, <1>4, <1>5, BoundAssumption DEF TypeOK
<1>7. VersionsKept
  BY <1>1, <1>2, <1>3, BoundAssumption DEF VersionsKept
<1> QED
  BY <1>6, <1>7 DEF IInv, RemovedArePast

\* The parts of TypeOK that are not about the entry.
Others ==
  /\ maxItems \in ItemLimits
  /\ maxSize \in SizeLimits
  /\ editor \in {"closed", "open"}
  /\ form \in Values
  /\ rows \subseteq 1 .. MaxVersions
  /\ doomed \subseteq 1 .. MaxVersions
  /\ editor = "closed" => rows = {} /\ doomed = {}
  /\ loaded \in Values
  /\ program \in {"running", "asserted", "stale"}
Flags == equal \in BOOLEAN /\ saved \in BOOLEAN /\ quiet \in BOOLEAN

\* A save of the form, after the items that the user marked are removed.
LEMMA CommitKeeps ==
  ASSUME IInv, CommitToEntry, Others', Flags'
  PROVE  IInv'
<1>1. doomed \in SUBSET Items /\ form \in Values /\ removed' = removed \cup doomed
  BY DEF CommitToEntry, IInv, TypeOK
<1>2. Update(Restrict(history, Items \ doomed), form)
  BY DEF CommitToEntry
<1>3. /\ VersionsKept' /\ RemovedArePast'
      /\ fields' \in Values /\ history' \in Partial(Values) /\ versions' \in Seq(Values)
      /\ Len(versions') \in 1 .. MaxVersions /\ removed' \subseteq 1 .. MaxVersions
  BY <1>1, <1>2, UpdateKeepsVersions
<1>4. TypeOK'
  BY <1>3, Zenon DEF TypeOK, Others, Flags
<1> QED
  BY <1>3, <1>4 DEF IInv

\* A step that leaves the entry alone.
LEMMA OtherKeeps ==
  ASSUME IInv, UNCHANGED entry, Others', Flags'
  PROVE  IInv'
<1>1. fields' = fields /\ history' = history /\ versions' = versions /\ removed' = removed
  BY DEF entry
<1>2. TypeOK'
  <2>1. /\ fields' \in Values /\ history' \in Partial(Values) /\ versions' \in Seq(Values)
        /\ Len(versions') \in 1 .. MaxVersions /\ removed' \subseteq 1 .. MaxVersions
    BY <1>1 DEF IInv, TypeOK
  <2> QED
    BY <2>1, Zenon DEF TypeOK, Others, Flags
<1>3. VersionsKept' /\ RemovedArePast'
  BY <1>1 DEF IInv, VersionsKept, RemovedArePast, Items
<1> QED
  BY <1>2, <1>3 DEF IInv

\* A change of the limits.
LEMMA LimitsKeep ==
  ASSUME IInv, NEW items \in ItemLimits, NEW size \in SizeLimits, ChangeLimits(items, size)
  PROVE  IInv'
<1>1. /\ fields' = fields /\ versions' = versions /\ removed' = removed
      /\ history' = Truncated(history, items, size)
      /\ UNCHANGED widget /\ program' = program /\ maxItems' = items /\ maxSize' = size
  BY DEF ChangeLimits
<1>2. Items \subseteq 1 .. MaxVersions /\ IsFiniteSet(Items) /\ \A i \in Items : history[i] \in Values
  BY ItemsAreVersions DEF IInv
<1>3. items \in Int /\ size \in Int /\ Items \subseteq Int
  BY <1>2, LimitAssumption
<1>4. /\ DOMAIN history' \subseteq Items
      /\ \A i \in DOMAIN history' : history'[i] = history[i]
      /\ \A i \in Items : \A k \in DOMAIN history' : i >= k => i \in DOMAIN history'
  BY <1>1, <1>2, <1>3, TruncationKeepsNewest DEF Items
<1>5. history' \in Partial(Values)
  <2>1. history' = [i \in DOMAIN history' |-> history'[i]]
    BY <1>1 DEF Truncated, Restrict
  <2>2. DOMAIN history' \subseteq 1 .. MaxVersions /\ \A i \in DOMAIN history' : history'[i] \in Values
    BY <1>2, <1>4
  <2> QED
    BY <2>1, <2>2, PartialIntro
<1>6. VersionsKept'
  <2>1. \A i \in DOMAIN history' : i < Len(versions') /\ history'[i] = versions'[i] /\ i \notin removed'
    BY <1>1, <1>4 DEF IInv, VersionsKept
  <2>2. ASSUME NEW i \in 1 .. Len(versions') - 1,
               i \notin DOMAIN history' \cup removed', NEW k \in DOMAIN history'
        PROVE  i < k
    <3>1. k \in Items /\ k \in Int /\ i \in Int
      BY <1>3, <1>4
    <3>2. CASE i \in Items
      BY <1>4, <2>2, <3>1, <3>2
    <3>3. CASE i \notin Items
      BY <1>1, <2>2, <3>1, <3>3 DEF IInv, VersionsKept
    <3> QED
      BY <3>2, <3>3
  <2> QED
    BY <1>1, <2>1, <2>2 DEF VersionsKept, IInv, Items
<1>7. TypeOK'
  <2>1. Others' /\ fields' \in Values /\ versions' \in Seq(Values)
        /\ Len(versions') \in 1 .. MaxVersions /\ removed' \subseteq 1 .. MaxVersions
    BY <1>1 DEF IInv, TypeOK, Others, widget
  <2>2. Flags'
    BY <1>1, Zenon DEF IInv, TypeOK, Flags, widget
  <2> QED
    BY <1>5, <2>1, <2>2, Zenon DEF TypeOK, Others, Flags
<1> QED
  BY <1>1, <1>6, <1>7 DEF IInv, RemovedArePast

LEMMA NextKeeps == IInv /\ [Next]_vars => IInv'
<1> SUFFICES ASSUME IInv, [Next]_vars PROVE IInv'
  OBVIOUS
<1>1. Others
  BY DEF IInv, TypeOK, Others
<1>2. Flags
  BY Zenon DEF IInv, TypeOK, Flags
<1>3. Items \subseteq 1 .. MaxVersions /\ \A i \in Items : history[i] \in Values
  BY ItemsAreVersions DEF IInv
<1>4. CASE OpenEditor
  <2>1. UNCHANGED entry
    BY <1>4 DEF OpenEditor
  <2>2. Others'
    BY <1>1, <1>3, <1>4 DEF OpenEditor, Others, limits, IInv, TypeOK
  <2>3. Flags'
    BY <1>4 DEF OpenEditor, Flags
  <2> QED
    BY <2>1, <2>2, <2>3, OtherKeeps
<1>5. ASSUME NEW x \in Values, NEW e \in BOOLEAN, EditForm(x, e)
      PROVE  IInv'
  <2>1. UNCHANGED entry
    BY <1>5 DEF EditForm
  <2>2. Others'
    BY <1>1, <1>5 DEF EditForm, Others, limits
  <2>3. Flags'
    BY <1>2, <1>5, Zenon DEF EditForm, Flags
  <2> QED
    BY <2>1, <2>2, <2>3, OtherKeeps
<1>17. ASSUME NEW x \in Values, EditQuietly(x)
       PROVE  IInv'
  <2>1. UNCHANGED entry
    BY <1>17 DEF EditQuietly
  <2>2. Others'
    BY <1>1, <1>17 DEF EditQuietly, Others, limits
  <2>3. Flags'
    BY <1>2, <1>17, Zenon DEF EditQuietly, Flags
  <2> QED
    BY <2>1, <2>2, <2>3, OtherKeeps
<1>6. ASSUME NEW i \in rows, RestoreHistoryEntry(i)
      PROVE  IInv'
  <2>1. UNCHANGED entry
    BY <1>6 DEF RestoreHistoryEntry
  <2>2. Others'
    BY <1>1, <1>3, <1>6 DEF RestoreHistoryEntry, Others, limits
  <2>3. Flags'
    BY <1>2, <1>6, Zenon DEF RestoreHistoryEntry, Flags
  <2> QED
    BY <2>1, <2>2, <2>3, OtherKeeps
<1>7. ASSUME NEW i \in rows, DeleteHistoryEntry(i)
      PROVE  IInv'
  <2>1. UNCHANGED entry
    BY <1>7 DEF DeleteHistoryEntry
  <2>2. Others'
    BY <1>1, <1>7 DEF DeleteHistoryEntry, Others, limits
  <2>3. Flags'
    BY <1>2, <1>7, Zenon DEF DeleteHistoryEntry, Flags
  <2> QED
    BY <2>1, <2>2, <2>3, OtherKeeps
<1>8. CASE DeleteAllHistoryEntries
  <2>1. UNCHANGED entry
    BY <1>8 DEF DeleteAllHistoryEntries
  <2>2. Others'
    BY <1>1, <1>8 DEF DeleteAllHistoryEntries, Others, limits
  <2>3. Flags'
    BY <1>2, <1>8, Zenon DEF DeleteAllHistoryEntries, Flags
  <2> QED
    BY <2>1, <2>2, <2>3, OtherKeeps
<1>9. CASE Apply
  <2>1. CommitToEntry
    BY <1>9 DEF Apply
  <2>2. DOMAIN history' \subseteq 1 .. MaxVersions
    <3>1. history' \in Partial(Values)
      <4>1. doomed \in SUBSET Items /\ form \in Values /\ removed' = removed \cup doomed
        BY <2>1 DEF CommitToEntry, IInv, TypeOK
      <4>2. Update(Restrict(history, Items \ doomed), form)
        BY <2>1 DEF CommitToEntry
      <4> QED
        BY <4>1, <4>2, UpdateKeepsVersions
    <3> QED
      BY <3>1 DEF Partial
  <2>3. Others'
    BY <1>1, <1>9, <2>1, <2>2 DEF Apply, CommitToEntry, Others, limits
  <2>4. Flags'
    BY <1>2, <1>9, Zenon DEF Apply, Flags
  <2> QED
    BY <2>1, <2>3, <2>4, CommitKeeps
<1>10. CASE Accept
  <2>1. CommitToEntry
    BY <1>10 DEF Accept
  <2>2. Others'
    BY <1>1, <1>10, <2>1 DEF Accept, CloseEditor, CommitToEntry, Others, limits
  <2>3. Flags'
    BY <1>2, <1>10, Zenon DEF Accept, CloseEditor, Flags
  <2> QED
    BY <2>1, <2>2, <2>3, CommitKeeps
<1>11. CASE Discard
  <2>1. UNCHANGED entry
    BY <1>11 DEF Discard
  <2>2. Others'
    BY <1>1, <1>11 DEF Discard, CloseEditor, Others, limits
  <2>3. Flags'
    BY <1>2, <1>11, Zenon DEF Discard, CloseEditor, Flags
  <2> QED
    BY <2>1, <2>2, <2>3, OtherKeeps
<1>12. CASE SaveOnCancel
  <2>1. (equal /\ CommitToEntry) \/ (~equal /\ UNCHANGED <<entry, program>>)
    BY <1>12, Zenon DEF SaveOnCancel
  <2>2. Others'
    <3>1. program' = program
      BY <2>1, Zenon DEF CommitToEntry
    <3> QED
      BY <1>1, <1>12, <3>1 DEF SaveOnCancel, CloseEditor, Others, limits
  <2>3. Flags'
    BY <1>2, <1>12, Zenon DEF SaveOnCancel, CloseEditor, Flags
  <2> QED
    BY <2>1, <2>2, <2>3, CommitKeeps, OtherKeeps, Zenon
<1>13. CASE CommitStale \/ ReadStaleRow
  <2>1. UNCHANGED <<entry, limits, widget>> /\ program' \in {"asserted", "stale"}
    BY <1>13 DEF CommitStale, ReadStaleRow
  <2>2. Others'
    BY <1>1, <2>1 DEF Others, limits, widget
  <2>3. Flags'
    BY <1>2, <2>1, Zenon DEF Flags, widget
  <2> QED
    BY <2>1, <2>2, <2>3, OtherKeeps
<1>14. ASSUME NEW x \in Values, UpdateEntry(x)
       PROVE  IInv'
  <2>1. /\ Update(history, x) /\ removed' = removed
        /\ UNCHANGED <<limits, widget>> /\ program' = program
    BY <1>14 DEF UpdateEntry
  <2>2. Restrict(history, Items \ {}) = history
    <3>1. PICK D \in SUBSET (1 .. MaxVersions) : history \in [D -> Values]
      BY DEF IInv, TypeOK, Partial
    <3> QED
      BY <3>1 DEF Restrict, Items
  <2>3. Update(Restrict(history, Items \ {}), x) /\ removed' = removed \cup {}
    BY <2>1, <2>2
  <2>4. /\ VersionsKept' /\ RemovedArePast'
        /\ fields' \in Values /\ history' \in Partial(Values) /\ versions' \in Seq(Values)
        /\ Len(versions') \in 1 .. MaxVersions /\ removed' \subseteq 1 .. MaxVersions
    <3>1. {} \in SUBSET Items
      OBVIOUS
    <3> QED
      BY <2>3, <3>1, UpdateKeepsVersions
  <2>5. Others'
    BY <1>1, <2>1 DEF Others, limits, widget
  <2>6. Flags'
    BY <1>2, <2>1, Zenon DEF Flags, widget
  <2> QED
    BY <2>4, <2>5, <2>6, Zenon DEF IInv, TypeOK, Others, Flags
<1>15. ASSUME NEW items \in ItemLimits, NEW size \in SizeLimits, ChangeLimits(items, size)
       PROVE  IInv'
  BY <1>15, LimitsKeep
<1>16. CASE UNCHANGED vars
  <2>1. UNCHANGED entry
    BY <1>16 DEF vars
  <2>2. Others'
    BY <1>1, <1>16 DEF vars, limits, widget, Others
  <2>3. Flags'
    BY <1>2, <1>16, Zenon DEF vars, widget, Flags
  <2> QED
    BY <2>1, <2>2, <2>3, OtherKeeps
<1> QED
  BY <1>4, <1>5, <1>6, <1>7, <1>8, <1>9, <1>10, <1>11, <1>12, <1>13, <1>14, <1>15, <1>16, <1>17
  DEF Next

\* The strengthening of VersionsKept holds in every state.
THEOREM InvariantHolds == Spec => []IInv
  BY InitEstablishes, NextKeeps, PTL DEF Spec

\* Type correctness of the entry, its history and its editor, for any contents,
\* sizes, limits and number of versions.
THEOREM HistoryTypeCorrect == Spec => []TypeOK
<1>1. IInv => TypeOK
  BY DEF IInv
<1> QED
  BY <1>1, InvariantHolds, PTL

\* Whatever the editor, the browser integration and the settings do and in
\* whatever order, each version of the entry is current, in the history as it
\* was, deleted by a user, or older than everything that the limits left.
THEOREM NoVersionIsLost == Spec => []VersionsKept
<1>1. IInv => VersionsKept
  BY DEF IInv
<1> QED
  BY <1>1, InvariantHolds, PTL

----------------------------------------------------------------------------
(* Action properties *)

\* What removeHistoryItems and an update leave: the new contents, and of the
\* history none of the removed items, and within the limits if an item was added.
LEMMA WhatUpdateLeaves ==
  ASSUME IInv, NEW gone \in SUBSET Items, NEW x \in Values,
         Update(Restrict(history, Items \ gone), x)
  PROVE  /\ fields' = x
         /\ gone \cap DOMAIN history' = {}
         /\ versions' = versions \/ Len(versions') > Len(versions)
         /\ versions' # versions /\ UNCHANGED limits => WithinLimits'
<1> DEFINE L == Len(versions)
           h == Restrict(history, Items \ gone)
           h2 == Updated(h, x)
<1>1. /\ L \in Nat
      /\ versions \in Seq(Values)
      /\ maxItems \in Int /\ maxSize \in Int
      /\ \A i \in Items : i < L
  BY LimitAssumption DEF IInv, TypeOK, VersionsKept
<1>2. DOMAIN h = Items \ gone
  BY DEF Restrict
<1>3. CASE x = fields
  BY <1>2, <1>3 DEF Update
<1>4. CASE x # fields
  <2>1. /\ history' = Truncated(h2, maxItems, maxSize)
        /\ versions' = Append(versions, x)
        /\ fields' = x
    BY <1>4 DEF Update
  <2>2. DOMAIN h2 = (Items \ gone) \cup {L}
    BY <1>2 DEF Updated
  <2>3. IsFiniteSet(DOMAIN h2) /\ DOMAIN h2 \subseteq Nat
    <3>1. Items \subseteq Nat /\ IsFiniteSet(Items)
      BY ItemsAreVersions DEF IInv
    <3>2. IsFiniteSet(Items \ gone)
      BY <3>1, FS_Subset
    <3>3. IsFiniteSet((Items \ gone) \cup {L})
      BY <3>2, FS_AddElement
    <3> HIDE DEF h2
    <3> QED
      BY <1>1, <2>2, <3>1, <3>3
  <2> HIDE DEF h, h2
  <2>4. DOMAIN history' \subseteq DOMAIN h2
    <3>1. DOMAIN h2 \subseteq Int
      BY <2>3
    <3> QED
      BY <1>1, <2>1, <2>3, <3>1, TruncationKeepsNewest
  <2>5. L \notin gone
    BY <1>1
  <2>6. /\ maxItems > -1 => Cardinality(DOMAIN history') <= maxItems
        /\ maxSize > -1 => TotalSize(history') <= maxSize
    BY <1>1, <2>1, <2>3, TruncationFits
  <2>7. UNCHANGED limits => WithinLimits'
    BY <2>6 DEF WithinLimits, limits, Items
  <2> QED
    BY <1>1, <2>1, <2>2, <2>4, <2>5, <2>7
<1> QED
  BY <1>3, <1>4

\* A save of the form: the entry has the input, and none of the marked items.
LEMMA WhatCommitLeaves ==
  ASSUME IInv, CommitToEntry
  PROVE  /\ fields' = form
         /\ doomed \cap DOMAIN history' = {}
         /\ versions' # versions /\ UNCHANGED limits => WithinLimits'
<1>1. doomed \in SUBSET Items /\ form \in Values
  BY DEF CommitToEntry, IInv, TypeOK
<1>2. Update(Restrict(history, Items \ doomed), form)
  BY DEF CommitToEntry
<1> QED
  BY <1>1, <1>2, WhatUpdateLeaves

\* An update from elsewhere, when it does update.
LEMMA WhatOthersLeave ==
  ASSUME IInv, NEW x \in Values, UpdateEntry(x)
  PROVE  Len(versions') > Len(versions) /\ WithinLimits'
<1>1. Restrict(history, Items \ {}) = history
  <2>1. PICK D \in SUBSET (1 .. MaxVersions) : history \in [D -> Values]
    BY DEF IInv, TypeOK, Partial
  <2> QED
    BY <2>1 DEF Restrict, Items
<1>2. Update(Restrict(history, Items \ {}), x) /\ x # fields /\ UNCHANGED limits
  BY <1>1 DEF UpdateEntry
<1>3. {} \in SUBSET Items
  OBVIOUS
<1>4. /\ versions' = versions \/ Len(versions') > Len(versions)
      /\ versions' # versions => WithinLimits'
  BY <1>2, <1>3, WhatUpdateLeaves
<1>5. Len(versions') = Len(versions) + 1 /\ Len(versions) \in Nat
  BY <1>2 DEF Update, IInv, TypeOK
<1> QED
  BY <1>4, <1>5

\* Every update and every change of a limit leaves the history within both
\* limits, for any contents, sizes and limits, 0 among them.
THEOREM LimitsHold == Spec => LimitsAreEnforced
<1>1. ASSUME IInv, [Next]_vars, <<versions, limits>>' # <<versions, limits>>
      PROVE  WithinLimits'
  <2>1. ASSUME CommitToEntry, UNCHANGED limits PROVE WithinLimits'
    BY <1>1, <2>1, WhatCommitLeaves
  <2>2. CASE Apply \/ Accept \/ SaveOnCancel
    <3>1. UNCHANGED limits
      BY <2>2 DEF Apply, Accept, SaveOnCancel
    <3>2. CommitToEntry
      BY <1>1, <2>2, <3>1, Zenon DEF Apply, Accept, SaveOnCancel, entry
    <3> QED
      BY <2>1, <3>1, <3>2
  <2>3. ASSUME NEW x \in Values, UpdateEntry(x) PROVE WithinLimits'
    BY <1>1, <2>3, WhatOthersLeave
  <2>4. ASSUME NEW items \in ItemLimits, NEW size \in SizeLimits, ChangeLimits(items, size)
        PROVE  WithinLimits'
    <3>1. /\ history' = Truncated(history, items, size)
          /\ maxItems' = items /\ maxSize' = size
      BY <2>4 DEF ChangeLimits
    <3>2. IsFiniteSet(Items) /\ Items \subseteq Nat
      BY <1>1, ItemsAreVersions DEF IInv
    <3>3. items \in Int /\ size \in Int
      BY LimitAssumption
    <3>4. /\ items > -1 => Cardinality(DOMAIN history') <= items
          /\ size > -1 => TotalSize(history') <= size
      BY <3>1, <3>2, <3>3, TruncationFits DEF Items
    <3> QED
      BY <3>1, <3>4 DEF WithinLimits, Items
  <2>5. ASSUME \/ OpenEditor \/ DeleteAllHistoryEntries \/ Discard \/ CommitStale \/ ReadStaleRow
               \/ UNCHANGED vars
               \/ \E x \in Values, e \in BOOLEAN : EditForm(x, e)
               \/ \E x \in Values : EditQuietly(x)
               \/ \E i \in rows : RestoreHistoryEntry(i) \/ DeleteHistoryEntry(i)
        PROVE  FALSE
    BY <1>1, <2>5 DEF OpenEditor, EditForm, EditQuietly, RestoreHistoryEntry, DeleteHistoryEntry,
       DeleteAllHistoryEntries, Discard, CommitStale, ReadStaleRow, vars, entry, limits
  <2> QED
    BY <1>1, <2>2, <2>3, <2>4, <2>5 DEF Next
<1>2. IInv /\ [Next]_vars =>
        [<<versions, limits>>' # <<versions, limits>> => WithinLimits']_vars
  BY <1>1
<1> QED
  BY <1>2, InvariantHolds, PTL DEF Spec, LimitsAreEnforced

\* The form says that it is saved only if nothing was changed in it, or something
\* was changed that nobody reports.
InputReported == saved => quiet \/ ~HasInput

LEMMA ReportsKept == IInv /\ InputReported /\ [Next]_vars => InputReported'
<1> SUFFICES ASSUME IInv, InputReported, [Next]_vars PROVE InputReported'
  OBVIOUS
<1>1. ASSUME \/ \E x \in Values, e \in BOOLEAN : EditForm(x, e)
             \/ \E i \in rows : RestoreHistoryEntry(i) \/ DeleteHistoryEntry(i)
             \/ DeleteAllHistoryEntries
      PROVE  ~saved'
  BY <1>1 DEF EditForm, RestoreHistoryEntry, DeleteHistoryEntry, DeleteAllHistoryEntries
<1>2. ASSUME NEW x \in Values, EditQuietly(x) PROVE quiet'
  BY <1>2 DEF EditQuietly
<1>3. ASSUME OpenEditor \/ Apply \/ Accept \/ Discard \/ SaveOnCancel PROVE ~HasInput'
  <2>1. doomed' = {} /\ form' = loaded'
    BY <1>3 DEF OpenEditor, Apply, Accept, Discard, SaveOnCancel, CloseEditor
  <2> QED
    BY <2>1 DEF HasInput
<1>4. ASSUME \/ CommitStale \/ ReadStaleRow \/ UNCHANGED vars
             \/ \E x \in Values : UpdateEntry(x)
             \/ \E items \in ItemLimits, size \in SizeLimits : ChangeLimits(items, size)
      PROVE  InputReported'
  <2>1. UNCHANGED widget
    BY <1>4 DEF CommitStale, ReadStaleRow, UpdateEntry, ChangeLimits, vars
  <2> QED
    BY <2>1, Zenon DEF InputReported, HasInput, widget
<1> QED
  BY <1>1, <1>2, <1>3, <1>4 DEF InputReported, Next

\* EditEntryWidget::cancel, acceptEntry: an editor whose form was changed never
\* closes without the input in the entry, but by Discard, after a Save with different
\* passwords, or without asking over a change that no widget reported.
THEOREM InputIsSaved == Spec => InputSurvivesClosing
<1>1. Init => InputReported
  BY DEF Init, InputReported, HasInput
<1>2. ASSUME IInv, InputReported, [Next]_vars,
             editor = "open", HasInput \/ ~saved, editor' = "closed"
      PROVE  \/ fields' = form /\ doomed \cap DOMAIN history' = {}
             \/ ~saved'
             \/ ~saved /\ ~equal
             \/ saved /\ quiet
  <2>1. CommitToEntry \/ (~saved /\ ~equal) \/ Discard
    <3>1. CASE Apply \/ Accept \/ SaveOnCancel
      BY <1>2, <3>1, Zenon DEF Apply, Accept, SaveOnCancel
    <3>2. ASSUME \/ OpenEditor \/ DeleteAllHistoryEntries \/ CommitStale \/ ReadStaleRow
                 \/ UNCHANGED vars
                 \/ \E x \in Values, e \in BOOLEAN : EditForm(x, e)
                 \/ \E x \in Values : EditQuietly(x)
                 \/ \E i \in rows : RestoreHistoryEntry(i) \/ DeleteHistoryEntry(i)
                 \/ \E x \in Values : UpdateEntry(x)
                 \/ \E items \in ItemLimits, size \in SizeLimits : ChangeLimits(items, size)
          PROVE  FALSE
      BY <1>2, <3>2 DEF OpenEditor, EditForm, EditQuietly, RestoreHistoryEntry,
         DeleteHistoryEntry, DeleteAllHistoryEntries, CommitStale, ReadStaleRow, UpdateEntry,
         ChangeLimits, vars, widget
    <3> QED
      BY <1>2, <3>1, <3>2 DEF Next
  <2>2. CASE CommitToEntry
    BY <1>2, <2>2, WhatCommitLeaves
  <2>3. CASE Discard
    <3>1. saved' = saved
      BY <2>3 DEF Discard
    <3> QED
      BY <1>2, <3>1, Zenon DEF InputReported
  <2> QED
    BY <2>1, <2>2, <2>3
<1>3. IInv /\ InputReported /\ [Next]_vars =>
        [editor = "open" /\ (HasInput \/ ~saved) /\ editor' = "closed" =>
           \/ fields' = form /\ doomed \cap DOMAIN history' = {}
           \/ ~saved'
           \/ ~saved /\ ~equal
           \/ saved /\ quiet]_vars
  BY <1>2
<1> QED
  BY <1>1, <1>3, ReportsKept, InvariantHolds, PTL DEF Spec, InputSurvivesClosing

\* The only step that leaves an editor with pointers to freed items, where it
\* had none, is an update from elsewhere while the editor is open.
THEOREM OnlyOthersMakeStale == Spec => StaleOnlyByOthers
<1>1. ASSUME IInv, [Next]_vars,
             rows \cup doomed \subseteq Items, ~(rows' \cup doomed' \subseteq DOMAIN history')
      PROVE  editor = "open" /\ UNCHANGED widget /\ Len(versions') > Len(versions)
  <2>1. editor \in {"closed", "open"} /\ (editor = "closed" => rows = {} /\ doomed = {})
    BY <1>1 DEF IInv, TypeOK
  <2>2. ASSUME NEW x \in Values, UpdateEntry(x)
        PROVE  editor = "open" /\ UNCHANGED widget /\ Len(versions') > Len(versions)
    <3>1. UNCHANGED widget
      BY <2>2 DEF UpdateEntry
    <3>2. rows' = rows /\ doomed' = doomed
      BY <3>1 DEF widget
    <3> QED
      BY <1>1, <2>1, <2>2, <3>1, <3>2, WhatOthersLeave
  <2>3. ASSUME \E items \in ItemLimits, size \in SizeLimits : ChangeLimits(items, size)
        PROVE  FALSE
    BY <1>1, <2>1, <2>3 DEF ChangeLimits, widget
  <2>4. ASSUME Apply \/ Accept \/ Discard \/ SaveOnCancel PROVE FALSE
    BY <1>1, <2>4 DEF Apply, Accept, Discard, SaveOnCancel, CloseEditor
  <2>5. ASSUME \/ OpenEditor \/ DeleteAllHistoryEntries \/ CommitStale \/ ReadStaleRow
               \/ UNCHANGED vars
               \/ \E x \in Values, e \in BOOLEAN : EditForm(x, e)
               \/ \E x \in Values : EditQuietly(x)
               \/ \E i \in rows : RestoreHistoryEntry(i) \/ DeleteHistoryEntry(i)
        PROVE  FALSE
    BY <1>1, <2>5 DEF OpenEditor, EditForm, EditQuietly, RestoreHistoryEntry, DeleteHistoryEntry,
       DeleteAllHistoryEntries, CommitStale, ReadStaleRow, vars, entry, widget, Items
  <2> QED
    BY <1>1, <2>2, <2>3, <2>4, <2>5 DEF Next
<1>2. IInv /\ [Next]_vars =>
        [rows \cup doomed \subseteq Items /\ ~(rows' \cup doomed' \subseteq DOMAIN history')
           => editor = "open" /\ UNCHANGED widget /\ Len(versions') > Len(versions)]_vars
  BY <1>1
<1> QED
  BY <1>2, InvariantHolds, PTL DEF Spec, StaleOnlyByOthers
=============================================================================
