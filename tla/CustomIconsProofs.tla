------------------------- MODULE CustomIconsProofs -------------------------
(***************************************************************************)
(* The icons of a database are consistent and the references to them       *)
(* resolve, for any databases, groups, entries, icons and images.          *)
(***************************************************************************)
EXTENDS CustomIcons, SequenceTheorems, FiniteSetTheorems, WellFoundedInduction, TLAPS

----------------------------------------------------------------------------
(* Lists *)

\* Positions of a list have a last one.
LEMMA LastPosition ==
  ASSUME NEW n \in Nat, NEW T \in SUBSET (1..n), T # {}
  PROVE  \E m \in T : \A k \in T : k <= m
<1> DEFINE R == OpToRel(<, Nat)
           Bounds == {b \in Nat : \A k \in T : k <= b}
<1>1. IsWellFoundedOn(R, Nat)
  BY NatLessThanWellFounded
<1>2. \A x, y \in Nat : x < y => <<x, y>> \in R
  BY DEF OpToRel
<1>3. Bounds \subseteq Nat /\ Bounds # {}
  <2>1. n \in Bounds
    OBVIOUS
  <2> QED
    BY <2>1
<1> HIDE DEF R
<1>4. PICK b \in Bounds : \A c \in Bounds : ~(<<c, b>> \in R)
  BY <1>1, <1>3, WFMin
<1>5. b \in T
  <2>1. SUFFICES ASSUME b \notin T PROVE FALSE
    OBVIOUS
  <2>2. b \in Nat /\ \A k \in T : k \in Nat /\ 1 <= k /\ k <= b
    OBVIOUS
  <2>3. \A k \in T : k <= b - 1
    BY <2>1, <2>2
  <2>4. b - 1 \in Nat
    <3>1. PICK k \in T : TRUE
      OBVIOUS
    <3> QED
      BY <2>2, <3>1
  <2>5. b - 1 \in Bounds /\ b - 1 < b
    BY <2>3, <2>4
  <2> QED
    BY <1>2, <1>4, <2>5
<1> QED
  BY <1>5

\* What a record found by LastWith says.
LEMMA LastWithFinds ==
  ASSUME NEW list \in Seq(Icons), NEW of, NEW i, NEW before
  PROVE  \/ /\ LastWith(list, of, i, before) \in ToSet(list)
            /\ of[LastWith(list, of, i, before)] = i
         \/ /\ LastWith(list, of, i, before) = before
            /\ \A u \in ToSet(list) : of[u] # i
<1> DEFINE at == {n \in DOMAIN list : of[list[n]] = i}
           last == CHOOSE n \in at : \A m \in at : m <= n
<1>1. Len(list) \in Nat /\ DOMAIN list = 1..Len(list)
  BY LenProperties
<1>2. CASE at = {}
  <2>1. LastWith(list, of, i, before) = before
    BY <1>2 DEF LastWith
  <2> QED
    BY <1>2, <2>1 DEF ToSet
<1>3. CASE at # {}
  <2>1. \E n \in at : \A m \in at : m <= n
    <3>1. at \in SUBSET (1..Len(list))
      BY <1>1
    <3> HIDE DEF at
    <3> QED
      BY <1>1, <1>3, <3>1, LastPosition
  <2>2. last \in at
    BY <2>1
  <2>3. LastWith(list, of, i, before) = list[last]
    BY <1>3 DEF LastWith
  <2>4. last \in DOMAIN list /\ of[list[last]] = i
    BY <2>2
  <2> QED
    BY <2>3, <2>4 DEF ToSet
<1> QED
  BY <1>2, <1>3

\* A list without u is a list of the others.
LEMMA ListWithout ==
  ASSUME NEW list \in Seq(Icons), NEW u
  PROVE  /\ Without(list, u) \in Seq(Icons)
         /\ ToSet(Without(list, u)) = ToSet(list) \ {u}
         /\ (\A m, n \in DOMAIN list : list[m] = list[n] => m = n) =>
              \A m, n \in DOMAIN Without(list, u) :
                Without(list, u)[m] = Without(list, u)[n] => m = n
<1> DEFINE kept == {n \in DOMAIN list : list[n] # u}
           Upto(n) == {k \in kept : k <= n}
           size == Cardinality(kept)
           place == [n \in kept |-> Cardinality(Upto(n))]
           At(m) == CHOOSE n \in kept : Cardinality(Upto(n)) = m
<1>1. Len(list) \in Nat /\ DOMAIN list = 1..Len(list) /\ list \in [1..Len(list) -> Icons]
  BY LenProperties
<1>2. IsFiniteSet(kept) /\ size \in Nat
  <2>1. IsFiniteSet(1..Len(list))
    BY <1>1, FS_Interval
  <2>2. kept \in SUBSET (1..Len(list))
    BY <1>1
  <2> HIDE DEF kept
  <2> QED
    BY <2>1, <2>2, FS_Subset, FS_CardinalityType
<1>3. ASSUME NEW n \in kept
      PROVE  Cardinality(Upto(n)) \in 1..size
  <2>1. Upto(n) \in SUBSET kept
    OBVIOUS
  <2>2. n \in Nat
    BY <1>1
  <2>3. n \in Upto(n)
    BY <2>2
  <2> HIDE DEF kept, Upto
  <2>4. /\ IsFiniteSet(Upto(n)) /\ Cardinality(Upto(n)) <= size
        /\ Cardinality(Upto(n)) \in Nat
    BY <1>2, <2>1, FS_Subset, FS_CardinalityType
  <2>5. Cardinality(Upto(n)) # 0
    BY <2>3, <2>4, FS_EmptySet
  <2> QED
    BY <1>2, <2>4, <2>5
<1>4. ASSUME NEW m \in kept, NEW n \in kept, Cardinality(Upto(m)) = Cardinality(Upto(n))
      PROVE  m = n
  <2>1. m \in Nat /\ n \in Nat
    BY <1>1
  <2>2. ASSUME NEW a \in kept, NEW b \in kept, a \in Nat, b \in Nat, a < b
        PROVE  Cardinality(Upto(a)) # Cardinality(Upto(b))
    <3>1. Upto(a) \in SUBSET Upto(b) /\ Upto(b) \in SUBSET kept
      BY <1>1, <2>2
    <3>2. b \in Upto(b) /\ b \notin Upto(a)
      BY <2>2
    <3> HIDE DEF kept, Upto
    <3>3. IsFiniteSet(Upto(b))
      BY <1>2, <3>1, FS_Subset
    <3> QED
      BY <3>1, <3>2, <3>3, FS_Subset
  <2> HIDE DEF kept, Upto
  <2> QED
    BY <1>4, <2>1, <2>2
<1>5. \A m \in 1..size : \E n \in kept : Cardinality(Upto(n)) = m
  <2>1. place \in Injection(kept, 1..size)
    <3>1. place \in [kept -> 1..size]
      BY <1>3
    <3>2. \A m, n \in kept : place[m] = place[n] => m = n
      BY <1>4
    <3> HIDE DEF place
    <3> QED
      BY <3>1, <3>2 DEF Injection, IsInjective
  <2>2. IsFiniteSet(1..size) /\ Cardinality(1..size) = size
    BY <1>2, FS_Interval
  <2>3. place \in Surjection(kept, 1..size)
    <3> HIDE DEF place, kept
    <3> QED
      BY <2>1, <2>2, FS_Injection
  <2> QED
    BY <2>3 DEF Surjection
<1>6. \A m \in 1..size : At(m) \in kept /\ Cardinality(Upto(At(m))) = m
  BY <1>5
<1>7. \A n \in kept : Cardinality(Upto(n)) \in 1..size /\ At(Cardinality(Upto(n))) = n
  BY <1>3, <1>4, <1>6
<1>8. Without(list, u) = [m \in 1..size |-> list[At(m)]]
  BY DEF Without
<1>9. \A n \in kept : n \in DOMAIN list /\ list[n] # u /\ list[n] \in Icons
  BY <1>1
<1>10. \A n \in DOMAIN list : list[n] # u => n \in kept
  OBVIOUS
<1> HIDE DEF kept, Upto, size, At
<1>11. Without(list, u) \in [1..size -> Icons]
  BY <1>6, <1>8, <1>9
<1>12. Without(list, u) \in Seq(Icons)
  BY <1>2, <1>11
<1>13. ToSet(Without(list, u)) = ToSet(list) \ {u}
  <2>1. \A m \in 1..size : Without(list, u)[m] \in ToSet(list) \ {u}
    BY <1>6, <1>8, <1>9 DEF ToSet
  <2>2. ASSUME NEW v \in ToSet(list) \ {u}
        PROVE  v \in ToSet(Without(list, u))
    <3>1. PICK n \in DOMAIN list : list[n] = v
      BY DEF ToSet
    <3>2. n \in kept
      BY <1>10, <3>1
    <3>3. Without(list, u)[Cardinality(Upto(n))] = v /\ Cardinality(Upto(n)) \in 1..size
      BY <1>7, <1>8, <3>1, <3>2
    <3> QED
      BY <1>11, <3>3 DEF ToSet
  <2> QED
    BY <1>11, <2>1, <2>2 DEF ToSet
<1>14. ASSUME \A m, n \in DOMAIN list : list[m] = list[n] => m = n,
              NEW m \in 1..size, NEW n \in 1..size,
              Without(list, u)[m] = Without(list, u)[n]
       PROVE  m = n
  <2>1. list[At(m)] = list[At(n)] /\ At(m) \in DOMAIN list /\ At(n) \in DOMAIN list
    BY <1>6, <1>8, <1>9, <1>14
  <2>2. At(m) = At(n)
    BY <1>14, <2>1
  <2> QED
    BY <1>6, <2>2
<1> QED
  BY <1>11, <1>12, <1>13, <1>14

\* The orders in which the icons of a set may be copied.
LEMMA AnyOrder ==
  ASSUME IconAssumption, NEW S \in SUBSET Icons, NEW list \in SetToSeqs(S)
  PROVE  /\ list \in Seq(Icons)
         /\ ToSet(list) = S
         /\ \A m, n \in DOMAIN list : list[m] = list[n] => m = n
<1>1. IsFiniteSet(S) /\ Cardinality(S) \in Nat
  BY FS_Subset, FS_CardinalityType DEF IconAssumption
<1>2. /\ list \in [1..Cardinality(S) -> S]
      /\ \A m, n \in 1..Cardinality(S) : m # n => list[m] # list[n]
  BY DEF SetToSeqs
<1>3. list \in Seq(Icons) /\ DOMAIN list = 1..Cardinality(S)
  BY <1>1, <1>2
<1>4. list \in Injection(1..Cardinality(S), S)
  BY <1>2 DEF Injection, IsInjective
<1>5. IsFiniteSet(1..Cardinality(S)) /\ Cardinality(1..Cardinality(S)) = Cardinality(S)
  BY <1>1, FS_Interval
<1>6. list \in Surjection(1..Cardinality(S), S)
  BY <1>1, <1>4, <1>5, FS_Injection
<1>7. ToSet(list) = S
  BY <1>2, <1>6 DEF ToSet, Surjection
<1> QED
  BY <1>2, <1>3, <1>7

----------------------------------------------------------------------------
(* The store of one database *)

ImageSet == Images \cup {Blank}

Once(list) == \A m, n \in DOMAIN list : list[m] = list[n] => m = n
ListsAll(im, list) == ToSet(list) = {u \in Icons : im[u] # NoIcon}
RecordsHold(im, rec) == \A i \in ImageSet : rec[i] # NoIcon => im[rec[i]] = i
AllFound(im, rec, gone) ==
  \A u \in Icons : im[u] # NoIcon => rec[im[u]] # NoIcon \/ im[u] \in gone

\* The images im, their list, the records and the images without one.
Fits(im, list, rec, gone) ==
  /\ im \in [Icons -> ImageSet \cup {NoIcon}]
  /\ list \in Seq(Icons)
  /\ rec \in [ImageSet -> Icons \cup {NoIcon}]
  /\ gone \in SUBSET ImageSet
  /\ ListsAll(im, list) /\ Once(list)
  /\ RecordsHold(im, rec)
  /\ AllFound(im, rec, gone)

LEMMA NoImageIsNone == IconAssumption => NoIcon \notin ImageSet /\ NoIcon \notin Icons
  BY DEF IconAssumption, ImageSet

LEMMA ConcatenatedOnce ==
  ASSUME NEW s \in Seq(Icons), NEW t \in Seq(Icons), Once(s), Once(t),
         ToSet(s) \cap ToSet(t) = {}
  PROVE  /\ s \o t \in Seq(Icons) /\ Once(s \o t)
         /\ ToSet(s \o t) = ToSet(s) \cup ToSet(t)
<1>1. /\ Len(s) \in Nat /\ Len(t) \in Nat
      /\ DOMAIN s = 1..Len(s) /\ DOMAIN t = 1..Len(t)
  BY LenProperties
<1>2. /\ s \o t \in Seq(Icons) /\ Len(s \o t) = Len(s) + Len(t)
      /\ \A n \in 1..(Len(s) + Len(t)) :
           (s \o t)[n] = IF n <= Len(s) THEN s[n] ELSE t[n - Len(s)]
  BY ConcatProperties
<1>3. DOMAIN (s \o t) = 1..(Len(s) + Len(t))
  BY <1>2, LenProperties
<1>4. \A n \in 1..(Len(s) + Len(t)) :
        \/ n \in 1..Len(s) /\ (s \o t)[n] = s[n]
        \/ n - Len(s) \in 1..Len(t) /\ (s \o t)[n] = t[n - Len(s)]
  BY <1>1, <1>2
<1>5. /\ \A n \in 1..Len(s) : n \in DOMAIN (s \o t) /\ (s \o t)[n] = s[n]
      /\ \A n \in 1..Len(t) : n + Len(s) \in DOMAIN (s \o t) /\ (s \o t)[n + Len(s)] = t[n]
  BY <1>1, <1>2, <1>3
<1>6. ToSet(s \o t) = ToSet(s) \cup ToSet(t)
  <2>1. ToSet(s \o t) \subseteq ToSet(s) \cup ToSet(t)
    BY <1>1, <1>3, <1>4 DEF ToSet
  <2>2. ToSet(s) \subseteq ToSet(s \o t) /\ ToSet(t) \subseteq ToSet(s \o t)
    BY <1>1, <1>5 DEF ToSet
  <2> QED
    BY <2>1, <2>2
<1>7. ASSUME NEW m \in DOMAIN (s \o t), NEW n \in DOMAIN (s \o t), (s \o t)[m] = (s \o t)[n]
      PROVE  m = n
  <2>1. \A k \in 1..Len(s) : s[k] \in ToSet(s)
    BY <1>1 DEF ToSet
  <2>2. \A k \in 1..Len(t) : t[k] \in ToSet(t)
    BY <1>1 DEF ToSet
  <2>3. CASE m \in 1..Len(s) /\ n \in 1..Len(s) /\ (s \o t)[m] = s[m] /\ (s \o t)[n] = s[n]
    BY <1>1, <1>7, <2>3 DEF Once
  <2>4. CASE /\ m - Len(s) \in 1..Len(t) /\ n - Len(s) \in 1..Len(t)
             /\ (s \o t)[m] = t[m - Len(s)] /\ (s \o t)[n] = t[n - Len(s)]
    <3>1. m - Len(s) = n - Len(s)
      BY <1>1, <1>7, <2>4 DEF Once
    <3> QED
      BY <1>1, <1>3, <3>1
  <2> QED
    BY <1>3, <1>4, <1>7, <2>1, <2>2, <2>3, <2>4
<1> QED
  BY <1>2, <1>6, <1>7 DEF Once

\* Icons are added.
LEMMA AddedFits ==
  ASSUME IconAssumption, NEW im, NEW list, NEW rec, NEW gone, Fits(im, list, rec, gone),
         NEW more \in Seq(Icons), Once(more),
         NEW of, \A u \in ToSet(more) : im[u] = NoIcon /\ of[u] \in ImageSet
  PROVE  Fits([u \in Icons |-> IF u \in ToSet(more) THEN of[u] ELSE im[u]],
              list \o more,
              [i \in ImageSet |-> LastWith(more, of, i, rec[i])],
              gone \ {of[u] : u \in ToSet(more)})
<1> DEFINE im2 == [u \in Icons |-> IF u \in ToSet(more) THEN of[u] ELSE im[u]]
           rec2 == [i \in ImageSet |-> LastWith(more, of, i, rec[i])]
           gone2 == gone \ {of[u] : u \in ToSet(more)}
<1>1. ToSet(more) \subseteq Icons
  BY ElementOfSeq, LenProperties DEF ToSet
<1>2. im2 \in [Icons -> ImageSet \cup {NoIcon}]
  BY <1>1 DEF Fits
<1>3. \A i \in ImageSet :
        \/ rec2[i] \in ToSet(more) /\ of[rec2[i]] = i
        \/ rec2[i] = rec[i] /\ \A u \in ToSet(more) : of[u] # i
  BY LastWithFinds
<1>4. rec2 \in [ImageSet -> Icons \cup {NoIcon}]
  BY <1>1, <1>3 DEF Fits
<1>5. /\ \A u \in ToSet(more) : im2[u] = of[u] /\ im2[u] \in ImageSet /\ im[u] = NoIcon
      /\ \A u \in Icons \ ToSet(more) : im2[u] = im[u]
  BY <1>1
<1>6. ToSet(list) \cap ToSet(more) = {}
  BY DEF Fits, ListsAll
<1>7. /\ list \o more \in Seq(Icons) /\ Once(list \o more)
      /\ ToSet(list \o more) = ToSet(list) \cup ToSet(more)
  BY <1>6, ConcatenatedOnce DEF Fits
<1> HIDE DEF im2, rec2
<1>8. ListsAll(im2, list \o more)
  BY <1>1, <1>5, <1>7, NoImageIsNone DEF Fits, ListsAll
<1>9. ASSUME NEW i \in ImageSet, rec2[i] # NoIcon
      PROVE  im2[rec2[i]] = i
  <2>1. CASE rec2[i] \in ToSet(more) /\ of[rec2[i]] = i
    BY <1>5, <2>1
  <2>2. CASE rec2[i] = rec[i]
    <3>1. im[rec[i]] = i /\ rec[i] \in Icons
      BY <1>9, <2>2 DEF Fits, RecordsHold
    <3>2. rec[i] \notin ToSet(more)
      BY <1>5, <3>1, NoImageIsNone
    <3> QED
      BY <1>5, <2>2, <3>1, <3>2
  <2> QED
    BY <1>3, <2>1, <2>2
<1>10. ASSUME NEW u \in Icons, im2[u] # NoIcon
       PROVE  rec2[im2[u]] # NoIcon \/ im2[u] \in gone2
  <2>1. im2[u] \in ImageSet
    BY <1>2, <1>10
  <2>2. CASE rec2[im2[u]] \in ToSet(more)
    BY <1>1, <2>2, NoImageIsNone
  <2>3. CASE rec2[im2[u]] = rec[im2[u]] /\ \A v \in ToSet(more) : of[v] # im2[u]
    <3>1. u \notin ToSet(more) /\ im2[u] = im[u]
      BY <1>5, <2>3
    <3>2. rec[im[u]] # NoIcon \/ im[u] \in gone
      BY <1>10, <3>1 DEF Fits, AllFound
    <3> QED
      BY <2>3, <3>1, <3>2
  <2> QED
    BY <1>3, <2>1, <2>2, <2>3
<1> QED
  BY <1>2, <1>4, <1>7, <1>8, <1>9, <1>10 DEF Fits, RecordsHold, AllFound, im2, rec2

\* An icon is removed.
LEMMA RemovedFits ==
  ASSUME IconAssumption, NEW im, NEW list, NEW rec, NEW gone, Fits(im, list, rec, gone),
         NEW u \in Icons, im[u] # NoIcon
  PROVE  Fits([im EXCEPT ![u] = NoIcon],
              Without(list, u),
              IF rec[im[u]] = u THEN [rec EXCEPT ![im[u]] = NoIcon] ELSE rec,
              IF rec[im[u]] = u /\ \E v \in Icons \ {u} : im[v] = im[u]
              THEN gone \cup {im[u]} ELSE gone)
<1> DEFINE im2 == [im EXCEPT ![u] = NoIcon]
           rec2 == IF rec[im[u]] = u THEN [rec EXCEPT ![im[u]] = NoIcon] ELSE rec
           gone2 == IF rec[im[u]] = u /\ \E v \in Icons \ {u} : im[v] = im[u]
                    THEN gone \cup {im[u]} ELSE gone
<1>1. im2 \in [Icons -> ImageSet \cup {NoIcon}] /\ im2[u] = NoIcon
      /\ \A v \in Icons \ {u} : im2[v] = im[v]
  BY DEF Fits
<1>2. im[u] \in ImageSet
  BY DEF Fits
<1>3. rec2 \in [ImageSet -> Icons \cup {NoIcon}]
  BY <1>2 DEF Fits
<1>4. gone2 \in SUBSET ImageSet
  BY <1>2 DEF Fits
<1>5. \A i \in ImageSet : rec2[i] = rec[i] \/ (i = im[u] /\ rec[i] = u /\ rec2[i] = NoIcon)
  BY <1>2 DEF Fits
<1>6. rec[im[u]] = u => rec2[im[u]] = NoIcon
  BY <1>2 DEF Fits
<1>7. /\ Without(list, u) \in Seq(Icons) /\ Once(Without(list, u))
      /\ ToSet(Without(list, u)) = ToSet(list) \ {u}
  BY ListWithout DEF Fits, Once
<1>8. /\ gone \subseteq gone2
      /\ rec[im[u]] = u => \A v \in Icons \ {u} : im[v] = im[u] => im[u] \in gone2
  OBVIOUS
<1> HIDE DEF im2, rec2, gone2
<1>9. ListsAll(im2, Without(list, u))
  BY <1>1, <1>7 DEF Fits, ListsAll
<1>10. ASSUME NEW i \in ImageSet, rec2[i] # NoIcon
       PROVE  im2[rec2[i]] = i
  <2>1. rec2[i] = rec[i] /\ rec[i] \in Icons /\ im[rec[i]] = i
    BY <1>5, <1>10 DEF Fits, RecordsHold
  <2>2. rec[i] # u
    BY <1>6, <1>10, <2>1
  <2> QED
    BY <1>1, <2>1, <2>2
<1>11. ASSUME NEW v \in Icons, im2[v] # NoIcon
       PROVE  rec2[im2[v]] # NoIcon \/ im2[v] \in gone2
  <2>1. v # u /\ im2[v] = im[v]
    BY <1>1, <1>11
  <2>2. im[v] \in ImageSet
    BY <1>11, <2>1 DEF Fits
  <2>3. rec[im[v]] # NoIcon \/ im[v] \in gone
    BY <1>11, <2>1 DEF Fits, AllFound
  <2> QED
    BY <1>5, <1>8, <2>1, <2>2, <2>3
<1> QED
  BY <1>1, <1>3, <1>4, <1>7, <1>9, <1>10, <1>11
  DEF Fits, RecordsHold, AllFound, im2, rec2, gone2

\* The icons are read again in their order.
LEMMA RereadFits ==
  ASSUME IconAssumption, NEW im, NEW list, NEW rec, NEW gone, Fits(im, list, rec, gone)
  PROVE  LET im2 == [u \in Icons |-> IF im[u] # NoIcon THEN AsRead[im[u]] ELSE NoIcon]
         IN  Fits(im2, list, [i \in ImageSet |-> LastWith(list, im2, i, NoIcon)], {})
<1> DEFINE im2 == [u \in Icons |-> IF im[u] # NoIcon THEN AsRead[im[u]] ELSE NoIcon]
           rec2 == [i \in ImageSet |-> LastWith(list, im2, i, NoIcon)]
<1>0. /\ im2 \in [Icons -> ImageSet \cup {NoIcon}]
      /\ \A u \in Icons : im2[u] # NoIcon <=> im[u] # NoIcon
  BY ReadAssumption, NoImageIsNone DEF Fits, ImageSet
<1>1. ToSet(list) = {u \in Icons : im2[u] # NoIcon} /\ list \in Seq(Icons) /\ Once(list)
  BY <1>0 DEF Fits, ListsAll
<1> HIDE DEF im2
<1>2. \A i \in ImageSet :
        \/ rec2[i] \in ToSet(list) /\ im2[rec2[i]] = i
        \/ rec2[i] = NoIcon /\ \A u \in ToSet(list) : im2[u] # i
  BY <1>1, LastWithFinds
<1>3. rec2 \in [ImageSet -> Icons \cup {NoIcon}]
  BY <1>1, <1>2
<1> HIDE DEF rec2
<1>4. RecordsHold(im2, rec2)
  BY <1>2 DEF RecordsHold
<1>5. ASSUME NEW u \in Icons, im2[u] # NoIcon
      PROVE  rec2[im2[u]] # NoIcon
  BY <1>0, <1>1, <1>2, <1>5, NoImageIsNone
<1>6. Fits(im2, list, rec2, {})
  BY <1>0, <1>1, <1>3, <1>4, <1>5 DEF Fits, ListsAll, AllFound
<1> QED
  BY <1>6 DEF im2, rec2

----------------------------------------------------------------------------
(* The stores of all databases *)

StoreTypes ==
  /\ image \in [Databases -> [Icons -> ImageSet \cup {NoIcon}]]
  /\ order \in [Databases -> Seq(Icons)]
  /\ hashes \in [Databases -> [ImageSet -> Icons \cup {NoIcon}]]
  /\ lost \in [Databases -> SUBSET ImageSet]

AllFit ==
  /\ StoreTypes
  /\ \A d \in Databases : Fits(image[d], order[d], hashes[d], lost[d])

LEMMA StoresAreConsistent ==
  ASSUME AllFit
  PROVE  IconsAreListed /\ RecordsAreIcons /\ ImagesAreFound
<1>1. IconsAreListed
  BY DEF AllFit, Fits, ListsAll, Once, IconsAreListed, Has
<1>2. RecordsAreIcons
  BY DEF AllFit, Fits, RecordsHold, RecordsAreIcons, ImageSet
<1>3. ImagesAreFound
  BY DEF AllFit, Fits, AllFound, ImagesAreFound, Has
<1> QED
  BY <1>1, <1>2, <1>3

\* addCustomIcon for a list of icons the database lacks.
LEMMA Adding ==
  ASSUME IconAssumption, AllFit, NEW d \in Databases,
         NEW more \in Seq(Icons), Once(more),
         NEW of, \A u \in ToSet(more) : ~Has(d, u) /\ of[u] \in ImageSet,
         AddCustomIcons(d, more, of)
  PROVE  /\ AllFit'
         /\ \A c \in Databases, u \in Icons :
              Has(c, u)' <=> Has(c, u) \/ (c = d /\ u \in ToSet(more))
<1> DEFINE im2 == [u \in Icons |-> IF u \in ToSet(more) THEN of[u] ELSE image[d][u]]
           rec2 == [i \in ImageSet |-> LastWith(more, of, i, hashes[d][i])]
           gone2 == lost[d] \ {of[u] : u \in ToSet(more)}
<1>1. /\ image' = [image EXCEPT ![d] = im2]
      /\ order' = [order EXCEPT ![d] = order[d] \o more]
      /\ hashes' = [hashes EXCEPT ![d] = rec2]
      /\ lost' = [lost EXCEPT ![d] = gone2]
  BY DEF AddCustomIcons, ImageSet
<1>2. Fits(im2, order[d] \o more, rec2, gone2)
  <2>1. Fits(image[d], order[d], hashes[d], lost[d])
    BY DEF AllFit
  <2>2. \A u \in ToSet(more) : image[d][u] = NoIcon /\ of[u] \in ImageSet
    BY DEF Has
  <2> QED
    BY <2>1, <2>2, AddedFits
<1>3. \A u \in ToSet(more) : im2[u] # NoIcon
  <2>1. ToSet(more) \subseteq Icons
    BY ElementOfSeq, LenProperties DEF ToSet
  <2> QED
    BY <2>1, NoImageIsNone
<1>4. \A u \in Icons \ ToSet(more) : im2[u] = image[d][u]
  OBVIOUS
<1> HIDE DEF im2, rec2, gone2
<1>5. StoreTypes'
  BY <1>1, <1>2 DEF AllFit, StoreTypes, Fits
<1>6. /\ image'[d] = im2 /\ order'[d] = order[d] \o more /\ hashes'[d] = rec2 /\ lost'[d] = gone2
      /\ \A c \in Databases \ {d} :
           image'[c] = image[c] /\ order'[c] = order[c] /\ hashes'[c] = hashes[c] /\ lost'[c] = lost[c]
  BY <1>1 DEF AllFit, StoreTypes
<1>7. \A c \in Databases : Fits(image'[c], order'[c], hashes'[c], lost'[c])
  BY <1>2, <1>6 DEF AllFit
<1>8. ASSUME NEW c \in Databases, NEW u \in Icons
      PROVE  Has(c, u)' <=> Has(c, u) \/ (c = d /\ u \in ToSet(more))
  BY <1>3, <1>4, <1>6 DEF Has
<1> QED
  BY <1>5, <1>7, <1>8 DEF AllFit

LEMMA Removing ==
  ASSUME IconAssumption, AllFit, NEW d \in Databases, NEW u \in Icons, Has(d, u),
         RemoveCustomIcon(d, u)
  PROVE  /\ AllFit'
         /\ \A c \in Databases, v \in Icons :
              Has(c, v)' <=> Has(c, v) /\ ~(c = d /\ v = u)
<1> DEFINE i == image[d][u]
           im2 == [image[d] EXCEPT ![u] = NoIcon]
           rec2 == IF hashes[d][i] = u THEN [hashes[d] EXCEPT ![i] = NoIcon] ELSE hashes[d]
           gone2 == IF hashes[d][i] = u /\ \E v \in Icons \ {u} : image[d][v] = i
                    THEN lost[d] \cup {i} ELSE lost[d]
<1>1. /\ image' = [image EXCEPT ![d] = im2]
      /\ order' = [order EXCEPT ![d] = Without(order[d], u)]
      /\ hashes' = [hashes EXCEPT ![d] = rec2]
      /\ lost' = [lost EXCEPT ![d] = gone2]
  <2>1. hashes = [hashes EXCEPT ![d] = hashes[d]] /\ lost = [lost EXCEPT ![d] = lost[d]]
    BY DEF AllFit, StoreTypes
  <2> QED
    BY <2>1 DEF RemoveCustomIcon
<1>2. Fits(im2, Without(order[d], u), rec2, gone2)
  <2>1. Fits(image[d], order[d], hashes[d], lost[d]) /\ image[d][u] # NoIcon
    BY DEF AllFit, Has
  <2> QED
    BY <2>1, RemovedFits
<1>3. im2[u] = NoIcon /\ \A v \in Icons \ {u} : im2[v] = image[d][v]
  BY DEF AllFit, StoreTypes
<1> HIDE DEF im2, rec2, gone2
<1>4. StoreTypes'
  BY <1>1, <1>2 DEF AllFit, StoreTypes, Fits
<1>5. /\ image'[d] = im2 /\ order'[d] = Without(order[d], u) /\ hashes'[d] = rec2 /\ lost'[d] = gone2
      /\ \A c \in Databases \ {d} :
           image'[c] = image[c] /\ order'[c] = order[c] /\ hashes'[c] = hashes[c] /\ lost'[c] = lost[c]
  BY <1>1 DEF AllFit, StoreTypes
<1>6. \A c \in Databases : Fits(image'[c], order'[c], hashes'[c], lost'[c])
  BY <1>2, <1>5 DEF AllFit
<1>7. ASSUME NEW c \in Databases, NEW v \in Icons
      PROVE  Has(c, v)' <=> Has(c, v) /\ ~(c = d /\ v = u)
  BY <1>3, <1>5 DEF Has
<1> QED
  BY <1>4, <1>6, <1>7 DEF AllFit

LEMMA Rereading ==
  ASSUME IconAssumption, AllFit, NEW d \in Databases, Relock(d)
  PROVE  /\ AllFit'
         /\ \A c \in Databases, u \in Icons : Has(c, u)' <=> Has(c, u)
<1> DEFINE im2 == [u \in Icons |-> IF image[d][u] # NoIcon THEN AsRead[image[d][u]] ELSE NoIcon]
           rec2 == [i \in ImageSet |-> LastWith(order[d], im2, i, NoIcon)]
<1>1. /\ order' = order
      /\ image' = [image EXCEPT ![d] = im2]
      /\ hashes' = [hashes EXCEPT ![d] = rec2]
      /\ lost' = [lost EXCEPT ![d] = {}]
  BY DEF Relock, ImageSet, ImagesRead, Has
<1>2. Fits(im2, order[d], rec2, {})
  BY RereadFits DEF AllFit
<1>3. \A u \in Icons : im2[u] # NoIcon <=> image[d][u] # NoIcon
  BY ReadAssumption, NoImageIsNone DEF AllFit, StoreTypes, ImageSet
<1> HIDE DEF im2, rec2
<1>4. StoreTypes'
  BY <1>1, <1>2 DEF AllFit, StoreTypes, Fits
<1>5. /\ image'[d] = im2 /\ hashes'[d] = rec2 /\ lost'[d] = {}
      /\ \A c \in Databases \ {d} :
           image'[c] = image[c] /\ hashes'[c] = hashes[c] /\ lost'[c] = lost[c]
  BY <1>1 DEF AllFit, StoreTypes
<1>6. \A c \in Databases : Fits(image'[c], order'[c], hashes'[c], lost'[c])
  BY <1>1, <1>2, <1>5 DEF AllFit
<1>7. \A c \in Databases, u \in Icons : Has(c, u)' <=> Has(c, u)
  BY <1>3, <1>5 DEF Has
<1> QED
  BY <1>4, <1>6, <1>7 DEF AllFit

----------------------------------------------------------------------------
(* The inductive invariant: the stores, and where the objects are that     *)
(* refer to them.                                                          *)

ObjectTypes ==
  /\ parent \in [Objects -> Databases \cup Groups]
  /\ icon \in [Objects -> Icons \cup {NoIcon}]
  /\ past \in [Entries -> SUBSET Icons]
  /\ editor \in [object : Objects \cup {NoIcon}, choice : Icons \cup {NoIcon}]
  /\ dropped \in SUBSET Objects
  /\ strayed \in SUBSET (Entries \X Icons)

GroupsInDatabases == \A g \in Groups : parent[g] \in Databases

EditorIsOpen == editor = Closed \/ editor.object \in Objects

\* The icon chosen in an editor is one of its database.
ChoiceExists ==
  editor # Closed => editor.choice = NoIcon \/ Has(Home(editor.object), editor.choice)

WellPlaced == ObjectTypes /\ GroupsInDatabases /\ EditorIsOpen

IInv == AllFit /\ WellPlaced /\ ChoiceExists /\ ReferencesResolve /\ HistoryResolves

LEMMA HasAHome ==
  ASSUME WellPlaced, NEW o \in Objects
  PROVE  Home(o) \in Databases
<1>1. CASE parent[o] \in Databases
  BY <1>1 DEF Home
<1>2. CASE parent[o] \notin Databases
  <2>1. parent[o] \in Groups
    BY <1>2 DEF WellPlaced, ObjectTypes
  <2> QED
    BY <1>2, <2>1 DEF Home, WellPlaced, GroupsInDatabases
<1> QED
  BY <1>1, <1>2

LEMMA EditorHolds ==
  ASSUME ObjectAssumption, WellPlaced
  PROVE  /\ editor # Closed <=> editor.object \in Objects
         /\ editor = [object |-> editor.object, choice |-> editor.choice]
         /\ editor.choice \in Icons \cup {NoIcon}
         /\ \A d : InEditor(d) => editor.object \in Objects /\ Home(editor.object) = d
         /\ \A o \in Objects : Edited(o) => editor # Closed
<1>1. NoIcon \notin Objects
  BY DEF ObjectAssumption, Objects
<1>2. editor \in [object : Objects \cup {NoIcon}, choice : Icons \cup {NoIcon}]
  BY DEF WellPlaced, ObjectTypes
<1>3. Closed.object = NoIcon
  BY DEF Closed
<1> QED
  BY <1>1, <1>2, <1>3 DEF WellPlaced, EditorIsOpen, InEditor, Edited

\* Objects stay where they are and no icon is lost.
LEMMA NothingLost ==
  ASSUME WellPlaced, ChoiceExists, HistoryResolves,
         WellPlaced', UNCHANGED <<parent, past, strayed>>,
         \A c \in Databases, u \in Icons : Has(c, u) => Has(c, u)',
         editor' # Closed =>
           \/ editor' = editor
           \/ (editor.choice = NoIcon \/ Has(Home(editor.object), editor.choice))'
  PROVE  ChoiceExists' /\ HistoryResolves'
<1>1. \A o : Home(o)' = Home(o)
  BY DEF Home
<1>2. HistoryResolves'
  <2> SUFFICES ASSUME NEW e \in Entries, NEW u \in past[e]
               PROVE  Has(Home(e), u)' \/ <<e, u>> \in strayed
    BY DEF HistoryResolves
  <2>1. Home(e) \in Databases /\ u \in Icons
    BY HasAHome DEF Objects, WellPlaced, ObjectTypes
  <2>2. Has(Home(e), u) \/ <<e, u>> \in strayed
    BY DEF HistoryResolves
  <2> QED
    BY <1>1, <2>1, <2>2 DEF Has
<1>3. ASSUME editor' = editor, editor # Closed
      PROVE  (editor.choice = NoIcon \/ Has(Home(editor.object), editor.choice))'
  <2>1. CASE editor.choice = NoIcon
    BY <1>3, <2>1
  <2>2. CASE editor.choice # NoIcon
    <3>1. Home(editor.object) \in Databases /\ editor.choice \in Icons
      BY <1>3, <2>2, HasAHome DEF WellPlaced, ObjectTypes, EditorIsOpen
    <3>2. Has(Home(editor.object), editor.choice)'
      BY <1>1, <1>3, <2>2, <3>1 DEF ChoiceExists, Has
    <3> QED
      BY <3>2
  <2> QED
    BY <2>1, <2>2
<1>4. ChoiceExists'
  BY <1>3 DEF ChoiceExists
<1> QED
  BY <1>2, <1>4

\* A step that only changes the editor and what was dropped.
LEMMA EditorChanges ==
  ASSUME WellPlaced, UNCHANGED <<parent, icon, past, strayed>>,
         editor' = Closed \/ editor' \in [object : Objects, choice : Icons \cup {NoIcon}],
         dropped' \in SUBSET Objects
  PROVE  WellPlaced'
<1>1. Closed \in [object : Objects \cup {NoIcon}, choice : Icons \cup {NoIcon}]
  BY DEF Closed
<1>2. editor' \in [object : Objects \cup {NoIcon}, choice : Icons \cup {NoIcon}]
  BY <1>1
<1>3. EditorIsOpen'
  BY DEF EditorIsOpen
<1> QED
  BY <1>2, <1>3 DEF WellPlaced, ObjectTypes, GroupsInDatabases

\* References keep resolving while objects stay and no icon is lost.
LEMMA ReferencesStay ==
  ASSUME WellPlaced, ReferencesResolve, UNCHANGED <<parent, icon>>,
         \A c \in Databases, u \in Icons : Has(c, u) => Has(c, u)',
         \A o \in Objects : (Edited(o) \/ o \in dropped) /\ Missing(o) =>
                             (Edited(o) \/ o \in dropped)'
  PROVE  ReferencesResolve'
<1>1. \A o : Home(o)' = Home(o)
  BY DEF Home
<1>2. ASSUME NEW o \in Objects, Missing(o)'
      PROVE  Missing(o)
  <2>1. Home(o) \in Databases /\ icon[o] \in Icons
    BY <1>2, HasAHome DEF Missing, WellPlaced, ObjectTypes
  <2> QED
    BY <1>1, <1>2, <2>1 DEF Missing, Has
<1> QED
  BY <1>2 DEF ReferencesResolve

----------------------------------------------------------------------------
(* The editors *)

LEMMA StartEditKeeps ==
  ASSUME IconAssumption, ObjectAssumption, IInv, NEW o \in Objects, StartEdit(o)
  PROVE  IInv'
<1>1. /\ editor = Closed
      /\ editor' = [object |-> o, choice |-> Selected(Home(o), icon[o])]
      /\ UNCHANGED <<image, order, hashes, lost, parent, icon, past, dropped, strayed>>
  BY DEF StartEdit, store, objects, excuses
<1>2. /\ Selected(Home(o), icon[o]) \in Icons \cup {NoIcon}
      /\ Selected(Home(o), icon[o]) = NoIcon \/ Has(Home(o), Selected(Home(o), icon[o]))
  BY DEF Selected, IInv, WellPlaced, ObjectTypes
<1>3. AllFit'
  BY <1>1 DEF IInv, AllFit, StoreTypes
<1>4. WellPlaced'
  BY <1>1, <1>2, EditorChanges DEF IInv, WellPlaced, ObjectTypes
<1>5. \A c \in Databases, u \in Icons : Has(c, u) => Has(c, u)'
  BY <1>1 DEF Has
<1>6. (editor.choice = NoIcon \/ Has(Home(editor.object), editor.choice))'
  BY <1>1, <1>2 DEF Has, Home
<1>7. ChoiceExists' /\ HistoryResolves'
  BY <1>1, <1>4, <1>5, <1>6, NothingLost DEF IInv
<1>8. ReferencesResolve'
  <2>1. \A p \in Objects : ~Edited(p)
    BY <1>1, EditorHolds DEF IInv
  <2> QED
    BY <1>1, <1>5, <2>1, ReferencesStay DEF IInv
<1> QED
  BY <1>3, <1>4, <1>7, <1>8 DEF IInv

\* Another icon of the database, or none, is chosen.
LEMMA ChoosingKeeps ==
  ASSUME IconAssumption, ObjectAssumption, IInv, NEW d \in Databases, InEditor(d),
         NEW u \in Icons \cup {NoIcon}, u = NoIcon \/ Has(d, u)',
         AllFit', \A c \in Databases, v \in Icons : Has(c, v) => Has(c, v)',
         editor' = [editor EXCEPT !.choice = u],
         UNCHANGED <<objects, excuses>>
  PROVE  IInv'
<1>1. UNCHANGED <<parent, icon, past, dropped, strayed>>
  BY DEF objects, excuses
<1>2. editor.object \in Objects /\ Home(editor.object) = d
  BY EditorHolds DEF IInv
<1>3. editor' = [object |-> editor.object, choice |-> u]
  BY EditorHolds DEF IInv
<1>4. WellPlaced'
  BY <1>1, <1>2, <1>3, EditorChanges DEF IInv, WellPlaced, ObjectTypes
<1>5. (editor.choice = NoIcon \/ Has(Home(editor.object), editor.choice))'
  <2>1. Home(editor.object)' = d
    BY <1>1, <1>2, <1>3 DEF Home
  <2> QED
    BY <1>3, <2>1 DEF Has
<1>6. ChoiceExists' /\ HistoryResolves'
  BY <1>1, <1>4, <1>5, NothingLost DEF IInv
<1>7. ReferencesResolve'
  <2>1. \A p \in Objects : Edited(p)' <=> Edited(p)
    BY <1>3 DEF Edited
  <2> QED
    BY <1>1, <2>1, ReferencesStay DEF IInv
<1> QED
  BY <1>4, <1>6, <1>7 DEF IInv

LEMMA ChooseKeeps ==
  ASSUME IconAssumption, ObjectAssumption, IInv, NEW d \in Databases,
         NEW u \in Icons \cup {NoIcon}, Choose(d, u) \/ RestoreHistory(d, u)
  PROVE  IInv'
<1>1. /\ InEditor(d)
      /\ UNCHANGED <<store, objects, excuses>>
  BY DEF Choose, RestoreHistory
<1>2. AllFit' /\ \A c \in Databases, v \in Icons : Has(c, v)' <=> Has(c, v)
  BY <1>1 DEF IInv, AllFit, StoreTypes, store, Has
<1>3. CASE Choose(d, u)
  <2>1. u = NoIcon \/ Has(d, u)'
    BY <1>2, <1>3 DEF Choose
  <2> QED
    BY <1>1, <1>2, <1>3, <2>1, ChoosingKeeps DEF Choose
<1>4. CASE RestoreHistory(d, u)
  <2>1. PICK w \in Icons \cup {NoIcon} : w = Selected(d, u)
    BY DEF Selected
  <2>2. w = NoIcon \/ Has(d, w)'
    BY <1>2, <2>1 DEF Selected
  <2>3. editor' = [editor EXCEPT !.choice = w]
    BY <1>4, <2>1 DEF RestoreHistory
  <2> QED
    BY <1>1, <1>2, <2>2, <2>3, ChoosingKeeps
<1> QED
  BY <1>3, <1>4

LEMMA OneIcon ==
  ASSUME NEW u \in Icons
  PROVE  <<u>> \in Seq(Icons) /\ Once(<<u>>) /\ ToSet(<<u>>) = {u}
  BY DEF Once, ToSet

LEMMA AddIconKeeps ==
  ASSUME IconAssumption, ObjectAssumption, IInv, NEW d \in Databases, NEW i \in Images,
         AddIcon(d, i)
  PROVE  IInv'
<1>1. InEditor(d) /\ UNCHANGED <<objects, excuses>>
  BY DEF AddIcon
<1>2. i \in ImageSet
  BY DEF ImageSet
<1>3. CASE /\ hashes[d][i] # NoIcon
           /\ editor' = [editor EXCEPT !.choice = hashes[d][i]]
           /\ UNCHANGED store
  <2>1. AllFit' /\ \A c \in Databases, v \in Icons : Has(c, v)' <=> Has(c, v)
    BY <1>3 DEF IInv, AllFit, StoreTypes, store, Has
  <2>2. hashes[d][i] \in Icons
    BY <1>2, <1>3 DEF IInv, AllFit, StoreTypes
  <2>3. Has(d, hashes[d][i])
    <3>1. image[d][hashes[d][i]] = i
      BY <1>2, <1>3 DEF IInv, AllFit, Fits, RecordsHold
    <3> QED
      BY <1>2, <3>1, NoImageIsNone DEF Has
  <2>4. PICK u \in Icons : u = hashes[d][i]
    BY <2>2
  <2>5. Has(d, u)' /\ editor' = [editor EXCEPT !.choice = u]
    BY <1>3, <2>1, <2>3, <2>4
  <2> QED
    BY <1>1, <2>1, <2>5, ChoosingKeeps
<1>4. CASE \E u \in Icons :
             /\ Fresh(u)
             /\ AddCustomIcons(d, <<u>>, [v \in Icons |-> i])
             /\ editor' = [editor EXCEPT !.choice = u]
  <2>1. PICK u \in Icons :
             /\ Fresh(u)
             /\ AddCustomIcons(d, <<u>>, [v \in Icons |-> i])
             /\ editor' = [editor EXCEPT !.choice = u]
    BY <1>4
  <2>2. \A w \in ToSet(<<u>>) : ~Has(d, w) /\ [v \in Icons |-> i][w] \in ImageSet
    BY <1>2, <2>1, OneIcon DEF Fresh
  <2>3. /\ AllFit'
        /\ \A c \in Databases, v \in Icons :
             Has(c, v)' <=> Has(c, v) \/ (c = d /\ v \in ToSet(<<u>>))
    BY <2>1, <2>2, OneIcon, Adding DEF IInv
  <2>4. Has(d, u)'
    BY <2>3, OneIcon
  <2> QED
    BY <1>1, <2>1, <2>3, <2>4, ChoosingKeeps
<1> QED
  BY <1>3, <1>4 DEF AddIcon

LEMMA RemoveIconKeeps ==
  ASSUME IconAssumption, ObjectAssumption, IInv, NEW d \in Databases, RemoveIcon(d)
  PROVE  IInv'
<1> DEFINE users(u) == {o \in Objects : Home(o) = d /\ icon[o] = u}
<1>1. PICK u \in Icons : u = editor.choice
  BY EditorHolds DEF RemoveIcon, IInv
<1>2. /\ InEditor(d) /\ RemoveCustomIcon(d, u)
      /\ icon' = [o \in Objects |->
                     IF o \in users(u) \ {editor.object} THEN NoIcon ELSE icon[o]]
      /\ dropped' = dropped \ users(u)
      /\ editor' = [editor EXCEPT !.choice = NoIcon]
      /\ parent' = parent
  BY <1>1 DEF RemoveIcon
<1>3. PICK updated \in SUBSET {e \in users(editor.choice) \cap Entries :
                                users(editor.choice) \ {editor.object} # {}} :
         /\ past' = [e \in Entries |->
                       IF e \in updated THEN past[e] \cup {editor.choice}
                       ELSE IF Home(e) = d THEN past[e] \ {editor.choice} ELSE past[e]]
         /\ strayed' = strayed \cup {<<e, editor.choice>> : e \in updated}
  BY DEF RemoveIcon
<1>4. /\ updated \in SUBSET Entries
       /\ past' = [e \in Entries |->
                     IF e \in updated THEN past[e] \cup {u}
                     ELSE IF Home(e) = d THEN past[e] \ {u} ELSE past[e]]
       /\ strayed' = strayed \cup {<<e, u>> : e \in updated}
  BY <1>1, <1>3
<1>5. editor.object \in Objects /\ Home(editor.object) = d /\ u # NoIcon
  BY <1>1, <1>2, EditorHolds, NoImageIsNone DEF IInv
<1>6. editor' = [object |-> editor.object, choice |-> NoIcon]
  BY <1>2, EditorHolds DEF IInv
<1>7. Has(d, u)
  BY <1>1, <1>2, <1>5 DEF IInv, ChoiceExists, InEditor
<1>8. /\ AllFit'
      /\ \A c \in Databases, v \in Icons : Has(c, v)' <=> Has(c, v) /\ ~(c = d /\ v = u)
  BY <1>2, <1>7, Removing DEF IInv
<1>9. \A o : Home(o)' = Home(o)
  BY <1>2 DEF Home
<1>10. WellPlaced'
  <2>1. icon' \in [Objects -> Icons \cup {NoIcon}]
    BY <1>2 DEF IInv, WellPlaced, ObjectTypes
  <2>2. past' \in [Entries -> SUBSET Icons] /\ strayed' \in SUBSET (Entries \X Icons)
    BY <1>4 DEF IInv, WellPlaced, ObjectTypes
  <2>3. editor' \in [object : Objects \cup {NoIcon}, choice : Icons \cup {NoIcon}]
    BY <1>5, <1>6
  <2>4. dropped' \in SUBSET Objects
    BY <1>2 DEF IInv, WellPlaced, ObjectTypes
  <2>5. EditorIsOpen'
    BY <1>5, <1>6 DEF EditorIsOpen
  <2> QED
    BY <1>2, <2>1, <2>2, <2>3, <2>4, <2>5 DEF IInv, WellPlaced, ObjectTypes, GroupsInDatabases
<1>11. ChoiceExists'
  BY <1>6 DEF ChoiceExists
<1>12. ASSUME NEW o \in Objects, Missing(o)'
       PROVE  (Edited(o) \/ o \in dropped)'
  <2>1. icon'[o] = icon[o] /\ icon[o] # NoIcon /\ o \notin users(u) \ {editor.object}
    BY <1>2, <1>12 DEF Missing
  <2>2. Home(o) \in Databases /\ icon[o] \in Icons
    BY <2>1, HasAHome DEF IInv, WellPlaced, ObjectTypes
  <2>3. Edited(o)' <=> Edited(o)
    BY <1>6 DEF Edited
  <2>4. CASE Has(Home(o), icon[o])
    <3>1. PICK c \in Databases, v \in Icons : c = Home(o) /\ v = icon[o]
      BY <2>2
    <3>2. ~Has(c, v)'
      BY <1>9, <1>12, <2>1, <3>1 DEF Missing, Has
    <3>3. Home(o) = d /\ icon[o] = u
      BY <1>8, <2>4, <3>1, <3>2
    <3> QED
      BY <2>1, <2>3, <3>3 DEF Edited
  <2>5. CASE ~Has(Home(o), icon[o])
    <3>1. Edited(o) \/ o \in dropped
      BY <2>1, <2>5 DEF IInv, ReferencesResolve, Missing
    <3>2. o \notin users(u)
      BY <1>7, <2>5
    <3> QED
      BY <1>2, <2>3, <3>1, <3>2
  <2> QED
    BY <2>4, <2>5
<1>13. ASSUME NEW e \in Entries, NEW v \in past'[e]
       PROVE  (Has(Home(e), v) \/ <<e, v>> \in strayed)'
  <2> SUFFICES ASSUME <<e, v>> \notin strayed'
               PROVE  Has(Home(e), v)'
    OBVIOUS
  <2>1. v \in past[e] /\ ~(Home(e) = d /\ v = u)
    BY <1>13, <1>4
  <2>2. Home(e) \in Databases /\ v \in Icons
    BY <2>1, HasAHome DEF IInv, WellPlaced, ObjectTypes, Objects
  <2>3. Has(Home(e), v) \/ <<e, v>> \in strayed
    BY <2>1 DEF IInv, HistoryResolves
  <2>4. Has(Home(e), v)' <=> Has(Home(e), v)
    BY <1>8, <1>9, <2>1, <2>2 DEF Has
  <2> QED
    BY <1>4, <2>3, <2>4
<1> QED
  BY <1>8, <1>10, <1>11, <1>12, <1>13 DEF IInv, ReferencesResolve, HistoryResolves

\* The object in the editor gets the chosen icon.
LEMMA CommitKeeps ==
  ASSUME IconAssumption, ObjectAssumption, IInv, NEW d \in Databases, InEditor(d),
         NEW o \in Objects, o = editor.object, NEW old \in Icons \cup {NoIcon},
         Commit(d, o, old),
         editor' \in {editor, Closed},
         UNCHANGED <<store, parent>>
  PROVE  IInv'
<1>1. Home(o) = d /\ editor.choice \in Icons \cup {NoIcon} /\ editor # Closed
      /\ \A p \in Objects : Edited(p) => p = o
  BY EditorHolds DEF IInv, Edited
<1>2. editor.choice = NoIcon \/ Has(d, editor.choice)
  BY <1>1 DEF IInv, ChoiceExists
<1>3. /\ icon' = [icon EXCEPT ![o] = editor.choice]
      /\ dropped' = dropped \ {o}
      /\ parent' = parent
      /\ UNCHANGED <<image, order, hashes, lost>>
  BY DEF Commit, store
<1>4. /\ past' \in [Entries -> SUBSET Icons] /\ strayed' \in SUBSET (Entries \X Icons)
      /\ strayed \subseteq strayed'
      /\ \A e \in Entries : \A v \in past'[e] :
           \/ v \in past[e]
           \/ e = o /\ (Has(d, v) \/ <<e, v>> \in strayed')
  <2>1. past \in [Entries -> SUBSET Icons] /\ strayed \in SUBSET (Entries \X Icons)
    BY DEF IInv, WellPlaced, ObjectTypes
  <2>2. CASE o \in Entries /\ old \notin {NoIcon, editor.choice}
    <3>1. /\ past' = [past EXCEPT ![o] = past[o] \cup {old}] /\ old \in Icons
          /\ strayed' = IF Has(d, old) THEN strayed ELSE strayed \cup {<<o, old>>}
      BY <2>2 DEF Commit
    <3> QED
      BY <2>1, <2>2, <3>1
  <2>3. CASE ~(o \in Entries /\ old \notin {NoIcon, editor.choice})
    <3>1. past' = past /\ strayed' = strayed
      BY <2>3 DEF Commit
    <3> QED
      BY <2>1, <3>1
  <2> QED
    BY <2>2, <2>3
<1>5. AllFit'
  BY <1>3 DEF IInv, AllFit, StoreTypes
<1>6. (\A p : Home(p)' = Home(p)) /\ (\A c, v : Has(c, v)' = Has(c, v))
  BY <1>3 DEF Home, Has
<1>7. icon' \in [Objects -> Icons \cup {NoIcon}] /\ icon'[o] = editor.choice
      /\ \A p \in Objects \ {o} : icon'[p] = icon[p]
  BY <1>1, <1>3 DEF IInv, WellPlaced, ObjectTypes
<1>8. editor' \in [object : Objects \cup {NoIcon}, choice : Icons \cup {NoIcon}] /\ EditorIsOpen'
  BY DEF IInv, WellPlaced, ObjectTypes, EditorIsOpen, Closed
<1>9. WellPlaced'
  BY <1>3, <1>4, <1>7, <1>8 DEF IInv, WellPlaced, ObjectTypes, GroupsInDatabases
<1>10. ChoiceExists'
  BY <1>6 DEF IInv, ChoiceExists, Has, Home
<1>11. ASSUME NEW p \in Objects, Missing(p)'
       PROVE  (Edited(p) \/ p \in dropped)'
  <2>1. p # o
    BY <1>1, <1>2, <1>6, <1>7, <1>11 DEF Missing, Has
  <2>2. Missing(p)
    BY <1>6, <1>7, <1>11, <2>1 DEF Missing, Has
  <2> QED
    BY <1>1, <1>3, <2>1, <2>2 DEF IInv, ReferencesResolve
<1>12. ASSUME NEW e \in Entries, NEW v \in past'[e]
       PROVE  (Has(Home(e), v) \/ <<e, v>> \in strayed)'
  <2>1. Has(Home(e), v) \/ <<e, v>> \in strayed'
    BY <1>1, <1>4 DEF IInv, HistoryResolves
  <2> QED
    BY <1>6, <2>1 DEF Has
<1> QED
  BY <1>5, <1>9, <1>10, <1>11, <1>12 DEF IInv, ReferencesResolve, HistoryResolves

LEMMA ApplyEditKeeps ==
  ASSUME IconAssumption, ObjectAssumption, IInv, NEW d \in Databases, ApplyEdit(d)
  PROVE  IInv'
<1>1. InEditor(d) /\ editor.object \in Objects
  BY EditorHolds DEF ApplyEdit, IInv
<1>2. PICK o \in Objects : o = editor.object
  BY <1>1
<1>3. PICK old \in Icons \cup {NoIcon} : old = icon[o]
  BY DEF IInv, WellPlaced, ObjectTypes
<1> QED
  BY <1>1, <1>2, <1>3, CommitKeeps DEF ApplyEdit

LEMMA CancelEditKeeps ==
  ASSUME IconAssumption, ObjectAssumption, IInv, NEW d \in Databases, CancelEdit(d)
  PROVE  IInv'
<1>1. InEditor(d) /\ editor.object \in Objects
  BY EditorHolds DEF CancelEdit, IInv
<1>2. PICK o \in Objects : o = editor.object
  BY <1>1
<1>3. PICK old \in Icons \cup {NoIcon} : old = IF Missing(o) THEN NoIcon ELSE icon[o]
  BY DEF IInv, WellPlaced, ObjectTypes
<1>4. UNCHANGED <<store, parent>>
  BY DEF CancelEdit
<1>5. CASE Commit(d, o, old) /\ editor' = Closed
  BY <1>1, <1>2, <1>4, <1>5, CommitKeeps
<1>6. CASE /\ icon' = [icon EXCEPT ![o] = old]
           /\ dropped' = dropped \ {o}
           /\ editor' \in {editor, Closed}
           /\ past' = past /\ strayed' = strayed
  <2>1. UNCHANGED <<image, order, hashes, lost>>
    BY <1>4 DEF store
  <2>2. AllFit'
    BY <2>1 DEF IInv, AllFit, StoreTypes
  <2>3. (\A p : Home(p)' = Home(p)) /\ (\A c, v : Has(c, v)' = Has(c, v))
    BY <1>4, <2>1 DEF Home, Has
  <2>4. icon' \in [Objects -> Icons \cup {NoIcon}] /\ icon'[o] = old
        /\ \A p \in Objects \ {o} : icon'[p] = icon[p]
    BY <1>6 DEF IInv, WellPlaced, ObjectTypes
  <2>5. editor' \in [object : Objects \cup {NoIcon}, choice : Icons \cup {NoIcon}] /\ EditorIsOpen'
    BY <1>6 DEF IInv, WellPlaced, ObjectTypes, EditorIsOpen, Closed
  <2>6. WellPlaced'
    BY <1>4, <1>6, <2>4, <2>5 DEF IInv, WellPlaced, ObjectTypes, GroupsInDatabases
  <2>7. ChoiceExists'
    BY <1>6, <2>3 DEF IInv, ChoiceExists, Has, Home
  <2>8. ASSUME NEW p \in Objects, Missing(p)'
        PROVE  (Edited(p) \/ p \in dropped)'
    <3>1. p # o
      BY <1>3, <2>3, <2>4, <2>8 DEF Missing, Has
    <3>2. Missing(p)
      BY <2>3, <2>4, <2>8, <3>1 DEF Missing, Has
    <3>3. ~Edited(p)
      BY <1>2, <3>1 DEF Edited
    <3> QED
      BY <1>6, <3>1, <3>2, <3>3 DEF IInv, ReferencesResolve
  <2>9. HistoryResolves'
    BY <1>6, <2>3 DEF IInv, HistoryResolves, Has
  <2> QED
    BY <2>2, <2>6, <2>7, <2>8, <2>9 DEF IInv, ReferencesResolve
<1> QED
  BY <1>2, <1>3, <1>5, <1>6 DEF CancelEdit

\* An entry's version becomes a history item outside the editor.
LEMMA UpdateEntryKeeps ==
  ASSUME IconAssumption, IInv, NEW e \in Entries, UpdateEntry(e)
  PROVE  IInv'
<1>1. /\ past' = [past EXCEPT ![e] = past[e] \cup ({icon[e]} \ {NoIcon})]
      /\ strayed' = IF Missing(e) THEN strayed \cup {<<e, icon[e]>>} ELSE strayed
      /\ UNCHANGED <<image, order, hashes, lost>>
      /\ UNCHANGED <<parent, icon, editor, dropped>>
  BY DEF UpdateEntry, store
<1>2. past \in [Entries -> SUBSET Icons] /\ strayed \in SUBSET (Entries \X Icons)
      /\ icon[e] \in Icons \cup {NoIcon}
  BY DEF IInv, WellPlaced, ObjectTypes, Objects
<1>3. past' \in [Entries -> SUBSET Icons] /\ strayed' \in SUBSET (Entries \X Icons)
  BY <1>1, <1>2 DEF Missing
<1>4. WellPlaced'
  BY <1>1, <1>3 DEF IInv, WellPlaced, ObjectTypes, GroupsInDatabases, EditorIsOpen
<1>5. (\A o : Home(o)' = Home(o)) /\ (\A d, v : Has(d, v)' = Has(d, v))
  BY <1>1 DEF Home, Has
<1>6. AllFit' /\ ChoiceExists' /\ ReferencesResolve'
  BY <1>1, <1>5 DEF IInv, AllFit, StoreTypes, ChoiceExists, ReferencesResolve, Missing, Edited, Has, Home
<1>7. ASSUME NEW f \in Entries, NEW u \in past'[f]
      PROVE  Has(Home(f), u) \/ <<f, u>> \in strayed'
  <2>1. CASE u \in past[f]
    BY <1>1, <2>1 DEF IInv, HistoryResolves
  <2>2. CASE u \notin past[f]
    <3>1. f = e /\ u = icon[e] /\ u # NoIcon
      BY <1>1, <1>2, <2>2
    <3> QED
      BY <1>1, <3>1 DEF Missing
  <2> QED
    BY <2>1, <2>2
<1>8. HistoryResolves'
  BY <1>5, <1>7 DEF HistoryResolves, Has
<1> QED
  BY <1>4, <1>6, <1>8 DEF IInv

----------------------------------------------------------------------------
(* Between databases, and through the file *)

\* Objects that are not edited go to another database, and no icon is lost.
LEMMA MovingKeeps ==
  ASSUME ObjectAssumption, IInv, AllFit', WellPlaced', UNCHANGED <<icon, past, editor>>,
         \A c \in Databases, u \in Icons : Has(c, u) => Has(c, u)',
         NEW Moved \in SUBSET Objects, editor.object \notin Moved,
         \A o \in Objects \ Moved : Home(o)' = Home(o) /\ (o \in dropped => o \in dropped'),
         \A o \in Moved : Missing(o)' => o \in dropped',
         strayed \subseteq strayed',
         \A e \in Entries \cap Moved : \A u \in past[e] :
           Has(Home(e), u)' \/ <<e, u>> \in strayed'
  PROVE  IInv'
<1>1. ASSUME NEW o \in Objects \ Moved, NEW u \in Icons, Has(Home(o), u)
      PROVE  Has(Home(o), u)'
  <2>1. PICK c \in Databases : c = Home(o)
    BY HasAHome DEF IInv
  <2>2. Has(c, u)'
    BY <1>1, <2>1
  <2> QED
    BY <2>1, <2>2 DEF Has
<1>2. ChoiceExists'
  <2>1. CASE editor = Closed \/ editor.choice = NoIcon
    BY <2>1 DEF ChoiceExists
  <2>2. CASE editor # Closed /\ editor.choice # NoIcon
    <3>1. PICK o \in Objects \ Moved, u \in Icons : o = editor.object /\ u = editor.choice
      BY <2>2, EditorHolds DEF IInv
    <3>2. Has(Home(o), u)'
      BY <1>1, <2>2, <3>1 DEF IInv, ChoiceExists
    <3> QED
      BY <3>1, <3>2 DEF ChoiceExists, Has, Home
  <2> QED
    BY <2>1, <2>2
<1>3. ASSUME NEW o \in Objects, Missing(o)'
      PROVE  (Edited(o) \/ o \in dropped)'
  <2>1. CASE o \in Moved
    BY <1>3, <2>1
  <2>2. CASE o \notin Moved
    <3>1. PICK u \in Icons : u = icon[o]
      BY <1>3 DEF Missing, IInv, WellPlaced, ObjectTypes
    <3>2. ~Has(Home(o), u)' /\ u # NoIcon
      BY <1>3, <3>1 DEF Missing, Has
    <3>3. Missing(o)
      BY <1>1, <2>2, <3>1, <3>2 DEF Missing
    <3> QED
      BY <2>2, <3>3 DEF IInv, ReferencesResolve, Edited
  <2> QED
    BY <2>1, <2>2
<1>4. ASSUME NEW e \in Entries, NEW u \in past[e]
      PROVE  Has(Home(e), u)' \/ <<e, u>> \in strayed'
  <2>1. u \in Icons /\ e \in Objects
    BY DEF IInv, WellPlaced, ObjectTypes, Objects
  <2>2. Has(Home(e), u) \/ <<e, u>> \in strayed
    BY DEF IInv, HistoryResolves
  <2> QED
    BY <1>1, <2>1, <2>2
<1>5. HistoryResolves'
  BY <1>4 DEF HistoryResolves
<1> QED
  BY <1>2, <1>3, <1>5 DEF IInv, ReferencesResolve

LEMMA MoveEntryKeeps ==
  ASSUME IconAssumption, ObjectAssumption, IInv, NEW e \in Entries,
         NEW to \in Databases \cup Groups, MoveEntry(e, to)
  PROVE  IInv'
<1> DEFINE dest == IF to \in Databases THEN to ELSE parent[to]
<1>1. PICK from \in Databases, d \in Databases : from = Home(e) /\ d = dest
  <2>1. dest \in Databases
    BY DEF IInv, WellPlaced, GroupsInDatabases
  <2> QED
    BY <2>1, HasAHome DEF IInv, Objects
<1>2. /\ ~InEditor(from) /\ ~InEditor(d)
      /\ IF d # from /\ icon[e] # NoIcon /\ ~Has(d, icon[e])
         THEN AddCustomIcons(d, <<icon[e]>>,
                [u \in Icons |-> IF Has(from, u) THEN image[from][u] ELSE Blank])
         ELSE UNCHANGED store
      /\ strayed' = IF d = from THEN strayed
                    ELSE strayed \cup {<<e, u>> : u \in {v \in past[e] : ~Has(d, v)}}
      /\ dropped' = IF d = from THEN dropped ELSE dropped \ {e}
      /\ parent' = [parent EXCEPT ![e] = to]
      /\ UNCHANGED <<icon, past, editor>>
  BY <1>1 DEF MoveEntry
<1>3. e \in Objects /\ e \notin Groups /\ \A g \in Groups : g \notin Databases
  BY DEF Objects, ObjectAssumption
<1>4. parent' \in [Objects -> Databases \cup Groups] /\ parent'[e] = to
      /\ \A o \in Objects \ {e} : parent'[o] = parent[o]
  BY <1>2, <1>3 DEF IInv, WellPlaced, ObjectTypes
<1>5. \A g \in Groups : parent'[g] = parent[g] /\ parent[g] \in Databases
  BY <1>3, <1>4 DEF IInv, WellPlaced, GroupsInDatabases, Objects
<1>6. Home(e)' = d
  BY <1>1, <1>3, <1>4, <1>5 DEF Home
<1>7. \A o \in Objects \ {e} : Home(o)' = Home(o)
  <2> SUFFICES ASSUME NEW o \in Objects \ {e} PROVE Home(o)' = Home(o)
    OBVIOUS
  <2>1. parent[o] \in Databases \/ parent[o] \in Groups
    BY DEF IInv, WellPlaced, ObjectTypes
  <2> QED
    BY <1>4, <1>5, <2>1 DEF Home
<1>8. strayed' \in SUBSET (Entries \X Icons) /\ strayed \subseteq strayed'
  BY <1>2 DEF IInv, WellPlaced, ObjectTypes
<1>9. WellPlaced'
  BY <1>2, <1>4, <1>5, <1>8
  DEF IInv, WellPlaced, ObjectTypes, GroupsInDatabases, EditorIsOpen
<1>10. /\ AllFit'
       /\ \A c \in Databases, v \in Icons : Has(c, v) => Has(c, v)'
       /\ d # from /\ icon[e] # NoIcon => Has(d, icon[e])'
  <2>1. CASE d # from /\ icon[e] # NoIcon /\ ~Has(d, icon[e])
    <3>1. PICK u \in Icons : u = icon[e]
      BY <1>3, <2>1 DEF IInv, WellPlaced, ObjectTypes
    <3> DEFINE of == [w \in Icons |-> IF Has(from, w) THEN image[from][w] ELSE Blank]
    <3>2. AddCustomIcons(d, <<u>>, of)
      BY <1>2, <2>1, <3>1
    <3>3. \A w \in ToSet(<<u>>) : ~Has(d, w) /\ of[w] \in ImageSet
      <4>1. of[u] \in ImageSet
        BY DEF IInv, AllFit, StoreTypes, Has, ImageSet
      <4> QED
        BY <2>1, <3>1, <4>1, OneIcon
    <3> HIDE DEF of
    <3>4. AllFit' /\ \A c \in Databases, v \in Icons :
            Has(c, v)' <=> Has(c, v) \/ (c = d /\ v \in ToSet(<<u>>))
      BY <3>2, <3>3, OneIcon, Adding DEF IInv
    <3>5. Has(d, u)'
      BY <3>4, OneIcon
    <3> QED
      BY <1>2, <3>1, <3>4, <3>5 DEF Has
  <2>2. CASE ~(d # from /\ icon[e] # NoIcon /\ ~Has(d, icon[e]))
    <3>1. UNCHANGED <<image, order, hashes, lost>>
      BY <1>2, <2>2 DEF store
    <3> QED
      BY <1>2, <2>2, <3>1 DEF IInv, AllFit, StoreTypes, Has
  <2> QED
    BY <2>1, <2>2
<1>11. CASE d = from
  <2> DEFINE Moved == {}
  <2>1. \A o \in Objects : Home(o)' = Home(o) /\ (o \in dropped => o \in dropped')
    BY <1>1, <1>2, <1>6, <1>7, <1>11
  <2> QED
    BY <1>2, <1>8, <1>9, <1>10, <2>1, MovingKeeps
<1>12. CASE d # from
  <2> DEFINE Moved == {e}
  <2>1. editor.object # e
    BY <1>1, <1>2, <1>3, EditorHolds DEF IInv, InEditor
  <2>2. ~Missing(e)'
    BY <1>2, <1>6, <1>10, <1>12 DEF Missing, Has
  <2>3. \A u \in past[e] : Has(Home(e), u)' \/ <<e, u>> \in strayed'
    <3> SUFFICES ASSUME NEW u \in past[e] PROVE Has(Home(e), u)' \/ <<e, u>> \in strayed'
      OBVIOUS
    <3>1. u \in Icons
      BY DEF IInv, WellPlaced, ObjectTypes
    <3>2. CASE Has(d, u)
      <4>1. Has(d, u)'
        BY <1>10, <3>1, <3>2
      <4> QED
        BY <1>6, <4>1 DEF Has
    <3>3. CASE ~Has(d, u)
      BY <1>2, <1>12, <3>3
    <3> QED
      BY <3>2, <3>3
  <2>4. Moved \in SUBSET Objects
    BY <1>3
  <2> QED
    BY <1>2, <1>7, <1>8, <1>9, <1>10, <1>12, <2>1, <2>2, <2>3, <2>4, MovingKeeps
<1> QED
  BY <1>11, <1>12

\* The icons of another database are copied.
LEMMA CopyingIcons ==
  ASSUME IconAssumption, AllFit, NEW d \in Databases, NEW from \in Databases,
         NEW S \in SUBSET Lacking(d, from), NEW of,
         \A u \in S : of[u] \in ImageSet,
         \E list \in SetToSeqs(S) : AddCustomIcons(d, list, of)
  PROVE  /\ AllFit'
         /\ \A c \in Databases, u \in Icons :
              Has(c, u)' <=> Has(c, u) \/ (c = d /\ u \in S)
<1>1. S \in SUBSET Icons /\ \A u \in S : Has(from, u) /\ ~Has(d, u)
  BY DEF Lacking
<1>2. PICK list \in SetToSeqs(S) : AddCustomIcons(d, list, of)
  OBVIOUS
<1>3. list \in Seq(Icons) /\ Once(list) /\ ToSet(list) = S
  BY <1>1, AnyOrder DEF Once
<1>4. \A u \in ToSet(list) : ~Has(d, u) /\ of[u] \in ImageSet
  BY <1>1, <1>3
<1> QED
  BY <1>2, <1>3, <1>4, Adding

\* The images of a database, and what a file gives of them.
LEMMA ImagesThere ==
  ASSUME IconAssumption, AllFit, NEW from \in Databases, NEW u \in Icons, Has(from, u)
  PROVE  image[from][u] \in ImageSet /\ ImagesRead(from)[u] \in ImageSet
BY ReadAssumption DEF Has, AllFit, StoreTypes, ImageSet, ImagesRead

LEMMA MoveGroupKeeps ==
  ASSUME IconAssumption, ObjectAssumption, IInv, NEW g \in Groups, NEW to \in Databases,
         MoveGroup(g, to)
  PROVE  IInv'
<1> DEFINE Inside == {e \in Entries : parent[e] = g}
           Moved == {g} \cup Inside
<1>1. PICK from \in Databases : from = parent[g]
  BY DEF IInv, WellPlaced, GroupsInDatabases
<1>2. /\ from # to /\ ~InEditor(from) /\ ~InEditor(to)
      /\ parent' = [parent EXCEPT ![g] = to]
      /\ UNCHANGED <<icon, past, editor, dropped, strayed>>
  BY <1>1 DEF MoveGroup, excuses
<1>3. PICK S \in SUBSET Lacking(to, from) :
        /\ S = IconsIn(g) \cap Lacking(to, from)
        /\ \E list \in SetToSeqs(S) : AddCustomIcons(to, list, image[from])
  BY <1>1 DEF MoveGroup
<1>4. AllFit' /\ \A c \in Databases, u \in Icons : Has(c, u)' <=> Has(c, u) \/ (c = to /\ u \in S)
  <2>1. PICK of : of = image[from]
    OBVIOUS
  <2>2. /\ \A u \in S : of[u] \in ImageSet
        /\ \E list \in SetToSeqs(S) : AddCustomIcons(to, list, of)
    BY <1>3, <2>1, ImagesThere DEF IInv, Lacking
  <2> QED
    BY <2>2, CopyingIcons DEF IInv
<1>5. g \in Objects /\ g \notin Databases /\ Inside \subseteq Objects /\ Groups \subseteq Objects
      /\ Groups \cap Databases = {} /\ Groups \cap Entries = {} /\ g \notin Entries
  BY DEF Objects, ObjectAssumption
<1>6. parent' \in [Objects -> Databases \cup Groups] /\ parent'[g] = to
      /\ \A o \in Objects \ {g} : parent'[o] = parent[o]
  BY <1>2, <1>5 DEF IInv, WellPlaced, ObjectTypes
<1>7. \A o \in Objects : parent[o] \in Databases \/ parent[o] \in Groups
  BY DEF IInv, WellPlaced, ObjectTypes
<1>8. \A h \in Groups : parent[h] \in Databases
  BY DEF IInv, WellPlaced, GroupsInDatabases
<1>9. \A o \in Moved : Home(o) = from /\ Home(o)' = to
  BY <1>1, <1>5, <1>6 DEF Home
<1>10. \A o \in Objects \ Moved : Home(o)' = Home(o)
  <2> SUFFICES ASSUME NEW o \in Objects \ Moved PROVE Home(o)' = Home(o)
    OBVIOUS
  <2>1. CASE parent[o] \in Databases
    BY <1>6, <2>1 DEF Home
  <2>2. CASE parent[o] \in Groups
    <3>1. o \in Entries
      BY <1>5, <1>8, <2>2 DEF Objects
    <3>2. parent[o] # g
      BY <3>1
    <3> QED
      BY <1>5, <1>6, <2>2, <3>2 DEF Home
  <2> QED
    BY <1>7, <2>1, <2>2
<1>11. WellPlaced'
  BY <1>2, <1>5, <1>6 DEF IInv, WellPlaced, ObjectTypes, GroupsInDatabases, EditorIsOpen
<1>12. \A u \in IconsIn(g) \cap Icons : Has(from, u) => Has(to, u)'
  BY <1>3, <1>4 DEF Lacking
<1>13. editor.object \notin Moved
  <2>1. \A o \in Objects : o = editor.object => Home(o) # from
    BY <1>2, EditorHolds DEF IInv, InEditor
  <2> QED
    BY <1>5, <1>9, <2>1
<1>14. \A o \in Moved : Missing(o)' => o \in dropped'
  <2> SUFFICES ASSUME NEW o \in Moved, Missing(o)' PROVE o \in dropped'
    OBVIOUS
  <2>1. PICK u \in Icons : u = icon[o] /\ u # NoIcon
    BY <1>2, <1>5 DEF Missing, IInv, WellPlaced, ObjectTypes
  <2>2. u \in IconsIn(g) /\ ~Has(to, u)'
    BY <1>2, <1>9, <2>1 DEF IconsIn, Missing, Has
  <2>3. Missing(o)
    BY <1>9, <1>12, <2>1, <2>2 DEF Missing
  <2> QED
    BY <1>2, <1>5, <1>13, <2>3 DEF IInv, ReferencesResolve, Edited
<1>15. \A e \in Entries \cap Moved : \A u \in past[e] :
         Has(Home(e), u)' \/ <<e, u>> \in strayed'
  <2> SUFFICES ASSUME NEW e \in Entries \cap Moved, NEW u \in past[e]
               PROVE  Has(Home(e), u)' \/ <<e, u>> \in strayed'
    OBVIOUS
  <2>1. u \in Icons /\ u \in IconsIn(g) /\ Home(e) = from
    BY <1>5, <1>9 DEF IconsIn, IInv, WellPlaced, ObjectTypes
  <2>2. Has(from, u) \/ <<e, u>> \in strayed
    BY <2>1 DEF IInv, HistoryResolves
  <2>3. Has(from, u) => Has(Home(e), u)'
    BY <1>9, <1>12, <2>1 DEF Has
  <2> QED
    BY <1>2, <2>2, <2>3
<1>16. Moved \in SUBSET Objects
  BY <1>5
<1>17. \A c \in Databases, u \in Icons : Has(c, u) => Has(c, u)'
  BY <1>4
<1> HIDE DEF Moved
<1> QED
  BY <1>2, <1>4, <1>10, <1>11, <1>13, <1>14, <1>15, <1>16, <1>17, MovingKeeps

LEMMA MergeIntoKeeps ==
  ASSUME IconAssumption, ObjectAssumption, IInv, NEW d \in Databases, NEW from \in Databases,
         MergeInto(d, from)
  PROVE  IInv'
<1>1. /\ ~InEditor(d) /\ UNCHANGED <<parent, editor>>
      /\ \E list \in SetToSeqs(Lacking(d, from)) : AddCustomIcons(d, list, ImagesRead(from))
  BY DEF MergeInto
<1>2. /\ AllFit'
      /\ \A c \in Databases, u \in Icons :
           Has(c, u)' <=> Has(c, u) \/ (c = d /\ Has(from, u))
  <2>1. /\ AllFit'
        /\ \A c \in Databases, u \in Icons :
             Has(c, u)' <=> Has(c, u) \/ (c = d /\ u \in Lacking(d, from))
    <3>1. PICK of : of = ImagesRead(from)
      OBVIOUS
    <3>2. PICK S \in SUBSET Lacking(d, from) : S = Lacking(d, from)
      OBVIOUS
    <3>3. /\ \A u \in S : of[u] \in ImageSet
          /\ \E list \in SetToSeqs(S) : AddCustomIcons(d, list, of)
      BY <1>1, <3>1, <3>2, ImagesThere DEF IInv, Lacking
    <3> QED
      BY <3>2, <3>3, CopyingIcons DEF IInv
  <2> QED
    BY <2>1 DEF Lacking
<1>3. \A o : Home(o)' = Home(o)
  BY <1>1 DEF Home
<1>4. \A c \in Databases, u \in Icons : Has(c, u) => Has(c, u)'
  BY <1>2
<1>5. CASE UNCHANGED <<icon, past, dropped, strayed>>
  <2>1. WellPlaced'
    BY <1>1, <1>5 DEF IInv, WellPlaced, ObjectTypes, GroupsInDatabases, EditorIsOpen
  <2>2. ChoiceExists' /\ HistoryResolves'
    BY <1>1, <1>4, <1>5, <2>1, NothingLost DEF IInv
  <2>3. ReferencesResolve'
    BY <1>1, <1>4, <1>5, ReferencesStay DEF IInv, Edited
  <2> QED
    BY <1>2, <2>1, <2>2, <2>3 DEF IInv
<1>6. CASE ~UNCHANGED <<icon, past, dropped, strayed>>
  <2>1. PICK o \in Objects, v \in Objects :
          /\ Home(o) = d /\ Home(v) = from
          /\ o \in Entries <=> v \in Entries
          /\ icon' = [icon EXCEPT ![o] = icon[v]]
          /\ past' = IF o \in Entries
                     THEN [past EXCEPT ![o] = past[o] \cup past[v] \cup ({icon[o]} \ {NoIcon})]
                     ELSE past
          /\ dropped' = IF Missing(v) /\ ~Has(d, icon[v])
                        THEN dropped \cup {o} ELSE dropped \ {o}
          /\ strayed' =
               IF o \in Entries
               THEN strayed \cup {<<o, u>> : u \in {w \in past[v] : ~Has(from, w)}}
                            \cup (IF Missing(o) THEN {<<o, icon[o]>>} ELSE {})
               ELSE strayed
    BY <1>6 DEF MergeInto
  <2>2. icon \in [Objects -> Icons \cup {NoIcon}] /\ past \in [Entries -> SUBSET Icons]
        /\ strayed \in SUBSET (Entries \X Icons) /\ dropped \in SUBSET Objects
    BY DEF IInv, WellPlaced, ObjectTypes
  <2>3. icon' \in [Objects -> Icons \cup {NoIcon}] /\ icon'[o] = icon[v]
        /\ \A p \in Objects \ {o} : icon'[p] = icon[p]
    BY <2>1, <2>2
  <2>4. dropped' \in SUBSET Objects /\ \A p \in Objects \ {o} : p \in dropped => p \in dropped'
    BY <2>1, <2>2
  <2>5. past' \in [Entries -> SUBSET Icons] /\ strayed' \in SUBSET (Entries \X Icons)
    <3>1. CASE o \in Entries
      <4>1. past[v] \in SUBSET Icons /\ past[o] \in SUBSET Icons /\ icon[o] \in Icons \cup {NoIcon}
        BY <2>1, <2>2, <3>1
      <4>2. past' \in [Entries -> SUBSET Icons]
        BY <2>1, <2>2, <3>1, <4>1
      <4>3. Missing(o) => icon[o] \in Icons
        BY <4>1 DEF Missing
      <4> QED
        BY <2>1, <2>2, <3>1, <4>1, <4>2, <4>3
    <3>2. CASE o \notin Entries
      BY <2>1, <2>2, <3>2
    <3> QED
      BY <3>1, <3>2
  <2>6. WellPlaced'
    BY <1>1, <2>3, <2>4, <2>5 DEF IInv, WellPlaced, ObjectTypes, GroupsInDatabases, EditorIsOpen
  <2>7. ASSUME NEW p \in Objects, NEW u \in Icons, Has(Home(p), u)
        PROVE  Has(Home(p), u)'
    <3>1. PICK c \in Databases : c = Home(p)
      BY HasAHome DEF IInv
    <3>2. Has(c, u)'
      BY <1>4, <2>7, <3>1
    <3> QED
      BY <1>3, <3>1, <3>2 DEF Has
  <2>8. ChoiceExists'
    <3>1. CASE editor = Closed \/ editor.choice = NoIcon
      BY <1>1, <3>1 DEF ChoiceExists
    <3>2. CASE editor # Closed /\ editor.choice # NoIcon
      <4>1. PICK p \in Objects, u \in Icons : p = editor.object /\ u = editor.choice
        BY <3>2, EditorHolds DEF IInv
      <4>2. Has(Home(p), u)'
        BY <2>7, <3>2, <4>1 DEF IInv, ChoiceExists
      <4> QED
        BY <1>1, <4>1, <4>2 DEF ChoiceExists, Has, Home
    <3> QED
      BY <3>1, <3>2
  <2>9. ASSUME NEW p \in Objects, Missing(p)'
        PROVE  (Edited(p) \/ p \in dropped)'
    <3>1. CASE p = o
      <4>1. PICK u \in Icons : u = icon[v] /\ u # NoIcon
        BY <2>2, <2>3, <2>9, <3>1 DEF Missing
      <4>2. ~Has(d, u)'
        BY <1>3, <2>1, <2>3, <2>9, <3>1, <4>1 DEF Missing, Has
      <4>3. ~Has(d, u) /\ ~Has(from, u)
        BY <1>2, <4>2
      <4>4. Missing(v) /\ ~Has(d, icon[v])
        BY <2>1, <4>1, <4>3 DEF Missing
      <4> QED
        BY <2>1, <3>1, <4>4
    <3>2. CASE p # o
      <4>1. PICK u \in Icons : u = icon[p] /\ u # NoIcon
        BY <2>2, <2>3, <2>9, <3>2 DEF Missing
      <4>2. ~Has(Home(p), u)'
        BY <2>3, <2>9, <3>2, <4>1 DEF Missing, Has
      <4>3. Missing(p)
        BY <2>7, <4>1, <4>2 DEF Missing
      <4> QED
        BY <1>1, <2>4, <3>2, <4>3 DEF IInv, ReferencesResolve, Edited
    <3> QED
      BY <3>1, <3>2
  <2>10. ASSUME NEW e \in Entries, NEW u \in past'[e]
         PROVE  (Has(Home(e), u) \/ <<e, u>> \in strayed)'
    <3>1. u \in Icons /\ e \in Objects /\ strayed \subseteq strayed'
      BY <2>1, <2>5 DEF Objects
    <3>2. CASE u \in past[e]
      <4>1. Has(Home(e), u) \/ <<e, u>> \in strayed
        BY <3>2 DEF IInv, HistoryResolves
      <4> QED
        BY <2>7, <3>1, <4>1
    <3>3. CASE u \notin past[e]
      <4>1. o \in Entries /\ e = o /\ (u \in past[v] \/ (u = icon[o] /\ u # NoIcon))
        BY <2>1, <2>2, <3>3
      <4>2. CASE u \in past[v]
        <5>1. CASE Has(from, u)
          <6>1. Has(d, u)'
            BY <1>2, <3>1, <5>1
          <6> QED
            BY <1>3, <2>1, <4>1, <6>1 DEF Has
        <5>2. CASE ~Has(from, u)
          BY <2>1, <4>1, <4>2, <5>2
        <5> QED
          BY <5>1, <5>2
      <4>3. CASE u = icon[o] /\ u # NoIcon
        <5>1. CASE Missing(o)
          BY <2>1, <4>1, <4>3, <5>1
        <5>2. CASE ~Missing(o)
          <6>1. Has(Home(e), u)
            BY <4>1, <4>3, <5>2 DEF Missing
          <6> QED
            BY <2>7, <3>1, <6>1
        <5> QED
          BY <5>1, <5>2
      <4> QED
        BY <4>1, <4>2, <4>3
    <3> QED
      BY <3>2, <3>3
  <2> QED
    BY <1>2, <2>6, <2>8, <2>9, <2>10 DEF IInv, ReferencesResolve, HistoryResolves
<1> QED
  BY <1>5, <1>6

LEMMA RelockKeeps ==
  ASSUME IconAssumption, ObjectAssumption, IInv, NEW d \in Databases, Relock(d)
  PROVE  IInv'
<1>1. AllFit' /\ \A c \in Databases, u \in Icons : Has(c, u)' <=> Has(c, u)
  BY Rereading DEF IInv
<1>2. /\ UNCHANGED <<parent, icon, past, strayed>>
      /\ editor' = IF InEditor(d) THEN Closed ELSE editor
      /\ dropped' = dropped \cup {o \in Objects : Edited(o) /\ Home(o) = d /\ Missing(o)}
  BY DEF Relock, objects
<1>3. editor' = Closed \/ editor' \in [object : Objects, choice : Icons \cup {NoIcon}]
  <2>1. CASE editor = Closed \/ InEditor(d)
    BY <1>2, <2>1
  <2>2. CASE editor # Closed /\ ~InEditor(d)
    BY <1>2, <2>2, EditorHolds DEF IInv
  <2> QED
    BY <2>1, <2>2
<1>4. WellPlaced'
  BY <1>2, <1>3, EditorChanges DEF IInv, WellPlaced, ObjectTypes
<1>5. editor' # Closed => editor' = editor
  BY <1>2
<1>6. ChoiceExists' /\ HistoryResolves'
  BY <1>1, <1>2, <1>4, <1>5, NothingLost DEF IInv
<1>7. \A o \in Objects : (Edited(o) \/ o \in dropped) /\ Missing(o) =>
                          (Edited(o) \/ o \in dropped)'
  <2> SUFFICES ASSUME NEW o \in Objects, Edited(o) \/ o \in dropped, Missing(o)
               PROVE  (Edited(o) \/ o \in dropped)'
    OBVIOUS
  <2>1. CASE o \in dropped
    BY <1>2, <2>1
  <2>2. CASE Edited(o) /\ InEditor(d)
    BY <1>2, <2>2, EditorHolds DEF IInv, Edited
  <2>3. CASE Edited(o) /\ ~InEditor(d)
    BY <1>2, <2>3 DEF Edited
  <2> QED
    BY <2>1, <2>2, <2>3
<1>8. ReferencesResolve'
  BY <1>1, <1>2, <1>7, ReferencesStay DEF IInv
<1> QED
  BY <1>1, <1>4, <1>6, <1>8 DEF IInv

----------------------------------------------------------------------------
(* The invariant holds *)

LEMMA InvInit == IconAssumption /\ ObjectAssumption /\ Init => IInv
<1> SUFFICES ASSUME IconAssumption, ObjectAssumption, Init PROVE IInv
  OBVIOUS
<1>1. StoreTypes
  <2>1. order \in [Databases -> Seq(Icons)]
    BY EmptySeq DEF Init
  <2> QED
    BY <2>1 DEF Init, StoreTypes, ImageSet
<1>2. ASSUME NEW d \in Databases
      PROVE  Fits(image[d], order[d], hashes[d], lost[d])
  <2>1. /\ image[d] = [u \in Icons |-> NoIcon] /\ order[d] = <<>>
        /\ hashes[d] = [i \in ImageSet |-> NoIcon] /\ lost[d] = {}
    BY DEF Init, ImageSet
  <2>2. ToSet(<<>>) = {} /\ Once(<<>>) /\ <<>> \in Seq(Icons)
    BY EmptySeq DEF ToSet, Once
  <2> QED
    BY <2>1, <2>2 DEF Fits, ListsAll, RecordsHold, AllFound
<1>3. WellPlaced
  <2>1. /\ parent \in [Objects -> Databases \cup Groups]
        /\ icon \in [Objects -> Icons \cup {NoIcon}]
        /\ past \in [Entries -> SUBSET Icons]
        /\ dropped \in SUBSET Objects /\ strayed \in SUBSET (Entries \X Icons)
    BY DEF Init
  <2>2. editor = Closed /\ editor \in [object : Objects \cup {NoIcon}, choice : Icons \cup {NoIcon}]
    BY DEF Init, Closed
  <2>3. \A g \in Groups : parent[g] \in Databases
    BY DEF Init, Objects
  <2> QED
    BY <2>1, <2>2, <2>3 DEF WellPlaced, ObjectTypes, EditorIsOpen, GroupsInDatabases
<1>4. ChoiceExists /\ ReferencesResolve /\ HistoryResolves
  BY DEF Init, ChoiceExists, ReferencesResolve, Missing, HistoryResolves
<1> QED
  BY <1>1, <1>2, <1>3, <1>4 DEF IInv, AllFit

LEMMA InvStep == IconAssumption /\ ObjectAssumption /\ IInv /\ [Next]_vars => IInv'
<1> SUFFICES ASSUME IconAssumption, ObjectAssumption, IInv, [Next]_vars PROVE IInv'
  OBVIOUS
<1>1. CASE \E o \in Objects : StartEdit(o)
  BY <1>1, StartEditKeeps
<1>2. CASE \E d \in Databases : EditorStep(d)
  BY <1>2, ChooseKeeps, AddIconKeeps, RemoveIconKeeps, ApplyEditKeeps, CancelEditKeeps
  DEF EditorStep
<1>3. CASE \E d \in Databases : Relock(d)
  BY <1>3, RelockKeeps
<1>4. CASE \E e \in Entries, to \in Databases \cup Groups : MoveEntry(e, to)
  BY <1>4, MoveEntryKeeps
<1>5. CASE \E g \in Groups, to \in Databases : MoveGroup(g, to)
  BY <1>5, MoveGroupKeeps
<1>6. CASE \E d \in Databases, from \in Databases : MergeInto(d, from)
  BY <1>6, MergeIntoKeeps
<1>7. CASE \E e \in Entries : UpdateEntry(e)
  BY <1>7, UpdateEntryKeeps
<1>8. CASE UNCHANGED vars
  <2>1. /\ UNCHANGED <<image, order, hashes, lost>> /\ UNCHANGED <<parent, icon, past>>
        /\ UNCHANGED <<editor, dropped, strayed>>
    BY <1>8 DEF vars, store, objects, excuses
  <2>2. AllFit' /\ WellPlaced'
    BY <2>1 DEF IInv, AllFit, StoreTypes, WellPlaced, ObjectTypes, GroupsInDatabases, EditorIsOpen
  <2>3. ChoiceExists' /\ ReferencesResolve' /\ HistoryResolves'
    BY <2>1 DEF IInv, ChoiceExists, ReferencesResolve, HistoryResolves, Missing, Edited, Has, Home
  <2> QED
    BY <2>2, <2>3 DEF IInv
<1> QED
  BY <1>1, <1>2, <1>3, <1>4, <1>5, <1>6, <1>7, <1>8 DEF Next

LEMMA Invariance == Spec => []IInv
  BY InvInit, InvStep, IconAssumption, ObjectAssumption, PTL DEF Spec

(***************************************************************************)
(* The map of the icons, the list that is shown and saved and the index of *)
(* images agree after every step (core/Metadata.cpp).                      *)
(***************************************************************************)
THEOREM StoresAgree == Spec => []StoreIsConsistent
<1>1. IInv => StoreIsConsistent
  <2> SUFFICES ASSUME IInv PROVE StoreIsConsistent
    OBVIOUS
  <2>1. TypeOK
    BY DEF IInv, AllFit, StoreTypes, WellPlaced, ObjectTypes, TypeOK, ImageSet
  <2> QED
    BY <2>1, StoresAreConsistent DEF IInv, StoreIsConsistent
<1> QED
  BY <1>1, Invariance, PTL

(***************************************************************************)
(* An image that a database has, with the bytes the file gave it, is not   *)
(* added again, but for the images that several icons had when one of them *)
(* was removed.                                                            *)
(***************************************************************************)
THEOREM ImagesHaveRecords == Spec => []ImagesAreFound
<1>1. IInv => ImagesAreFound
  BY StoresAreConsistent DEF IInv
<1> QED
  BY <1>1, Invariance, PTL

(***************************************************************************)
(* Groups and entries refer to icons of their database, but for the one in *)
(* an editor and those whose editor was closed by a lock.                  *)
(***************************************************************************)
THEOREM IconsResolve == Spec => []ReferencesResolve
<1>1. IInv => ReferencesResolve
  BY DEF IInv
<1> QED
  BY <1>1, Invariance, PTL

(***************************************************************************)
(* History items refer to icons of their entry's database, but for those   *)
(* that a move, a merge, a saved editor or an update from the browser      *)
(* extension has left behind.                                              *)
(***************************************************************************)
THEOREM PastIconsResolve == Spec => []HistoryResolves
<1>1. IInv => HistoryResolves
  BY DEF IInv
<1> QED
  BY <1>1, Invariance, PTL

\* What a group or its entries refer to in vain is excused.
GroupsAreExcused ==
  \A g \in Groups : \A u \in Unresolved(g) :
    \/ InEditor(parent[g])
    \/ \E o \in {g} \cup {e \in Entries : parent[e] = g} :
         (icon[o] = u /\ o \in dropped) \/ <<o, u>> \in strayed

(***************************************************************************)
(* The assertion of copyCustomIcons (core/Metadata.cpp) holds for a group  *)
(* that is moved while no editor is open in its database, unless the group *)
(* or an entry in it is one of the objects that lost an icon as above.     *)
(***************************************************************************)
THEOREM CopiedIconsExist == Spec => []GroupsAreExcused
<1>1. IInv => GroupsAreExcused
  <2> SUFFICES ASSUME IInv, NEW g \in Groups, NEW u \in Unresolved(g), ~InEditor(parent[g])
               PROVE  \E o \in {g} \cup {e \in Entries : parent[e] = g} :
                        (icon[o] = u /\ o \in dropped) \/ <<o, u>> \in strayed
    BY DEF GroupsAreExcused
  <2>1. /\ u # NoIcon /\ ~Has(parent[g], u) /\ parent[g] \in Databases
        /\ Groups \cap Databases = {} /\ g \in Objects /\ Entries \subseteq Objects
    BY ObjectAssumption DEF Unresolved, IInv, WellPlaced, GroupsInDatabases, Objects
  <2>2. \A o \in {g} \cup {e \in Entries : parent[e] = g} : Home(o) = parent[g]
    BY <2>1 DEF Home
  <2>3. ASSUME NEW o \in {g} \cup {e \in Entries : parent[e] = g}, icon[o] = u
        PROVE  o \in dropped
    <3>1. Missing(o) /\ o \in Objects
      BY <2>1, <2>2, <2>3 DEF Missing
    <3>2. ~Edited(o)
      BY <2>2, <3>1, EditorHolds, ObjectAssumption DEF Edited, InEditor, Closed, IInv, Objects
    <3> QED
      BY <3>1, <3>2 DEF IInv, ReferencesResolve
  <2>4. ASSUME NEW e \in Entries, parent[e] = g, u \in past[e]
        PROVE  <<e, u>> \in strayed
    BY <2>1, <2>2, <2>4 DEF IInv, HistoryResolves
  <2>5. \/ \E o \in {g} \cup {e \in Entries : parent[e] = g} : icon[o] = u
        \/ \E e \in Entries : parent[e] = g /\ u \in past[e]
    BY DEF Unresolved, IconsIn
  <2> QED
    BY <2>3, <2>4, <2>5
<1> QED
  BY <1>1, Invariance, PTL

=============================================================================
