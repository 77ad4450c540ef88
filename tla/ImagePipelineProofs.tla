------------------------ MODULE ImagePipelineProofs ------------------------
(***************************************************************************)
(* Theorems about ImagePipeline, for any registry, tags and plans: what a  *)
(* source returned is published in one way only, every variant of a        *)
(* version is among it, and both halves of the CloudProfile agree.         *)
(***************************************************************************)
EXTENDS ImagePipeline, OciSourceProofs, ImageUpdaterProofs, SequenceTheorems

-----------------------------------------------------------------------------
(***************************************************************************)
(* Glance: the image that is chosen of a version does not depend on the    *)
(* order in which a region lists them.                                     *)
(***************************************************************************)
\* What a region may list: no two images have one identifier.
IsListing(L) ==
    /\ IsFiniteSet(L) /\ L \subseteq ListedImage
    /\ \A a, b \in L : a.id = b.id => a = b

\* preferImage tells such images apart, and never contradicts itself.
LEMMA PreferOrders ==
    ASSUME NEW L, IsListing(L)
    PROVE  /\ \A a, b \in L : a = b \/ PreferImage(a, b) \/ PreferImage(b, a)
           /\ \A a, b \in L : ~(PreferImage(a, b) /\ PreferImage(b, a))
           /\ \A a, b, c \in L : PreferImage(a, b) /\ PreferImage(b, c) => PreferImage(a, c)
<1>1. \A a \in L : a.id \in Nat /\ a.created \in Nat /\ a.active \in BOOLEAN
  BY DEF IsListing, ListedImage
<1>2. \A a, b \in L : a.id = b.id => a = b
  BY DEF IsListing
<1>3. \A a, b \in L : PreferImage(a, b) <=>
         \/ a.active /\ ~b.active
         \/ /\ a.active <=> b.active
            /\ a.created > b.created \/ (a.created = b.created /\ a.id > b.id)
  BY <1>1 DEF PreferImage
<1>4. \A a, b \in L : a = b \/ PreferImage(a, b) \/ PreferImage(b, a)
  BY <1>1, <1>2, <1>3
<1>5. \A a, b \in L : ~(PreferImage(a, b) /\ PreferImage(b, a))
  BY <1>1, <1>3
<1>6. \A a, b, c \in L : PreferImage(a, b) /\ PreferImage(b, c) => PreferImage(a, c)
  BY <1>1, <1>3
<1> QED
  BY <1>4, <1>5, <1>6

IsBest(a, v, L) == a \in L /\ a.version = v /\ \A b \in L : b.version = v => b = a \/ PreferImage(a, b)

\* The best image of each version among L.
Discoveries == UNION {[V -> ListedImage] : V \in SUBSET Nat}
BestIn(found, L) ==
    /\ found \in Discoveries /\ DOMAIN found = {a.version : a \in L}
    /\ \A v \in DOMAIN found : IsBest(found[v], v, L)

\* A round of discoverRegion.
Take(found, img) ==
    IF img.version \notin DOMAIN found \/ PreferImage(img, found[img.version])
    THEN [v \in DOMAIN found \cup {img.version} |-> IF v = img.version THEN img ELSE found[v]]
    ELSE found

\* One more image, and they are the best still.
LEMMA TakeKeepsBest ==
    ASSUME NEW L, IsListing(L), NEW img \in L, NEW found \in Discoveries
    PROVE  /\ Take(found, img) \in Discoveries
           /\ \A U \in SUBSET L : BestIn(found, U) => BestIn(Take(found, img), U \cup {img})
<1>1. PICK w \in Nat : w = img.version /\ img \in ListedImage
  BY UpdaterAssumption DEF IsListing, ListedImage
<1>2. PICK V \in SUBSET Nat : found \in [V -> ListedImage]
  BY DEF Discoveries
<1>3. PICK new : new = Take(found, img)
  OBVIOUS
<1>4. CASE w \notin V \/ PreferImage(img, found[w])
  <2>1. new = [v \in V \cup {w} |-> IF v = w THEN img ELSE found[v]]
    BY <1>1, <1>2, <1>3, <1>4 DEF Take
  <2>2. new \in [V \cup {w} -> ListedImage] /\ V \cup {w} \in SUBSET Nat
    BY <1>1, <1>2, <2>1
  <2>3. new \in Discoveries
    BY <2>2 DEF Discoveries
  <2>4. ASSUME NEW U \in SUBSET L, BestIn(found, U) PROVE BestIn(new, U \cup {img})
    <3>1. V = {a.version : a \in U} /\ \A v \in V : IsBest(found[v], v, U)
      BY <1>2, <2>4 DEF BestIn
    <3>2. DOMAIN new = {a.version : a \in U \cup {img}}
      BY <1>1, <2>2, <3>1
    <3>3. IsBest(img, w, U \cup {img})
      <4>1. ASSUME NEW b \in U, b.version = w PROVE b = img \/ PreferImage(img, b)
        <5>1. w \in V /\ PreferImage(img, found[w])
          BY <1>4, <3>1, <4>1
        <5>2. found[w] \in U /\ (b = found[w] \/ PreferImage(found[w], b))
          BY <3>1, <4>1, <5>1 DEF IsBest
        <5> QED
          BY <5>1, <5>2, PreferOrders
      <4> QED
        BY <1>1, <4>1 DEF IsBest
    <3>4. ASSUME NEW v \in V, v # w PROVE IsBest(found[v], v, U \cup {img})
      BY <1>1, <3>1, <3>4 DEF IsBest
    <3>5. \A v \in V \cup {w} : IsBest(new[v], v, U \cup {img})
      BY <2>1, <3>3, <3>4
    <3> QED
      BY <2>2, <2>3, <3>2, <3>5 DEF BestIn
  <2> QED
    BY <1>3, <2>3, <2>4
<1>5. CASE ~(w \notin V \/ PreferImage(img, found[w]))
  <2>1. new = found
    BY <1>1, <1>2, <1>3, <1>5 DEF Take
  <2>2. ASSUME NEW U \in SUBSET L, BestIn(found, U) PROVE BestIn(found, U \cup {img})
    <3>1. V = {a.version : a \in U} /\ \A v \in V : IsBest(found[v], v, U)
      BY <1>2, <2>2 DEF BestIn
    <3>2. {a.version : a \in U \cup {img}} = V
      BY <1>1, <1>5, <3>1
    <3>3. ASSUME NEW v \in V PROVE IsBest(found[v], v, U \cup {img})
      <4>1. IsBest(found[v], v, U)
        BY <3>1
      <4>2. v = w => img = found[v] \/ PreferImage(found[v], img)
        BY <1>5, <4>1, PreferOrders DEF IsBest
      <4> QED
        BY <1>1, <4>1, <4>2 DEF IsBest
    <3> QED
      BY <1>2, <3>2, <3>3 DEF BestIn
  <2> QED
    BY <1>3, <2>1, <2>2
<1> QED
  BY <1>4, <1>5

\* A version has one best image.
LEMMA BestOnce ==
    ASSUME NEW L, IsListing(L), NEW v, NEW a, IsBest(a, v, L), NEW b, IsBest(b, v, L)
    PROVE  a = b
BY PreferOrders DEF IsBest

\* discoverRegion finds the best, whatever the order.
LEMMA RegionDiscovered ==
    ASSUME NEW L, IsListing(L), NEW imgs \in Orders(L)
    PROVE  BestIn(DiscoverRegion(imgs), L)
<1>1. PICK N \in Nat : N = Cardinality(L)
  BY FS_CardinalityType DEF IsListing
<1>2. imgs \in [1..N -> L] /\ \A a \in L : \E m \in 1..N : imgs[m] = a
  BY <1>1, InOrder DEF IsListing
<1>3. imgs \in Seq(L) /\ Len(imgs) = N
  BY <1>2
<1>4. PICK D : D = Discoveries
  OBVIOUS
<1>5. PICK none : none = <<>>
  OBVIOUS
<1>6. none \in D /\ DOMAIN none = {}
  <2>1. none \in [{} -> ListedImage]
    BY <1>5
  <2> QED
    BY <1>4, <2>1 DEF Discoveries
<1> DEFINE body(f) == [n \in 0..N |-> IF n = 0 THEN none ELSE Take(f[n - 1], imgs[n])]
           last == CHOOSE f : f = body(f)
           step == [p \in D \X (1..N) |-> Take(p[1], imgs[p[2]])]
<1>7. ASSUME NEW x \in D, NEW n \in 1..N PROVE Take(x, imgs[n]) \in D
  BY <1>2, <1>4, TakeKeepsBest
<1>8. \E f : f = body(f)
  <2>1. step \in [D \X (1..N) -> D]
    BY <1>7
  <2>2. PICK round \in [D \X (1..N) -> D] : round = step
    BY <2>1
  <2>3. PICK f \in [0..N -> D] :
           f[0] = none /\ \A n \in 1..N : f[n] = round[<<f[n - 1], n>>]
    <3>1. PICK f : IsLoop(f, N, D, none, round)
      BY <1>6, LoopExists
    <3> QED
      BY <3>1 DEF IsLoop
  <2>4. ASSUME NEW n \in 0..N PROVE f[n] = IF n = 0 THEN none ELSE Take(f[n - 1], imgs[n])
    <3>1. CASE n = 0
      BY <2>3, <3>1
    <3>2. CASE n # 0
      <4>1. n \in 1..N /\ n - 1 \in 0..N
        BY <3>2
      <4>2. <<f[n - 1], n>> \in D \X (1..N)
        BY <2>3, <4>1
      <4> QED
        BY <2>2, <2>3, <3>2, <4>1, <4>2
    <3> QED
      BY <3>1, <3>2
  <2>5. f = body(f)
    BY <2>3, <2>4
  <2> QED
    BY <2>5
<1>9. last = body(last)
  <2> HIDE DEF body
  <2> QED
    BY <1>8
<1>10. DiscoverRegion(imgs) = last[N]
  BY <1>3, <1>5 DEF DiscoverRegion, Take, Loop
<1> HIDE DEF last
<1>11. last[0] = none /\ \A n \in 1..N : last[n] = Take(last[n - 1], imgs[n])
  BY <1>9
<1> HIDE DEF body
<1>12. PICK P : P = {n \in 0..N : BestIn(last[n], {imgs[m] : m \in 1..n})}
  OBVIOUS
<1>13. 0 \in P
  <2>1. BestIn(none, {})
    BY <1>4, <1>6 DEF BestIn
  <2>2. {imgs[m] : m \in 1..0} = {}
    OBVIOUS
  <2> QED
    BY <1>11, <1>12, <2>1, <2>2
<1>14. ASSUME NEW n \in 1..N, n - 1 \in P PROVE n \in P
  <2>1. PICK U : U = {imgs[m] : m \in 1..(n - 1)}
    OBVIOUS
  <2>2. U \in SUBSET L /\ imgs[n] \in L
    BY <1>2, <2>1
  <2>3. BestIn(last[n - 1], U)
    BY <1>12, <1>14, <2>1
  <2>4. last[n - 1] \in Discoveries
    BY <2>3 DEF BestIn
  <2>5. BestIn(Take(last[n - 1], imgs[n]), U \cup {imgs[n]})
    BY <2>2, <2>3, <2>4, TakeKeepsBest
  <2>6. U \cup {imgs[n]} = {imgs[m] : m \in 1..n}
    BY <2>1
  <2>7. BestIn(last[n], {imgs[m] : m \in 1..n})
    BY <1>11, <2>5, <2>6
  <2> QED
    BY <1>12, <2>7
<1>15. \A n \in 0..N : n \in P
  BY <1>13, <1>14, EveryRound
<1>16. L = {imgs[m] : m \in 1..N}
  BY <1>2
<1>17. N \in 0..N
  OBVIOUS
<1> QED
  BY <1>10, <1>12, <1>15, <1>16, <1>17

-----------------------------------------------------------------------------
(***************************************************************************)
(* Glance: the versions that are selected.                                 *)
(***************************************************************************)
VersionsOf(A, l) == UNION {{a.version : a \in l[r]} : r \in A}

\* Of the versions that the regions A of l list, those that qualify.
QualifiedOf(sel, A, l) ==
    {v \in VersionsOf(A, l) :
        sel.requireAllRegions => \A r \in A : l[r] # {} => \E a \in l[r] : a.version = v}

\* Of a set of versions, those that the window shows.
NewerIn(v, V) == {w \in V : Precedence[w] > Precedence[v]}
InWindow(sel, V) ==
    {v \in V :
        /\ Cardinality(NewerIn(v, V)) >= Offset(sel)
        /\ KeepLatest(sel) > 0 => Cardinality(NewerIn(v, V)) < Offset(sel) + KeepLatest(sel)}

\* And so the versions that are selected.
Chosen(sel, A, l) == InWindow(sel, QualifiedOf(sel, A, l))

\* Their precedence orders the versions, the newest first.
Newest(V) == {p \in V \X V : Precedence[p[1]] > Precedence[p[2]]}

LEMMA NewestOrders ==
    ASSUME NEW V, IsFiniteSet(V), V \subseteq GlanceVersions
    PROVE  Orders2(Newest(V), V) /\ Follows(Sorted(V, Newer), V, Newest(V))
<1>1. /\ \A v \in V : Precedence[v] \in Nat
      /\ \A v, w \in V : Precedence[v] = Precedence[w] => v = w
  BY PrecedenceAssumption
<1>2. Orders2(Newest(V), V)
  BY <1>1 DEF Orders2, Newest
<1>3. PICK N \in Nat : N = Cardinality(V)
  BY FS_CardinalityType
<1> DEFINE Ordered(p) == \A i, j \in DOMAIN p : i < j => p[i] # p[j] /\ ~Newer(p[j], p[i])
<1>4. \E p \in [1..N -> V] : Ordered(p)
  <2>1. PICK p : Follows(p, V, Newest(V))
    BY <1>2, OrderExists
  <2>2. p \in [1..N -> V] /\ \A i, j \in 1..N : i < j => Precedence[p[i]] > Precedence[p[j]]
    BY <1>3, <2>1 DEF Follows, Newest
  <2>3. ASSUME NEW i \in DOMAIN p, NEW j \in DOMAIN p, i < j
        PROVE  p[i] # p[j] /\ ~Newer(p[j], p[i])
    <3>1. p[i] \in V /\ p[j] \in V /\ Precedence[p[i]] > Precedence[p[j]]
      BY <2>2, <2>3
    <3> QED
      BY <1>1, <3>1 DEF Newer
  <2> QED
    BY <2>2, <2>3
<1>5. PICK p : p = Sorted(V, Newer)
  OBVIOUS
<1>6. p \in [1..N -> V] /\ Ordered(p)
  <2>1. p = CHOOSE q \in [1..N -> V] : Ordered(q)
    BY <1>3, <1>5 DEF Sorted
  <2> HIDE DEF Ordered
  <2> QED
    BY <1>4, <2>1
<1>7. ASSUME NEW i \in 1..N, NEW j \in 1..N, i < j PROVE <<p[i], p[j]>> \in Newest(V)
  <2>1. p[i] \in V /\ p[j] \in V /\ p[i] # p[j] /\ ~Newer(p[j], p[i])
    BY <1>6, <1>7
  <2> QED
    BY <1>1, <2>1 DEF Newer, Newest
<1> QED
  BY <1>2, <1>3, <1>5, <1>6, <1>7 DEF Follows

\* In that order every version has as many before it as are newer.
LEMMA RankedByAge ==
    ASSUME NEW V, IsFiniteSet(V), V \subseteq GlanceVersions, NEW s, Follows(s, V, Newest(V)),
           NEW i \in 1..Cardinality(V)
    PROVE  Cardinality(NewerIn(s[i], V)) = i - 1
<1>1. PICK n \in Nat : n = Cardinality(V)
  BY FS_CardinalityType
<1>2. s \in [1..n -> V] /\ \A j, k \in 1..n : j < k => Precedence[s[j]] > Precedence[s[k]]
  BY <1>1 DEF Follows, Newest
<1>3. \A j \in 1..n : s[j] \in V /\ Precedence[s[j]] \in Nat
  BY <1>2, PrecedenceAssumption
<1>4. /\ \A j, k \in 1..n : s[j] = s[k] => j = k
      /\ \A x \in V : \E j \in 1..n : s[j] = x
  BY <1>1, NewestOrders, FollowsAll
<1>5. i \in 1..n /\ i - 1 \in Nat /\ \A j \in 1..(i - 1) : j \in 1..n /\ j < i
  BY <1>1
<1> DEFINE before == [j \in 1..(i - 1) |-> s[j]]
           newer == NewerIn(s[i], V)
<1>6. before \in [1..(i - 1) -> newer]
  BY <1>2, <1>3, <1>5 DEF NewerIn
<1>7. \A j, k \in 1..(i - 1) : before[j] = before[k] => j = k
  BY <1>4, <1>5
<1>8. ASSUME NEW w \in newer PROVE \E j \in 1..(i - 1) : before[j] = w
  <2>1. PICK j \in 1..n : s[j] = w
    BY <1>4, <1>8 DEF NewerIn
  <2>2. Precedence[s[j]] > Precedence[s[i]]
    BY <1>8, <2>1 DEF NewerIn
  <2>3. ~(i < j) /\ i # j
    BY <1>2, <1>3, <1>5, <2>2
  <2>4. j \in 1..(i - 1)
    BY <1>5, <2>3
  <2> QED
    BY <2>1, <2>4
<1> HIDE DEF before, newer
<1>9. before \in Bijection(1..(i - 1), newer)
  BY <1>6, <1>7, <1>8, Fun_IsBij
<1>10. Cardinality(newer) = i - 1
  BY <1>5, <1>9, FS_CountingElements DEF ExistsBijection
<1> QED
  BY <1>10 DEF newer

\* The window shows the versions than which so many are newer.
LEMMA WindowShows ==
    ASSUME NEW sel \in Selection, NEW V, IsFiniteSet(V), V \subseteq GlanceVersions
    PROVE  ToSet(Window(sel, V)) = InWindow(sel, V)
<1>1. PICK n \in Nat : n = Cardinality(V)
  BY FS_CardinalityType
<1>2. PICK s : s = Sorted(V, Newer) /\ Follows(s, V, Newest(V))
  BY NewestOrders
<1>3. PICK off \in Nat : off = Offset(sel)
  BY DEF Offset, Selection
<1>4. PICK keep \in Int : keep = KeepLatest(sel)
  BY DEF KeepLatest, Selection
<1>5. s \in [1..n -> V] /\ s \in Seq(V) /\ Len(s) = n
  BY <1>1, <1>2 DEF Follows
<1>6. \A v \in V : \E i \in 1..n : s[i] = v
  BY <1>1, <1>2, NewestOrders, FollowsAll
<1>7. \A i \in 1..n : Cardinality(NewerIn(s[i], V)) = i - 1
  BY <1>1, <1>2, RankedByAge
<1>8. PICK lo : lo = Smaller(off, n)
  OBVIOUS
<1>9. PICK hi : hi = IF keep > 0 THEN Smaller(lo + keep, n) ELSE n
  OBVIOUS
<1>10. lo \in Nat /\ hi \in Nat /\ lo <= hi /\ hi <= n
  BY <1>8, <1>9 DEF Smaller
<1>11. PICK t : t = SubSeq(s, lo + 1, hi)
  OBVIOUS
<1>12. Window(sel, V) = t
  BY <1>2, <1>3, <1>4, <1>5, <1>8, <1>9, <1>11 DEF Window
<1>13. \A i \in (lo + 1)..hi : i \in 1..n /\ s[i] \in V
  BY <1>5, <1>10
<1>14. \A i \in 1..n :
          (i - 1 >= off /\ (keep > 0 => i - 1 < off + keep)) <=> i \in (lo + 1)..hi
  BY <1>8, <1>9 DEF Smaller
<1>15. t \in Seq(V) /\ Len(t) = hi - lo /\ \A i \in 1..(hi - lo) : t[i] = s[lo + i]
  <2>1. /\ t \in Seq(V)
        /\ Len(t) = IF lo + 1 <= hi THEN hi - (lo + 1) + 1 ELSE 0
        /\ \A i \in 1..(hi - (lo + 1) + 1) : t[i] = s[lo + 1 + i - 1]
    BY <1>5, <1>10, <1>11, <1>13, SubSeqProperties
  <2>2. Len(t) = hi - lo
    BY <1>10, <2>1
  <2>3. \A i \in 1..(hi - lo) : t[i] = s[lo + i]
    <3> SUFFICES ASSUME NEW i \in 1..(hi - lo) PROVE t[i] = s[lo + i]
      OBVIOUS
    <3>1. i \in 1..(hi - (lo + 1) + 1) /\ lo + 1 + i - 1 = lo + i
      BY <1>10
    <3> QED
      BY <2>1, <3>1
  <2> QED
    BY <2>1, <2>2, <2>3
<1>16. DOMAIN t = 1..(hi - lo)
  BY <1>15
<1>17. ASSUME NEW v \in InWindow(sel, V) PROVE v \in ToSet(t)
  <2>1. PICK i \in 1..n : s[i] = v
    BY <1>6 DEF InWindow
  <2>2. Cardinality(NewerIn(v, V)) = i - 1
    BY <1>7, <2>1
  <2>3. i \in (lo + 1)..hi
    BY <1>3, <1>4, <1>14, <2>2 DEF InWindow
  <2>4. i - lo \in 1..(hi - lo) /\ lo + (i - lo) = i
    BY <1>10, <2>3
  <2> QED
    BY <1>15, <1>16, <2>1, <2>4 DEF ToSet
<1>18. ASSUME NEW v \in ToSet(t) PROVE v \in InWindow(sel, V)
  <2>1. PICK i \in 1..(hi - lo) : t[i] = v
    BY <1>16 DEF ToSet
  <2>2. PICK k \in 1..n : k = lo + i /\ k \in (lo + 1)..hi
    BY <1>10
  <2>3. v = s[k] /\ v \in V
    BY <1>13, <1>15, <2>1, <2>2
  <2>4. Cardinality(NewerIn(v, V)) = k - 1
    BY <1>7, <2>3
  <2>5. k - 1 >= off /\ (keep > 0 => k - 1 < off + keep)
    BY <1>14, <2>2
  <2> QED
    BY <1>3, <1>4, <2>3, <2>4, <2>5 DEF InWindow
<1> QED
  BY <1>12, <1>17, <1>18

-----------------------------------------------------------------------------
(***************************************************************************)
(* Glance: the regions together.                                           *)
(***************************************************************************)
\* A region that is added to those of a version.
AddRegion(v, found, regions, r) ==
    IF v \in DOMAIN found[r] THEN Append(regions, [name |-> r, id |-> found[r][v].id]) ELSE regions

\* The best images of the version v in the regions A, as regions of an image.
BestRegions(v, A, l) ==
    {o \in Region : o.name \in A /\ \E a : IsBest(a, v, l[o.name]) /\ o.id = a.id}

\* A region of another name goes to the end.
LEMMA RegionAppended ==
    ASSUME NEW q \in Tidy, NEW r \in Region, \A x \in ToSet(q) : x.name # r.name
    PROVE  Append(q, r) \in Tidy /\ ToSet(Append(q, r)) = ToSet(q) \cup {r}
<1>1. q \in Seq(Region) /\ OneEach(q)
  BY DEF Tidy
<1>2. PICK t : t = Append(q, r)
  OBVIOUS
<1>3. /\ t \in Seq(Region) /\ DOMAIN t = 1..Len(q) + 1 /\ DOMAIN q = 1..Len(q)
      /\ t[Len(q) + 1] = r /\ \A i \in DOMAIN q : t[i] = q[i]
  BY <1>1, <1>2
<1>4. \A i \in DOMAIN q : q[i].name # r.name
  BY DEF ToSet
<1>5. OneEach(t)
  BY <1>1, <1>3, <1>4 DEF OneEach
<1>6. ToSet(t) = ToSet(q) \cup {r}
  BY <1>1, <1>3 DEF ToSet
<1> QED
  BY <1>2, <1>3, <1>5, <1>6 DEF Tidy

\* The regions of a version are those that have it, each with its best image, whatever
\* the order in which they answer.
LEMMA RegionsGathered ==
    ASSUME NEW l, NEW A, IsFiniteSet(A), A \subseteq Nat, \A r \in A : IsListing(l[r]),
           NEW found, \A r \in A : BestIn(found[r], l[r]), NEW rs \in Orders(A), NEW v
    PROVE  /\ RegionsOf(v, rs, found) \in Tidy
           /\ ToSet(RegionsOf(v, rs, found)) = BestRegions(v, A, l)
<1>1. PICK N \in Nat : N = Cardinality(A)
  BY FS_CardinalityType
<1>2. /\ rs \in [1..N -> A] /\ \A r \in A : \E m \in 1..N : rs[m] = r
      /\ \A m, n \in 1..N : rs[m] = rs[n] => m = n
  BY <1>1, InOrder
<1>3. rs \in Seq(A) /\ Len(rs) = N
  BY <1>2
<1>4. PICK none : none = <<>>
  OBVIOUS
<1>5. PICK D : D = Seq(Region)
  OBVIOUS
<1>6. none \in D /\ none \in Tidy /\ ToSet(none) = {}
  BY <1>4, <1>5 DEF Tidy, OneEach, ToSet
<1>7. ASSUME NEW r \in A, v \in DOMAIN found[r]
      PROVE  [name |-> r, id |-> found[r][v].id] \in Region
  BY <1>7 DEF BestIn, IsBest, IsListing, ListedImage, Region
<1> DEFINE body(f) == [n \in 0..N |-> IF n = 0 THEN none ELSE AddRegion(v, found, f[n - 1], rs[n])]
           last == CHOOSE f : f = body(f)
           step == [p \in D \X (1..N) |-> AddRegion(v, found, p[1], rs[p[2]])]
<1>8. ASSUME NEW x \in D, NEW n \in 1..N PROVE AddRegion(v, found, x, rs[n]) \in D
  <2>1. PICK r \in A : r = rs[n]
    BY <1>2
  <2>2. CASE v \in DOMAIN found[r]
    <3>1. PICK o \in Region : o = [name |-> r, id |-> found[r][v].id]
      BY <1>7, <2>2
    <3>2. Append(x, o) \in D
      BY <1>5
    <3> QED
      BY <2>1, <2>2, <3>1, <3>2 DEF AddRegion
  <2>3. CASE v \notin DOMAIN found[r]
    BY <2>1, <2>3 DEF AddRegion
  <2> QED
    BY <2>2, <2>3
<1>9. \E f : f = body(f)
  <2>1. step \in [D \X (1..N) -> D]
    BY <1>8
  <2>2. PICK round \in [D \X (1..N) -> D] : round = step
    BY <2>1
  <2>3. PICK f \in [0..N -> D] :
           f[0] = none /\ \A n \in 1..N : f[n] = round[<<f[n - 1], n>>]
    <3>1. PICK f : IsLoop(f, N, D, none, round)
      BY <1>6, LoopExists
    <3> QED
      BY <3>1 DEF IsLoop
  <2>4. ASSUME NEW n \in 0..N
        PROVE  f[n] = IF n = 0 THEN none ELSE AddRegion(v, found, f[n - 1], rs[n])
    <3>1. CASE n = 0
      BY <2>3, <3>1
    <3>2. CASE n # 0
      <4>1. n \in 1..N /\ n - 1 \in 0..N
        BY <3>2
      <4>2. <<f[n - 1], n>> \in D \X (1..N)
        BY <2>3, <4>1
      <4> QED
        BY <2>2, <2>3, <3>2, <4>1, <4>2
    <3> QED
      BY <3>1, <3>2
  <2>5. f = body(f)
    BY <2>3, <2>4
  <2> QED
    BY <2>5
<1>10. last = body(last)
  <2> HIDE DEF body
  <2> QED
    BY <1>9
<1>11. RegionsOf(v, rs, found) = last[N]
  BY <1>3, <1>4 DEF RegionsOf, AddRegion, Loop
<1> HIDE DEF last
<1>12. last[0] = none /\ \A n \in 1..N : last[n] = AddRegion(v, found, last[n - 1], rs[n])
  BY <1>10
<1> HIDE DEF body
<1>13. PICK P : P = {n \in 0..N : last[n] \in Tidy
                                  /\ ToSet(last[n]) = BestRegions(v, {rs[m] : m \in 1..n}, l)}
  OBVIOUS
<1>14. 0 \in P
  <2>1. BestRegions(v, {}, l) = {} /\ {rs[m] : m \in 1..0} = {}
    BY DEF BestRegions
  <2>2. last[0] \in Tidy /\ ToSet(last[0]) = BestRegions(v, {rs[m] : m \in 1..0}, l)
    BY <1>6, <1>12, <2>1
  <2> QED
    BY <1>13, <2>2
<1>15. ASSUME NEW n \in 1..N, n - 1 \in P PROVE n \in P
  <2>1. PICK U : U = {rs[m] : m \in 1..(n - 1)}
    OBVIOUS
  <2>2. PICK q \in Tidy : q = last[n - 1] /\ ToSet(q) = BestRegions(v, U, l)
    BY <1>13, <1>15, <2>1
  <2>3. PICK r \in A : r = rs[n]
    BY <1>2
  <2>4. r \notin U
    BY <1>2, <2>1, <2>3
  <2>5. U \cup {r} = {rs[m] : m \in 1..n}
    BY <2>1, <2>3
  <2>6. last[n] = AddRegion(v, found, q, r)
    BY <1>12, <2>2, <2>3
  <2>7. BestIn(found[r], l[r])
    OBVIOUS
  <2>8. last[n] \in Tidy /\ ToSet(last[n]) = BestRegions(v, U \cup {r}, l)
    <3>1. CASE v \in DOMAIN found[r]
      <4>1. PICK o \in Region : o = [name |-> r, id |-> found[r][v].id]
        BY <1>7, <3>1
      <4>2. IsBest(found[r][v], v, l[r])
        BY <2>7, <3>1 DEF BestIn
      <4>3. \A x \in ToSet(q) : x.name # o.name
        BY <2>2, <2>4, <4>1 DEF BestRegions
      <4>4. last[n] = Append(q, o)
        BY <2>6, <3>1, <4>1 DEF AddRegion
      <4>5. last[n] \in Tidy /\ ToSet(last[n]) = ToSet(q) \cup {o}
        BY <4>3, <4>4, RegionAppended
      <4>6. o.name = r /\ o.id = found[r][v].id
        BY <4>1
      <4>7. \A x \in Region : x.name = r /\ (\E a : IsBest(a, v, l[r]) /\ x.id = a.id) => x = o
        BY <4>2, <4>6, BestOnce DEF Region
      <4>8. BestRegions(v, U \cup {r}, l) = BestRegions(v, U, l) \cup {o}
        BY <4>2, <4>6, <4>7 DEF BestRegions
      <4> QED
        BY <2>2, <4>5, <4>8
    <3>2. CASE v \notin DOMAIN found[r]
      <4>1. \A a : ~IsBest(a, v, l[r])
        BY <2>7, <3>2 DEF BestIn, IsBest
      <4>2. BestRegions(v, U \cup {r}, l) = BestRegions(v, U, l)
        BY <4>1 DEF BestRegions
      <4> QED
        BY <2>2, <2>6, <3>2, <4>2 DEF AddRegion
    <3> QED
      BY <3>1, <3>2
  <2> QED
    BY <1>13, <2>5, <2>8
<1>16. \A n \in 0..N : n \in P
  BY <1>14, <1>15, EveryRound
<1>17. A = {rs[m] : m \in 1..N}
  <2>1. \A m \in 1..N : rs[m] \in A
    BY <1>2
  <2>2. {rs[m] : m \in 1..N} \subseteq A /\ A \subseteq {rs[m] : m \in 1..N}
    BY <1>2, <2>1
  <2> QED
    BY <2>2
<1>18. N \in 0..N
  OBVIOUS
<1> QED
  BY <1>11, <1>13, <1>16, <1>17, <1>18

Ascending(V) == {p \in V \X V : p[1] < p[2]}

\* What Glance says of a version: every image of it is alike but for its regions.
Made(s, v, caps, A, l) ==
    /\ s.version = v /\ s.clean = v /\ s.archs = <<1>> /\ s.caps = caps /\ s.inPlace = FALSE
    /\ s.regions \in Tidy /\ ToSet(s.regions) = BestRegions(v, A, l)

\* The images of the versions V that are applied when the regions A of l answered.
GlanceApplied(ss, V, A, l, allowed) ==
    /\ ss \in Seq(TidyImage) /\ V \subseteq VersionsOf(A, l)
    /\ Follows([i \in DOMAIN ss |-> ss[i].version], V, Ascending(V))
    /\ \A i \in DOMAIN ss :
          Made(ss[i], ss[i].version, {<<ArchitectureCapability, 1>>} \cap allowed, A, l)

\* Regions that may answer.
Answering(A, l) ==
    /\ IsFiniteSet(A) /\ A \subseteq Nat
    /\ \A r \in A : IsListing(l[r])

\* They list finitely many versions, all of them normal.
LEMMA NormalVersions ==
    ASSUME NEW l, NEW A, Answering(A, l), NEW W, W \subseteq VersionsOf(A, l)
    PROVE  /\ IsFiniteSet(W) /\ W \subseteq Nat
           /\ Orders2(Ascending(W), W)
           /\ \A v \in W : v \in DOMAIN Normal /\ v \in SemVers /\ v # Unset /\ Normal[v] = v
<1> DEFINE V(r) == {a.version : a \in l[r]}
           f == [r \in A |-> V(r)]
           all == {V(r) : r \in A}
<1>1. ASSUME NEW r \in A PROVE IsFiniteSet(V(r))
  <2> DEFINE g == [a \in l[r] |-> a.version]
  <2>1. g \in [l[r] -> V(r)] /\ \A x \in V(r) : \E a \in l[r] : g[a] = x
    OBVIOUS
  <2> HIDE DEF g, V
  <2>2. g \in Surjection(l[r], V(r))
    BY <2>1, Fun_IsSurj
  <2>3. IsFiniteSet(l[r])
    BY DEF Answering, IsListing
  <2> QED
    BY <2>2, <2>3, FS_Surjection
<1>2. IsFiniteSet(all)
  <2>1. f \in [A -> all] /\ \A x \in all : \E r \in A : f[r] = x
    OBVIOUS
  <2> HIDE DEF f, all
  <2>2. f \in Surjection(A, all)
    BY <2>1, Fun_IsSurj
  <2> QED
    BY <2>2, FS_Surjection DEF Answering
<1>3. \A T \in all : IsFiniteSet(T)
  <2> HIDE DEF V
  <2> QED
    BY <1>1
<1>4. IsFiniteSet(VersionsOf(A, l))
  <2>1. VersionsOf(A, l) = UNION all
    BY DEF VersionsOf
  <2> HIDE DEF all
  <2> QED
    BY <1>2, <1>3, <2>1, FS_UNION
<1>5. \A v \in W : v \in DOMAIN Normal /\ v \in SemVers /\ v # Unset /\ Normal[v] = v
  BY DEF VersionsOf, Answering, IsListing, ListedImage
<1>6. W \subseteq Nat
  BY <1>5, UpdaterAssumption
<1>7. Orders2(Ascending(W), W)
  BY <1>6 DEF Orders2, Ascending
<1>8. IsFiniteSet(W)
  BY <1>4, FS_Subset
<1> QED
  BY <1>5, <1>6, <1>7, <1>8

\* What an update publishes of images.
AppliedTo(p, ss) ==
    [profile |-> MachineImages(p.images, ss),
     config |-> IF p.provider = "ironcore" THEN ConfigureIroncore(p.config, ss)
                ELSE ConfigureOpenStack(p.config, ss)]

\* The regions A of l list versions of the source.
AmongVersions(A, l) == Answering(A, l) /\ VersionsOf(A, l) \subseteq GlanceVersions

\* They are selected by window, and in every region if that is asked for.
ImagesFor(V, rs, found) == {GlanceImage(v, RegionsOf(v, rs, found)) : v \in V}

LEMMA ChosenVersions ==
    ASSUME NEW l, NEW A, AmongVersions(A, l), NEW rs \in Orders(A),
           NEW found, \A r \in A : BestIn(found[r], l[r]), NEW sel \in Selection
    PROVE  MergeRegions(sel, rs, found) = AnyOrder(ImagesFor(Chosen(sel, A, l), rs, found))
<1>1. ToSet(rs) = A
  <2>1. rs \in [1..Cardinality(A) -> A] /\ \A r \in A : \E i \in DOMAIN rs : rs[i] = r
    BY InOrder DEF Answering, AmongVersions
  <2>2. ToSet(rs) \subseteq A /\ A \subseteq ToSet(rs)
    BY <2>1 DEF ToSet
  <2> QED
    BY <2>2
<1>2. \A r \in A : DOMAIN found[r] = {a.version : a \in l[r]}
  BY DEF BestIn
<1>3. PICK all : all = UNION {DOMAIN found[r] : r \in ToSet(rs)}
  OBVIOUS
<1>4. all = VersionsOf(A, l)
  BY <1>1, <1>2, <1>3 DEF VersionsOf
<1>5. PICK kept : kept = IF sel.requireAllRegions THEN Everywhere(all, ToSet(rs), found) ELSE all
  OBVIOUS
<1>6. kept = QualifiedOf(sel, A, l)
  <2>1. CASE ~sel.requireAllRegions
    BY <1>4, <1>5, <2>1 DEF QualifiedOf
  <2>2. CASE sel.requireAllRegions
    <3>1. ASSUME NEW v, NEW r \in A
          PROVE  (DOMAIN found[r] # {} => v \in DOMAIN found[r])
                    <=> (l[r] # {} => \E a \in l[r] : a.version = v)
      BY <1>2
    <3>2. kept = {v \in VersionsOf(A, l) :
                     \A r \in A : DOMAIN found[r] # {} => v \in DOMAIN found[r]}
      BY <1>1, <1>4, <1>5, <2>2 DEF Everywhere
    <3> QED
      BY <2>2, <3>1, <3>2 DEF QualifiedOf
  <2> QED
    BY <2>1, <2>2
<1>7. IsFiniteSet(kept) /\ kept \subseteq GlanceVersions
  <2>1. kept \subseteq VersionsOf(A, l)
    BY <1>6 DEF QualifiedOf
  <2>2. IsFiniteSet(kept)
    BY <2>1, NormalVersions DEF AmongVersions
  <2> QED
    BY <2>1, <2>2 DEF AmongVersions
<1>8. ToSet(Window(sel, kept)) = Chosen(sel, A, l)
  BY <1>6, <1>7, WindowShows DEF Chosen
<1>9. MergeRegions(sel, rs, found) = AnyOrder(ImagesFor(ToSet(Window(sel, kept)), rs, found))
  BY <1>3, <1>5 DEF MergeRegions, ImagesFor
<1> QED
  BY <1>8, <1>9

LEMMA ChosenListed ==
    ASSUME NEW l, NEW A, NEW sel
    PROVE  Chosen(sel, A, l) \subseteq VersionsOf(A, l)
BY DEF Chosen, InWindow, QualifiedOf

\* Whatever the order in which regions and images come, such images are applied.
LEMMA GlanceApplies ==
    ASSUME NEW l, NEW A, AmongVersions(A, l), NEW rs \in Orders(A),
           NEW found, \A r \in A : BestIn(found[r], l[r]), NEW p, p.select \in Selection
    PROVE  \E ss : /\ GlanceApplied(ss, Chosen(p.select, A, l), A, l, p.allowed)
                   /\ Outcome(p, MergeRegions(p.select, rs, found)) = AppliedTo(p, ss)
<1>0. Answering(A, l)
  BY DEF AmongVersions
<1>1. PICK V : V = Chosen(p.select, A, l)
  OBVIOUS
<1>2. /\ IsFiniteSet(V) /\ V \subseteq Nat /\ Orders2(Ascending(V), V)
      /\ \A v \in V : v \in DOMAIN Normal /\ v \in SemVers /\ v # Unset /\ Normal[v] = v
  BY <1>0, <1>1, ChosenListed, NormalVersions
<1>3. PICK sel \in Selection : sel = p.select
  OBVIOUS
<1>4. PICK image : image = [v \in V |-> GlanceImage(v, RegionsOf(v, rs, found))]
  OBVIOUS
<1>5. PICK S : S = {image[v] : v \in V}
  OBVIOUS
<1>6. MergeRegions(sel, rs, found) = AnyOrder(S)
  <2>1. {GlanceImage(v, RegionsOf(v, rs, found)) : v \in V} = S
    BY <1>4, <1>5
  <2>2. ImagesFor(V, rs, found) = S
    BY <2>1 DEF ImagesFor
  <2> QED
    BY <1>1, <1>3, <2>2, ChosenVersions
<1>7. ASSUME NEW v \in V
      PROVE  /\ image[v].version = v /\ image[v].clean = v
             /\ Made(image[v], v, {<<ArchitectureCapability, 1>>}, A, l)
             /\ image[v] \in SourceImage /\ image[v] \in KeptImage
             /\ WithNormalClean(image[v]) = image[v] /\ Valid(image[v])
  <2>1. PICK q \in Tidy : q = RegionsOf(v, rs, found) /\ ToSet(q) = BestRegions(v, A, l)
    BY <1>0, RegionsGathered DEF Answering
  <2>2. image[v] = [version |-> v, clean |-> v, archs |-> <<1>>,
                    caps |-> {<<ArchitectureCapability, 1>>}, inPlace |-> FALSE, regions |-> q]
    BY <1>4, <2>1 DEF GlanceImage
  <2>3. {<<ArchitectureCapability, 1>>} \in Caps /\ <<1>> \in Seq(Nat) /\ q \in Seq(Region)
    BY DEF Caps, ArchitectureCapability, Tidy
  <2>4. image[v] \in SourceImage /\ image[v] \in KeptImage
    BY <1>2, <2>2, <2>3 DEF SourceImage, KeptImage
  <2>5. [image[v] EXCEPT !.clean = v] = image[v]
    <3>1. PICK x \in SourceImage : x = image[v]
      BY <2>4
    <3>2. x.clean = v
      BY <2>2, <3>1
    <3>3. [x EXCEPT !.clean = v] = x
      BY <3>2 DEF SourceImage
    <3> QED
      BY <3>1, <3>3
  <2>6. WithNormalClean(image[v]) = image[v]
    BY <1>2, <2>2, <2>5 DEF WithNormalClean
  <2>7. Valid(image[v])
    BY <1>2, <2>2 DEF Valid
  <2> QED
    BY <2>1, <2>2, <2>4, <2>6, <2>7 DEF Made
<1>8. IsFiniteSet(S) /\ Cardinality(S) = Cardinality(V)
  <2>1. /\ image \in [V -> S] /\ \A x \in S : \E v \in V : image[v] = x
        /\ \A u, v \in V : image[u] = image[v] => u = v
    <3>1. \A v \in V : image[v] \in S
      BY <1>5
    <3>2. image \in [V -> S]
      BY <1>4, <3>1
    <3>3. \A v \in V : image[v].version = v
      BY <1>7
    <3> QED
      BY <1>5, <3>2, <3>3
  <2>2. image \in Bijection(V, S)
    BY <2>1, Fun_IsBij
  <2>3. image \in Surjection(V, S)
    BY <2>1, Fun_IsSurj
  <2>4. IsFiniteSet(S)
    BY <1>2, <2>3, FS_Surjection
  <2>5. ExistsBijection(V, S)
    BY <2>2 DEF ExistsBijection
  <2> QED
    BY <1>2, <2>4, <2>5, FS_Bijection
<1>9. Offers(S)
  <2>1. ASSUME NEW x \in S PROVE x \in SourceImage /\ \E v \in V : x = image[v] /\ x.version = v
    BY <1>5, <1>7
  <2>2. \A x, y \in S : x.version = y.version => x = y
    BY <2>1
  <2> QED
    BY <1>8, <2>1, <2>2 DEF Offers
<1>10. Kept(S) = S
  <2>1. ASSUME NEW x \in S PROVE Valid(WithNormalClean(x)) /\ WithNormalClean(x) = x
    <3>1. PICK v \in V : x = image[v]
      BY <1>5
    <3>2. WithNormalClean(image[v]) = image[v] /\ Valid(image[v])
      BY <1>7
    <3> QED
      BY <3>1, <3>2
  <2>2. S \subseteq Kept(S) /\ Kept(S) \subseteq S
    BY <2>1 DEF Kept
  <2> QED
    BY <2>2
<1>11. PICK fetched : fetched = FetchedFrom(AnyOrder(S))
  OBVIOUS
<1>12. Follows(fetched, S, Earlier(S))
  BY <1>8, <1>9, <1>10, <1>11, AnyOrderIsOne, FetchedFollows
<1>13. PICK n \in Nat : n = Cardinality(V)
  BY <1>2, FS_CardinalityType
<1>14. fetched \in [1..n -> S] /\ \A i, j \in 1..n : i < j => Before(fetched[i], fetched[j])
  BY <1>8, <1>12, <1>13 DEF Follows, Earlier
<1>15. \A i \in 1..n : \E v \in V : fetched[i] = image[v]
  BY <1>5, <1>14
<1>16. PICK ss : ss = [i \in DOMAIN fetched |-> Allowed(fetched[i], p.allowed)]
  OBVIOUS
<1>17. ASSUME NEW i \in 1..n
       PROVE  /\ ss[i] \in TidyImage /\ ss[i].version = fetched[i].version
              /\ Made(ss[i], ss[i].version, {<<ArchitectureCapability, 1>>} \cap p.allowed, A, l)
  <2>1. PICK v \in V : fetched[i] = image[v]
    BY <1>15
  <2>2. PICK b \in KeptImage : b = image[v]
    BY <1>7
  <2>3. Made(b, v, {<<ArchitectureCapability, 1>>}, A, l)
    BY <1>7, <2>2
  <2>4. PICK t : t = ss[i]
    OBVIOUS
  <2>5. t = [b EXCEPT !.caps = b.caps \cap p.allowed]
    BY <1>14, <1>16, <2>1, <2>2, <2>4 DEF Allowed
  <2>6. /\ t \in KeptImage /\ t.version = b.version /\ t.clean = b.clean
        /\ t.archs = b.archs /\ t.inPlace = b.inPlace /\ t.regions = b.regions
        /\ t.caps = b.caps \cap p.allowed
    BY <2>5 DEF KeptImage, Caps
  <2>7. Made(t, v, {<<ArchitectureCapability, 1>>} \cap p.allowed, A, l) /\ t.version = v
    BY <2>3, <2>6 DEF Made
  <2>8. t \in TidyImage
    BY <2>3, <2>6 DEF TidyImage, Made
  <2> QED
    BY <2>1, <2>2, <2>4, <2>6, <2>7, <2>8
<1>18. ss \in Seq(TidyImage) /\ DOMAIN ss = 1..n
  <2>1. DOMAIN ss = 1..n /\ ss = [i \in 1..n |-> ss[i]]
    BY <1>14, <1>16
  <2>2. \A i \in 1..n : ss[i] \in TidyImage
    BY <1>17
  <2>3. ss \in [1..n -> TidyImage]
    BY <2>1, <2>2
  <2> QED
    BY <2>1, <2>3
<1>19. Follows([i \in DOMAIN ss |-> ss[i].version], V, Ascending(V))
  <2>1. PICK t : t = [i \in DOMAIN ss |-> ss[i].version]
    OBVIOUS
  <2>2. t \in [1..n -> V]
    <3>1. ASSUME NEW i \in 1..n PROVE ss[i].version \in V
      <4>1. PICK v \in V : fetched[i] = image[v]
        BY <1>15
      <4>2. image[v].version = v /\ ss[i].version = fetched[i].version
        BY <1>7, <1>17
      <4> QED
        BY <4>1, <4>2
    <3> QED
      BY <1>18, <2>1, <3>1
  <2>3. ASSUME NEW i \in 1..n, NEW j \in 1..n, i < j PROVE <<t[i], t[j]>> \in Ascending(V)
    <3>1. Before(fetched[i], fetched[j])
      BY <1>14, <2>3
    <3>2. PICK v \in V : fetched[i] = image[v]
      BY <1>15
    <3>3. PICK u \in V : fetched[j] = image[u]
      BY <1>15
    <3>4. /\ image[v].version = v /\ image[v].clean = v
          /\ image[u].version = u /\ image[u].clean = u
      BY <1>7
    <3>5. v < u
      BY <1>2, <3>1, <3>2, <3>3, <3>4 DEF Before, Effective
    <3>6. ss[i].version = fetched[i].version /\ ss[j].version = fetched[j].version
      BY <1>17
    <3>7. t[i] = v /\ t[j] = u
      BY <1>18, <2>1, <3>2, <3>3, <3>4, <3>6
    <3> QED
      BY <3>5, <3>7 DEF Ascending
  <2> QED
    BY <1>13, <2>1, <2>2, <2>3 DEF Follows
<1>20. GlanceApplied(ss, V, A, l, p.allowed)
  BY <1>1, <1>17, <1>18, <1>19, ChosenListed DEF GlanceApplied
<1>21. Outcome(p, MergeRegions(sel, rs, found)) = AppliedTo(p, ss)
  BY <1>6, <1>11, <1>16 DEF Outcome, AppliedTo
<1> QED
  BY <1>1, <1>3, <1>20, <1>21

-----------------------------------------------------------------------------
(***************************************************************************)
(* What has been published, with either source.                            *)
(***************************************************************************)
\* Images under the versions of tags, which have no regions.
Tagged(A) == \A a \in A : a.regions = <<>> /\ \E t \in Tags : a.version = Spelled[t]

\* What OciSource returns it may return together: no two tags spell one version.
LEMMA ReturnedOffers ==
    ASSUME registry \in Registries, NEW ts \in SUBSET DOMAIN registry
    PROVE  Offers(ImagesOf(registry, ts)) /\ Tagged(ImagesOf(registry, ts))
<1> DEFINE passing == {u \in ts : Passes(registry[u])}
           imageOf == [t \in passing |-> SourceImageOf(t, registry[t])]
<1>1. DOMAIN registry \subseteq Tags /\ \A t \in DOMAIN registry : registry[t] \in Manifest
  BY OciAssumption
<1>2. IsFiniteSet(passing)
  BY <1>1, OciAssumption, FS_Subset
<1>3. imageOf \in Surjection(passing, ImagesOf(registry, ts))
  <2>1. imageOf \in [passing -> ImagesOf(registry, ts)]
    BY DEF ImagesOf
  <2>2. \A x \in ImagesOf(registry, ts) : \E t \in passing : imageOf[t] = x
    BY DEF ImagesOf
  <2> HIDE DEF imageOf, passing
  <2> QED
    BY <2>1, <2>2, Fun_IsSurj
<1>4. IsFiniteSet(ImagesOf(registry, ts))
  <2> HIDE DEF imageOf, passing
  <2> QED
    BY <1>2, <1>3, FS_Surjection
<1>5. ASSUME NEW t \in passing
      PROVE  /\ SourceImageOf(t, registry[t]) \in SourceImage
             /\ SourceImageOf(t, registry[t]).version = Spelled[t]
             /\ SourceImageOf(t, registry[t]).regions = <<>>
  <2>1. registry[t] \in Manifest /\ registry[t].clean \in DOMAIN Normal \cup {None}
    BY <1>1, PipelineAssumption
  <2>2. Capabilities(registry[t]) \subseteq Nat \X Nat
    BY <2>1, OciAssumption DEF Capabilities, Manifest, ArchitectureCapability
  <2>3. Spelled[t] \in Nat /\ <<registry[t].arch>> \in Seq(Nat)
    BY <1>1, <2>1, OciAssumption DEF Manifest
  <2> QED
    BY <2>1, <2>2, <2>3 DEF SourceImageOf, SourceImage, None, Unset, Manifest, Caps
<1>6. ASSUME NEW x \in ImagesOf(registry, ts) PROVE \E t \in passing : x = SourceImageOf(t, registry[t])
  BY DEF ImagesOf
<1>7. ASSUME NEW x \in ImagesOf(registry, ts), NEW y \in ImagesOf(registry, ts), x.version = y.version
      PROVE  x = y
  <2>1. PICK t \in passing : x = SourceImageOf(t, registry[t])
    BY <1>6
  <2>2. PICK u \in passing : y = SourceImageOf(u, registry[u])
    BY <1>6
  <2>3. t = u
    BY <1>1, <1>5, <1>7, <2>1, <2>2, OciAssumption
  <2> QED
    BY <2>1, <2>2, <2>3
<1>8. Tagged(ImagesOf(registry, ts))
  BY <1>1, <1>5, <1>6 DEF Tagged
<1> QED
  BY <1>4, <1>5, <1>6, <1>7, <1>8 DEF Offers

\* It is the base, or the outcome of images that may be returned together, in some
\* order.
Published ==
    plan.source = "oci" =>
        \/ arrived = {} /\ profile = plan.images /\ config = plan.config
        \/ /\ Offers(arrived) /\ Tagged(arrived)
           /\ \E ss \in Orders(arrived) : [profile |-> profile, config |-> config] = Outcome(plan, ss)

\* The same of regions, and of their images.
RegionsPublished ==
    plan.source = "glance" =>
        \/ arrived = {} /\ profile = plan.images /\ config = plan.config
        \/ /\ arrived # {} /\ arrived \subseteq DOMAIN listing
           /\ \E rs \in Orders(arrived), os \in ListingOrders(arrived) :
                 [profile |-> profile, config |-> config] =
                    Outcome(plan, MergeRegions(plan.select, rs, [r \in arrived |-> DiscoverRegion(os[r])]))

PipelineInv ==
    /\ SourceInv
    /\ plan \in Plans /\ listing \in Listings
    /\ Published /\ RegionsPublished

\* Nothing has been published at first.
LEMMA InitPipeline == PipelineInit => PipelineInv
  BY InitSource DEF PipelineInit, PipelineInv, Published, RegionsPublished

\* The outcome, as a record.
LEMMA OutcomePublished ==
    ASSUME NEW from, NEW ss, Publish(from, ss)
    PROVE  /\ [profile |-> profile', config |-> config'] = Outcome(plan, ss)
           /\ UNCHANGED <<ociVars, plan, listing>> /\ arrived' = from
<1>1. DOMAIN Outcome(plan, ss) = {"profile", "config"}
  BY DEF Outcome
<1> QED
  BY <1>1 DEF Publish, Outcome

\* What is published comes from what OciSource returned.
LEMMA PublishKeeps == PipelineInv /\ PublishOci => PipelineInv'
<1> SUFFICES ASSUME PipelineInv, PublishOci PROVE PipelineInv'
  OBVIOUS
<1>1. PICK ss \in Orders(returned.images) : Publish(returned.images, ss)
  BY DEF PublishOci
<1>2. UNCHANGED <<ociVars, plan, listing>> /\ arrived' = returned.images /\ plan.source = "oci"
  BY <1>1, OutcomePublished DEF PublishOci
<1>3. SourceInv'
  BY <1>2, NextKeeps DEF PipelineInv
<1>4. registry \in Registries /\ \E ts \in SUBSET DOMAIN registry : returned.images = ImagesOf(registry, ts)
  BY DEF PipelineInv, SourceInv, TypeOK
<1>5. Offers(arrived') /\ Tagged(arrived')
  BY <1>2, <1>4, ReturnedOffers
<1>6. [profile |-> profile', config |-> config'] = Outcome(plan, ss)
  BY <1>1, OutcomePublished
<1>7. RegionsPublished'
  BY <1>2 DEF RegionsPublished
<1> QED
  BY <1>2, <1>3, <1>5, <1>6, <1>7 DEF PipelineInv, Published

\* Or from what regions listed.
LEMMA PublishRegionsKeeps == PipelineInv /\ PublishGlance => PipelineInv'
<1> SUFFICES ASSUME PipelineInv, PublishGlance PROVE PipelineInv'
  OBVIOUS
<1>1. PICK A \in (SUBSET DOMAIN listing) \ {{}} :
         \E rs \in Orders(A), os \in ListingOrders(A) :
            Publish(A, MergeRegions(plan.select, rs, [r \in A |-> DiscoverRegion(os[r])]))
  BY DEF PublishGlance
<1>2. PICK rs \in Orders(A), os \in ListingOrders(A) :
         Publish(A, MergeRegions(plan.select, rs, [r \in A |-> DiscoverRegion(os[r])]))
  BY <1>1
<1>3. UNCHANGED <<ociVars, plan, listing>> /\ arrived' = A /\ plan.source = "glance"
  BY <1>2, OutcomePublished DEF PublishGlance
<1>4. SourceInv'
  BY <1>3, NextKeeps DEF PipelineInv
<1>5. [profile |-> profile', config |-> config'] =
         Outcome(plan, MergeRegions(plan.select, rs, [r \in A |-> DiscoverRegion(os[r])]))
  BY <1>2, OutcomePublished
<1>6. ListingOrders(arrived)' = ListingOrders(A)
  BY <1>3 DEF ListingOrders
<1>7. A # {} /\ A \subseteq DOMAIN listing'
  BY <1>3
<1>8. RegionsPublished'
  BY <1>3, <1>5, <1>6, <1>7 DEF RegionsPublished
<1> QED
  BY <1>3, <1>4, <1>8 DEF PipelineInv, Published

\* Every step keeps the invariant.
LEMMA PipelineKeeps == PipelineInv /\ [Next]_vars => PipelineInv'
<1> SUFFICES ASSUME PipelineInv, [Next]_vars PROVE PipelineInv'
  OBVIOUS
<1>1. ASSUME SourceInv', UNCHANGED pipelineVars PROVE PipelineInv'
  <2>1. UNCHANGED <<plan, listing, arrived, profile, config>>
    BY <1>1 DEF pipelineVars
  <2>2. RegionsPublished'
    <3> SUFFICES ASSUME plan.source = "glance",
                        ~(arrived = {} /\ profile = plan.images /\ config = plan.config)
                 PROVE  /\ arrived' # {} /\ arrived' \subseteq DOMAIN listing'
                        /\ \E rs \in Orders(arrived'), os \in ListingOrders(arrived)' :
                              [profile |-> profile', config |-> config'] =
                                 Outcome(plan', MergeRegions(plan'.select, rs, [r \in arrived' |-> DiscoverRegion(os[r])]))
      BY <2>1 DEF RegionsPublished
    <3>1. ListingOrders(arrived)' = ListingOrders(arrived)
      BY <2>1 DEF ListingOrders
    <3> QED
      BY <2>1, <3>1 DEF PipelineInv, RegionsPublished
  <2> QED
    BY <1>1, <2>1, <2>2 DEF PipelineInv, Published
<1>2. CASE SourceStep
  BY <1>1, <1>2, NextKeeps DEF SourceStep, PipelineInv
<1>3. CASE UNCHANGED vars
  BY <1>1, <1>3, NextKeeps DEF PipelineInv, vars
<1> QED
  BY <1>2, <1>3, PublishKeeps, PublishRegionsKeeps DEF Next

\* The invariant of ImagePipeline.
LEMMA PipelineInvariance == PipelineSpec => []PipelineInv
  BY InitPipeline, PipelineKeeps, PTL DEF PipelineSpec

\* Publishing takes nothing from the source and tells it nothing: the source of the
\* pipeline is OciSource, and with it the abstract source, for any plan.
THEOREM SourceWithin == PipelineSpec => ImplementsSource
<1>1. PipelineInit => Init
  BY DEF PipelineInit
<1>2. [Next]_vars => [SourceNext]_ociVars
  <2>1. CASE PublishOci
    <3>1. UNCHANGED ociVars
      BY <2>1 DEF PublishOci, Publish
    <3> QED
      BY <3>1
  <2>2. CASE PublishGlance
    <3>1. UNCHANGED ociVars
      BY <2>2 DEF PublishGlance, Publish
    <3> QED
      BY <3>1
  <2>3. CASE SourceStep
    BY <2>3 DEF SourceStep
  <2>4. CASE UNCHANGED vars
    BY <2>4 DEF vars
  <2> QED
    BY <2>1, <2>2, <2>3, <2>4 DEF Next
<1>3. PipelineSpec => Spec
  BY <1>1, <1>2, PTL DEF PipelineSpec, Spec
<1> QED
  BY <1>3, Refines, PTL

\* What was published is what any other order would have made.
LEMMA PublishedOnce == PipelineInv => ArrivalIndependent
<1> SUFFICES ASSUME PipelineInv, plan.source = "oci", arrived # {}
             PROVE  [profile |-> profile, config |-> config] = Outcome(plan, AnyOrder(arrived))
  BY DEF ArrivalIndependent
<1>1. Offers(arrived)
  BY DEF PipelineInv, Published
<1>2. PICK ss \in Orders(arrived) : [profile |-> profile, config |-> config] = Outcome(plan, ss)
  BY DEF PipelineInv, Published
<1>3. AnyOrder(arrived) \in Orders(arrived)
  BY <1>1, AnyOrderIsOne DEF Offers
<1>4. FetchedFrom(ss) = FetchedFrom(AnyOrder(arrived))
  BY <1>1, <1>3, FetchedOnce
<1>5. Outcome(plan, ss) = Outcome(plan, AnyOrder(arrived))
  BY <1>4 DEF Outcome
<1> QED
  BY <1>2, <1>5

\* Whatever the registry, its tags and the plan: the order in which the tags answer
\* leaves no trace in the CloudProfile.
THEOREM ArrivalDoesNotMatter == PipelineSpec => []ArrivalIndependent
  BY PipelineInvariance, PublishedOnce, PTL

\* The images of what was published, in the order in which they were applied.
AppliedImages(ss) ==
    /\ ss \in Seq(KeptImage) /\ ToSet(ss) = Variants
    /\ \A i, j \in 1..Len(ss) : i < j => Before(ss[i], ss[j]) /\ ss[i].version # ss[j].version
    /\ \A i \in 1..Len(ss) : ss[i].regions = <<>> /\ \E t \in Tags : ss[i].version = Spelled[t]
    /\ \/ Len(ss) = 0 /\ profile = plan.images /\ config = plan.config
       \/ /\ profile = MachineImages(plan.images, ss)
          /\ config = IF plan.provider = "ironcore" THEN ConfigureIroncore(plan.config, ss)
                      ELSE ConfigureOpenStack(plan.config, ss)

\* There are such images.
LEMMA PublishedImages ==
    ASSUME PipelineInv, plan.source = "oci"
    PROVE  \E ss : AppliedImages(ss)
<1> DEFINE A == arrived
           fetched == FetchedFrom(AnyOrder(A))
           images == [i \in DOMAIN fetched |-> Allowed(fetched[i], plan.allowed)]
<1>1. Variants = {Allowed(x, plan.allowed) : x \in ToSet(fetched)}
  BY DEF Variants
<1>2. Offers(A) /\ Tagged(A)
  <2>1. CASE A = {}
    BY <2>1, FS_EmptySet DEF Offers, Tagged
  <2>2. CASE A # {}
    BY <2>2 DEF PipelineInv, Published
  <2> QED
    BY <2>1, <2>2
<1>3. Follows(fetched, Kept(A), Earlier(Kept(A)))
  BY <1>2, AnyOrderIsOne, FetchedFollows DEF Offers
<1>4. PICK n \in Nat : n = Cardinality(Kept(A)) /\ (A = {} => n = 0)
  <2>1. IsFiniteSet(Kept(A))
    BY <1>2, KeptFinite
  <2>2. A = {} => Cardinality(Kept(A)) = 0
    BY FS_EmptySet DEF Kept
  <2> QED
    BY <2>1, <2>2, FS_CardinalityType
<1>5. /\ fetched \in [1..n -> Kept(A)]
      /\ \A i, j \in 1..n : i < j => Before(fetched[i], fetched[j]) /\ <<fetched[i], fetched[j]>> \in Earlier(Kept(A))
  BY <1>3, <1>4 DEF Follows, Earlier
<1>6. \A i \in 1..n : fetched[i] \in KeptImage
  BY <1>2, <1>5, Normalised DEF Kept, Offers, KeptImage, Caps
<1>7. ASSUME NEW i \in 1..n, NEW j \in 1..n, i < j PROVE fetched[i].version # fetched[j].version
  <2>1. fetched[i] \in Kept(A) /\ fetched[j] \in Kept(A) /\ <<fetched[i], fetched[j]>> \in Earlier(Kept(A))
    BY <1>5, <1>7
  <2>2. \A x \in Kept(A) : <<x, x>> \notin Earlier(Kept(A))
    BY <1>2, EarlierOrders DEF Orders2
  <2> HIDE DEF A, fetched
  <2>3. fetched[i] # fetched[j]
    BY <2>1, <2>2
  <2> QED
    BY <1>2, <2>1, <2>3, KeptOnce
<1>8. ASSUME NEW i \in 1..n
      PROVE  fetched[i].regions = <<>> /\ \E t \in Tags : fetched[i].version = Spelled[t]
  <2>1. fetched[i] \in Kept(A)
    BY <1>5
  <2>2. PICK a \in A : fetched[i] = WithNormalClean(a) /\ a \in SourceImage
    BY <1>2, <2>1 DEF Kept, Offers
  <2>3. fetched[i].version = a.version /\ fetched[i].regions = a.regions
    BY <2>2, Normalised
  <2> QED
    BY <1>2, <2>2, <2>3 DEF Tagged
<1>9. PICK ss : ss = images
  OBVIOUS
<1>10. \A i \in 1..n : /\ ss[i] \in KeptImage
                       /\ ss[i].version = fetched[i].version /\ ss[i].clean = fetched[i].clean
                       /\ ss[i].regions = fetched[i].regions
  BY <1>5, <1>6, <1>9 DEF Allowed, KeptImage, Caps
<1>11. ss \in Seq(KeptImage) /\ Len(ss) = n /\ DOMAIN ss = 1..n
  <2>1. ss \in [1..n -> KeptImage]
    BY <1>5, <1>9, <1>10
  <2> QED
    BY <2>1
<1>12. ToSet(ss) = Variants
  BY <1>1, <1>5, <1>9, <1>11 DEF ToSet
<1>13. \A i, j \in 1..n : i < j => Before(ss[i], ss[j]) /\ ss[i].version # ss[j].version
  <2> SUFFICES ASSUME NEW i \in 1..n, NEW j \in 1..n, i < j
               PROVE  Before(ss[i], ss[j]) /\ ss[i].version # ss[j].version
    OBVIOUS
  <2>1. Before(fetched[i], fetched[j]) /\ fetched[i].version # fetched[j].version
    BY <1>5, <1>7
  <2> HIDE DEF fetched, images
  <2> QED
    BY <1>10, <2>1 DEF Before, Effective
<1>14. \A i \in 1..n : ss[i].regions = <<>> /\ \E t \in Tags : ss[i].version = Spelled[t]
  BY <1>8, <1>10
<1>15. CASE A = {} /\ profile = plan.images /\ config = plan.config
  BY <1>4, <1>11, <1>12, <1>13, <1>14, <1>15 DEF AppliedImages
<1>16. CASE ~(A = {} /\ profile = plan.images /\ config = plan.config)
  <2>1. PICK tt \in Orders(A) : [profile |-> profile, config |-> config] = Outcome(plan, tt)
    BY <1>16 DEF PipelineInv, Published
  <2>2. FetchedFrom(tt) = fetched
    BY <1>2, <2>1, AnyOrderIsOne, FetchedOnce DEF Offers
  <2>3. Outcome(plan, tt) = [profile |-> MachineImages(plan.images, ss),
                             config |-> IF plan.provider = "ironcore"
                                        THEN ConfigureIroncore(plan.config, ss)
                                        ELSE ConfigureOpenStack(plan.config, ss)]
    BY <1>9, <2>2 DEF Outcome
  <2>4. /\ profile = MachineImages(plan.images, ss)
        /\ config = IF plan.provider = "ironcore" THEN ConfigureIroncore(plan.config, ss)
                    ELSE ConfigureOpenStack(plan.config, ss)
    BY <2>1, <2>3
  <2> QED
    BY <1>11, <1>12, <1>13, <1>14, <2>4 DEF AppliedImages
<1> QED
  BY <1>15, <1>16

\* Every variant that was published is among what machineImages offers, whatever the
\* registry and the base.
THEOREM EveryVariantListed == PipelineSpec => []VariantsListed
<1>1. PipelineInv => VariantsListed
  <2> SUFFICES ASSUME PipelineInv, EnableCapabilities, NEW s \in Variants, s.clean # Unset,
                      ~\E u \in Variants : u.version = s.clean /\ Before(s, u)
               PROVE  \E e \in ToSet(profile) :
                         /\ e.version = s.clean
                         /\ ToSet(s.archs) \subseteq ToSet(e.archs)
                         /\ s.caps # {} => s.caps \in ToSet(e.flavors)
    BY DEF VariantsListed
  <2>1. plan.source = "oci"
    BY DEF Variants
  <2>2. PICK ss : AppliedImages(ss)
    BY <2>1, PublishedImages
  <2>3. PICK k \in 1..Len(ss) : s = ss[k]
    BY <2>2 DEF AppliedImages, ToSet
  <2>4. ss \in Seq(KeptImage) /\ profile = MachineImages(plan.images, ss)
    BY <2>2, <2>3 DEF AppliedImages
  <2>5. ASSUME NEW m \in 1..Len(ss), k < m PROVE ss[m].version # ss[k].clean
    <3>1. Before(ss[k], ss[m])
      BY <2>2, <2>5 DEF AppliedImages
    <3>2. ss[m] \in Variants
      BY <2>2 DEF AppliedImages, ToSet
    <3> QED
      BY <2>3, <3>1, <3>2
  <2>6. plan.images \in Seq(VersionEntry)
    BY PipelineAssumption DEF PipelineInv
  <2>7. Listed(profile, s.clean, ToSet(s.archs), s.caps)
    BY <2>3, <2>4, <2>5, <2>6, VariantApplied
  <2> QED
    BY <2>7 DEF Listed, Offered, ToSet
<1> QED
  BY <1>1, PipelineInvariance, PTL

\* The base has a flavor of a variant under its clean version v, and the variant has
\* the capabilities c, which are not those of the flavor.
BaseDiffers(v, c) ==
    \E s \in Variants : /\ s.clean = v /\ s.caps = c
                        /\ RefersOtherwise(plan.config, v, s.version, c)

\* Whatever the registry, and a base that is consistent itself but may refer to the
\* images of the registry: machineImages offers under a version what the provider
\* config resolves, and no less, except for the capabilities of a variant to which the
\* base refers with other ones.
THEOREM FlavorsAlwaysResolve == PipelineSpec => []FlavorsResolve
<1>1. PipelineInv => FlavorsResolve
  <2> SUFFICES ASSUME PipelineInv, plan.provider = "ironcore", plan.source = "oci"
               PROVE  /\ \A e \in ToSet(profile) : \A caps \in ToSet(e.flavors) :
                            \/ \E s \in Variants : s.version = e.version /\ s.caps = caps
                            \/ Resolves(config, e.version, caps)
                            \/ \E s \in Variants :
                                  /\ s.clean = e.version /\ s.caps = caps
                                  /\ RefersOtherwise(plan.config, e.version, s.version, caps)
                      /\ \A p \in ToSet(config) : \A f \in ToSet(p.flavors) :
                            HasFlavor(profile, p.version, f.caps)
    BY DEF FlavorsResolve
  <2>1. PICK ss : AppliedImages(ss)
    BY PublishedImages
  <2>2. PICK images \in Seq(VersionEntry) : images = plan.images
    BY PipelineAssumption DEF PipelineInv
  <2>3. PICK base \in Seq(IroncoreEntry) : base = plan.config
    BY PipelineAssumption DEF PipelineInv
  <2>4. plan \in Plans
    BY DEF PipelineInv
  <2>5. \A v, c : HasFlavor(images, v, c) => Resolves(base, v, c)
    <3>1. \A e \in ToSet(images) : \A caps \in ToSet(e.flavors) : Resolves(base, e.version, caps)
      BY <2>2, <2>3, <2>4, BaseAssumption
    <3>2. \A i \in DOMAIN images : images[i] \in ToSet(images)
      BY DEF ToSet
    <3> QED
      BY <3>1, <3>2 DEF HasFlavor
  <2>6. \A v, c : Resolves(base, v, c) => HasFlavor(images, v, c)
    <3>1. \A e \in ToSet(base) : \A f \in ToSet(e.flavors) : HasFlavor(images, e.version, f.caps)
      BY <2>2, <2>3, <2>4, BaseAssumption
    <3>2. \A i \in DOMAIN base : base[i] \in ToSet(base)
      BY DEF ToSet
    <3> QED
      BY <3>1, <3>2 DEF Resolves
  <2>7. /\ \A v, c : HasFlavor(profile, v, c) =>
                        \/ Resolves(config, v, c)
                        \/ \E s \in Variants : s.version = v /\ s.caps = c
                        \/ BaseDiffers(v, c)
        /\ \A v, c : Resolves(config, v, c) => HasFlavor(profile, v, c)
    <3>1. CASE profile = images /\ config = base
      BY <2>5, <2>6, <3>1
    <3>2. CASE ~(profile = images /\ config = base)
      <4>1. profile = MachineImages(images, ss) /\ config = ConfigureIroncore(base, ss)
        BY <2>1, <2>2, <2>3, <3>2 DEF AppliedImages
      <4>2. /\ ss \in Seq(KeptImage)
            /\ \A i, j \in 1..Len(ss) : i < j => ss[i].version # ss[j].version
        BY <2>1 DEF AppliedImages
      <4>3. InStep(profile, config, base, ss, Len(ss))
        BY <2>5, <2>6, <4>1, <4>2, EndInStep
      <4>4. \A m \in 1..Len(ss) : ss[m] \in Variants
        BY <2>1 DEF AppliedImages, ToSet
      <4> QED
        BY <2>3, <4>3, <4>4 DEF InStep, BaseDiffers
    <3> QED
      BY <3>1, <3>2
  <2>8. \A e \in ToSet(profile) : \A caps \in ToSet(e.flavors) : HasFlavor(profile, e.version, caps)
    <3> SUFFICES ASSUME NEW e \in ToSet(profile), NEW caps \in ToSet(e.flavors)
                 PROVE  HasFlavor(profile, e.version, caps)
      OBVIOUS
    <3>1. PICK i \in DOMAIN profile : e = profile[i]
      BY DEF ToSet
    <3> QED
      BY <3>1 DEF HasFlavor
  <2>9. \A p \in ToSet(config) : \A f \in ToSet(p.flavors) : Resolves(config, p.version, f.caps)
    <3> SUFFICES ASSUME NEW p \in ToSet(config), NEW f \in ToSet(p.flavors)
                 PROVE  Resolves(config, p.version, f.caps)
      OBVIOUS
    <3>1. PICK i \in DOMAIN config : p = config[i]
      BY DEF ToSet
    <3> QED
      BY <3>1 DEF Resolves
  <2>10. ASSUME NEW e \in ToSet(profile), NEW caps \in ToSet(e.flavors)
         PROVE  \/ \E s \in Variants : s.version = e.version /\ s.caps = caps
                \/ Resolves(config, e.version, caps)
                \/ BaseDiffers(e.version, caps)
    <3>1. PICK v : v = e.version
      OBVIOUS
    <3>2. HasFlavor(profile, v, caps)
      BY <2>8, <3>1
    <3> QED
      BY <2>7, <3>1, <3>2
  <2>11. \A p \in ToSet(config) : \A f \in ToSet(p.flavors) : HasFlavor(profile, p.version, f.caps)
    BY <2>7, <2>9
  <2> QED
    BY <2>10, <2>11 DEF BaseDiffers
<1> QED
  BY <1>1, PipelineInvariance, PTL

-----------------------------------------------------------------------------
(***************************************************************************)
(* What has been published, with a Glance source.                          *)
(***************************************************************************)
\* The regions of a listing may answer.
LEMMA ListingAnswers ==
    ASSUME NEW l \in Listings, NEW A \in SUBSET DOMAIN l
    PROVE  AmongVersions(A, l)
<1>1. Answering(A, l)
  BY PipelineAssumption, FS_Subset DEF Answering, IsListing
<1>2. VersionsOf(A, l) \subseteq GlanceVersions
  BY DEF VersionsOf, GlanceVersions
<1> QED
  BY <1>1, <1>2 DEF AmongVersions

SelectedVersions == Chosen(plan.select, arrived, listing)

\* They are those that are selected.
LEMMA SelectedAre ==
    ASSUME listing \in Listings, arrived \subseteq DOMAIN listing
    PROVE  \A v : Selected(v) <=> v \in SelectedVersions
<1>1. PICK Q : Q = QualifiedOf(plan.select, arrived, listing)
  OBVIOUS
<1>2. VersionsOf(arrived, listing) \subseteq GlanceVersions
  BY ListingAnswers DEF AmongVersions
<1>3. \A v : v \in VersionsOf(arrived, listing) <=> \E r \in arrived : Lists(r, v)
  BY DEF VersionsOf, Lists
<1>4. Q = Qualified
  BY <1>1, <1>2, <1>3 DEF Qualified, QualifiedOf, Lists
<1> QED
  BY <1>1, <1>4 DEF Selected, SelectedVersions, Chosen, InWindow, NewerIn

\* The same images are applied but for the order of their regions.
LEMMA GlanceAlike ==
    ASSUME NEW l, NEW A, Answering(A, l), NEW allowed,
           NEW V, NEW ss, GlanceApplied(ss, V, A, l, allowed), NEW ts, GlanceApplied(ts, V, A, l, allowed)
    PROVE  /\ ss \in Seq(TidyImage) /\ ts \in Seq(TidyImage)
           /\ Len(ss) = Len(ts) /\ \A i \in 1..Len(ss) : AlikeButRegions(ss[i], ts[i])
<1>1. PICK v : v = [i \in DOMAIN ss |-> ss[i].version]
  OBVIOUS
<1>2. PICK w : w = [i \in DOMAIN ts |-> ts[i].version]
  OBVIOUS
<1>3. Follows(v, V, Ascending(V)) /\ Follows(w, V, Ascending(V))
  BY <1>1, <1>2 DEF GlanceApplied
<1>4. v = w
  BY <1>3, NormalVersions, OneOrder DEF GlanceApplied
<1>5. ss \in Seq(TidyImage) /\ ts \in Seq(TidyImage)
  BY DEF GlanceApplied
<1>6. DOMAIN ss = DOMAIN ts
  BY <1>1, <1>2, <1>4
<1>7. Len(ss) = Len(ts) /\ DOMAIN ss = 1..Len(ss)
  BY <1>5, <1>6
<1>8. ASSUME NEW i \in 1..Len(ss) PROVE AlikeButRegions(ss[i], ts[i])
  <2>1. ss[i].version = ts[i].version
    BY <1>1, <1>2, <1>4, <1>6, <1>7
  <2>2. /\ Made(ss[i], ss[i].version, {<<ArchitectureCapability, 1>>} \cap allowed, A, l)
        /\ Made(ts[i], ts[i].version, {<<ArchitectureCapability, 1>>} \cap allowed, A, l)
    BY <1>6, <1>7 DEF GlanceApplied
  <2> QED
    BY <2>1, <2>2 DEF Made, AlikeButRegions
<1> QED
  BY <1>5, <1>7, <1>8

\* Each of the versions has one of the images.
LEMMA AppliedVersions ==
    ASSUME NEW l, NEW A, Answering(A, l), NEW allowed, NEW V, NEW ss, GlanceApplied(ss, V, A, l, allowed)
    PROVE  /\ \A i, j \in 1..Len(ss) : i < j => ss[i].version # ss[j].version
           /\ \A i \in 1..Len(ss) : ss[i].version \in V
           /\ \A v \in V : \E i \in 1..Len(ss) : ss[i].version = v
<1>1. PICK n \in Nat : n = Len(ss)
  BY DEF GlanceApplied
<1>2. PICK w : w = [i \in DOMAIN ss |-> ss[i].version]
  OBVIOUS
<1>3. DOMAIN ss = 1..n /\ DOMAIN w = 1..n /\ Follows(w, V, Ascending(V))
  BY <1>1, <1>2 DEF GlanceApplied
<1>4. /\ Cardinality(V) \in Nat
      /\ \A i, j \in 1..Cardinality(V) : w[i] = w[j] => i = j
      /\ \A x \in V : \E i \in 1..Cardinality(V) : w[i] = x
  BY <1>3, NormalVersions, FollowsAll DEF GlanceApplied
<1>5. w \in [1..Cardinality(V) -> V]
  BY <1>3 DEF Follows
<1>6. 1..Cardinality(V) = 1..n
  BY <1>3, <1>5
<1>7. \A i \in 1..n : w[i] = ss[i].version
  BY <1>2, <1>3
<1> QED
  BY <1>1, <1>4, <1>5, <1>6, <1>7

\* There are the images of what was published, and any other orders give such images.
LEMMA RegionsApplied ==
    ASSUME PipelineInv, plan.source = "glance", arrived # {}
    PROVE  /\ AmongVersions(arrived, listing) /\ arrived \subseteq DOMAIN listing
           /\ \E ss : /\ GlanceApplied(ss, SelectedVersions, arrived, listing, plan.allowed)
                      /\ profile = MachineImages(plan.images, ss)
                      /\ config = IF plan.provider = "ironcore"
                                  THEN ConfigureIroncore(plan.config, ss)
                                  ELSE ConfigureOpenStack(plan.config, ss)
           /\ \A r \in arrived : BestIn(DiscoverRegion(AnyOrder(listing[r])), listing[r])
<1>1. /\ arrived \subseteq DOMAIN listing
      /\ \E rs \in Orders(arrived), os \in ListingOrders(arrived) :
            [profile |-> profile, config |-> config] =
               Outcome(plan, MergeRegions(plan.select, rs, [r \in arrived |-> DiscoverRegion(os[r])]))
  BY DEF PipelineInv, RegionsPublished
<1>2. AmongVersions(arrived, listing) /\ plan.select \in Selection
  BY <1>1, ListingAnswers, PipelineAssumption DEF PipelineInv
<1>3. PICK rs \in Orders(arrived), os \in ListingOrders(arrived) :
         [profile |-> profile, config |-> config] =
            Outcome(plan, MergeRegions(plan.select, rs, [r \in arrived |-> DiscoverRegion(os[r])]))
  BY <1>1
<1>4. PICK found : found = [r \in arrived |-> DiscoverRegion(os[r])]
  OBVIOUS
<1>5. \A r \in arrived : BestIn(found[r], listing[r])
  <2> SUFFICES ASSUME NEW r \in arrived PROVE BestIn(found[r], listing[r])
    OBVIOUS
  <2>1. os[r] \in Orders(listing[r]) /\ IsListing(listing[r])
    BY <1>2 DEF ListingOrders, Answering, AmongVersions
  <2> QED
    BY <1>4, <2>1, RegionDiscovered
<1>6. PICK ss : /\ GlanceApplied(ss, SelectedVersions, arrived, listing, plan.allowed)
                /\ Outcome(plan, MergeRegions(plan.select, rs, found)) = AppliedTo(plan, ss)
  BY <1>2, <1>5, GlanceApplies DEF SelectedVersions
<1>7. [profile |-> profile, config |-> config] = AppliedTo(plan, ss)
  BY <1>3, <1>4, <1>6
<1>8. /\ profile = MachineImages(plan.images, ss)
      /\ config = IF plan.provider = "ironcore" THEN ConfigureIroncore(plan.config, ss)
                  ELSE ConfigureOpenStack(plan.config, ss)
  BY <1>7 DEF AppliedTo
<1>9. ASSUME NEW r \in arrived PROVE BestIn(DiscoverRegion(AnyOrder(listing[r])), listing[r])
  <2>1. IsListing(listing[r])
    BY <1>2 DEF Answering, AmongVersions
  <2> QED
    BY <2>1, AnyOrderIsOne, RegionDiscovered DEF IsListing
<1> QED
  BY <1>1, <1>2, <1>6, <1>8, <1>9

\* The base of a plan for OpenStack is tidy, and has flavors only under versions that no
\* source has.
LEMMA BaseTidy ==
    ASSUME NEW p \in Plans, p.provider = "openstack"
    PROVE  /\ p.config \in Seq(TidyEntry)
           /\ \A e \in ToSet(p.config) : e.flavors # <<>> =>
                 e.regions = <<>> /\ e.version \notin SourceVersions
<1>1. PICK base \in Seq(OpenStackEntry) : base = p.config
  BY PipelineAssumption
<1>2. \A e \in ToSet(base) :
         /\ OneEach(e.regions) /\ \A f \in ToSet(e.flavors) : OneEach(f.regions)
         /\ e.flavors # <<>> => e.regions = <<>> /\ e.version \notin SourceVersions
  BY <1>1, BaseAssumption
<1>3. ASSUME NEW i \in DOMAIN base PROVE base[i] \in TidyEntry
  <2>1. PICK e \in OpenStackEntry : e = base[i] /\ e \in ToSet(base)
    BY DEF ToSet
  <2>2. e.regions \in Tidy
    BY <1>2, <2>1 DEF OpenStackEntry, Tidy
  <2>3. ASSUME NEW k \in DOMAIN e.flavors PROVE e.flavors[k].regions \in Tidy
    <3>1. PICK f : f = e.flavors[k]
      OBVIOUS
    <3>2. f \in ToSet(e.flavors)
      BY <3>1 DEF ToSet
    <3>3. f.regions \in Seq(Region)
      <4> DEFINE Flavor == [caps: Caps, regions: Seq(Region)]
      <4>1. e.flavors \in Seq(Flavor)
        BY DEF OpenStackEntry
      <4>2. f \in Flavor
        <5> HIDE DEF Flavor
        <5> QED
          BY <3>1, <4>1
      <4> QED
        BY <4>2
    <3> QED
      BY <1>2, <2>1, <3>1, <3>2, <3>3 DEF Tidy
  <2> QED
    BY <2>1, <2>2, <2>3 DEF TidyEntry
<1>4. base \in Seq(TidyEntry)
  BY <1>3
<1> QED
  BY <1>1, <1>2, <1>4

\* What OpenStack is offered is the base, or what Configure made of it and of the images.
LEMMA OpenStackServed ==
    ASSUME PipelineInv, plan.provider = "openstack"
    PROVE  \/ config = plan.config /\ (plan.source = "glance" => arrived = {})
           \/ \E ss : /\ Served(config, plan.config, ss, Len(ss))
                      /\ plan.source = "glance" => GlanceApplied(ss, SelectedVersions, arrived, listing, plan.allowed)
<1>1. plan \in Plans /\ plan.source \in {"oci", "glance"}
  BY PipelineAssumption DEF PipelineInv
<1>2. PICK base : base = plan.config
  OBVIOUS
<1>3. /\ base \in Seq(TidyEntry)
      /\ \A e \in ToSet(base) : e.flavors # <<>> => e.regions = <<>> /\ e.version \notin SourceVersions
  BY <1>1, <1>2, BaseTidy
<1>4. ASSUME NEW ss \in Seq(TidyImage), config = ConfigureOpenStack(base, ss),
             \A i, j \in 1..Len(ss) : i < j => ss[i].version # ss[j].version,
             \A i \in 1..Len(ss) : ss[i].version \in SourceVersions
      PROVE  Served(config, base, ss, Len(ss))
  <2>1. \A e \in ToSet(base) : e.flavors # <<>> =>
           e.regions = <<>> /\ \A i \in 1..Len(ss) : e.version # ss[i].version
    BY <1>3, <1>4
  <2> QED
    BY <1>3, <1>4, <2>1, ConfiguredServes
<1>5. CASE plan.source = "oci"
  <2>1. PICK ss : AppliedImages(ss)
    BY <1>5, PublishedImages
  <2>2. /\ ss \in Seq(KeptImage)
        /\ \A i, j \in 1..Len(ss) : i < j => ss[i].version # ss[j].version
        /\ \A i \in 1..Len(ss) : ss[i].regions = <<>> /\ \E t \in Tags : ss[i].version = Spelled[t]
    BY <2>1 DEF AppliedImages
  <2>3. <<>> \in Tidy
    BY DEF Tidy, OneEach
  <2>4. \A i \in 1..Len(ss) : ss[i] \in TidyImage
    BY <2>2, <2>3 DEF TidyImage
  <2>5. ss \in Seq(TidyImage)
    BY <2>2, <2>4
  <2>6. \A i \in 1..Len(ss) : ss[i].version \in SourceVersions
    BY <2>2 DEF SourceVersions
  <2>7. CASE config = ConfigureOpenStack(base, ss)
    BY <1>2, <1>4, <1>5, <2>2, <2>5, <2>6, <2>7
  <2>8. CASE config # ConfigureOpenStack(base, ss)
    BY <1>2, <1>5, <2>1, <2>8 DEF AppliedImages
  <2> QED
    BY <2>7, <2>8
<1>6. CASE plan.source = "glance" /\ arrived = {}
  BY <1>6 DEF PipelineInv, RegionsPublished
<1>7. CASE plan.source = "glance" /\ arrived # {}
  <2>1. PICK ss : /\ GlanceApplied(ss, SelectedVersions, arrived, listing, plan.allowed)
                  /\ config = IF plan.provider = "ironcore"
                              THEN ConfigureIroncore(plan.config, ss)
                              ELSE ConfigureOpenStack(plan.config, ss)
    BY <1>7, RegionsApplied
  <2>2. AmongVersions(arrived, listing)
    BY <1>7, RegionsApplied
  <2>3. ss \in Seq(TidyImage)
    BY <2>1 DEF GlanceApplied
  <2>4. SelectedVersions \subseteq SourceVersions
    BY <2>2, ChosenListed DEF AmongVersions, SourceVersions, SelectedVersions
  <2>5. /\ \A i, j \in 1..Len(ss) : i < j => ss[i].version # ss[j].version
        /\ \A i \in 1..Len(ss) : ss[i].version \in SourceVersions
    BY <2>1, <2>2, <2>4, AppliedVersions DEF AmongVersions
  <2>6. config = ConfigureOpenStack(base, ss)
    BY <1>2, <2>1
  <2> QED
    BY <1>2, <1>4, <2>1, <2>3, <2>5, <2>6
<1> QED
  BY <1>1, <1>2, <1>5, <1>6, <1>7

\* Whatever the source, it is never both: the versions of the base that have flavors are
\* not those of images.
THEOREM OneShapeOnly == PipelineSpec => []OneShape
<1>1. PipelineInv => OneShape
  <2> SUFFICES ASSUME PipelineInv, plan.provider = "openstack", NEW e \in ToSet(config)
               PROVE  e.regions = <<>> \/ e.flavors = <<>>
    BY DEF OneShape
  <2>1. plan \in Plans
    BY DEF PipelineInv
  <2>2. CASE config = plan.config
    BY <2>1, <2>2, BaseTidy
  <2>3. CASE \E ss : Served(config, plan.config, ss, Len(ss))
    BY <2>3 DEF Served
  <2> QED
    BY <2>2, <2>3, OpenStackServed
<1> QED
  BY <1>1, PipelineInvariance, PTL

\* The best image of a version is the preferred one.
LEMMA BestPreferred ==
    ASSUME PipelineInv, NEW r \in DOMAIN listing, NEW v, NEW a, IsBest(a, v, listing[r])
    PROVE  Preferred(r, v, a.id)
<1>1. IsListing(listing[r])
  BY PipelineAssumption DEF PipelineInv, IsListing
<1>2. a \in listing[r] /\ a.version = v
  BY DEF IsBest
<1>3. ASSUME NEW b \in listing[r], b.version = v
      PROVE  ~((b.active /\ ~a.active) \/ (b.active = a.active /\ b.created > a.created))
  <2>1. b = a \/ PreferImage(a, b)
    BY <1>3 DEF IsBest
  <2>2. /\ a.active \in BOOLEAN /\ a.created \in Nat /\ a.id \in Nat
        /\ b.active \in BOOLEAN /\ b.created \in Nat /\ b.id \in Nat
    BY <1>1, <1>2, <1>3 DEF IsListing, ListedImage
  <2> QED
    BY <2>1, <2>2 DEF PreferImage
<1> QED
  BY <1>2, <1>3 DEF Preferred

\* Whatever the regions list and which of them answer, in whatever order: OpenStack is
\* offered preferred images of versions that are selected, or what is of the base.
THEOREM PreferredImageOnly == PipelineSpec => []PreferredImage
<1>1. PipelineInv => PreferredImage
  <2> SUFFICES ASSUME PipelineInv, plan.source = "glance", plan.provider = "openstack",
                      NEW e \in ToSet(config), NEW o \in RegionsIn(e),
                      ~\E b \in ToSet(plan.config) : b.version = e.version /\ o \in RegionsIn(b)
               PROVE  /\ Selected(e.version) /\ o.name \in arrived
                      /\ Preferred(o.name, e.version, o.id)
    BY DEF PreferredImage
  <2>1. PICK ss : /\ Served(config, plan.config, ss, Len(ss))
                  /\ GlanceApplied(ss, SelectedVersions, arrived, listing, plan.allowed)
    BY OpenStackServed
  <2>2. PICK m \in 1..Len(ss) : ss[m].version = e.version /\ o \in ToSet(ss[m].regions)
    BY <2>1 DEF Served
  <2>3. arrived # {} => arrived \subseteq DOMAIN listing
    BY RegionsApplied
  <2>4. ToSet(ss[m].regions) = BestRegions(ss[m].version, arrived, listing)
    <3>1. m \in DOMAIN ss
      BY <2>1 DEF GlanceApplied
    <3> QED
      BY <2>1, <3>1 DEF GlanceApplied, Made
  <2>5. o.name \in arrived /\ \E a : IsBest(a, e.version, listing[o.name]) /\ o.id = a.id
    BY <2>2, <2>4 DEF BestRegions
  <2>6. arrived # {} /\ o.name \in DOMAIN listing
    BY <2>3, <2>5
  <2>7. Selected(e.version)
    <3>1. e.version \in SelectedVersions
      <4>1. Answering(arrived, listing)
        BY <2>6, RegionsApplied DEF AmongVersions
      <4> QED
        BY <2>1, <2>2, <4>1, AppliedVersions
    <3> QED
      BY <2>3, <2>6, <3>1, SelectedAre DEF PipelineInv
  <2> QED
    BY <2>5, <2>6, <2>7, BestPreferred
<1> QED
  BY <1>1, PipelineInvariance, PTL

\* And of every region that answered, the preferred image of each version that is
\* selected is offered.
THEOREM AnsweredRegionsServed == PipelineSpec => []RegionsServed
<1>1. PipelineInv => RegionsServed
  <2> SUFFICES ASSUME PipelineInv, plan.source = "glance", plan.provider = "openstack",
                      NEW r \in arrived, NEW a \in listing[r], Selected(a.version)
               PROVE  \E e \in ToSet(config) :
                         /\ e.version = a.version
                         /\ \E o \in RegionsIn(e) : o.name = r /\ Preferred(r, a.version, o.id)
    BY DEF RegionsServed
  <2>1. PICK ss : /\ Served(config, plan.config, ss, Len(ss))
                  /\ GlanceApplied(ss, SelectedVersions, arrived, listing, plan.allowed)
    BY OpenStackServed
  <2>2. /\ Answering(arrived, listing) /\ arrived \subseteq DOMAIN listing
        /\ BestIn(DiscoverRegion(AnyOrder(listing[r])), listing[r])
    BY RegionsApplied DEF AmongVersions
  <2>3. PICK v : v = a.version
    OBVIOUS
  <2>4. PICK b : IsBest(b, v, listing[r])
    BY <2>2, <2>3 DEF BestIn
  <2>5. PICK o : o = [name |-> r, id |-> b.id]
    OBVIOUS
  <2>6. o \in Region
    BY <2>2, <2>4, <2>5 DEF Answering, IsListing, IsBest, ListedImage, Region
  <2>7. o \in BestRegions(v, arrived, listing)
    BY <2>4, <2>5, <2>6 DEF BestRegions
  <2>8. PICK i \in 1..Len(ss) : ss[i].version = v
    <3>1. v \in SelectedVersions
      BY <2>2, <2>3, SelectedAre DEF PipelineInv
    <3> QED
      BY <2>1, <2>2, <3>1, AppliedVersions
  <2>9. ToSet(ss[i].regions) = BestRegions(v, arrived, listing)
    <3>1. i \in DOMAIN ss
      BY <2>1 DEF GlanceApplied
    <3> QED
      BY <2>1, <2>8, <3>1 DEF GlanceApplied, Made
  <2>10. PICK e \in ToSet(config) : e.version = v /\ ToSet(ss[i].regions) \subseteq RegionsIn(e)
    BY <2>1, <2>8 DEF Served
  <2>11. Preferred(r, v, b.id)
    BY <2>2, <2>4, BestPreferred
  <2> QED
    BY <2>3, <2>5, <2>7, <2>9, <2>10, <2>11
<1> QED
  BY <1>1, PipelineInvariance, PTL

\* The order in which regions answer, and that of the images of a region, leave no trace
\* in the CloudProfile.
THEOREM RegionsDoNotMatter == PipelineSpec => []RegionsIndependent
<1>1. PipelineInv => RegionsIndependent
  <2> DEFINE best == [r \in arrived |-> DiscoverRegion(AnyOrder(listing[r]))]
  <2> SUFFICES ASSUME PipelineInv, plan.source = "glance", arrived # {}
               PROVE  [profile |-> profile, config |-> config] =
                         Outcome(plan, MergeRegions(plan.select, AnyOrder(arrived), best))
    BY DEF RegionsIndependent
  <2>1. PICK found : found = best
    OBVIOUS
  <2>2. /\ AmongVersions(arrived, listing)
        /\ \A r \in arrived : BestIn(found[r], listing[r])
    BY <2>1, RegionsApplied
  <2>3. AnyOrder(arrived) \in Orders(arrived)
    BY <2>2, AnyOrderIsOne DEF Answering, AmongVersions
  <2>4. PICK ts : /\ GlanceApplied(ts, SelectedVersions, arrived, listing, plan.allowed)
                  /\ Outcome(plan, MergeRegions(plan.select, AnyOrder(arrived), found)) = AppliedTo(plan, ts)
    <3>1. plan.select \in Selection
      BY PipelineAssumption DEF PipelineInv
    <3> QED
      BY <2>2, <2>3, <3>1, GlanceApplies DEF SelectedVersions
  <2>5. PICK ss : /\ GlanceApplied(ss, SelectedVersions, arrived, listing, plan.allowed)
                  /\ profile = MachineImages(plan.images, ss)
                  /\ config = IF plan.provider = "ironcore"
                              THEN ConfigureIroncore(plan.config, ss)
                              ELSE ConfigureOpenStack(plan.config, ss)
    BY RegionsApplied
  <2>6. /\ ss \in Seq(TidyImage) /\ ts \in Seq(TidyImage)
        /\ Len(ss) = Len(ts) /\ \A i \in 1..Len(ss) : AlikeButRegions(ss[i], ts[i])
    BY <2>2, <2>4, <2>5, GlanceAlike DEF AmongVersions
  <2>7. ss \in Seq(KeptImage) /\ ts \in Seq(KeptImage)
    <3>1. TidyImage \subseteq KeptImage
      BY DEF TidyImage
    <3> QED
      BY <2>6, <3>1
  <2>8. plan \in Plans
    BY DEF PipelineInv
  <2>9. MachineImages(plan.images, ss) = MachineImages(plan.images, ts)
    BY <2>6, <2>7, <2>8, AppliedAlike, PipelineAssumption
  <2>10. CASE plan.provider = "ironcore"
    <3>1. plan.config \in Seq(IroncoreEntry)
      BY <2>8, <2>10, PipelineAssumption
    <3>2. ConfigureIroncore(plan.config, ss) = ConfigureIroncore(plan.config, ts)
      BY <2>6, <2>7, <3>1, AppliedAlike
    <3> QED
      BY <2>1, <2>4, <2>5, <2>9, <2>10, <3>2 DEF AppliedTo
  <2>11. CASE plan.provider = "openstack"
    <3>1. plan.config \in Seq(TidyEntry)
      BY <2>8, <2>11, BaseTidy
    <3>2. ConfigureOpenStack(plan.config, ss) = ConfigureOpenStack(plan.config, ts)
      BY <2>6, <3>1, ConfiguredAlike
    <3> QED
      BY <2>1, <2>4, <2>5, <2>9, <2>11, <3>2 DEF AppliedTo
  <2> QED
    BY <2>8, <2>10, <2>11, PipelineAssumption
<1> QED
  BY <1>1, PipelineInvariance, PTL
=============================================================================
