------------------------- MODULE ImageUpdaterProofs -------------------------
(***************************************************************************)
(* Lemmas about ImageUpdater: Fetch puts images in one order only, Apply   *)
(* loses no variant of a version, and Configure says what Apply does.      *)
(*                                                                         *)
(* What is said of every finite set, or of every number of loop rounds, is *)
(* proved by taking a smallest one of which it is not true.                *)
(***************************************************************************)
EXTENDS ImageUpdater, FiniteSetTheorems, FunctionTheorems, WellFoundedInduction, TLAPS

-----------------------------------------------------------------------------
(***************************************************************************)
(* Orders, as sets of pairs, and the sequences that follow them.           *)
(***************************************************************************)
\* R tells any two members of S apart.
Orders2(R, S) ==
    /\ \A x \in S : <<x, x>> \notin R
    /\ \A x, y \in S : x = y \/ <<x, y>> \in R \/ <<y, x>> \in R
    /\ \A x, y, z \in S : <<x, y>> \in R /\ <<y, z>> \in R => <<x, z>> \in R

IsFirst(m, S, R) == m \in S /\ \A x \in S : x = m \/ <<m, x>> \in R

\* The members of S, each once, along R.
Follows(s, S, R) ==
    /\ s \in [1..Cardinality(S) -> S]
    /\ \A i, j \in 1..Cardinality(S) : i < j => <<s[i], s[j]>> \in R

\* A finite set has a first member: a smallest set without one would have one after
\* all, any of its members or the first of the rest.
LEMMA FirstExists ==
    ASSUME NEW S, IsFiniteSet(S), S # {}, NEW R, Orders2(R, S)
    PROVE  \E m \in S : IsFirst(m, S, R)
<1> DEFINE Bad == {U \in FiniteSubsetsOf(S) : U # {} /\ ~\E m \in U : IsFirst(m, U, R)}
<1> SUFFICES ASSUME ~\E m \in S : IsFirst(m, S, R) PROVE FALSE
  OBVIOUS
<1>1. Bad # {} /\ Bad \subseteq FiniteSubsetsOf(S)
  BY DEF FiniteSubsetsOf
<1>2. IsWellFoundedOn(StrictSubsetOrdering(S), FiniteSubsetsOf(S))
  BY FS_StrictSubsetOrderingWellFounded
<1>3. PICK U \in Bad : \A V \in Bad : ~(<<V, U>> \in StrictSubsetOrdering(S))
  <2> HIDE DEF Bad
  <2> QED
    BY <1>1, <1>2, WFMin
<1>4. PICK x \in U : TRUE
  OBVIOUS
<1>5. U \subseteq S /\ IsFiniteSet(U)
  BY DEF FiniteSubsetsOf
<1> DEFINE V == U \ {x}
<1>6. V \subseteq U /\ V # U /\ IsFiniteSet(V)
  BY <1>5, FS_RemoveElement
<1>7. <<V, U>> \in StrictSubsetOrdering(S)
  BY <1>5, <1>6 DEF StrictSubsetOrdering
<1>8. V = {} \/ \E m \in V : IsFirst(m, V, R)
  BY <1>3, <1>5, <1>6, <1>7 DEF FiniteSubsetsOf
<1>9. \E m \in U : IsFirst(m, U, R)
  <2>1. CASE V = {}
    BY <2>1 DEF IsFirst
  <2>2. CASE V # {}
    <3>1. PICK m \in V : IsFirst(m, V, R)
      BY <1>8, <2>2
    <3>2. CASE <<m, x>> \in R
      BY <3>1, <3>2 DEF IsFirst
    <3>3. CASE <<x, m>> \in R
      <4>1. ASSUME NEW y \in U PROVE y = x \/ <<x, y>> \in R
        BY <1>5, <3>1, <3>3 DEF IsFirst, Orders2
      <4> QED
        BY <4>1 DEF IsFirst
    <3>4. m # x /\ m \in S /\ x \in S
      BY <1>5
    <3> QED
      BY <3>2, <3>3, <3>4 DEF Orders2
  <2> QED
    BY <2>1, <2>2
<1> QED
  BY <1>9

\* A finite set can be put in order: its first member before the others.
LEMMA OrderExists ==
    ASSUME NEW S, IsFiniteSet(S), NEW R, Orders2(R, S)
    PROVE  \E s : Follows(s, S, R)
<1> DEFINE Bad == {U \in FiniteSubsetsOf(S) : ~\E s : Follows(s, U, R)}
<1> SUFFICES ASSUME ~\E s : Follows(s, S, R) PROVE FALSE
  OBVIOUS
<1>1. Bad # {} /\ Bad \subseteq FiniteSubsetsOf(S)
  BY DEF FiniteSubsetsOf
<1>2. IsWellFoundedOn(StrictSubsetOrdering(S), FiniteSubsetsOf(S))
  BY FS_StrictSubsetOrderingWellFounded
<1>3. PICK U \in Bad : \A V \in Bad : ~(<<V, U>> \in StrictSubsetOrdering(S))
  <2> HIDE DEF Bad
  <2> QED
    BY <1>1, <1>2, WFMin
<1>4. U \subseteq S /\ IsFiniteSet(U)
  BY DEF FiniteSubsetsOf
<1>5. CASE U = {}
  <2>1. Cardinality(U) = 0
    BY <1>5, FS_EmptySet
  <2>2. Follows([i \in {} |-> 0], U, R)
    BY <2>1 DEF Follows
  <2> QED
    BY <2>2
<1>6. CASE U # {}
  <2>0. Orders2(R, U)
    BY <1>4 DEF Orders2
  <2>1. PICK m \in U : IsFirst(m, U, R)
    BY <1>4, <1>6, <2>0, FirstExists
  <2> DEFINE V == U \ {m}
             n == Cardinality(V)
  <2>2. V \subseteq U /\ V # U /\ IsFiniteSet(V) /\ n \in Nat
    BY <1>4, FS_RemoveElement, FS_CardinalityType
  <2>3. Cardinality(U) = n + 1
    BY <1>4, <2>2, FS_RemoveElement, FS_CardinalityType
  <2>4. <<V, U>> \in StrictSubsetOrdering(S)
    BY <1>4, <2>2 DEF StrictSubsetOrdering
  <2>5. PICK s : Follows(s, V, R)
    BY <1>3, <1>4, <2>2, <2>4 DEF FiniteSubsetsOf
  <2>6. \A x \in V : <<m, x>> \in R
    BY <2>1 DEF IsFirst
  <2> HIDE DEF n
  <2> DEFINE t == [i \in 1..(n + 1) |-> IF i = 1 THEN m ELSE s[i - 1]]
  <2>7. s \in [1..n -> V] /\ \A i, j \in 1..n : i < j => <<s[i], s[j]>> \in R
    BY <2>5 DEF Follows, n
  <2>8. \A i \in 1..(n + 1) : i # 1 => i - 1 \in 1..n /\ t[i] = s[i - 1] /\ t[i] \in V
    BY <2>2, <2>7
  <2>9. t \in [1..(n + 1) -> U]
    BY <2>8
  <2>10. ASSUME NEW i \in 1..(n + 1), NEW j \in 1..(n + 1), i < j PROVE <<t[i], t[j]>> \in R
    <3>1. j # 1 /\ t[j] = s[j - 1] /\ j - 1 \in 1..n /\ t[j] \in V
      BY <2>2, <2>8, <2>10
    <3>2. CASE i = 1
      BY <2>2, <2>6, <3>1, <3>2
    <3>3. CASE i # 1
      <4>1. t[i] = s[i - 1] /\ i - 1 \in 1..n /\ i - 1 < j - 1
        BY <2>2, <2>8, <2>10, <3>3
      <4> QED
        BY <2>7, <3>1, <4>1
    <3> QED
      BY <3>2, <3>3
  <2>11. Follows(t, U, R)
    BY <2>3, <2>9, <2>10 DEF Follows
  <2> QED
    BY <2>11
<1> QED
  BY <1>5, <1>6

\* Such a sequence has every member once.
LEMMA FollowsAll ==
    ASSUME NEW S, IsFiniteSet(S), NEW R, Orders2(R, S), NEW s, Follows(s, S, R)
    PROVE  /\ Cardinality(S) \in Nat
           /\ \A i, j \in 1..Cardinality(S) : s[i] = s[j] => i = j
           /\ \A x \in S : \E i \in 1..Cardinality(S) : s[i] = x
<1> DEFINE n == Cardinality(S)
<1>1. n \in Nat
  BY FS_CardinalityType
<1>2. s \in [1..n -> S] /\ \A i, j \in 1..n : i < j => <<s[i], s[j]>> \in R
  BY DEF Follows
<1>3. ASSUME NEW i \in 1..n, NEW j \in 1..n, s[i] = s[j] PROVE i = j
  <2>1. ~(i < j) /\ ~(j < i)
    BY <1>2, <1>3 DEF Orders2
  <2> QED
    BY <1>1, <2>1
<1>4. s \in Injection(1..n, S)
  BY <1>2, <1>3, Fun_IsInj
<1>5. Cardinality(1..n) = n
  BY <1>1, FS_Interval
<1>6. s \in Surjection(1..n, S)
  BY <1>4, <1>5, FS_Injection
<1> QED
  BY <1>1, <1>3, <1>6 DEF Surjection

\* A set of numbers that is not empty has a least.
LEMMA LeastExists ==
    ASSUME NEW S, S \subseteq Nat, S # {}
    PROVE  \E m \in S : \A x \in S : m <= x
<1> DEFINE less == {p \in Nat \X Nat : p[1] < p[2]}
<1>1. PICK k \in S : TRUE
  OBVIOUS
<1> DEFINE T == S \cap 0..k
<1>2. IsFiniteSet(T) /\ k \in T
  <2>1. k \in Int /\ 0 \in Int
    OBVIOUS
  <2>2. IsFiniteSet(0..k)
    BY <2>1, FS_Interval
  <2> QED
    BY <2>2, FS_Subset
<1>3. Orders2(less, T)
  BY DEF Orders2
<1>4. PICK m \in T : IsFirst(m, T, less)
  <2> HIDE DEF T, less
  <2> QED
    BY <1>2, <1>3, FirstExists
<1>5. ASSUME NEW x \in S PROVE m <= x
  <2>1. CASE x \in T
    <3>1. x = m \/ <<m, x>> \in less
      BY <1>4, <2>1 DEF IsFirst
    <3>2. m \in Nat
      BY <1>4
    <3> QED
      BY <3>1, <3>2
  <2>2. CASE x \notin T
    BY <1>4, <2>2
  <2> QED
    BY <2>1, <2>2
<1> QED
  BY <1>4, <1>5

\* There is one way only to put a set in order.
LEMMA OneOrder ==
    ASSUME NEW S, IsFiniteSet(S), NEW R, Orders2(R, S),
           NEW s, Follows(s, S, R), NEW t, Follows(t, S, R)
    PROVE  s = t
<1> DEFINE n == Cardinality(S)
           differ == {i \in 1..n : s[i] # t[i]}
<1>1. n \in Nat
  BY FS_CardinalityType
<1>2. /\ s \in [1..n -> S] /\ \A i, j \in 1..n : i < j => <<s[i], s[j]>> \in R
      /\ t \in [1..n -> S] /\ \A i, j \in 1..n : i < j => <<t[i], t[j]>> \in R
  BY DEF Follows
<1>3. /\ \A i, j \in 1..n : s[i] = s[j] => i = j
      /\ \A x \in S : \E i \in 1..n : s[i] = x
  BY FollowsAll
<1>4. /\ \A i, j \in 1..n : t[i] = t[j] => i = j
      /\ \A x \in S : \E i \in 1..n : t[i] = x
  BY FollowsAll
<1> HIDE DEF n
<1>5. ASSUME differ # {} PROVE FALSE
  <2>1. PICK i \in differ : \A x \in differ : i <= x
    <3>1. differ \subseteq Nat
      BY <1>1
    <3> HIDE DEF differ
    <3> QED
      BY <1>5, <3>1, LeastExists
  <2>2. i \in 1..n /\ s[i] \in S /\ t[i] \in S /\ s[i] # t[i]
    BY <1>2
  <2>3. PICK j \in 1..n : t[j] = s[i]
    BY <1>4, <2>2
  <2>4. PICK k \in 1..n : s[k] = t[i]
    BY <1>3, <2>2
  <2>5. i < j
    <3>1. j # i /\ (j < i => j \notin differ)
      BY <1>1, <2>1, <2>2, <2>3
    <3> QED
      BY <1>1, <1>3, <2>2, <2>3, <3>1
  <2>6. i < k
    <3>1. k # i /\ (k < i => k \notin differ)
      BY <1>1, <2>1, <2>2, <2>4
    <3> QED
      BY <1>1, <1>4, <2>2, <2>4, <3>1
  <2>7. <<t[i], s[i]>> \in R /\ <<s[i], t[i]>> \in R
    BY <1>2, <2>2, <2>3, <2>4, <2>5, <2>6
  <2> QED
    BY <2>2, <2>7 DEF Orders2
<1>6. \A i \in 1..n : s[i] = t[i]
  BY <1>5
<1>7. s \in [1..n -> S] /\ t \in [1..n -> S]
  BY <1>2
<1> HIDE DEF differ
<1>8. s = [i \in 1..n |-> s[i]] /\ t = [i \in 1..n |-> t[i]]
  BY <1>7
<1>9. [i \in 1..n |-> s[i]] = [i \in 1..n |-> t[i]]
  BY <1>6
<1> QED
  BY <1>8, <1>9

-----------------------------------------------------------------------------
(***************************************************************************)
(* Fetch: the images a source returns have one order only.                 *)
(***************************************************************************)
SourceImage == [version: Nat, clean: DOMAIN Normal \cup {Unset}, archs: Seq(Nat),
                caps: Caps, regions: Seq(Region), inPlace: BOOLEAN]

\* Images that a source may return together: one for each version.
Offers(A) ==
    /\ IsFiniteSet(A) /\ A \subseteq SourceImage
    /\ \A a, b \in A : a.version = b.version => a = b

\* An image as Apply has it.
KeptImage == [version: Nat, clean: SemVers \cup {Unset}, archs: Seq(Nat),
              caps: Caps, regions: Seq(Region), inPlace: BOOLEAN]

\* What Fetch keeps of them, and how it orders that.
Kept(A) == {WithNormalClean(a) : a \in {b \in A : Valid(WithNormalClean(b))}}
Earlier(A) == {p \in A \X A : Before(p[1], p[2])}

\* Fetch changes the clean version only, into a semantic one or none.
LEMMA Normalised ==
    ASSUME NEW a \in SourceImage
    PROVE  LET b == WithNormalClean(a) IN
           /\ b \in KeptImage
           /\ b.version = a.version /\ b.archs = a.archs /\ b.caps = a.caps
           /\ b.regions = a.regions /\ b.inPlace = a.inPlace
           /\ Effective(b) \in Nat
<1>1. CASE a.clean = Unset
  BY <1>1 DEF SourceImage, KeptImage, WithNormalClean, Effective, Unset
<1>2. CASE a.clean # Unset
  <2>1. Normal[a.clean] \in SemVers \cup {Unset}
    BY <1>2, UpdaterAssumption DEF SourceImage, Unset
  <2>2. WithNormalClean(a) = [a EXCEPT !.clean = Normal[a.clean]]
    BY <1>2 DEF WithNormalClean
  <2> QED
    BY <2>1, <2>2, UpdaterAssumption DEF SourceImage, KeptImage, Effective, Unset
<1> QED
  BY <1>1, <1>2

\* No two of them are of one version.
LEMMA KeptOnce ==
    ASSUME NEW A, Offers(A), NEW x \in Kept(A), NEW y \in Kept(A), x.version = y.version
    PROVE  x = y
<1>1. PICK a \in A : x = WithNormalClean(a) /\ a \in SourceImage
  BY DEF Kept, Offers
<1>2. PICK b \in A : y = WithNormalClean(b) /\ b \in SourceImage
  BY DEF Kept, Offers
<1>3. a.version = x.version /\ b.version = y.version
  BY <1>1, <1>2, Normalised
<1> QED
  BY <1>1, <1>2, <1>3 DEF Offers

\* So their order tells any two of them apart.
LEMMA EarlierOrders ==
    ASSUME NEW A, Offers(A)
    PROVE  Orders2(Earlier(Kept(A)), Kept(A))
<1>1. ASSUME NEW x \in Kept(A) PROVE x.version \in Nat /\ Effective(x) \in Nat
  BY Normalised DEF Kept, Offers, SourceImage
<1>2. \A x \in Kept(A) : ~Before(x, x)
  BY <1>1 DEF Before
<1>3. \A x, y \in Kept(A) : x = y \/ Before(x, y) \/ Before(y, x)
  BY <1>1, KeptOnce DEF Before
<1>4. \A x, y, z \in Kept(A) : Before(x, y) /\ Before(y, z) => Before(x, z)
  BY <1>1 DEF Before
<1> QED
  BY <1>2, <1>3, <1>4 DEF Orders2, Earlier

\* The images in an order, as Orders has them.
LEMMA InOrder ==
    ASSUME NEW A, IsFiniteSet(A), NEW ss \in Orders(A)
    PROVE  /\ ss \in [1..Cardinality(A) -> A]
           /\ \A i, j \in DOMAIN ss : ss[i] = ss[j] => i = j
           /\ \A a \in A : \E i \in DOMAIN ss : ss[i] = a
<1> DEFINE n == Cardinality(A)
<1>1. n \in Nat
  BY FS_CardinalityType
<1>2. ss \in [1..n -> A] /\ \A i, j \in 1..n : ss[i] = ss[j] => i = j
  BY DEF Orders
<1>3. ss \in Injection(1..n, A)
  BY <1>2, Fun_IsInj
<1>4. Cardinality(1..n) = n
  BY <1>1, FS_Interval
<1>5. ss \in Surjection(1..n, A)
  BY <1>3, <1>4, FS_Injection
<1> QED
  BY <1>2, <1>5 DEF Surjection

\* What a relation tells apart can be sorted by it.
LEMMA SortingExists ==
    ASSUME NEW S, IsFiniteSet(S), NEW R, Orders2(R, S)
    PROVE  \E p \in [1..Cardinality(S) -> S] :
              \A i, j \in DOMAIN p : i < j => p[i] # p[j] /\ <<p[j], p[i]>> \notin R
<1>1. PICK p : Follows(p, S, R)
  BY OrderExists
<1>2. PICK n : n = Cardinality(S)
  OBVIOUS
<1>3. p \in [1..n -> S] /\ \A i, j \in 1..n : i < j => <<p[i], p[j]>> \in R
  BY <1>1, <1>2 DEF Follows
<1>4. \A i, j \in DOMAIN p : i < j => p[i] # p[j] /\ <<p[j], p[i]>> \notin R
  BY <1>3 DEF Orders2
<1> QED
  BY <1>2, <1>3, <1>4

\* Fetch keeps the valid images and puts them in that order, whatever the order in
\* which they arrived.
LEMMA FetchedFollows ==
    ASSUME NEW A, Offers(A), NEW ss \in Orders(A)
    PROVE  Follows(FetchedFrom(ss), Kept(A), Earlier(Kept(A)))
<1> DEFINE image(i) == WithNormalClean(ss[i])
           kept == {i \in DOMAIN ss : Valid(image(i))}
           places == 1..Cardinality(kept)
           rel == {p \in kept \X kept : Before(image(p[1]), image(p[2]))}
           Sorts(p) == \A i, j \in DOMAIN p :
                          i < j => p[i] # p[j] /\ ~Before(image(p[j]), image(p[i]))
           order == CHOOSE p \in [places -> kept] : Sorts(p)
<1>1. /\ ss \in [1..Cardinality(A) -> A]
      /\ \A i, j \in DOMAIN ss : ss[i] = ss[j] => i = j
      /\ \A a \in A : \E i \in DOMAIN ss : ss[i] = a
  BY InOrder DEF Offers
<1>2. IsFiniteSet(A) /\ Cardinality(A) \in Nat
  BY FS_CardinalityType DEF Offers
<1>3. IsFiniteSet(kept) /\ Cardinality(kept) \in Nat
  <2>1. IsFiniteSet(DOMAIN ss)
    BY <1>1, <1>2, FS_Interval
  <2> QED
    BY <2>1, FS_Subset, FS_CardinalityType
<1>4. \A i \in kept : image(i) \in Kept(A)
  BY <1>1 DEF Kept
<1>5. ASSUME NEW i \in kept, NEW j \in kept, image(i) = image(j) PROVE i = j
  <2>1. ss[i] \in A /\ ss[j] \in A /\ ss[i] \in SourceImage /\ ss[j] \in SourceImage
    BY <1>1 DEF Offers
  <2>2. ss[i].version = ss[j].version
    BY <1>5, <2>1, Normalised
  <2>3. ss[i] = ss[j]
    BY <2>1, <2>2 DEF Offers
  <2> QED
    BY <1>1, <2>3
<1>6. Orders2(Earlier(Kept(A)), Kept(A))
  BY EarlierOrders
<1>7. /\ \A i \in kept : ~Before(image(i), image(i))
      /\ \A i, j \in kept : i = j \/ Before(image(i), image(j)) \/ Before(image(j), image(i))
      /\ \A i, j, k \in kept : Before(image(i), image(j)) /\ Before(image(j), image(k))
                                  => Before(image(i), image(k))
      /\ \A i, j \in kept : Before(image(i), image(j)) => ~Before(image(j), image(i))
  <2>1. \A x, y \in Kept(A) : <<x, y>> \in Earlier(Kept(A)) <=> Before(x, y)
    BY DEF Earlier
  <2> HIDE DEF image, kept
  <2> QED
    BY <1>4, <1>5, <1>6, <2>1 DEF Orders2
<1>8. Orders2(rel, kept)
  <2> HIDE DEF image, kept
  <2> QED
    BY <1>7 DEF Orders2
<1>9. \E p \in [places -> kept] : Sorts(p)
  <2>1. PICK p \in [places -> kept] :
           \A i, j \in DOMAIN p : i < j => p[i] # p[j] /\ <<p[j], p[i]>> \notin rel
    <3> HIDE DEF kept, rel
    <3> QED
      BY <1>3, <1>8, SortingExists
  <2> HIDE DEF image, kept, places
  <2>2. Sorts(p)
    BY <2>1
  <2> QED
    BY <2>1, <2>2
<1>10. order \in [places -> kept] /\ Sorts(order)
  <2> HIDE DEF Sorts, places, kept
  <2> QED
    BY <1>9
<1>11. Cardinality(Kept(A)) = Cardinality(kept)
  <2> DEFINE f == [i \in kept |-> image(i)]
  <2>1. \A x \in Kept(A) : \E i \in kept : image(i) = x
    BY <1>1 DEF Kept
  <2> HIDE DEF kept, image
  <2>2. f \in Bijection(kept, Kept(A))
    BY <1>4, <1>5, <2>1, Fun_IsBij
  <2>3. ExistsBijection(kept, Kept(A))
    BY <2>2 DEF ExistsBijection
  <2> QED
    BY <1>3, <2>3, FS_Bijection
<1>12. FetchedFrom(ss) = [i \in places |-> image(order[i])]
  BY <1>10 DEF FetchedFrom, Sorted
<1> HIDE DEF image, kept, order
<1>13. \A i \in places : order[i] \in kept /\ image(order[i]) \in Kept(A)
  BY <1>4, <1>10
<1>14. ASSUME NEW i \in places, NEW j \in places, i < j
       PROVE  <<image(order[i]), image(order[j])>> \in Earlier(Kept(A))
  <2>1. Before(image(order[i]), image(order[j]))
    BY <1>7, <1>10, <1>13, <1>14
  <2> QED
    BY <1>13, <2>1 DEF Earlier
<1> QED
  BY <1>11, <1>12, <1>13, <1>14 DEF Follows

\* Of finitely many images it keeps finitely many.
LEMMA KeptFinite ==
    ASSUME NEW A, Offers(A)
    PROVE  IsFiniteSet(Kept(A))
<1> DEFINE B == {b \in A : Valid(WithNormalClean(b))}
           f == [b \in B |-> WithNormalClean(b)]
<1>1. IsFiniteSet(B)
  BY FS_Subset DEF Offers
<1>2. f \in [B -> Kept(A)] /\ \A x \in Kept(A) : \E b \in B : f[b] = x
  BY DEF Kept
<1> HIDE DEF B, f
<1>3. f \in Surjection(B, Kept(A))
  BY <1>2, Fun_IsSurj
<1> QED
  BY <1>1, <1>3, FS_Surjection

\* So Fetch returns the same whatever the order in which the images arrived.
LEMMA FetchedOnce ==
    ASSUME NEW A, Offers(A), NEW ss \in Orders(A), NEW tt \in Orders(A)
    PROVE  FetchedFrom(ss) = FetchedFrom(tt)
<1>1. IsFiniteSet(Kept(A))
  BY KeptFinite
<1>2. /\ Follows(FetchedFrom(ss), Kept(A), Earlier(Kept(A)))
      /\ Follows(FetchedFrom(tt), Kept(A), Earlier(Kept(A)))
  BY FetchedFollows
<1> QED
  BY <1>1, <1>2, EarlierOrders, OneOrder

\* A finite set has an order, and AnyOrder is one.
LEMMA AnyOrderIsOne ==
    ASSUME NEW A, IsFiniteSet(A)
    PROVE  AnyOrder(A) \in Orders(A)
<1>1. PICK f : f \in Bijection(1..Cardinality(A), A)
  BY FS_CountingElements, FS_NatBijection, FS_CardinalityType DEF ExistsBijection
<1>2. f \in [1..Cardinality(A) -> A] /\ IsInjective(f)
  BY <1>1 DEF Bijection, Injection, IsInjective
<1>3. \E g \in [1..Cardinality(A) -> A] : IsInjective(g)
  BY <1>2
<1>4. SetToSeq(A) \in [1..Cardinality(A) -> A] /\ IsInjective(SetToSeq(A))
  BY <1>3 DEF SetToSeq
<1> QED
  BY <1>4 DEF AnyOrder, Orders, IsInjective

-----------------------------------------------------------------------------
(***************************************************************************)
(* Loops: a function of the round, given by the state before the first     *)
(* round and by what a round does.                                         *)
(***************************************************************************)
\* What holds before the first round, and after a round if before it, always holds.
LEMMA EveryRound ==
    ASSUME NEW N \in Nat, NEW P, 0 \in P, \A n \in 1..N : n - 1 \in P => n \in P
    PROVE  \A n \in 0..N : n \in P
<1> DEFINE bad == {n \in 0..N : n \notin P}
<1> SUFFICES ASSUME bad # {} PROVE FALSE
  OBVIOUS
<1>1. bad \subseteq Nat
  OBVIOUS
<1>2. PICK m \in bad : \A x \in bad : m <= x
  <2> HIDE DEF bad
  <2> QED
    BY <1>1, LeastExists
<1>3. m \in 1..N /\ m - 1 \in 0..N
  BY <1>2
<1>4. m - 1 \notin bad
  BY <1>2, <1>3
<1> QED
  BY <1>2, <1>3, <1>4

IsLoop(f, N, D, b, step) ==
    f \in [0..N -> D] /\ f[0] = b /\ \A n \in 1..N : f[n] = step[<<f[n - 1], n>>]

\* There is such a function for any number of rounds.
LEMMA LoopExists ==
    ASSUME NEW N \in Nat, NEW D, NEW b \in D, NEW step \in [D \X (1..N) -> D]
    PROVE  \E f : IsLoop(f, N, D, b, step)
<1> DEFINE Runs(f, m) == f[0] = b /\ \A n \in 1..m : f[n] = step[<<f[n - 1], n>>]
           P == {m \in 0..N : \E f \in [0..m -> D] : Runs(f, m)}
<1>1. 0 \in P
  <2>1. PICK f : f = [n \in 0..0 |-> b]
    OBVIOUS
  <2>2. f \in [0..0 -> D] /\ Runs(f, 0)
    BY <2>1
  <2>3. \E g \in [0..0 -> D] : Runs(g, 0)
    BY <2>2
  <2> HIDE DEF Runs
  <2> QED
    BY <2>3
<1>2. ASSUME NEW m \in 1..N, m - 1 \in P PROVE m \in P
  <2>1. PICK f \in [0..(m - 1) -> D] : Runs(f, m - 1)
    BY <1>2
  <2> DEFINE g == [n \in 0..m |-> IF n = m THEN step[<<f[m - 1], m>>] ELSE f[n]]
  <2>2. \A n \in 0..m : n # m => n \in 0..(m - 1) /\ g[n] = f[n] /\ f[n] \in D
    BY <2>1
  <2>3. m - 1 \in 0..m /\ m - 1 # m /\ m \in 0..m /\ 0 \in 0..m /\ 0 # m
    OBVIOUS
  <2>4. f[m - 1] \in D /\ <<f[m - 1], m>> \in D \X (1..N)
    BY <2>2, <2>3
  <2>5. g[m] = step[<<g[m - 1], m>>] /\ g[m] \in D
    BY <2>2, <2>3, <2>4
  <2>6. g \in [0..m -> D]
    BY <2>2, <2>5
  <2>7. g[0] = b
    BY <2>1, <2>2, <2>3
  <2>8. ASSUME NEW n \in 1..m PROVE g[n] = step[<<g[n - 1], n>>]
    <3>1. CASE n = m
      BY <2>5, <3>1
    <3>2. CASE n # m
      <4>1. n \in 1..(m - 1) /\ n \in 0..m /\ n - 1 \in 0..m /\ n - 1 # m
        BY <3>2
      <4>2. f[n] = step[<<f[n - 1], n>>]
        BY <2>1, <4>1
      <4>3. g[n] = f[n] /\ g[n - 1] = f[n - 1]
        BY <2>2, <3>2, <4>1
      <4> QED
        BY <4>2, <4>3
    <3> QED
      BY <3>1, <3>2
  <2> HIDE DEF g
  <2>9. Runs(g, m)
    BY <2>7, <2>8
  <2> QED
    BY <2>6, <2>9
<1> HIDE DEF P
<1>3. N \in P
  BY <1>1, <1>2, EveryRound
<1> QED
  BY <1>3 DEF P, IsLoop

-----------------------------------------------------------------------------
(***************************************************************************)
(* Apply: what a round leaves in machineImages.                            *)
(***************************************************************************)
\* Merged adds what was missing and loses nothing.
LEMMA MergedHas ==
    ASSUME NEW X, NEW s \in Seq(X), NEW x \in X
    PROVE  /\ Merged(s, x) \in Seq(X)
           /\ ToSet(s) \subseteq ToSet(Merged(s, x)) /\ x \in ToSet(Merged(s, x))
<1>1. CASE Contains(s, x)
  BY <1>1 DEF Merged, Contains, ToSet
<1>2. CASE ~Contains(s, x)
  <2> DEFINE t == Append(s, x)
  <2>1. t \in Seq(X) /\ Len(t) = Len(s) + 1 /\ t[Len(s) + 1] = x
    OBVIOUS
  <2>2. \A i \in 1..Len(s) : i \in 1..Len(t) /\ t[i] = s[i]
    OBVIOUS
  <2>3. DOMAIN s = 1..Len(s) /\ DOMAIN t = 1..Len(t) /\ Len(s) + 1 \in 1..Len(t)
    BY <2>1
  <2> HIDE DEF t
  <2>4. ToSet(s) \subseteq ToSet(t) /\ x \in ToSet(t)
    BY <2>1, <2>2, <2>3 DEF ToSet
  <2> QED
    BY <1>2, <2>1, <2>4 DEF Merged, t
<1> QED
  BY <1>1, <1>2

\* MergedAll loses nothing.
LEMMA MergedAllHas ==
    ASSUME NEW xs \in Seq(Nat), NEW ys \in Seq(Nat)
    PROVE  /\ MergedAll(xs, ys) \in Seq(Nat)
           /\ ToSet(xs) \subseteq ToSet(MergedAll(xs, ys))
           /\ ToSet(ys) \subseteq ToSet(MergedAll(xs, ys))
<1>0. PICK N \in Nat : N = Len(ys)
  OBVIOUS
<1> DEFINE body(f) == [n \in 0..N |-> IF n = 0 THEN xs ELSE Merged(f[n - 1], ys[n])]
           after == CHOOSE f : f = body(f)
           step == [p \in Seq(Nat) \X (1..N) |-> Merged(p[1], ys[p[2]])]
<1>1. \A n \in 1..N : ys[n] \in Nat
  BY <1>0
<1>2. ASSUME NEW s \in Seq(Nat), NEW x \in Nat
      PROVE  /\ Merged(s, x) \in Seq(Nat)
             /\ ToSet(s) \subseteq ToSet(Merged(s, x)) /\ x \in ToSet(Merged(s, x))
  BY MergedHas
<1>3. \E f : f = body(f)
  <2>1. step \in [Seq(Nat) \X (1..N) -> Seq(Nat)]
    BY <1>1, <1>2
  <2>0. PICK round \in [Seq(Nat) \X (1..N) -> Seq(Nat)] : round = step
    BY <2>1
  <2>2. PICK f \in [0..N -> Seq(Nat)] :
           f[0] = xs /\ \A n \in 1..N : f[n] = round[<<f[n - 1], n>>]
    <3>1. PICK f : IsLoop(f, N, Seq(Nat), xs, round)
      BY LoopExists
    <3> QED
      BY <3>1 DEF IsLoop
  <2>3. ASSUME NEW n \in 0..N PROVE f[n] = IF n = 0 THEN xs ELSE Merged(f[n - 1], ys[n])
    <3>1. CASE n = 0
      BY <2>2, <3>1
    <3>2. CASE n # 0
      <4>1. n \in 1..N /\ n - 1 \in 0..N
        BY <1>1, <3>2
      <4>2. <<f[n - 1], n>> \in Seq(Nat) \X (1..N)
        BY <2>2, <4>1
      <4> QED
        BY <2>0, <2>2, <3>2, <4>1, <4>2
    <3> QED
      BY <3>1, <3>2
  <2>4. f = body(f)
    BY <2>2, <2>3
  <2> QED
    BY <2>4
<1>4. after = body(after)
  <2> HIDE DEF body
  <2> QED
    BY <1>3
<1>5. MergedAll(xs, ys) = after[N]
  BY <1>0 DEF MergedAll, Loop
<1> HIDE DEF after
<1>6. after[0] = xs /\ \A n \in 1..N : after[n] = Merged(after[n - 1], ys[n])
  BY <1>1, <1>4
<1> HIDE DEF body
<1> DEFINE Q == {n \in 0..N : /\ after[n] \in Seq(Nat)
                              /\ ToSet(xs) \subseteq ToSet(after[n])
                              /\ \A k \in 1..n : ys[k] \in ToSet(after[n])}
<1>7. 0 \in Q
  BY <1>6
<1>8. ASSUME NEW n \in 1..N, n - 1 \in Q PROVE n \in Q
  <2>1. after[n - 1] \in Seq(Nat) /\ ys[n] \in Nat /\ after[n] = Merged(after[n - 1], ys[n])
    BY <1>1, <1>6, <1>8
  <2>2. /\ after[n] \in Seq(Nat) /\ ToSet(after[n - 1]) \subseteq ToSet(after[n])
        /\ ys[n] \in ToSet(after[n])
    BY <1>2, <2>1
  <2>3. \A k \in 1..n : k = n \/ k \in 1..(n - 1)
    BY <1>1
  <2> QED
    BY <1>1, <1>8, <2>2, <2>3
<1>9. N \in Q
  <2>1. PICK P : P = Q
    OBVIOUS
  <2> HIDE DEF Q
  <2>2. 0 \in P /\ \A n \in 1..N : n - 1 \in P => n \in P
    BY <1>7, <1>8, <2>1
  <2>3. \A n \in 0..N : n \in P
    BY <2>2, EveryRound
  <2> QED
    BY <2>1, <2>3
<1>10. \A y \in ToSet(ys) : \E k \in 1..N : y = ys[k]
  BY <1>0 DEF ToSet
<1> QED
  BY <1>5, <1>9, <1>10

\* An entry, or one of them, offers some architectures and capabilities of a version.
Offered(e, v, archs, caps) ==
    /\ e.version = v /\ archs \subseteq ToSet(e.archs)
    /\ caps # {} => caps \in ToSet(e.flavors)
Listed(es, v, archs, caps) == \E i \in DOMAIN es : Offered(es[i], v, archs, caps)

\* IndexOf finds an entry of the version if there is one.
LEMMA IndexFound ==
    ASSUME NEW X, NEW es \in Seq(X), NEW v
    PROVE  /\ IndexOf(es, v) = 0 \/ IndexOf(es, v) \in DOMAIN es
           /\ IndexOf(es, v) # 0 => es[IndexOf(es, v)].version = v
           /\ (\E i \in DOMAIN es : es[i].version = v) => IndexOf(es, v) # 0
<1> DEFINE at == {i \in DOMAIN es : es[i].version = v}
           after == {p \in Nat \X Nat : p[1] > p[2]}
<1>1. CASE at = {}
  BY <1>1 DEF IndexOf
<1>2. CASE at # {}
  <2>1. at \subseteq 1..Len(es) /\ Len(es) \in Nat
    OBVIOUS
  <2>2. IsFiniteSet(at)
    BY <2>1, FS_Interval, FS_Subset
  <2>3. Orders2(after, at)
    BY <2>1 DEF Orders2
  <2>4. PICK m \in at : IsFirst(m, at, after)
    <3> HIDE DEF at, after
    <3> QED
      BY <1>2, <2>2, <2>3, FirstExists
  <2>5. ASSUME NEW j \in at PROVE j <= m
    <3>1. j = m \/ <<m, j>> \in after
      BY <2>4 DEF IsFirst
    <3>2. m \in Nat
      BY <2>1
    <3> QED
      BY <3>1, <3>2
  <2>6. IndexOf(es, v) = CHOOSE i \in at : \A j \in at : j <= i
    BY <1>2 DEF IndexOf
  <2> HIDE DEF at
  <2>7. IndexOf(es, v) \in at
    BY <2>5, <2>6
  <2> QED
    BY <2>7 DEF at
<1> QED
  BY <1>1, <1>2

\* A new entry at the end leaves what was listed.
LEMMA AppendLists ==
    ASSUME NEW es \in Seq(VersionEntry), NEW e \in VersionEntry
    PROVE  /\ Append(es, e) \in Seq(VersionEntry)
           /\ \A v, archs, caps : \/ Listed(es, v, archs, caps)
                                  \/ Offered(e, v, archs, caps)
                                  => Listed(Append(es, e), v, archs, caps)
<1> DEFINE t == Append(es, e)
<1>1. t \in Seq(VersionEntry) /\ Len(t) = Len(es) + 1 /\ t[Len(es) + 1] = e
  OBVIOUS
<1>2. \A i \in 1..Len(es) : i \in 1..Len(t) /\ t[i] = es[i]
  OBVIOUS
<1>3. DOMAIN es = 1..Len(es) /\ DOMAIN t = 1..Len(t) /\ Len(es) + 1 \in 1..Len(t)
  BY <1>1
<1> HIDE DEF t
<1>4. ASSUME NEW v, NEW archs, NEW caps,
             Listed(es, v, archs, caps) \/ Offered(e, v, archs, caps)
      PROVE  Listed(t, v, archs, caps)
  BY <1>1, <1>2, <1>3, <1>4 DEF Listed
<1> QED
  BY <1>1, <1>4 DEF t

\* A new entry in the place of one leaves the others.
LEMMA ReplaceLists ==
    ASSUME NEW es \in Seq(VersionEntry), NEW i \in DOMAIN es, NEW e \in VersionEntry
    PROVE  /\ [es EXCEPT ![i] = e] \in Seq(VersionEntry)
           /\ \A v, archs, caps :
                 Offered(e, v, archs, caps) => Listed([es EXCEPT ![i] = e], v, archs, caps)
           /\ \A v, archs, caps :
                 /\ Listed(es, v, archs, caps)
                 /\ Offered(es[i], v, archs, caps) => Offered(e, v, archs, caps)
                 => Listed([es EXCEPT ![i] = e], v, archs, caps)
<1> DEFINE t == [es EXCEPT ![i] = e]
<1>1. t \in Seq(VersionEntry) /\ DOMAIN t = DOMAIN es /\ t[i] = e
  OBVIOUS
<1>2. \A j \in DOMAIN es : j # i => t[j] = es[j]
  OBVIOUS
<1> HIDE DEF t
<1>3. ASSUME NEW v, NEW archs, NEW caps, Offered(e, v, archs, caps)
      PROVE  Listed(t, v, archs, caps)
  BY <1>1, <1>3 DEF Listed
<1>4. ASSUME NEW v, NEW archs, NEW caps, Listed(es, v, archs, caps),
             Offered(es[i], v, archs, caps) => Offered(e, v, archs, caps)
      PROVE  Listed(t, v, archs, caps)
  BY <1>1, <1>2, <1>4 DEF Listed
<1> QED
  BY <1>1, <1>3, <1>4 DEF t

\* The legacy entry of a tag is written over; other versions are left.
LEMMA LegacyLists ==
    ASSUME NEW es \in Seq(VersionEntry), NEW s \in KeptImage
    PROVE  /\ UpsertLegacy(es, s) \in Seq(VersionEntry)
           /\ \A v, archs, caps : v # s.version /\ Listed(es, v, archs, caps)
                                  => Listed(UpsertLegacy(es, s), v, archs, caps)
<1> DEFINE i == IndexOf(es, s.version)
<1>1. CASE i # 0
  <2>1. i \in DOMAIN es /\ es[i].version = s.version /\ es[i] \in VersionEntry
    BY <1>1, IndexFound
  <2> DEFINE e == [es[i] EXCEPT !.archs = s.archs, !.inPlace = s.inPlace]
  <2>2. UpsertLegacy(es, s) = [es EXCEPT ![i] = e]
    BY <1>1, <2>1 DEF UpsertLegacy
  <2>3. e \in VersionEntry
    BY <2>1 DEF VersionEntry, KeptImage
  <2>4. \A v, archs, caps : v # s.version => ~Offered(es[i], v, archs, caps)
    BY <2>1 DEF Offered
  <2>5. PICK k \in DOMAIN es, f \in VersionEntry : k = i /\ f = e
    BY <2>1, <2>3
  <2>6. UpsertLegacy(es, s) = [es EXCEPT ![k] = f]
    BY <2>2, <2>5
  <2>7. \A v, archs, caps : v # s.version => ~Offered(es[k], v, archs, caps)
    BY <2>4, <2>5
  <2> HIDE DEF e, i
  <2>8. [es EXCEPT ![k] = f] \in Seq(VersionEntry)
    BY ReplaceLists
  <2>9. ASSUME NEW v, NEW archs, NEW caps, v # s.version, Listed(es, v, archs, caps)
        PROVE  Listed([es EXCEPT ![k] = f], v, archs, caps)
    BY <2>7, <2>9, ReplaceLists
  <2> QED
    BY <2>6, <2>8, <2>9
<1>2. CASE i = 0 /\ s.version \notin SemVers
  BY <1>2 DEF UpsertLegacy
<1>3. CASE i = 0 /\ s.version \in SemVers
  <2> DEFINE e == [version |-> s.version, archs |-> s.archs,
                   flavors |-> <<>>, inPlace |-> s.inPlace]
  <2>1. UpsertLegacy(es, s) = Append(es, e)
    BY <1>3 DEF UpsertLegacy
  <2>2. e \in VersionEntry
    BY DEF VersionEntry, KeptImage
  <2> HIDE DEF e
  <2> QED
    BY <2>1, <2>2, AppendLists
<1> QED
  BY <1>1, <1>2, <1>3

\* The entry of a clean version has what it had and what the variant adds.
LEMMA CleanLists ==
    ASSUME NEW es \in Seq(VersionEntry), NEW s \in KeptImage, s.clean # Unset
    PROVE  /\ UpsertClean(es, s) \in Seq(VersionEntry)
           /\ Listed(UpsertClean(es, s), s.clean, ToSet(s.archs), s.caps)
           /\ \A v, archs, caps : Listed(es, v, archs, caps)
                                  => Listed(UpsertClean(es, s), v, archs, caps)
<1> DEFINE i == IndexOf(es, s.clean)
<1>0. ASSUME NEW fs \in Seq(Caps)
      PROVE  /\ MergeFlavor(fs, s.caps) \in Seq(Caps)
             /\ ToSet(fs) \subseteq ToSet(MergeFlavor(fs, s.caps))
             /\ s.caps # {} => s.caps \in ToSet(MergeFlavor(fs, s.caps))
  BY MergedHas DEF MergeFlavor, KeptImage
<1>1. CASE i # 0
  <2>1. i \in DOMAIN es /\ es[i].version = s.clean /\ es[i] \in VersionEntry
    BY <1>1, IndexFound
  <2> DEFINE old == es[i]
             e == [old EXCEPT !.archs = MergedAll(@, s.archs), !.inPlace = s.inPlace,
                              !.flavors = MergeFlavor(@, s.caps)]
  <2>2. UpsertClean(es, s) = [es EXCEPT ![i] = e]
    BY <1>1, <2>1 DEF UpsertClean
  <2>3. old.archs \in Seq(Nat) /\ s.archs \in Seq(Nat) /\ old.flavors \in Seq(Caps)
    BY <2>1 DEF VersionEntry, KeptImage, Caps
  <2>4. /\ MergedAll(old.archs, s.archs) \in Seq(Nat)
        /\ ToSet(old.archs) \subseteq ToSet(MergedAll(old.archs, s.archs))
        /\ ToSet(s.archs) \subseteq ToSet(MergedAll(old.archs, s.archs))
    BY <2>3, MergedAllHas
  <2>5. /\ e.version = s.clean /\ e.archs = MergedAll(old.archs, s.archs)
        /\ e.flavors = MergeFlavor(old.flavors, s.caps) /\ e \in VersionEntry
    BY <1>0, <2>1, <2>3, <2>4 DEF VersionEntry, KeptImage, Caps
  <2>6. Offered(e, s.clean, ToSet(s.archs), s.caps)
    BY <1>0, <2>3, <2>4, <2>5 DEF Offered
  <2>7. \A v, archs, caps : Offered(old, v, archs, caps) => Offered(e, v, archs, caps)
    BY <1>0, <2>1, <2>3, <2>4, <2>5 DEF Offered
  <2>8. PICK k \in DOMAIN es, f \in VersionEntry : k = i /\ f = e
    BY <2>1, <2>5
  <2>9. UpsertClean(es, s) = [es EXCEPT ![k] = f]
    BY <2>2, <2>8
  <2>10. /\ Offered(f, s.clean, ToSet(s.archs), s.caps)
         /\ \A v, archs, caps : Offered(es[k], v, archs, caps) => Offered(f, v, archs, caps)
    BY <2>6, <2>7, <2>8
  <2> HIDE DEF e, i
  <2>11. /\ [es EXCEPT ![k] = f] \in Seq(VersionEntry)
         /\ Listed([es EXCEPT ![k] = f], s.clean, ToSet(s.archs), s.caps)
    BY <2>10, ReplaceLists
  <2>12. ASSUME NEW v, NEW archs, NEW caps, Listed(es, v, archs, caps)
         PROVE  Listed([es EXCEPT ![k] = f], v, archs, caps)
    BY <2>10, <2>12, ReplaceLists
  <2> QED
    BY <2>9, <2>11, <2>12
<1>2. CASE i = 0
  <2> DEFINE e == [version |-> s.clean, archs |-> s.archs,
                   flavors |-> MergeFlavor(<<>>, s.caps), inPlace |-> s.inPlace]
  <2>1. UpsertClean(es, s) = Append(es, e)
    BY <1>2 DEF UpsertClean
  <2>2. /\ MergeFlavor(<<>>, s.caps) \in Seq(Caps)
        /\ s.caps # {} => s.caps \in ToSet(MergeFlavor(<<>>, s.caps))
    <3>1. <<>> \in Seq(Caps)
      OBVIOUS
    <3> QED
      BY <1>0, <3>1
  <2>3. s.clean \in Nat /\ s.archs \in Seq(Nat) /\ s.inPlace \in BOOLEAN
    BY UpdaterAssumption DEF KeptImage, Unset
  <2>4. e \in VersionEntry
    BY <2>2, <2>3 DEF VersionEntry, Caps
  <2>5. Offered(e, s.clean, ToSet(s.archs), s.caps)
    BY <2>2 DEF Offered
  <2> HIDE DEF e
  <2> QED
    BY <2>1, <2>4, <2>5, AppendLists
<1> QED
  BY <1>1, <1>2

\* A round of Apply lists its variant, and leaves what was listed unless it is of the
\* version that is the tag of this image.
LEMMA UpsertLists ==
    ASSUME NEW es \in Seq(VersionEntry), NEW s \in KeptImage
    PROVE  /\ Upsert(es, s) \in Seq(VersionEntry)
           /\ EnableCapabilities /\ s.clean # Unset
              => Listed(Upsert(es, s), s.clean, ToSet(s.archs), s.caps)
           /\ \A v, archs, caps : v # s.version /\ Listed(es, v, archs, caps)
                                  => Listed(Upsert(es, s), v, archs, caps)
<1>1. PICK legacy \in Seq(VersionEntry) : legacy = UpsertLegacy(es, s)
  BY LegacyLists
<1>2. \A v, archs, caps : v # s.version /\ Listed(es, v, archs, caps)
                          => Listed(legacy, v, archs, caps)
  BY <1>1, LegacyLists
<1>3. CASE EnableCapabilities /\ s.clean # Unset
  <2>1. Upsert(es, s) = UpsertClean(legacy, s)
    BY <1>1, <1>3 DEF Upsert
  <2> QED
    BY <1>2, <1>3, <2>1, CleanLists
<1>4. CASE ~(EnableCapabilities /\ s.clean # Unset)
  <2>1. Upsert(es, s) = legacy
    BY <1>1, <1>4 DEF Upsert
  <2> QED
    BY <1>2, <1>4, <2>1
<1> QED
  BY <1>3, <1>4

\* The rounds of Apply.
Rounds(after, base, ss) ==
    /\ after \in [0..Len(ss) -> Seq(VersionEntry)]
    /\ after[0] = base /\ \A n \in 1..Len(ss) : after[n] = Upsert(after[n - 1], ss[n])

\* MachineImages is what they end with.
LEMMA AppliedInRounds ==
    ASSUME NEW base \in Seq(VersionEntry), NEW ss \in Seq(KeptImage)
    PROVE  \E after : Rounds(after, base, ss) /\ MachineImages(base, ss) = after[Len(ss)]
<1>0. PICK N \in Nat : N = Len(ss)
  OBVIOUS
<1> DEFINE body(f) == [n \in 0..N |-> IF n = 0 THEN base ELSE Upsert(f[n - 1], ss[n])]
           last == CHOOSE f : f = body(f)
           step == [p \in Seq(VersionEntry) \X (1..N) |-> Upsert(p[1], ss[p[2]])]
<1>1. \A n \in 1..N : ss[n] \in KeptImage
  BY <1>0
<1>2. \E f : f = body(f)
  <2>1. step \in [Seq(VersionEntry) \X (1..N) -> Seq(VersionEntry)]
    BY <1>1, UpsertLists
  <2>2. PICK round \in [Seq(VersionEntry) \X (1..N) -> Seq(VersionEntry)] : round = step
    BY <2>1
  <2>3. PICK f \in [0..N -> Seq(VersionEntry)] :
           f[0] = base /\ \A n \in 1..N : f[n] = round[<<f[n - 1], n>>]
    <3>1. PICK f : IsLoop(f, N, Seq(VersionEntry), base, round)
      BY LoopExists
    <3> QED
      BY <3>1 DEF IsLoop
  <2>4. ASSUME NEW n \in 0..N PROVE f[n] = IF n = 0 THEN base ELSE Upsert(f[n - 1], ss[n])
    <3>1. CASE n = 0
      BY <2>3, <3>1
    <3>2. CASE n # 0
      <4>1. n \in 1..N /\ n - 1 \in 0..N
        BY <3>2
      <4>2. <<f[n - 1], n>> \in Seq(VersionEntry) \X (1..N)
        BY <2>3, <4>1
      <4> QED
        BY <2>2, <2>3, <3>2, <4>1, <4>2
    <3> QED
      BY <3>1, <3>2
  <2>5. f = body(f)
    BY <2>3, <2>4
  <2> QED
    BY <2>5
<1>3. last = body(last)
  <2> HIDE DEF body
  <2> QED
    BY <1>2
<1>4. MachineImages(base, ss) = last[N]
  BY <1>0 DEF MachineImages, Loop
<1> HIDE DEF last
<1>5. last[0] = base /\ \A n \in 1..N : last[n] = Upsert(last[n - 1], ss[n])
  BY <1>3
<1>6. last = [n \in 0..N |-> last[n]]
  BY <1>3
<1> HIDE DEF body
<1> DEFINE Q == {n \in 0..N : last[n] \in Seq(VersionEntry)}
<1>7. 0 \in Q /\ \A n \in 1..N : n - 1 \in Q => n \in Q
  <2>1. 0 \in Q
    BY <1>5
  <2>2. ASSUME NEW n \in 1..N, n - 1 \in Q PROVE n \in Q
    <3>1. last[n - 1] \in Seq(VersionEntry) /\ ss[n] \in KeptImage
      BY <1>1, <2>2
    <3>2. last[n] \in Seq(VersionEntry)
      BY <1>5, <3>1, UpsertLists
    <3> QED
      BY <3>2
  <2> QED
    BY <2>1, <2>2
<1>8. \A n \in 0..N : n \in Q
  <2>1. PICK P : P = Q
    OBVIOUS
  <2> HIDE DEF Q
  <2>2. 0 \in P /\ \A n \in 1..N : n - 1 \in P => n \in P
    BY <1>7, <2>1
  <2>3. \A n \in 0..N : n \in P
    BY <2>2, EveryRound
  <2> QED
    BY <2>1, <2>3
<1>9. Rounds(last, base, ss)
  BY <1>0, <1>5, <1>6, <1>8 DEF Rounds
<1> QED
  BY <1>0, <1>4, <1>9

\* Apply lists a variant of a clean version, unless that version is the tag of an
\* image that comes after it.
LEMMA VariantApplied ==
    ASSUME EnableCapabilities, NEW base \in Seq(VersionEntry), NEW ss \in Seq(KeptImage),
           NEW k \in 1..Len(ss), ss[k].clean # Unset,
           \A m \in 1..Len(ss) : k < m => ss[m].version # ss[k].clean
    PROVE  Listed(MachineImages(base, ss), ss[k].clean, ToSet(ss[k].archs), ss[k].caps)
<1>0. PICK N \in Nat : N = Len(ss)
  OBVIOUS
<1>1. PICK after : Rounds(after, base, ss) /\ MachineImages(base, ss) = after[N]
  BY <1>0, AppliedInRounds
<1>2. PICK v, archs, caps : v = ss[k].clean /\ archs = ToSet(ss[k].archs) /\ caps = ss[k].caps
  OBVIOUS
<1>3. /\ \A n \in 0..N : after[n] \in Seq(VersionEntry)
      /\ \A n \in 1..N : after[n] = Upsert(after[n - 1], ss[n]) /\ ss[n] \in KeptImage
  <2>1. /\ after \in [0..N -> Seq(VersionEntry)]
        /\ \A n \in 1..N : after[n] = Upsert(after[n - 1], ss[n])
    BY <1>0, <1>1 DEF Rounds
  <2>2. \A n \in 1..N : ss[n] \in KeptImage
    BY <1>0
  <2> QED
    BY <2>1, <2>2
<1>4. PICK P : P = {n \in 0..N : k <= n => Listed(after[n], v, archs, caps)}
  OBVIOUS
<1>5. 0 \in P
  BY <1>0, <1>4
<1>6. ASSUME NEW n \in 1..N, n - 1 \in P PROVE n \in P
  <2>1. /\ n \in 0..N /\ after[n - 1] \in Seq(VersionEntry) /\ ss[n] \in KeptImage
        /\ after[n] = Upsert(after[n - 1], ss[n])
    BY <1>3
  <2>2. CASE n < k
    BY <1>0, <1>4, <2>1, <2>2
  <2>3. CASE n = k
    BY <1>2, <1>4, <2>1, <2>3, UpsertLists
  <2>4. CASE k < n
    <3>1. Listed(after[n - 1], v, archs, caps)
      BY <1>0, <1>4, <1>6, <2>4
    <3>2. v # ss[n].version
      BY <1>0, <1>2, <2>4
    <3>3. Listed(after[n], v, archs, caps)
      BY <2>1, <3>1, <3>2, UpsertLists
    <3> QED
      BY <1>4, <2>1, <3>3
  <2> QED
    BY <1>0, <2>2, <2>3, <2>4
<1>7. \A n \in 0..N : n \in P
  BY <1>5, <1>6, EveryRound
<1>8. Listed(after[N], v, archs, caps)
  <2>1. k <= N /\ N \in 0..N
    BY <1>0
  <2> QED
    BY <1>4, <1>7, <2>1
<1> QED
  BY <1>1, <1>2, <1>8

-----------------------------------------------------------------------------
(***************************************************************************)
(* Configure of ironcore: the flavors of machineImages and of the provider *)
(* config say the same.                                                    *)
(***************************************************************************)
\* MergeFlavor adds the capabilities of an image, if it has any.
LEMMA FlavorMerged ==
    ASSUME NEW fs \in Seq(Caps), NEW caps \in Caps
    PROVE  \A c : c \in ToSet(MergeFlavor(fs, caps)) <=> c \in ToSet(fs) \/ (caps # {} /\ c = caps)
<1>1. CASE caps = {} \/ Contains(fs, caps)
  BY <1>1 DEF MergeFlavor, Merged, Contains, ToSet
<1>2. CASE caps # {} /\ ~Contains(fs, caps)
  <2> DEFINE t == Append(fs, caps)
  <2>1. MergeFlavor(fs, caps) = t
    BY <1>2 DEF MergeFlavor, Merged
  <2>2. DOMAIN t = 1..(Len(fs) + 1) /\ DOMAIN fs = 1..Len(fs) /\ t[Len(fs) + 1] = caps
    OBVIOUS
  <2>3. \A i \in 1..Len(fs) : t[i] = fs[i]
    OBVIOUS
  <2>4. \A i \in 1..(Len(fs) + 1) : i = Len(fs) + 1 \/ i \in 1..Len(fs)
    OBVIOUS
  <2>5. \A i \in 1..Len(fs) : i \in 1..(Len(fs) + 1)
    OBVIOUS
  <2>6. Len(fs) + 1 \in 1..(Len(fs) + 1)
    OBVIOUS
  <2> HIDE DEF t
  <2>7. ToSet(t) = ToSet(fs) \cup {caps}
    BY <2>2, <2>3, <2>4, <2>5, <2>6 DEF ToSet
  <2> QED
    BY <1>2, <2>1, <2>7
<1> QED
  BY <1>1, <1>2

\* An entry put in the place of one, or at the end, has its flavors; the others keep
\* theirs.
LEMMA ReplaceFlavors ==
    ASSUME NEW es \in Seq(VersionEntry), NEW i \in DOMAIN es, NEW e \in VersionEntry,
           e.version = es[i].version, ToSet(es[i].flavors) \subseteq ToSet(e.flavors)
    PROVE  \A v, c : HasFlavor([es EXCEPT ![i] = e], v, c) <=>
                        HasFlavor(es, v, c) \/ (v = e.version /\ c \in ToSet(e.flavors))
<1> DEFINE t == [es EXCEPT ![i] = e]
<1>1. DOMAIN t = DOMAIN es /\ t[i] = e /\ \A j \in DOMAIN es : j # i => t[j] = es[j]
  OBVIOUS
<1> HIDE DEF t
<1>2. \A v, c : HasFlavor(t, v, c) <=> HasFlavor(es, v, c) \/ (v = e.version /\ c \in ToSet(e.flavors))
  BY <1>1 DEF HasFlavor
<1> QED
  BY <1>2 DEF t

LEMMA AppendFlavors ==
    ASSUME NEW es \in Seq(VersionEntry), NEW e \in VersionEntry
    PROVE  \A v, c : HasFlavor(Append(es, e), v, c) <=>
                        HasFlavor(es, v, c) \/ (v = e.version /\ c \in ToSet(e.flavors))
<1> DEFINE t == Append(es, e)
<1>1. DOMAIN t = 1..(Len(es) + 1) /\ DOMAIN es = 1..Len(es) /\ t[Len(es) + 1] = e
  OBVIOUS
<1>2. \A i \in 1..Len(es) : t[i] = es[i] /\ i \in 1..(Len(es) + 1)
  OBVIOUS
<1>3. \A i \in 1..(Len(es) + 1) : i = Len(es) + 1 \/ i \in 1..Len(es)
  OBVIOUS
<1>4. Len(es) + 1 \in 1..(Len(es) + 1)
  OBVIOUS
<1> HIDE DEF t
<1>5. \A v, c : HasFlavor(t, v, c) <=> HasFlavor(es, v, c) \/ (v = e.version /\ c \in ToSet(e.flavors))
  BY <1>1, <1>2, <1>3, <1>4 DEF HasFlavor
<1> QED
  BY <1>5 DEF t

\* A legacy entry has no flavors, and writing over one leaves those that are there.
LEMMA LegacyFlavors ==
    ASSUME NEW es \in Seq(VersionEntry), NEW s \in KeptImage
    PROVE  \A v, c : HasFlavor(UpsertLegacy(es, s), v, c) <=> HasFlavor(es, v, c)
<1> DEFINE i == IndexOf(es, s.version)
<1>1. CASE i # 0
  <2>1. i \in DOMAIN es /\ es[i] \in VersionEntry
    BY <1>1, IndexFound
  <2>2. PICK k \in DOMAIN es : k = i /\ es[k] \in VersionEntry
    BY <2>1
  <2>3. PICK e \in VersionEntry : e = [es[k] EXCEPT !.archs = s.archs, !.inPlace = s.inPlace]
    BY <2>2 DEF VersionEntry, KeptImage
  <2>4. e.version = es[k].version /\ e.flavors = es[k].flavors
    BY <2>2, <2>3 DEF VersionEntry
  <2>5. UpsertLegacy(es, s) = [es EXCEPT ![k] = e]
    BY <1>1, <2>2, <2>3 DEF UpsertLegacy
  <2>6. \A v, c : HasFlavor([es EXCEPT ![k] = e], v, c) <=>
                     HasFlavor(es, v, c) \/ (v = e.version /\ c \in ToSet(e.flavors))
    BY <2>4, ReplaceFlavors
  <2> QED
    BY <2>4, <2>5, <2>6 DEF HasFlavor
<1>2. CASE i = 0 /\ s.version \notin SemVers
  BY <1>2 DEF UpsertLegacy
<1>3. CASE i = 0 /\ s.version \in SemVers
  <2>1. PICK e : e = [version |-> s.version, archs |-> s.archs,
                      flavors |-> <<>>, inPlace |-> s.inPlace]
    OBVIOUS
  <2>2. e \in VersionEntry
    BY <2>1 DEF VersionEntry, KeptImage
  <2>3. UpsertLegacy(es, s) = Append(es, e)
    BY <1>3, <2>1 DEF UpsertLegacy
  <2>4. \A c : c \notin ToSet(e.flavors)
    BY <2>1 DEF ToSet
  <2> QED
    BY <2>2, <2>3, <2>4, AppendFlavors
<1> QED
  BY <1>1, <1>2, <1>3

\* The entry of a clean version gets the capabilities of the variant, if it has any.
LEMMA CleanFlavors ==
    ASSUME NEW es \in Seq(VersionEntry), NEW s \in KeptImage, s.clean # Unset
    PROVE  \A v, c : HasFlavor(UpsertClean(es, s), v, c) <=>
                        HasFlavor(es, v, c) \/ (s.caps # {} /\ v = s.clean /\ c = s.caps)
<1> DEFINE i == IndexOf(es, s.clean)
<1>0. s.clean \in Nat /\ s.archs \in Seq(Nat) /\ s.inPlace \in BOOLEAN /\ s.caps \in Caps
  BY UpdaterAssumption DEF KeptImage, Unset
<1>1. CASE i # 0
  <2>1. i \in DOMAIN es /\ es[i].version = s.clean /\ es[i] \in VersionEntry
    BY <1>1, IndexFound
  <2>2. PICK k \in DOMAIN es : k = i /\ es[k] \in VersionEntry /\ es[k].version = s.clean
    BY <2>1
  <2>3. PICK old \in VersionEntry : old = es[k]
    BY <2>2
  <2>4. /\ old.archs \in Seq(Nat) /\ old.flavors \in Seq(Caps) /\ old.version = s.clean
    BY <2>2, <2>3 DEF VersionEntry
  <2>5. MergedAll(old.archs, s.archs) \in Seq(Nat)
    BY <1>0, <2>4, MergedAllHas
  <2>6. MergeFlavor(old.flavors, s.caps) \in Seq(Caps)
    BY <1>0, <2>4, MergedHas DEF MergeFlavor
  <2>7. PICK e : e = [old EXCEPT !.archs = MergedAll(@, s.archs), !.inPlace = s.inPlace,
                                 !.flavors = MergeFlavor(@, s.caps)]
    OBVIOUS
  <2>8. e \in VersionEntry /\ e.version = s.clean /\ e.flavors = MergeFlavor(old.flavors, s.caps)
    BY <1>0, <2>4, <2>5, <2>6, <2>7 DEF VersionEntry
  <2>9. UpsertClean(es, s) = [es EXCEPT ![k] = e]
    BY <1>1, <2>2, <2>3, <2>7 DEF UpsertClean
  <2>10. \A c : c \in ToSet(e.flavors) <=> c \in ToSet(old.flavors) \/ (s.caps # {} /\ c = s.caps)
    BY <1>0, <2>4, <2>8, FlavorMerged
  <2>11. \A v, c : HasFlavor([es EXCEPT ![k] = e], v, c) <=>
                      HasFlavor(es, v, c) \/ (v = e.version /\ c \in ToSet(e.flavors))
    <3>1. e.version = es[k].version /\ ToSet(es[k].flavors) \subseteq ToSet(e.flavors)
      BY <2>2, <2>3, <2>8, <2>10
    <3> QED
      BY <2>8, <3>1, ReplaceFlavors
  <2>12. \A c : c \in ToSet(old.flavors) => HasFlavor(es, s.clean, c)
    BY <2>2, <2>3 DEF HasFlavor
  <2> QED
    BY <2>8, <2>9, <2>10, <2>11, <2>12
<1>2. CASE i = 0
  <2>0. <<>> \in Seq(Caps)
    OBVIOUS
  <2>1. PICK none \in Seq(Caps) : none = <<>>
    BY <2>0
  <2>2. /\ MergeFlavor(<<>>, s.caps) \in Seq(Caps)
        /\ \A c : c \in ToSet(MergeFlavor(<<>>, s.caps)) <=> s.caps # {} /\ c = s.caps
    <3>1. \A c : c \notin ToSet(none)
      BY <2>1 DEF ToSet
    <3>2. MergeFlavor(none, s.caps) \in Seq(Caps)
      BY <1>0, MergedHas DEF MergeFlavor
    <3>3. \A c : c \in ToSet(MergeFlavor(none, s.caps)) <=> c \in ToSet(none) \/ (s.caps # {} /\ c = s.caps)
      BY <1>0, FlavorMerged
    <3> QED
      BY <2>1, <3>1, <3>2, <3>3
  <2>3. PICK e \in VersionEntry : e = [version |-> s.clean, archs |-> s.archs,
                                       flavors |-> MergeFlavor(<<>>, s.caps), inPlace |-> s.inPlace]
    BY <1>0, <2>2 DEF VersionEntry
  <2>4. UpsertClean(es, s) = Append(es, e)
    BY <1>2, <2>3 DEF UpsertClean
  <2> QED
    BY <2>2, <2>3, <2>4, AppendFlavors
<1> QED
  BY <1>1, <1>2

\* A round of Apply adds one flavor at most.
LEMMA UpsertFlavors ==
    ASSUME NEW es \in Seq(VersionEntry), NEW s \in KeptImage
    PROVE  \A v, c : HasFlavor(Upsert(es, s), v, c) <=>
                        \/ HasFlavor(es, v, c)
                        \/ EnableCapabilities /\ s.clean # Unset /\ s.caps # {} /\ v = s.clean /\ c = s.caps
<1>1. PICK legacy \in Seq(VersionEntry) : legacy = UpsertLegacy(es, s)
  BY LegacyLists
<1>2. \A v, c : HasFlavor(legacy, v, c) <=> HasFlavor(es, v, c)
  BY <1>1, LegacyFlavors
<1>3. CASE EnableCapabilities /\ s.clean # Unset
  <2>1. Upsert(es, s) = UpsertClean(legacy, s)
    BY <1>1, <1>3 DEF Upsert
  <2> QED
    BY <1>2, <1>3, <2>1, CleanFlavors
<1>4. CASE ~(EnableCapabilities /\ s.clean # Unset)
  <2>1. Upsert(es, s) = legacy
    BY <1>1, <1>4 DEF Upsert
  <2> QED
    BY <1>2, <1>4, <2>1
<1> QED
  BY <1>3, <1>4

\* Entries of ironcore with where the versions are that have, or may get, flavors.
Located(known, es) == \A v \in DOMAIN known : known[v] \in DOMAIN es /\ es[known[v]].version = v
KnownVersions == UNION {[V -> Nat] : V \in SUBSET Nat}
Offer == {c \in [entries: Seq(IroncoreEntry), known: KnownVersions] : Located(c.known, c.entries)}

\* An entry at the end leaves the others where they are.
LEMMA AppendOffers ==
    ASSUME NEW es \in Seq(IroncoreEntry), NEW e \in IroncoreEntry
    PROVE  /\ Append(es, e) \in Seq(IroncoreEntry)
           /\ DOMAIN Append(es, e) = DOMAIN es \cup {Len(es) + 1}
           /\ Append(es, e)[Len(es) + 1] = e
           /\ \A i \in DOMAIN es : Append(es, e)[i] = es[i]
           /\ \A v, f : FlavorUnder(Append(es, e), v, f) <=>
                           FlavorUnder(es, v, f) \/ (v = e.version /\ f \in ToSet(e.flavors))
<1> DEFINE t == Append(es, e)
<1>1. t \in Seq(IroncoreEntry) /\ DOMAIN t = 1..(Len(es) + 1) /\ DOMAIN es = 1..Len(es)
  OBVIOUS
<1>2. t[Len(es) + 1] = e /\ \A i \in DOMAIN es : t[i] = es[i]
  OBVIOUS
<1>3. DOMAIN t = DOMAIN es \cup {Len(es) + 1}
  BY <1>1
<1> HIDE DEF t
<1>4. \A v, f : FlavorUnder(t, v, f) <=>
                   FlavorUnder(es, v, f) \/ (v = e.version /\ f \in ToSet(e.flavors))
  BY <1>2, <1>3 DEF FlavorUnder
<1> QED
  BY <1>1, <1>2, <1>3, <1>4 DEF t

\* What AddFlat makes of the entries: they stay, and none that it adds has flavors.
Flattened(t, es) ==
    /\ t \in Seq(IroncoreEntry)
    /\ DOMAIN es \subseteq DOMAIN t /\ \A i \in DOMAIN es : t[i] = es[i]
    /\ \A v, f : FlavorUnder(t, v, f) <=> FlavorUnder(es, v, f)

LEMMA FlatAdds ==
    ASSUME NEW es \in Seq(IroncoreEntry), NEW s \in KeptImage
    PROVE  Flattened(AddFlat(es, s), es)
<1>0. PICK N \in Nat : N = Len(s.archs)
  BY DEF KeptImage
<1> DEFINE add(x, arch) ==
              IF \E e \in ToSet(x) : e.ref = s.version /\ e.arch = arch THEN x
              ELSE Append(x, [version |-> s.version, ref |-> s.version,
                              arch |-> arch, flavors |-> <<>>])
           body(f) == [n \in 0..N |-> IF n = 0 THEN es ELSE add(f[n - 1], s.archs[n])]
           last == CHOOSE f : f = body(f)
           step == [p \in Seq(IroncoreEntry) \X (1..N) |-> add(p[1], s.archs[p[2]])]
<1>1. \A n \in 1..N : s.archs[n] \in Nat
  BY <1>0 DEF KeptImage
<1>2. ASSUME NEW x \in Seq(IroncoreEntry), NEW arch \in Nat
      PROVE  Flattened(add(x, arch), x)
  <2>1. CASE add(x, arch) = x
    BY <2>1 DEF Flattened
  <2>2. CASE add(x, arch) # x
    <3>1. PICK e : e = [version |-> s.version, ref |-> s.version, arch |-> arch, flavors |-> <<>>]
      OBVIOUS
    <3>2. e \in IroncoreEntry /\ \A f : f \notin ToSet(e.flavors)
      BY <3>1 DEF IroncoreEntry, KeptImage, ToSet
    <3>3. add(x, arch) = Append(x, e)
      BY <2>2, <3>1
    <3>4. PICK y : y = Append(x, e)
      OBVIOUS
    <3>5. /\ y \in Seq(IroncoreEntry) /\ DOMAIN y = DOMAIN x \cup {Len(x) + 1}
          /\ \A i \in DOMAIN x : y[i] = x[i]
      BY <3>2, <3>4, AppendOffers
    <3>6. \A v, f : FlavorUnder(y, v, f) <=> FlavorUnder(x, v, f)
      BY <3>2, <3>4, AppendOffers
    <3> HIDE DEF add
    <3> QED
      BY <3>3, <3>4, <3>5, <3>6 DEF Flattened
  <2> QED
    BY <2>1, <2>2
<1> HIDE DEF add
<1>3. \E f : f = body(f)
  <2>1. step \in [Seq(IroncoreEntry) \X (1..N) -> Seq(IroncoreEntry)]
    BY <1>1, <1>2 DEF Flattened
  <2>2. PICK round \in [Seq(IroncoreEntry) \X (1..N) -> Seq(IroncoreEntry)] : round = step
    BY <2>1
  <2>3. PICK f \in [0..N -> Seq(IroncoreEntry)] :
           f[0] = es /\ \A n \in 1..N : f[n] = round[<<f[n - 1], n>>]
    <3>1. PICK f : IsLoop(f, N, Seq(IroncoreEntry), es, round)
      BY LoopExists
    <3> QED
      BY <3>1 DEF IsLoop
  <2>4. ASSUME NEW n \in 0..N PROVE f[n] = IF n = 0 THEN es ELSE add(f[n - 1], s.archs[n])
    <3>1. CASE n = 0
      BY <2>3, <3>1
    <3>2. CASE n # 0
      <4>1. n \in 1..N /\ n - 1 \in 0..N
        BY <3>2
      <4>2. <<f[n - 1], n>> \in Seq(IroncoreEntry) \X (1..N)
        BY <2>3, <4>1
      <4> QED
        BY <2>2, <2>3, <3>2, <4>1, <4>2
    <3> QED
      BY <3>1, <3>2
  <2>5. f = body(f)
    BY <2>3, <2>4
  <2> QED
    BY <2>5
<1>4. last = body(last)
  <2> HIDE DEF body
  <2> QED
    BY <1>3
<1>5. AddFlat(es, s) = last[N]
  BY <1>0 DEF AddFlat, Loop, add
<1> HIDE DEF last
<1>6. last[0] = es /\ \A n \in 1..N : last[n] = add(last[n - 1], s.archs[n])
  BY <1>4
<1> HIDE DEF body
<1>7. PICK P : P = {n \in 0..N : Flattened(last[n], es)}
  OBVIOUS
<1>8. 0 \in P
  BY <1>6, <1>7 DEF Flattened
<1>9. ASSUME NEW n \in 1..N, n - 1 \in P PROVE n \in P
  <2>1. PICK x : x = last[n - 1] /\ Flattened(x, es)
    BY <1>7, <1>9
  <2>2. PICK y : y = last[n] /\ Flattened(y, x)
    <3>1. x \in Seq(IroncoreEntry) /\ s.archs[n] \in Nat
      BY <1>1, <2>1 DEF Flattened
    <3>2. last[n] = add(x, s.archs[n])
      BY <1>6, <2>1
    <3> QED
      BY <1>2, <3>1, <3>2
  <2>3. Flattened(y, es)
    BY <2>1, <2>2 DEF Flattened
  <2> QED
    BY <1>7, <2>2, <2>3
<1>10. \A n \in 0..N : n \in P
  BY <1>8, <1>9, EveryRound
<1>11. N \in 0..N
  OBVIOUS
<1> QED
  BY <1>5, <1>7, <1>10, <1>11

\* The entry of the clean version of s already refers to it.
Grouped(cfg, s) ==
    /\ s.clean \in DOMAIN cfg.known
    /\ \E f \in ToSet(cfg.entries[cfg.known[s.clean]].flavors) : f.ref = s.version

FlavorOf(s) == [ref |-> s.version, caps |-> s.caps]

\* A flavor under the entry of its clean version.
LEMMA GroupAdds ==
    ASSUME NEW cfg \in Offer, NEW s \in KeptImage, s.clean # Unset, ~Grouped(cfg, s)
    PROVE  /\ Group(cfg, s) \in Offer
           /\ \A v, f : FlavorUnder(Group(cfg, s).entries, v, f) <=>
                           FlavorUnder(cfg.entries, v, f) \/ (v = s.clean /\ f = FlavorOf(s))
<1>0. /\ s.clean \in Nat /\ s.version \in Nat /\ s.caps \in Caps
      /\ cfg.entries \in Seq(IroncoreEntry) /\ cfg.known \in KnownVersions
      /\ Located(cfg.known, cfg.entries)
  BY UpdaterAssumption DEF KeptImage, Unset, Offer
<1>1. PICK es \in Seq(IroncoreEntry) : es = cfg.entries
  BY <1>0
<1>2. PICK known \in KnownVersions : known = cfg.known
  BY <1>0
<1>3. PICK flavor : flavor = [ref |-> s.version, caps |-> s.caps]
  OBVIOUS
<1>4. flavor \in [ref: Nat, caps: Caps] /\ flavor.ref = s.version /\ flavor.caps = s.caps
  BY <1>0, <1>3
<1>5. CASE s.clean \in DOMAIN known
  <2>1. PICK k \in DOMAIN es : k = known[s.clean] /\ es[k].version = s.clean /\ es[k] \in IroncoreEntry
    BY <1>0, <1>1, <1>2, <1>5 DEF Located
  <2>2. PICK fs \in Seq([ref: Nat, caps: Caps]) : fs = es[k].flavors
    BY <2>1 DEF IroncoreEntry
  <2>3. \A f \in ToSet(fs) : f.ref # s.version
    BY <1>1, <1>2, <1>5, <2>1, <2>2 DEF Grouped
  <2>4. PICK e : e = [es[k] EXCEPT !.flavors = Append(fs, flavor)]
    OBVIOUS
  <2>5. Append(fs, flavor) \in Seq([ref: Nat, caps: Caps])
    BY <1>4
  <2>6. e \in IroncoreEntry /\ e.version = s.clean /\ e.flavors = Append(fs, flavor)
    BY <2>1, <2>4, <2>5 DEF IroncoreEntry
  <2>7. ToSet(Append(fs, flavor)) = ToSet(fs) \cup {flavor}
    <3> DEFINE t == Append(fs, flavor)
    <3>1. DOMAIN t = 1..(Len(fs) + 1) /\ DOMAIN fs = 1..Len(fs) /\ t[Len(fs) + 1] = flavor
      OBVIOUS
    <3>2. \A i \in DOMAIN fs : t[i] = fs[i]
      OBVIOUS
    <3>3. DOMAIN t = DOMAIN fs \cup {Len(fs) + 1}
      BY <3>1
    <3> HIDE DEF t
    <3>4. ToSet(t) = ToSet(fs) \cup {flavor}
      BY <3>1, <3>2, <3>3 DEF ToSet
    <3> QED
      BY <3>4 DEF t
  <2>8. PICK t : t = [es EXCEPT ![k] = e]
    OBVIOUS
  <2>9. /\ t \in Seq(IroncoreEntry) /\ DOMAIN t = DOMAIN es /\ t[k] = e
        /\ \A i \in DOMAIN es : i # k => t[i] = es[i]
    BY <2>1, <2>6, <2>8
  <2>10. Group(cfg, s) = [cfg EXCEPT !.entries = t]
    <3>1. ~\E j \in DOMAIN fs : fs[j].ref = s.version
      BY <2>3 DEF ToSet
    <3>2. AddFlavorUnder(es, known, s) = t
      BY <1>3, <2>1, <2>2, <2>4, <2>8, <3>1 DEF AddFlavorUnder
    <3> QED
      BY <1>1, <1>2, <1>5, <3>2 DEF Group
  <2>11. Group(cfg, s).entries = t /\ Group(cfg, s).known = known
    BY <1>2, <2>10 DEF Offer
  <2>12. Located(known, t)
    BY <1>0, <1>1, <1>2, <2>1, <2>6, <2>9 DEF Located
  <2>13. Group(cfg, s) \in Offer
    BY <1>2, <2>9, <2>10, <2>11, <2>12 DEF Offer
  <2>14. \A v, f : FlavorUnder(t, v, f) <=> FlavorUnder(es, v, f) \/ (v = s.clean /\ f = flavor)
    <3>1. /\ \A i \in DOMAIN es : t[i].version = es[i].version
          /\ \A i \in DOMAIN es : i # k => ToSet(t[i].flavors) = ToSet(es[i].flavors)
          /\ ToSet(t[k].flavors) = ToSet(es[k].flavors) \cup {flavor}
      BY <2>1, <2>2, <2>6, <2>7, <2>9
    <3> QED
      BY <2>1, <2>9, <3>1 DEF FlavorUnder
  <2> QED
    BY <1>1, <1>3, <2>11, <2>13, <2>14 DEF FlavorOf
<1>6. CASE s.clean \notin DOMAIN known
  <2>1. PICK e : e = [version |-> s.clean, ref |-> Unset, arch |-> Unset, flavors |-> <<flavor>>]
    OBVIOUS
  <2>2. <<flavor>> \in Seq([ref: Nat, caps: Caps]) /\ ToSet(<<flavor>>) = {flavor}
    BY <1>4 DEF ToSet
  <2>3. e \in IroncoreEntry /\ e.version = s.clean /\ ToSet(e.flavors) = {flavor}
    BY <1>0, <2>1, <2>2 DEF IroncoreEntry, Unset
  <2>4. PICK t : t = Append(es, e)
    OBVIOUS
  <2>5. /\ t \in Seq(IroncoreEntry) /\ DOMAIN t = DOMAIN es \cup {Len(es) + 1}
        /\ t[Len(es) + 1] = e /\ \A i \in DOMAIN es : t[i] = es[i]
        /\ \A v, f : FlavorUnder(t, v, f) <=>
                        FlavorUnder(es, v, f) \/ (v = e.version /\ f \in ToSet(e.flavors))
    BY <2>3, <2>4, AppendOffers
  <2>6. PICK more : more = [v \in DOMAIN known \cup {s.clean} |->
                               IF v = s.clean THEN Len(es) + 1 ELSE known[v]]
    OBVIOUS
  <2>7. more \in KnownVersions
    <3>1. PICK V \in SUBSET Nat : known \in [V -> Nat]
      BY DEF KnownVersions
    <3>2. Len(es) + 1 \in Nat
      OBVIOUS
    <3>3. more \in [V \cup {s.clean} -> Nat] /\ V \cup {s.clean} \in SUBSET Nat
      BY <1>0, <2>6, <3>1, <3>2
    <3> QED
      BY <3>3 DEF KnownVersions
  <2>8. Located(more, t)
    BY <1>0, <1>1, <1>2, <1>6, <2>3, <2>5, <2>6 DEF Located
  <2>9. Group(cfg, s) = [entries |-> t, known |-> more]
    BY <1>1, <1>2, <1>3, <1>6, <2>1, <2>4, <2>6 DEF Group
  <2>10. Group(cfg, s) \in Offer
    BY <2>5, <2>7, <2>8, <2>9 DEF Offer
  <2> QED
    BY <1>1, <1>3, <2>3, <2>5, <2>9, <2>10 DEF FlavorOf
<1> QED
  BY <1>2, <1>5, <1>6

\* An image that Configure offers under its clean version.
GroupsUnder(s) == EnableCapabilities /\ s.caps # {} /\ s.clean # Unset /\ s.clean # s.version

\* A round of Configure adds at most the flavor of its image: not if there is a flavor
\* of that image already.
OfferAdded(cfg, new, s) ==
    /\ \A v, f : FlavorUnder(cfg.entries, v, f) => FlavorUnder(new.entries, v, f)
    /\ \A v, f : FlavorUnder(new.entries, v, f) =>
                    \/ FlavorUnder(cfg.entries, v, f)
                    \/ GroupsUnder(s) /\ v = s.clean /\ f = FlavorOf(s)
    /\ GroupsUnder(s) => \E f : /\ FlavorUnder(new.entries, s.clean, f) /\ f.ref = s.version
                                /\ f = FlavorOf(s) \/ FlavorUnder(cfg.entries, s.clean, f)

LEMMA OfferAdds ==
    ASSUME NEW cfg \in Offer, NEW s \in KeptImage
    PROVE  OfferImage(cfg, s) \in Offer /\ OfferAdded(cfg, OfferImage(cfg, s), s)
<1>1. PICK t : t = AddFlat(cfg.entries, s) /\ Flattened(t, cfg.entries)
  BY FlatAdds DEF Offer
<1>2. PICK flat : flat = [cfg EXCEPT !.entries = t]
  OBVIOUS
<1>3. flat \in Offer /\ flat.entries = t /\ flat.known = cfg.known
  <2>1. flat.entries = t /\ flat.known = cfg.known
    BY <1>2 DEF Offer
  <2>2. Located(cfg.known, t)
    BY <1>1 DEF Located, Offer, Flattened
  <2>3. t \in Seq(IroncoreEntry)
    BY <1>1 DEF Flattened
  <2> QED
    BY <1>2, <2>1, <2>2, <2>3 DEF Offer
<1>4. CASE ~GroupsUnder(s)
  <2>1. OfferImage(cfg, s) = flat
    BY <1>1, <1>2, <1>4 DEF OfferImage, GroupsUnder
  <2> QED
    BY <1>1, <1>3, <1>4, <2>1 DEF Flattened, OfferAdded
<1>5. CASE GroupsUnder(s)
  <2>1. OfferImage(cfg, s) = Group(flat, s) /\ s.clean # Unset
    BY <1>1, <1>2, <1>5 DEF OfferImage, GroupsUnder
  <2>2. CASE Grouped(flat, s)
    <3>1. PICK es : es = flat.entries
      OBVIOUS
    <3>2. PICK k \in DOMAIN es : k = flat.known[s.clean]
      BY <1>3, <2>2, <3>1 DEF Grouped, Offer, Located
    <3>3. \E j \in DOMAIN es[k].flavors : es[k].flavors[j].ref = s.version
      BY <2>2, <3>1, <3>2 DEF Grouped, ToSet
    <3>4. Group(flat, s) = flat
      <4>1. AddFlavorUnder(es, flat.known, s) = es
        BY <3>2, <3>3 DEF AddFlavorUnder
      <4>2. [flat EXCEPT !.entries = es] = flat
        BY <1>3, <3>1 DEF Offer
      <4> QED
        BY <2>2, <3>1, <4>1, <4>2 DEF Group, Grouped
    <3>5. \E f : FlavorUnder(t, s.clean, f) /\ f.ref = s.version
      <4>1. PICK f \in ToSet(t[k].flavors) : f.ref = s.version
        BY <1>3, <2>2, <3>2 DEF Grouped
      <4>2. k \in DOMAIN t /\ t[k].version = s.clean
        BY <1>3, <2>2, <3>1, <3>2 DEF Grouped, Offer, Located
      <4> QED
        BY <4>1, <4>2 DEF FlavorUnder
    <3> QED
      BY <1>1, <1>3, <2>1, <3>4, <3>5 DEF Flattened, OfferAdded
  <2>3. CASE ~Grouped(flat, s)
    <3>1. PICK new : new = Group(flat, s)
      OBVIOUS
    <3>2. /\ new \in Offer
          /\ \A v, f : FlavorUnder(new.entries, v, f) <=>
                          FlavorUnder(t, v, f) \/ (v = s.clean /\ f = FlavorOf(s))
      BY <1>3, <2>1, <2>3, <3>1, GroupAdds
    <3>3. FlavorOf(s).ref = s.version
      BY DEF FlavorOf
    <3>4. OfferAdded(cfg, new, s)
      BY <1>1, <1>5, <3>2, <3>3 DEF Flattened, OfferAdded
    <3> QED
      BY <2>1, <3>1, <3>2, <3>4
  <2> QED
    BY <2>2, <2>3
<1> QED
  BY <1>4, <1>5

\* The rounds of Configure, and what they start from.
FirstOffer(base) ==
    [entries |-> base, known |-> [v \in {base[i].version : i \in DOMAIN base} |-> IndexOf(base, v)]]
OfferRounds(after, base, ss) ==
    /\ after \in [0..Len(ss) -> Offer]
    /\ after[0] = FirstOffer(base)
    /\ \A n \in 1..Len(ss) : after[n] = OfferImage(after[n - 1], ss[n])

\* ConfigureIroncore is what they end with.
LEMMA ConfiguredInRounds ==
    ASSUME NEW base \in Seq(IroncoreEntry), NEW ss \in Seq(KeptImage)
    PROVE  \E after : /\ OfferRounds(after, base, ss)
                      /\ ConfigureIroncore(base, ss) = after[Len(ss)].entries
<1>0. PICK N \in Nat : N = Len(ss)
  OBVIOUS
<1> DEFINE V == {base[i].version : i \in DOMAIN base}
<1>1. PICK known : known = [v \in V |-> IndexOf(base, v)]
  OBVIOUS
<1>2. PICK start : start = [entries |-> base, known |-> known]
  OBVIOUS
<1>3. start \in Offer /\ start.entries = base
  <2>1. \A i \in DOMAIN base : base[i] \in IroncoreEntry
    OBVIOUS
  <2>2. V \in SUBSET Nat
    BY <2>1 DEF IroncoreEntry
  <2>3. ASSUME NEW v \in V
        PROVE  known[v] \in DOMAIN base /\ base[known[v]].version = v
    <3>1. \E i \in DOMAIN base : base[i].version = v
      OBVIOUS
    <3> QED
      BY <1>1, <3>1, IndexFound
  <2>4. known \in [V -> Nat]
    <3>1. \A v \in V : known[v] \in Nat
      BY <2>3
    <3> HIDE DEF V
    <3> QED
      BY <1>1, <3>1
  <2>5. DOMAIN known = V
    BY <1>1
  <2>6. Located(known, base)
    BY <2>3, <2>5 DEF Located
  <2>7. known \in KnownVersions
    <3> HIDE DEF V
    <3> QED
      BY <2>2, <2>4 DEF KnownVersions
  <2> QED
    BY <1>2, <2>6, <2>7 DEF Offer
<1> DEFINE body(f) == [n \in 0..N |-> IF n = 0 THEN start ELSE OfferImage(f[n - 1], ss[n])]
           last == CHOOSE f : f = body(f)
           step == [p \in Offer \X (1..N) |-> OfferImage(p[1], ss[p[2]])]
<1>4. \A n \in 1..N : ss[n] \in KeptImage
  BY <1>0
<1>5. \E f : f = body(f)
  <2>1. step \in [Offer \X (1..N) -> Offer]
    BY <1>4, OfferAdds
  <2>2. PICK round \in [Offer \X (1..N) -> Offer] : round = step
    BY <2>1
  <2>3. PICK f \in [0..N -> Offer] :
           f[0] = start /\ \A n \in 1..N : f[n] = round[<<f[n - 1], n>>]
    <3>1. PICK f : IsLoop(f, N, Offer, start, round)
      BY <1>3, LoopExists
    <3> QED
      BY <3>1 DEF IsLoop
  <2>4. ASSUME NEW n \in 0..N PROVE f[n] = IF n = 0 THEN start ELSE OfferImage(f[n - 1], ss[n])
    <3>1. CASE n = 0
      BY <2>3, <3>1
    <3>2. CASE n # 0
      <4>1. n \in 1..N /\ n - 1 \in 0..N
        BY <3>2
      <4>2. <<f[n - 1], n>> \in Offer \X (1..N)
        BY <2>3, <4>1
      <4> QED
        BY <2>2, <2>3, <3>2, <4>1, <4>2
    <3> QED
      BY <3>1, <3>2
  <2>5. f = body(f)
    BY <2>3, <2>4
  <2> QED
    BY <2>5
<1>6. last = body(last)
  <2> HIDE DEF body
  <2> QED
    BY <1>5
<1>7. ConfigureIroncore(base, ss) = last[N].entries
  BY <1>0, <1>1, <1>2 DEF ConfigureIroncore, Loop
<1> HIDE DEF last
<1>8. last[0] = start /\ \A n \in 1..N : last[n] = OfferImage(last[n - 1], ss[n])
  BY <1>6
<1>9. last = [n \in 0..N |-> last[n]]
  BY <1>6
<1> HIDE DEF body
<1>10. PICK Q : Q = {n \in 0..N : last[n] \in Offer}
  OBVIOUS
<1>11. 0 \in Q
  BY <1>3, <1>8, <1>10
<1>12. ASSUME NEW n \in 1..N, n - 1 \in Q PROVE n \in Q
  <2>1. last[n - 1] \in Offer /\ ss[n] \in KeptImage
    BY <1>4, <1>10, <1>12
  <2>2. last[n] \in Offer
    BY <1>8, <2>1, OfferAdds
  <2> QED
    BY <1>10, <2>2
<1>13. \A n \in 0..N : n \in Q
  BY <1>11, <1>12, EveryRound
<1>14. OfferRounds(last, base, ss)
  BY <1>0, <1>1, <1>2, <1>8, <1>9, <1>10, <1>13 DEF OfferRounds, FirstOffer
<1> QED
  BY <1>0, <1>7, <1>14

\* After n rounds of both: what machineImages offers resolves, or has the version of
\* one of the images, or the base has a flavor of that image with other capabilities;
\* what resolves is offered; the flavors are those of the base and of the images so far.
InStep(images, entries, base, ss, n) ==
    /\ \A v, c : HasFlavor(images, v, c) =>
                    \/ Resolves(entries, v, c)
                    \/ \E m \in 1..n : ss[m].version = v /\ ss[m].caps = c
                    \/ \E m \in 1..n : /\ ss[m].clean = v /\ ss[m].caps = c
                                       /\ RefersOtherwise(base, v, ss[m].version, c)
    /\ \A v, c : Resolves(entries, v, c) => HasFlavor(images, v, c)
    /\ \A v, f : FlavorUnder(entries, v, f) =>
                    FlavorUnder(base, v, f) \/ \E m \in 1..n : ss[m].version = f.ref

LEMMA ResolvesByFlavor ==
    /\ \A es, v, c : Resolves(es, v, c) <=> \E f : FlavorUnder(es, v, f) /\ f.caps = c
    /\ \A es, v, r, c : RefersOtherwise(es, v, r, c) <=>
                            \E f : FlavorUnder(es, v, f) /\ f.ref = r /\ f.caps # c
BY DEF Resolves, RefersOtherwise, FlavorUnder

\* A round of both keeps them in step: an image whose flavor only machineImages gets
\* is its own clean version, or there is a flavor of it, which is not of an image so far.
LEMMA RoundInStep ==
    ASSUME NEW base, NEW ss \in Seq(KeptImage), NEW n \in 1..Len(ss),
           \A m \in 1..(n - 1) : ss[m].version # ss[n].version,
           NEW images \in Seq(VersionEntry), NEW cfg \in Offer,
           InStep(images, cfg.entries, base, ss, n - 1)
    PROVE  InStep(Upsert(images, ss[n]), OfferImage(cfg, ss[n]).entries, base, ss, n)
<1>1. PICK s \in KeptImage : s = ss[n]
  OBVIOUS
<1>2. PICK now : now = Upsert(images, s)
  OBVIOUS
<1>3. PICK offer : offer = OfferImage(cfg, s)
  OBVIOUS
<1>4. /\ \A m \in 1..(n - 1) : m \in 1..n
      /\ n \in 1..n /\ \A m \in 1..n : m = n \/ m \in 1..(n - 1)
  OBVIOUS
<1>5. OfferAdded(cfg, offer, s)
  BY <1>3, OfferAdds
<1>6. FlavorOf(s).caps = s.caps /\ FlavorOf(s).ref = s.version
  BY DEF FlavorOf
<1>7. \A v, c : HasFlavor(now, v, c) <=>
                   \/ HasFlavor(images, v, c)
                   \/ EnableCapabilities /\ s.clean # Unset /\ s.caps # {} /\ v = s.clean /\ c = s.caps
  BY <1>2, UpsertFlavors
<1>8. GroupsUnder(s) => \/ Resolves(offer.entries, s.clean, s.caps)
                        \/ RefersOtherwise(base, s.clean, s.version, s.caps)
  <2> SUFFICES ASSUME GroupsUnder(s), ~Resolves(offer.entries, s.clean, s.caps)
               PROVE  RefersOtherwise(base, s.clean, s.version, s.caps)
    OBVIOUS
  <2>1. PICK f : /\ FlavorUnder(offer.entries, s.clean, f) /\ f.ref = s.version
                 /\ f = FlavorOf(s) \/ FlavorUnder(cfg.entries, s.clean, f)
    BY <1>5 DEF OfferAdded
  <2>2. f.caps # s.caps
    BY <2>1, ResolvesByFlavor
  <2>3. FlavorUnder(cfg.entries, s.clean, f)
    BY <1>6, <2>1, <2>2
  <2>4. FlavorUnder(base, s.clean, f)
    BY <1>1, <2>1, <2>3 DEF InStep
  <2> QED
    BY <2>1, <2>2, <2>4, ResolvesByFlavor
<1>9. ASSUME NEW v, NEW c, HasFlavor(now, v, c)
      PROVE  \/ Resolves(offer.entries, v, c)
             \/ \E m \in 1..n : ss[m].version = v /\ ss[m].caps = c
             \/ \E m \in 1..n : /\ ss[m].clean = v /\ ss[m].caps = c
                                /\ RefersOtherwise(base, v, ss[m].version, c)
  <2>1. CASE HasFlavor(images, v, c)
    <3>1. Resolves(cfg.entries, v, c) => Resolves(offer.entries, v, c)
      BY <1>5, ResolvesByFlavor DEF OfferAdded
    <3> QED
      BY <1>4, <2>1, <3>1 DEF InStep
  <2>2. CASE ~HasFlavor(images, v, c)
    <3>1. EnableCapabilities /\ s.clean # Unset /\ s.caps # {} /\ v = s.clean /\ c = s.caps
      BY <1>7, <1>9, <2>2
    <3> QED
      BY <1>1, <1>4, <1>8, <3>1 DEF GroupsUnder
  <2> QED
    BY <2>1, <2>2
<1>10. ASSUME NEW v, NEW c, Resolves(offer.entries, v, c) PROVE HasFlavor(now, v, c)
  <2>1. PICK f : FlavorUnder(offer.entries, v, f) /\ f.caps = c
    BY <1>10, ResolvesByFlavor
  <2>2. CASE FlavorUnder(cfg.entries, v, f)
    <3>1. Resolves(cfg.entries, v, c)
      BY <2>1, <2>2, ResolvesByFlavor
    <3> QED
      BY <1>7, <3>1 DEF InStep
  <2>3. CASE ~FlavorUnder(cfg.entries, v, f)
    BY <1>5, <1>6, <1>7, <2>1, <2>3 DEF OfferAdded, GroupsUnder
  <2> QED
    BY <2>2, <2>3
<1>11. ASSUME NEW v, NEW f, FlavorUnder(offer.entries, v, f)
       PROVE  FlavorUnder(base, v, f) \/ \E m \in 1..n : ss[m].version = f.ref
  BY <1>1, <1>4, <1>5, <1>6, <1>11 DEF InStep, OfferAdded
<1> QED
  BY <1>1, <1>2, <1>3, <1>9, <1>10, <1>11 DEF InStep

\* So Apply and Configure end in step.
LEMMA EndInStep ==
    ASSUME NEW images \in Seq(VersionEntry), NEW base \in Seq(IroncoreEntry),
           NEW ss \in Seq(KeptImage),
           \A v, c : HasFlavor(images, v, c) <=> Resolves(base, v, c),
           \A i, j \in 1..Len(ss) : i < j => ss[i].version # ss[j].version
    PROVE  InStep(MachineImages(images, ss), ConfigureIroncore(base, ss), base, ss, Len(ss))
<1>0. PICK N \in Nat : N = Len(ss)
  OBVIOUS
<1>1. PICK after : Rounds(after, images, ss) /\ MachineImages(images, ss) = after[N]
  BY <1>0, AppliedInRounds
<1>2. PICK offers : OfferRounds(offers, base, ss) /\ ConfigureIroncore(base, ss) = offers[N].entries
  BY <1>0, ConfiguredInRounds
<1>3. /\ \A n \in 0..N : after[n] \in Seq(VersionEntry) /\ offers[n] \in Offer
      /\ after[0] = images /\ offers[0].entries = base
      /\ \A n \in 1..N : after[n] = Upsert(after[n - 1], ss[n])
      /\ \A n \in 1..N : offers[n] = OfferImage(offers[n - 1], ss[n])
  <2>1. FirstOffer(base).entries = base
    BY DEF FirstOffer
  <2> QED
    BY <1>0, <1>1, <1>2, <2>1 DEF Rounds, OfferRounds
<1>4. PICK P : P = {n \in 0..N : InStep(after[n], offers[n].entries, base, ss, n)}
  OBVIOUS
<1>5. 0 \in P
  <2>1. InStep(images, base, base, ss, 0)
    BY DEF InStep
  <2> QED
    BY <1>3, <1>4, <2>1
<1>6. ASSUME NEW n \in 1..N, n - 1 \in P PROVE n \in P
  <2>1. n - 1 \in 0..N /\ n \in 0..N
    OBVIOUS
  <2>2. InStep(after[n - 1], offers[n - 1].entries, base, ss, n - 1)
    BY <1>4, <1>6
  <2>3. \A m \in 1..(n - 1) : ss[m].version # ss[n].version
    BY <1>0
  <2>4. n \in 1..Len(ss) /\ after[n - 1] \in Seq(VersionEntry) /\ offers[n - 1] \in Offer
    BY <1>0, <1>3, <2>1
  <2>5. InStep(Upsert(after[n - 1], ss[n]), OfferImage(offers[n - 1], ss[n]).entries, base, ss, n)
    BY <2>2, <2>3, <2>4, RoundInStep
  <2> QED
    BY <1>3, <1>4, <2>1, <2>5
<1>7. \A n \in 0..N : n \in P
  BY <1>5, <1>6, EveryRound
<1>8. InStep(after[N], offers[N].entries, base, ss, N)
  <2>1. N \in 0..N
    OBVIOUS
  <2> QED
    BY <1>4, <1>7, <2>1
<1> QED
  BY <1>0, <1>1, <1>2, <1>8

-----------------------------------------------------------------------------
(***************************************************************************)
(* Configure of OpenStack: what a round does to the regions of an entry.   *)
(***************************************************************************)
\* A region put into regions takes the place of the one of its name, if there is one.
LEMMA RegionUpserted ==
    ASSUME NEW q \in Seq(Region), OneEach(q), NEW r \in Region
    PROVE  /\ UpsertRegion(q, r) \in Seq(Region) /\ OneEach(UpsertRegion(q, r))
           /\ ToSet(UpsertRegion(q, r)) = {x \in ToSet(q) : x.name # r.name} \cup {r}
<1> DEFINE I == {i \in 1..Len(q) : q[i].name = r.name}
<1>1. CASE I = {}
  <2>1. UpsertRegion(q, r) = Append(q, r)
    BY <1>1 DEF UpsertRegion, SelectInSeq
  <2>2. PICK t : t = Append(q, r)
    OBVIOUS
  <2>3. /\ t \in Seq(Region) /\ DOMAIN t = DOMAIN q \cup {Len(q) + 1} /\ t[Len(q) + 1] = r
        /\ \A i \in DOMAIN q : t[i] = q[i]
    BY <2>2
  <2>4. \A i \in DOMAIN q : q[i].name # r.name
    BY <1>1
  <2>5. OneEach(t)
    BY <2>3, <2>4 DEF OneEach
  <2>6. ToSet(t) = {x \in ToSet(q) : x.name # r.name} \cup {r}
    BY <2>3, <2>4 DEF ToSet
  <2> QED
    BY <2>1, <2>2, <2>3, <2>5, <2>6
<1>2. CASE I # {}
  <2>1. PICK k \in DOMAIN q : q[k].name = r.name
    BY <1>2
  <2>2. I = {k}
    BY <2>1 DEF OneEach
  <2>3. Min(I) = k
    <3>1. k \in Nat
      BY <2>1
    <3> HIDE DEF I
    <3> QED
      BY <2>2, <3>1 DEF Min
  <2>4. k \in 1..Len(q) /\ k # 0 /\ q[k] \in Region
    BY <2>1
  <2>5. UpsertRegion(q, r) = [q EXCEPT ![k].id = r.id]
    BY <1>2, <2>3, <2>4 DEF UpsertRegion, SelectInSeq
  <2>6. [q[k] EXCEPT !.id = r.id] = r
    BY <2>1, <2>4 DEF Region
  <2>7. PICK t : t = [q EXCEPT ![k] = r]
    OBVIOUS
  <2>8. UpsertRegion(q, r) = t
    BY <2>5, <2>6, <2>7
  <2>9. /\ t \in Seq(Region) /\ DOMAIN t = DOMAIN q /\ t[k] = r
        /\ \A i \in DOMAIN q : i # k => t[i] = q[i]
    BY <2>1, <2>7
  <2>10. \A i \in DOMAIN q : i # k => q[i].name # r.name
    BY <2>1 DEF OneEach
  <2>11. OneEach(t)
    BY <2>1, <2>9, <2>10 DEF OneEach
  <2>12. ToSet(t) = {x \in ToSet(q) : x.name # r.name} \cup {r}
    BY <2>1, <2>9, <2>10 DEF ToSet
  <2> QED
    BY <2>8, <2>9, <2>11, <2>12
<1> QED
  BY <1>1, <1>2

\* The regions that may be sorted, or merged with others.
Tidy == {q \in Seq(Region) : OneEach(q)}
RegionOrder(S) == {p \in S \X S : RegionBefore(p[1], p[2])}

\* Regions of different names have one order.
LEMMA RegionOrders ==
    ASSUME NEW q \in Tidy
    PROVE  IsFiniteSet(ToSet(q)) /\ Orders2(RegionOrder(ToSet(q)), ToSet(q))
<1>1. q \in Seq(Region) /\ OneEach(q)
  BY DEF Tidy
<1>2. IsFiniteSet(ToSet(q))
  <2> DEFINE f == [i \in DOMAIN q |-> q[i]]
  <2>1. f \in [DOMAIN q -> ToSet(q)] /\ \A x \in ToSet(q) : \E i \in DOMAIN q : f[i] = x
    BY DEF ToSet
  <2>2. IsFiniteSet(DOMAIN q)
    BY <1>1, FS_Interval
  <2> HIDE DEF f
  <2>3. f \in Surjection(DOMAIN q, ToSet(q))
    BY <2>1, Fun_IsSurj
  <2> QED
    BY <2>2, <2>3, FS_Surjection
<1>3. \A x \in ToSet(q) : x.name \in Nat /\ x.id \in Nat
  <2>1. \A i \in DOMAIN q : q[i] \in Region
    BY <1>1
  <2>2. \A x \in ToSet(q) : x \in Region
    BY <2>1 DEF ToSet
  <2> QED
    BY <2>2 DEF Region
<1>4. \A x, y \in ToSet(q) : x.name = y.name => x = y
  BY <1>1 DEF ToSet, OneEach
<1> QED
  BY <1>2, <1>3, <1>4 DEF Orders2, RegionOrder, RegionBefore

\* sortRegions puts them in that order.
LEMMA RegionsSorted ==
    ASSUME NEW q \in Tidy
    PROVE  /\ Follows(SortRegions(q), ToSet(q), RegionOrder(ToSet(q)))
           /\ SortRegions(q) \in Tidy /\ ToSet(SortRegions(q)) = ToSet(q)
<1> DEFINE places == DOMAIN q
           R == RegionOrder(ToSet(q))
           rel == {p \in places \X places : <<q[p[1]], q[p[2]]>> \in R}
           Sorts(p) == \A i, j \in DOMAIN p :
                          i < j => p[i] # p[j] /\ ~RegionBefore(q[p[j]], q[p[i]])
           order == CHOOSE p \in [1..Cardinality(places) -> places] : Sorts(p)
<1>1. q \in Seq(Region) /\ OneEach(q) /\ places = 1..Len(q) /\ Len(q) \in Nat
  BY DEF Tidy
<1>2. IsFiniteSet(places) /\ Cardinality(places) = Len(q)
  BY <1>1, FS_Interval
<1>3. \A i \in places : q[i] \in ToSet(q)
  BY DEF ToSet
<1>4. \A i, j \in places : q[i] = q[j] => i = j
  BY <1>1 DEF OneEach
<1>5. Orders2(R, ToSet(q)) /\ IsFiniteSet(ToSet(q))
  BY RegionOrders
<1>6. \A i, j \in places : <<q[i], q[j]>> \in R <=> RegionBefore(q[i], q[j])
  BY <1>3 DEF RegionOrder
<1> HIDE DEF R
<1>7. Orders2(rel, places)
  BY <1>3, <1>4, <1>5 DEF Orders2
<1>8. \E p \in [1..Cardinality(places) -> places] : Sorts(p)
  <2>1. PICK p \in [1..Cardinality(places) -> places] :
           \A i, j \in DOMAIN p : i < j => p[i] # p[j] /\ <<p[j], p[i]>> \notin rel
    <3> HIDE DEF places, rel
    <3> QED
      BY <1>2, <1>7, SortingExists
  <2>2. Sorts(p)
    BY <1>6, <2>1
  <2> HIDE DEF Sorts, places
  <2> QED
    BY <2>1, <2>2
<1>9. order \in [1..Len(q) -> places] /\ Sorts(order)
  <2> HIDE DEF Sorts, places
  <2> QED
    BY <1>2, <1>8
<1>10. PICK t : t = [i \in 1..Len(q) |-> q[order[i]]]
  OBVIOUS
<1>11. SortRegions(q) = t
  BY <1>9, <1>10 DEF SortRegions, Sorted
<1> HIDE DEF order
<1>12. \A i \in 1..Len(q) : order[i] \in places /\ t[i] = q[order[i]] /\ t[i] \in ToSet(q)
  BY <1>3, <1>9, <1>10
<1>13. ASSUME NEW i \in 1..Len(q), NEW j \in 1..Len(q), i < j PROVE <<t[i], t[j]>> \in R
  <2>1. order[i] # order[j] /\ ~RegionBefore(q[order[j]], q[order[i]])
    BY <1>9, <1>13
  <2>2. PICK m \in places : m = order[i]
    BY <1>12
  <2>3. PICK n \in places : n = order[j]
    BY <1>12
  <2>4. q[m] # q[n] /\ <<q[n], q[m]>> \notin R
    BY <1>4, <1>6, <2>1, <2>2, <2>3
  <2>5. <<q[m], q[n]>> \in R
    BY <1>3, <1>5, <2>4 DEF Orders2
  <2> QED
    BY <1>12, <2>2, <2>3, <2>5
<1>14. Cardinality(ToSet(q)) = Len(q)
  <2> DEFINE f == [i \in places |-> q[i]]
  <2>1. \A x \in ToSet(q) : \E i \in places : q[i] = x
    BY DEF ToSet
  <2>2. f \in Bijection(places, ToSet(q))
    <3> HIDE DEF places
    <3> QED
      BY <1>3, <1>4, <2>1, Fun_IsBij
  <2>3. ExistsBijection(places, ToSet(q))
    BY <2>2 DEF ExistsBijection
  <2> QED
    BY <1>2, <1>5, <2>3, FS_Bijection
<1>15. Follows(t, ToSet(q), R)
  BY <1>10, <1>12, <1>13, <1>14 DEF Follows
<1>16. /\ \A i, j \in 1..Len(q) : t[i] = t[j] => i = j
       /\ \A x \in ToSet(q) : \E i \in 1..Len(q) : t[i] = x
  BY <1>5, <1>14, <1>15, FollowsAll
<1>17. t \in Seq(Region) /\ DOMAIN t = 1..Len(q)
  <2>1. \A i \in 1..Len(q) : t[i] \in Region
    BY <1>1, <1>12
  <2> QED
    BY <1>10, <2>1
<1>18. OneEach(t)
  BY <1>1, <1>12, <1>16, <1>17 DEF OneEach
<1>19. ToSet(t) = ToSet(q)
  <2>1. \A x : x \in ToSet(t) <=> \E i \in 1..Len(q) : t[i] = x
    BY <1>17 DEF ToSet
  <2>2. ToSet(t) \subseteq ToSet(q)
    BY <1>12, <2>1
  <2>3. ToSet(q) \subseteq ToSet(t)
    BY <1>16, <2>1
  <2> QED
    BY <2>2, <2>3
<1> QED
  BY <1>11, <1>15, <1>17, <1>18, <1>19 DEF R, Tidy

\* What is there after n of the regions rs were put into q.
MergedSet(q, rs, n) ==
    {x \in ToSet(q) : \A m \in 1..n : x.name # rs[m].name} \cup {rs[m] : m \in 1..n}

\* MergedRegions has all of rs, and of q what rs has no region for.
LEMMA RegionsMerged ==
    ASSUME NEW q \in Tidy, NEW rs \in Tidy
    PROVE  /\ MergedRegions(q, rs) \in Tidy
           /\ ToSet(MergedRegions(q, rs)) = MergedSet(q, rs, Len(rs))
<1>0. PICK N \in Nat : N = Len(rs)
  BY DEF Tidy
<1> DEFINE body(f) == [n \in 0..N |-> IF n = 0 THEN q ELSE UpsertRegion(f[n - 1], rs[n])]
           last == CHOOSE f : f = body(f)
           step == [p \in Tidy \X (1..N) |-> UpsertRegion(p[1], rs[p[2]])]
<1>1. \A n \in 1..N : rs[n] \in Region
  BY <1>0 DEF Tidy
<1>2. ASSUME NEW x \in Tidy, NEW r \in Region
      PROVE  UpsertRegion(x, r) \in Tidy
  BY RegionUpserted DEF Tidy
<1>3. \E f : f = body(f)
  <2>1. step \in [Tidy \X (1..N) -> Tidy]
    BY <1>1, <1>2
  <2>2. PICK round \in [Tidy \X (1..N) -> Tidy] : round = step
    BY <2>1
  <2>3. PICK f \in [0..N -> Tidy] :
           f[0] = q /\ \A n \in 1..N : f[n] = round[<<f[n - 1], n>>]
    <3>1. PICK f : IsLoop(f, N, Tidy, q, round)
      BY LoopExists
    <3> QED
      BY <3>1 DEF IsLoop
  <2>4. ASSUME NEW n \in 0..N PROVE f[n] = IF n = 0 THEN q ELSE UpsertRegion(f[n - 1], rs[n])
    <3>1. CASE n = 0
      BY <2>3, <3>1
    <3>2. CASE n # 0
      <4>1. n \in 1..N /\ n - 1 \in 0..N
        BY <3>2
      <4>2. <<f[n - 1], n>> \in Tidy \X (1..N)
        BY <2>3, <4>1
      <4> QED
        BY <2>2, <2>3, <3>2, <4>1, <4>2
    <3> QED
      BY <3>1, <3>2
  <2>5. f = body(f)
    BY <2>3, <2>4
  <2> QED
    BY <2>5
<1>4. last = body(last)
  <2> HIDE DEF body
  <2> QED
    BY <1>3
<1>5. MergedRegions(q, rs) = last[N]
  BY <1>0 DEF MergedRegions, Loop
<1> HIDE DEF last
<1>6. last[0] = q /\ \A n \in 1..N : last[n] = UpsertRegion(last[n - 1], rs[n])
  BY <1>4
<1> HIDE DEF body
<1>7. PICK P : P = {n \in 0..N : last[n] \in Tidy /\ ToSet(last[n]) = MergedSet(q, rs, n)}
  OBVIOUS
<1>8. 0 \in P
  <2>1. MergedSet(q, rs, 0) = ToSet(q)
    BY DEF MergedSet
  <2> QED
    BY <1>6, <1>7, <2>1
<1>9. ASSUME NEW n \in 1..N, n - 1 \in P PROVE n \in P
  <2>1. PICK x \in Tidy : x = last[n - 1] /\ ToSet(x) = MergedSet(q, rs, n - 1)
    BY <1>7, <1>9
  <2>2. PICK r \in Region : r = rs[n]
    BY <1>1
  <2>3. PICK y : y = UpsertRegion(x, r)
    OBVIOUS
  <2>4. y = last[n] /\ y \in Tidy
    BY <1>2, <1>6, <2>1, <2>2, <2>3
  <2>5. ToSet(y) = {z \in ToSet(x) : z.name # r.name} \cup {r}
    BY <2>3, RegionUpserted DEF Tidy
  <2>6. \A m \in 1..(n - 1) : m \in 1..n /\ rs[m].name # r.name
    BY <1>0, <2>2 DEF Tidy, OneEach
  <2>7. \A m \in 1..n : m = n \/ m \in 1..(n - 1)
    OBVIOUS
  <2>8. n \in 1..n
    OBVIOUS
  <2>9. ToSet(y) = MergedSet(q, rs, n)
    BY <2>1, <2>2, <2>5, <2>6, <2>7, <2>8 DEF MergedSet
  <2> QED
    BY <1>7, <2>4, <2>9
<1>10. \A n \in 0..N : n \in P
  BY <1>8, <1>9, EveryRound
<1>11. N \in 0..N
  OBVIOUS
<1> QED
  BY <1>0, <1>5, <1>7, <1>10, <1>11

\* So the regions of an entry depend on which regions an image has, and not on the
\* order in which they answered.
LEMMA RegionsOnce ==
    ASSUME NEW q \in Tidy, NEW rs \in Tidy
    PROVE  /\ SortedRegions(q, rs) \in Tidy
           /\ ToSet(SortedRegions(q, rs)) = MergedSet(q, rs, Len(rs))
           /\ \A ts \in Tidy : ToSet(ts) = ToSet(rs) => SortedRegions(q, ts) = SortedRegions(q, rs)
<1>1. ASSUME NEW ts \in Tidy
      PROVE  /\ MergedRegions(q, ts) \in Tidy
             /\ ToSet(MergedRegions(q, ts)) =
                   {x \in ToSet(q) : \A y \in ToSet(ts) : x.name # y.name} \cup ToSet(ts)
  <2>1. ToSet(MergedRegions(q, ts)) = MergedSet(q, ts, Len(ts)) /\ MergedRegions(q, ts) \in Tidy
    BY RegionsMerged
  <2>2. DOMAIN ts = 1..Len(ts)
    BY DEF Tidy
  <2>3. ToSet(ts) = {ts[m] : m \in 1..Len(ts)}
    BY <2>2 DEF ToSet
  <2>4. \A x : (\A m \in 1..Len(ts) : x.name # ts[m].name) <=> (\A y \in ToSet(ts) : x.name # y.name)
    BY <2>3
  <2> QED
    BY <2>1, <2>3, <2>4 DEF MergedSet
<1>2. ASSUME NEW ts \in Tidy, ToSet(ts) = ToSet(rs)
      PROVE  SortedRegions(q, ts) = SortedRegions(q, rs)
  <2>1. PICK a \in Tidy : a = MergedRegions(q, rs)
    BY <1>1
  <2>2. PICK b \in Tidy : b = MergedRegions(q, ts)
    BY <1>1
  <2>3. ToSet(a) = ToSet(b)
    BY <1>1, <1>2, <2>1, <2>2
  <2>4. PICK S : S = ToSet(a)
    OBVIOUS
  <2>5. Follows(SortRegions(a), S, RegionOrder(S)) /\ Follows(SortRegions(b), S, RegionOrder(S))
    BY <2>3, <2>4, RegionsSorted
  <2>6. IsFiniteSet(S) /\ Orders2(RegionOrder(S), S)
    BY <2>4, RegionOrders
  <2>7. SortRegions(a) = SortRegions(b)
    BY <2>5, <2>6, OneOrder
  <2> QED
    BY <2>1, <2>2, <2>7 DEF SortedRegions
<1>3. /\ SortedRegions(q, rs) \in Tidy
      /\ ToSet(SortedRegions(q, rs)) = MergedSet(q, rs, Len(rs))
  BY RegionsMerged, RegionsSorted DEF SortedRegions
<1> QED
  BY <1>2, <1>3

\* Images and entries whose regions have one identifier each.
TidyImage == {s \in KeptImage : s.regions \in Tidy}
TidyEntry ==
    {e \in OpenStackEntry : e.regions \in Tidy /\ \A k \in DOMAIN e.flavors : e.flavors[k].regions \in Tidy}

\* The flavors of an entry once an image was offered there: one of them has the regions
\* of the image besides its own.
LEMMA FlavorsOffered ==
    ASSUME NEW old \in TidyEntry, NEW s \in TidyImage
    PROVE  /\ Flavors(old, s) \in TidyEntry
           /\ Flavors(old, s).version = old.version /\ Flavors(old, s).regions = <<>>
           /\ RegionsIn(Flavors(old, s)) \subseteq RegionsIn(old) \cup ToSet(s.regions)
           /\ ToSet(s.regions) \subseteq RegionsIn(Flavors(old, s))
           /\ \A u \in TidyImage : u.caps = s.caps /\ ToSet(u.regions) = ToSet(s.regions)
                                     => Flavors(old, u) = Flavors(old, s)
<1> DEFINE Flavor == [caps: Caps, regions: Seq(Region)]
           I == {k \in 1..Len(old.flavors) : old.flavors[k].caps = s.caps}
<1>1. /\ old.flavors \in Seq(Flavor) /\ old.regions \in Seq(Region) /\ old.version \in Nat
      /\ old = [version |-> old.version, regions |-> old.regions, flavors |-> old.flavors]
  BY DEF TidyEntry, OpenStackEntry
<1>2. PICK fs \in Seq(Flavor) : fs = old.flavors
  BY <1>1
<1>3. /\ s.caps \in Caps /\ s.regions \in Tidy
      /\ \A k \in DOMAIN fs : fs[k].regions \in Tidy /\ fs[k] \in Flavor
  <2>1. \A k \in DOMAIN fs : fs[k].regions \in Tidy
    BY <1>2 DEF TidyEntry
  <2>2. \A k \in DOMAIN fs : fs[k] \in Flavor
    <3> HIDE DEF Flavor
    <3> QED
      OBVIOUS
  <2> QED
    BY <2>1, <2>2 DEF TidyImage, KeptImage
<1>4. <<>> \in Tidy /\ ToSet(<<>>) = {}
  BY DEF Tidy, OneEach, ToSet
<1>5. \A rs \in Tidy : rs \in Seq(Region)
  BY DEF Tidy
<1>6. CASE I # {}
  <2>1. Min(I) \in I
    <3>1. PICK J : J = I
      OBVIOUS
    <3>2. J # {} /\ J \subseteq Nat
      BY <1>2, <1>6, <3>1
    <3>3. \E x \in J : \A y \in J : x <= y
      BY <3>2, LeastExists
    <3>4. Min(J) \in J
      BY <3>3 DEF Min
    <3> QED
      BY <3>1, <3>4
  <2>2. PICK k \in DOMAIN fs : k = Min(I) /\ fs[k].caps = s.caps /\ k # 0
    <3>1. PICK m : m = Min(I)
      OBVIOUS
    <3>2. m \in 1..Len(fs) /\ fs[m].caps = s.caps
      BY <1>2, <2>1, <3>1
    <3> HIDE DEF I
    <3> QED
      BY <3>1, <3>2
  <2>3. PICK rs : rs = SortedRegions(fs[k].regions, s.regions)
    OBVIOUS
  <2>4. /\ rs \in Tidy /\ ToSet(rs) = MergedSet(fs[k].regions, s.regions, Len(s.regions))
        /\ \A ts \in Tidy : ToSet(ts) = ToSet(s.regions) => SortedRegions(fs[k].regions, ts) = rs
    BY <1>3, <2>3, RegionsOnce
  <2>5. PICK f : f = [fs[k] EXCEPT !.regions = rs]
    OBVIOUS
  <2>6. f \in Flavor /\ f.regions = rs
    BY <1>3, <1>5, <2>4, <2>5
  <2>7. PICK gs : gs = [fs EXCEPT ![k] = f]
    OBVIOUS
  <2>8. /\ gs \in Seq(Flavor) /\ DOMAIN gs = DOMAIN fs /\ gs[k] = f
        /\ \A j \in DOMAIN fs : j # k => gs[j] = fs[j]
    BY <2>6, <2>7
  <2>9. PICK new : new = [version |-> old.version, regions |-> <<>>, flavors |-> gs]
    OBVIOUS
  <2>10. ASSUME NEW u \in TidyImage, u.caps = s.caps, ToSet(u.regions) = ToSet(s.regions)
         PROVE  Flavors(old, u) = new
    <3>1. u.regions \in Tidy
      BY DEF TidyImage
    <3>2. SortedRegions(fs[k].regions, u.regions) = rs
      BY <2>4, <2>10, <3>1
    <3>3. FlavorsWith(fs, u) = [fs EXCEPT ![k].regions = SortedRegions(@, u.regions)]
      BY <1>2, <1>6, <2>2, <2>10 DEF FlavorsWith, SelectInSeq
    <3>4. [fs EXCEPT ![k].regions = SortedRegions(@, u.regions)] = gs
      BY <2>2, <2>5, <2>7, <3>2
    <3> QED
      BY <1>2, <2>9, <3>3, <3>4 DEF Flavors
  <2>11. Flavors(old, s) = new
    BY <2>10
  <2>12. new \in TidyEntry /\ new.version = old.version /\ new.regions = <<>> /\ new.flavors = gs
    BY <1>1, <1>3, <1>4, <1>5, <2>4, <2>6, <2>8, <2>9 DEF TidyEntry, OpenStackEntry
  <2>13. RegionsIn(new) = UNION {ToSet(g.regions) : g \in ToSet(gs)}
    BY <1>4, <2>12 DEF RegionsIn
  <2>14. \A k2 \in DOMAIN fs : ToSet(fs[k2].regions) \subseteq RegionsIn(old)
    <3>1. \A k2 \in DOMAIN fs : fs[k2] \in ToSet(old.flavors)
      BY <1>2 DEF ToSet
    <3> QED
      BY <3>1 DEF RegionsIn
  <2>15. ToSet(s.regions) \subseteq ToSet(rs)
    <3>1. DOMAIN s.regions = 1..Len(s.regions)
      BY <1>3 DEF Tidy
    <3> QED
      BY <2>4, <3>1 DEF MergedSet, ToSet
  <2>16. ToSet(rs) \subseteq RegionsIn(old) \cup ToSet(s.regions)
    <3>1. DOMAIN s.regions = 1..Len(s.regions)
      BY <1>3 DEF Tidy
    <3>2. ToSet(rs) \subseteq ToSet(fs[k].regions) \cup ToSet(s.regions)
      BY <2>4, <3>1 DEF MergedSet, ToSet
    <3> QED
      BY <2>14, <3>2
  <2>17. RegionsIn(new) \subseteq RegionsIn(old) \cup ToSet(s.regions)
    <3> SUFFICES ASSUME NEW j \in DOMAIN gs
                 PROVE  ToSet(gs[j].regions) \subseteq RegionsIn(old) \cup ToSet(s.regions)
      BY <2>13 DEF ToSet
    <3> QED
      BY <2>6, <2>8, <2>14, <2>16
  <2>18. ToSet(s.regions) \subseteq RegionsIn(new)
    <3>1. f \in ToSet(gs)
      BY <2>8 DEF ToSet
    <3> QED
      BY <2>6, <2>13, <2>15, <3>1
  <2> QED
    BY <2>10, <2>11, <2>12, <2>17, <2>18
<1>7. CASE I = {}
  <2>1. PICK rs : rs = SortedRegions(<<>>, s.regions)
    OBVIOUS
  <2>2. /\ rs \in Tidy /\ ToSet(rs) = MergedSet(<<>>, s.regions, Len(s.regions))
        /\ \A ts \in Tidy : ToSet(ts) = ToSet(s.regions) => SortedRegions(<<>>, ts) = rs
    BY <1>3, <1>4, <2>1, RegionsOnce
  <2>3. PICK f : f = [caps |-> s.caps, regions |-> rs]
    OBVIOUS
  <2>4. f \in Flavor /\ f.regions = rs
    BY <1>3, <1>5, <2>2, <2>3
  <2>5. PICK gs : gs = Append(fs, f)
    OBVIOUS
  <2>6. /\ gs \in Seq(Flavor) /\ DOMAIN gs = DOMAIN fs \cup {Len(fs) + 1} /\ gs[Len(fs) + 1] = f
        /\ \A j \in DOMAIN fs : gs[j] = fs[j]
    BY <2>4, <2>5
  <2>7. PICK new : new = [version |-> old.version, regions |-> <<>>, flavors |-> gs]
    OBVIOUS
  <2>8. ASSUME NEW u \in TidyImage, u.caps = s.caps, ToSet(u.regions) = ToSet(s.regions)
         PROVE  Flavors(old, u) = new
    <3>1. u.regions \in Tidy
      BY DEF TidyImage
    <3>2. SortedRegions(<<>>, u.regions) = rs
      BY <2>2, <2>8, <3>1
    <3>3. FlavorsWith(fs, u) = Append(fs, [caps |-> u.caps, regions |-> SortedRegions(<<>>, u.regions)])
      BY <1>2, <1>7, <2>8 DEF FlavorsWith, SelectInSeq
    <3>4. FlavorsWith(fs, u) = gs
      BY <2>3, <2>5, <2>8, <3>2, <3>3
    <3> QED
      BY <1>2, <2>7, <3>4 DEF Flavors
  <2>9. Flavors(old, s) = new
    BY <2>8
  <2>10. new \in TidyEntry /\ new.version = old.version /\ new.regions = <<>> /\ new.flavors = gs
    BY <1>1, <1>3, <1>4, <1>5, <2>2, <2>4, <2>6, <2>7 DEF TidyEntry, OpenStackEntry
  <2>11. RegionsIn(new) = UNION {ToSet(g.regions) : g \in ToSet(gs)}
    BY <1>4, <2>10 DEF RegionsIn
  <2>12. \A k2 \in DOMAIN fs : ToSet(fs[k2].regions) \subseteq RegionsIn(old)
    <3>1. \A k2 \in DOMAIN fs : fs[k2] \in ToSet(old.flavors)
      BY <1>2 DEF ToSet
    <3> QED
      BY <3>1 DEF RegionsIn
  <2>13. ToSet(rs) = ToSet(s.regions)
    <3>1. DOMAIN s.regions = 1..Len(s.regions)
      BY <1>3 DEF Tidy
    <3> QED
      BY <1>4, <2>2, <3>1 DEF MergedSet, ToSet
  <2>14. RegionsIn(new) \subseteq RegionsIn(old) \cup ToSet(s.regions)
    <3> SUFFICES ASSUME NEW j \in DOMAIN gs
                 PROVE  ToSet(gs[j].regions) \subseteq RegionsIn(old) \cup ToSet(s.regions)
      BY <2>11 DEF ToSet
    <3> QED
      BY <2>4, <2>6, <2>12, <2>13
  <2>15. ToSet(s.regions) \subseteq RegionsIn(new)
    <3>1. f \in ToSet(gs)
      BY <2>6 DEF ToSet
    <3> QED
      BY <2>4, <2>11, <2>13, <3>1
  <2> QED
    BY <2>8, <2>9, <2>10, <2>14, <2>15
<1> QED
  BY <1>6, <1>7

\* What OfferRegions makes of the entry of an image.
OfferedEntry(old, s) ==
    IF EnableCapabilities /\ s.caps # {} THEN Flavors(old, s)
    ELSE [old EXCEPT !.regions = SortedRegions(@, s.regions)]

\* With flavors or without, it has the regions of the image besides its own, and is no
\* mixture unless it had flavors before.
LEMMA EntryOffered ==
    ASSUME NEW old \in TidyEntry, NEW s \in TidyImage
    PROVE  /\ OfferedEntry(old, s) \in TidyEntry
           /\ OfferedEntry(old, s).version = old.version
           /\ OfferedEntry(old, s).regions = <<>> \/ OfferedEntry(old, s).flavors = old.flavors
           /\ RegionsIn(OfferedEntry(old, s)) \subseteq RegionsIn(old) \cup ToSet(s.regions)
           /\ ToSet(s.regions) \subseteq RegionsIn(OfferedEntry(old, s))
           /\ \A u \in TidyImage : u.caps = s.caps /\ ToSet(u.regions) = ToSet(s.regions)
                                     => OfferedEntry(old, u) = OfferedEntry(old, s)
<1>1. CASE EnableCapabilities /\ s.caps # {}
  <2>1. \A u \in TidyImage : u.caps = s.caps => OfferedEntry(old, u) = Flavors(old, u)
    BY <1>1 DEF OfferedEntry
  <2>2. PICK new : new = Flavors(old, s)
    OBVIOUS
  <2>3. OfferedEntry(old, s) = new
    BY <2>1, <2>2
  <2>4. /\ new \in TidyEntry
        /\ new.version = old.version /\ new.regions = <<>>
        /\ RegionsIn(new) \subseteq RegionsIn(old) \cup ToSet(s.regions)
        /\ ToSet(s.regions) \subseteq RegionsIn(new)
    BY <2>2, FlavorsOffered
  <2>5. \A u \in TidyImage : u.caps = s.caps /\ ToSet(u.regions) = ToSet(s.regions)
                               => Flavors(old, u) = new
    BY <2>2, FlavorsOffered
  <2> QED
    BY <2>1, <2>3, <2>4, <2>5
<1>2. CASE ~(EnableCapabilities /\ s.caps # {})
  <2>1. PICK q \in Tidy : q = old.regions
    BY DEF TidyEntry
  <2>2. PICK rs \in Tidy : rs = s.regions
    BY DEF TidyImage
  <2>3. PICK qs : qs = SortedRegions(q, rs)
    OBVIOUS
  <2>4. /\ qs \in Tidy /\ ToSet(qs) = MergedSet(q, rs, Len(rs))
        /\ \A ts \in Tidy : ToSet(ts) = ToSet(rs) => SortedRegions(q, ts) = qs
    BY <2>3, RegionsOnce
  <2>5. PICK new : new = [old EXCEPT !.regions = qs]
    OBVIOUS
  <2>6. ASSUME NEW u \in TidyImage, u.caps = s.caps, ToSet(u.regions) = ToSet(s.regions)
        PROVE  OfferedEntry(old, u) = new
    <3>1. u.regions \in Tidy
      BY DEF TidyImage
    <3>2. SortedRegions(old.regions, u.regions) = qs
      BY <2>1, <2>2, <2>4, <2>6, <3>1
    <3> QED
      BY <1>2, <2>5, <2>6, <3>2 DEF OfferedEntry
  <2>7. OfferedEntry(old, s) = new
    BY <2>6
  <2>8. /\ new \in OpenStackEntry /\ new.version = old.version
        /\ new.regions = qs /\ new.flavors = old.flavors
    BY <2>4, <2>5 DEF TidyEntry, OpenStackEntry, Tidy
  <2>9. new \in TidyEntry
    BY <2>4, <2>8 DEF TidyEntry
  <2>10. DOMAIN rs = 1..Len(rs)
    BY DEF Tidy
  <2>11. ToSet(rs) \subseteq ToSet(qs) /\ ToSet(qs) \subseteq ToSet(q) \cup ToSet(rs)
    BY <2>4, <2>10 DEF MergedSet, ToSet
  <2>12. /\ RegionsIn(new) \subseteq RegionsIn(old) \cup ToSet(s.regions)
         /\ ToSet(s.regions) \subseteq RegionsIn(new)
    BY <2>1, <2>2, <2>8, <2>11 DEF RegionsIn
  <2> QED
    BY <2>6, <2>7, <2>8, <2>9, <2>12
<1> QED
  BY <1>1, <1>2

\* new is what becomes of entries once s was offered: an entry of its version has its
\* regions, and no others than there were under that version; the rest is as it was.
RegionsAdded(entries, s, new) ==
    /\ \A e \in ToSet(new) :
          \/ e \in ToSet(entries)
          \/ /\ e.version = s.version
             /\ \A o \in RegionsIn(e) :
                   \/ o \in ToSet(s.regions)
                   \/ \E d \in ToSet(entries) : d.version = s.version /\ o \in RegionsIn(d)
             /\ \/ e.regions = <<>> \/ e.flavors = <<>>
                \/ \E d \in ToSet(entries) : d.version = s.version /\ d.flavors # <<>>
    /\ \A e \in ToSet(entries) : e.version # s.version => e \in ToSet(new)
    /\ \E e \in ToSet(new) : e.version = s.version /\ ToSet(s.regions) \subseteq RegionsIn(e)

\* A round of Configure does that, and does not depend on the order of the regions.
LEMMA OfferAddsRegions ==
    ASSUME NEW entries \in Seq(TidyEntry), NEW s \in TidyImage
    PROVE  /\ OfferRegions(entries, s) \in Seq(TidyEntry)
           /\ RegionsAdded(entries, s, OfferRegions(entries, s))
           /\ \A u \in TidyImage :
                 u.version = s.version /\ u.caps = s.caps /\ ToSet(u.regions) = ToSet(s.regions)
                    => OfferRegions(entries, u) = OfferRegions(entries, s)
<1>1. PICK blank : blank = [version |-> s.version, regions |-> <<>>, flavors |-> <<>>]
  OBVIOUS
<1>2. blank \in TidyEntry /\ blank.version = s.version /\ RegionsIn(blank) = {} /\ blank.flavors = <<>>
  <2>1. s.version \in Nat /\ <<>> \in Tidy /\ ToSet(<<>>) = {}
    BY DEF TidyImage, KeptImage, Tidy, OneEach, ToSet
  <2>2. blank \in OpenStackEntry /\ blank.flavors = <<>> /\ blank.regions = <<>> /\ blank.version = s.version
    BY <1>1, <2>1 DEF OpenStackEntry
  <2> QED
    BY <2>1, <2>2 DEF TidyEntry, RegionsIn
<1>3. PICK known : known = IndexOf(entries, s.version)
  OBVIOUS
<1>4. PICK all : all = IF known # 0 THEN entries ELSE Append(entries, blank)
  OBVIOUS
<1>5. PICK k : k = IF known # 0 THEN known ELSE Len(all)
  OBVIOUS
<1>6. /\ all \in Seq(TidyEntry) /\ k \in DOMAIN all /\ all[k].version = s.version
      /\ \A j \in DOMAIN all : j # k => all[j] \in ToSet(entries)
      /\ ToSet(entries) \subseteq ToSet(all)
      /\ all[k] \in ToSet(entries) \/ all[k] = blank
  <2>1. CASE known # 0
    <3>1. \E i \in DOMAIN entries : entries[i].version = s.version
      BY <1>3, <2>1 DEF IndexOf
    <3>2. known \in DOMAIN entries /\ entries[known].version = s.version
      BY <1>3, <3>1, IndexFound
    <3> QED
      BY <1>4, <1>5, <2>1, <3>2 DEF ToSet
  <2>2. CASE known = 0
    <3>1. all = Append(entries, blank) /\ k = Len(all)
      BY <1>4, <1>5, <2>2
    <3>2. /\ all \in Seq(TidyEntry) /\ DOMAIN all = 1..Len(entries) + 1 /\ k = Len(entries) + 1
          /\ all[k] = blank /\ DOMAIN entries = 1..Len(entries)
          /\ \A j \in DOMAIN entries : all[j] = entries[j] /\ j \in DOMAIN all
          /\ \A j \in DOMAIN all : j # k => j \in DOMAIN entries
      BY <1>2, <3>1
    <3> QED
      BY <1>2, <3>2 DEF ToSet
  <2> QED
    BY <2>1, <2>2
<1>7. PICK old \in TidyEntry : old = all[k]
  BY <1>6
<1>8. PICK e : e = OfferedEntry(old, s)
  OBVIOUS
<1>9. PICK new : new = [all EXCEPT ![k] = e]
  OBVIOUS
<1>10. /\ e \in TidyEntry /\ e.version = old.version
       /\ e.regions = <<>> \/ e.flavors = old.flavors
       /\ RegionsIn(e) \subseteq RegionsIn(old) \cup ToSet(s.regions)
       /\ ToSet(s.regions) \subseteq RegionsIn(e)
  BY <1>8, EntryOffered
<1>11. /\ new \in Seq(TidyEntry) /\ DOMAIN new = DOMAIN all /\ new[k] = e
       /\ \A j \in DOMAIN all : j # k => new[j] = all[j]
  BY <1>6, <1>9, <1>10
<1>12. ASSUME NEW u \in TidyImage, u.version = s.version, u.caps = s.caps,
              ToSet(u.regions) = ToSet(s.regions)
       PROVE  OfferRegions(entries, u) = new
  <2>1. OfferedEntry(old, u) = e
    BY <1>8, <1>12, EntryOffered
  <2>2. CASE EnableCapabilities /\ s.caps # {}
    <3>1. OfferRegions(entries, u) = [all EXCEPT ![k] = Flavors(@, u)]
      BY <1>1, <1>3, <1>4, <1>5, <1>12, <2>2 DEF OfferRegions
    <3>2. Flavors(all[k], u) = e
      BY <1>7, <1>12, <2>1, <2>2 DEF OfferedEntry
    <3> QED
      BY <1>9, <3>1, <3>2
  <2>3. CASE ~(EnableCapabilities /\ s.caps # {})
    <3>1. OfferRegions(entries, u) = [all EXCEPT ![k].regions = SortedRegions(@, u.regions)]
      BY <1>1, <1>3, <1>4, <1>5, <1>12, <2>3 DEF OfferRegions
    <3>2. [all[k] EXCEPT !.regions = SortedRegions(@, u.regions)] = e
      BY <1>7, <1>12, <2>1, <2>3 DEF OfferedEntry
    <3> QED
      BY <1>9, <3>1, <3>2
  <2> QED
    BY <2>2, <2>3
<1>13. OfferRegions(entries, s) = new
  BY <1>12
<1>14. RegionsAdded(entries, s, new)
  <2>1. ASSUME NEW x \in ToSet(new)
        PROVE  x \in ToSet(entries) \/ x = e
    BY <1>6, <1>11 DEF ToSet
  <2>2. \A o \in RegionsIn(e) :
           \/ o \in ToSet(s.regions)
           \/ \E d \in ToSet(entries) : d.version = s.version /\ o \in RegionsIn(d)
    BY <1>2, <1>6, <1>7, <1>10
  <2>3. \/ e.regions = <<>> \/ e.flavors = <<>>
        \/ \E d \in ToSet(entries) : d.version = s.version /\ d.flavors # <<>>
    BY <1>2, <1>6, <1>7, <1>10
  <2>4. e.version = s.version
    BY <1>6, <1>7, <1>10
  <2>5. ASSUME NEW x \in ToSet(entries), x.version # s.version
        PROVE  x \in ToSet(new)
    <3>1. PICK j \in DOMAIN all : x = all[j]
      BY <1>6 DEF ToSet
    <3>2. j # k
      BY <1>6, <2>5, <3>1
    <3> QED
      BY <1>11, <3>1, <3>2 DEF ToSet
  <2>6. e \in ToSet(new)
    BY <1>6, <1>11 DEF ToSet
  <2> QED
    BY <1>10, <2>1, <2>2, <2>3, <2>4, <2>5, <2>6 DEF RegionsAdded
<1> QED
  BY <1>11, <1>12, <1>13, <1>14

\* The rounds of Configure.
RegionRounds(after, base, ss) ==
    /\ after \in [0..Len(ss) -> Seq(TidyEntry)]
    /\ after[0] = base
    /\ \A n \in 1..Len(ss) : after[n] = OfferRegions(after[n - 1], ss[n])

\* ConfigureOpenStack is what they end with.
LEMMA ConfiguredInRegionRounds ==
    ASSUME NEW base \in Seq(TidyEntry), NEW ss \in Seq(TidyImage)
    PROVE  \E after : RegionRounds(after, base, ss) /\ ConfigureOpenStack(base, ss) = after[Len(ss)]
<1>0. PICK N \in Nat : N = Len(ss)
  OBVIOUS
<1>1. PICK D : D = Seq(TidyEntry)
  OBVIOUS
<1> DEFINE body(f) == [n \in 0..N |-> IF n = 0 THEN base ELSE OfferRegions(f[n - 1], ss[n])]
           last == CHOOSE f : f = body(f)
           step == [p \in D \X (1..N) |-> OfferRegions(p[1], ss[p[2]])]
<1>2. \A n \in 1..N : ss[n] \in TidyImage
  BY <1>0
<1>3. ASSUME NEW x \in D, NEW n \in 1..N PROVE OfferRegions(x, ss[n]) \in D
  BY <1>1, <1>2, OfferAddsRegions
<1>4. \E f : f = body(f)
  <2>1. step \in [D \X (1..N) -> D]
    BY <1>3
  <2>2. PICK round \in [D \X (1..N) -> D] : round = step
    BY <2>1
  <2>3. PICK f \in [0..N -> D] :
           f[0] = base /\ \A n \in 1..N : f[n] = round[<<f[n - 1], n>>]
    <3>1. PICK f : IsLoop(f, N, D, base, round)
      BY <1>1, LoopExists
    <3> QED
      BY <3>1 DEF IsLoop
  <2>4. ASSUME NEW n \in 0..N PROVE f[n] = IF n = 0 THEN base ELSE OfferRegions(f[n - 1], ss[n])
    <3>1. CASE n = 0
      BY <2>3, <3>1
    <3>2. CASE n # 0
      <4>1. n \in 1..N /\ n - 1 \in 0..N
        BY <3>2
      <4>2. <<f[n - 1], n>> \in D \X (1..N)
        BY <2>3, <4>1
      <4> QED
        BY <2>2, <2>3, <3>2, <4>1, <4>2
    <3> QED
      BY <3>1, <3>2
  <2>5. f = body(f)
    BY <2>3, <2>4
  <2> QED
    BY <2>5
<1>5. last = body(last)
  <2> HIDE DEF body
  <2> QED
    BY <1>4
<1>6. ConfigureOpenStack(base, ss) = last[N]
  BY <1>0 DEF ConfigureOpenStack, Loop
<1> HIDE DEF last
<1>7. last[0] = base /\ \A n \in 1..N : last[n] = OfferRegions(last[n - 1], ss[n])
  BY <1>5
<1>8. last = [n \in 0..N |-> last[n]]
  BY <1>5
<1> HIDE DEF body
<1>9. PICK Q : Q = {n \in 0..N : last[n] \in D}
  OBVIOUS
<1>10. 0 \in Q
  BY <1>1, <1>7, <1>9
<1>11. ASSUME NEW n \in 1..N, n - 1 \in Q PROVE n \in Q
  BY <1>3, <1>7, <1>9, <1>11
<1>12. \A n \in 0..N : n \in Q
  BY <1>10, <1>11, EveryRound
<1>13. RegionRounds(last, base, ss)
  BY <1>0, <1>1, <1>7, <1>8, <1>9, <1>12 DEF RegionRounds
<1> QED
  BY <1>0, <1>6, <1>13

\* Images that differ at most in the order of their regions.
AlikeButRegions(s, t) ==
    /\ t.version = s.version /\ t.clean = s.clean /\ t.archs = s.archs /\ t.caps = s.caps
    /\ t.inPlace = s.inPlace /\ ToSet(t.regions) = ToSet(s.regions)

\* Configure does not tell such images apart.
LEMMA ConfiguredAlike ==
    ASSUME NEW base \in Seq(TidyEntry), NEW ss \in Seq(TidyImage), NEW ts \in Seq(TidyImage),
           Len(ss) = Len(ts), \A n \in 1..Len(ss) : AlikeButRegions(ss[n], ts[n])
    PROVE  ConfigureOpenStack(base, ss) = ConfigureOpenStack(base, ts)
<1>0. PICK N \in Nat : N = Len(ss)
  OBVIOUS
<1>1. PICK a : RegionRounds(a, base, ss) /\ ConfigureOpenStack(base, ss) = a[N]
  BY <1>0, ConfiguredInRegionRounds
<1>2. PICK b : RegionRounds(b, base, ts) /\ ConfigureOpenStack(base, ts) = b[N]
  BY <1>0, ConfiguredInRegionRounds
<1>3. /\ \A n \in 0..N : a[n] \in Seq(TidyEntry)
      /\ a[0] = base /\ b[0] = base
      /\ \A n \in 1..N : a[n] = OfferRegions(a[n - 1], ss[n]) /\ b[n] = OfferRegions(b[n - 1], ts[n])
  BY <1>0, <1>1, <1>2 DEF RegionRounds
<1>4. PICK P : P = {n \in 0..N : a[n] = b[n]}
  OBVIOUS
<1>5. 0 \in P
  BY <1>3, <1>4
<1>6. ASSUME NEW n \in 1..N, n - 1 \in P PROVE n \in P
  <2>1. a[n - 1] = b[n - 1] /\ a[n - 1] \in Seq(TidyEntry)
    BY <1>3, <1>4, <1>6
  <2>2. ss[n] \in TidyImage /\ ts[n] \in TidyImage /\ AlikeButRegions(ss[n], ts[n])
    BY <1>0
  <2>3. OfferRegions(a[n - 1], ts[n]) = OfferRegions(a[n - 1], ss[n])
    BY <2>1, <2>2, OfferAddsRegions DEF AlikeButRegions
  <2> QED
    BY <1>3, <1>4, <2>1, <2>3
<1>7. \A n \in 0..N : n \in P
  BY <1>5, <1>6, EveryRound
<1>8. N \in 0..N
  OBVIOUS
<1> QED
  BY <1>1, <1>2, <1>4, <1>7, <1>8

\* After n rounds: no entry is a mixture, those with flavors are of the base or have the
\* version of an image that was offered; a region is of the base or of an image, under
\* the same version; and every image that was offered is there.
Served(entries, base, ss, n) ==
    /\ \A e \in ToSet(entries) :
          /\ e.regions = <<>> \/ e.flavors = <<>>
          /\ e.flavors # <<>> => e \in ToSet(base) \/ \E m \in 1..n : ss[m].version = e.version
          /\ \A o \in RegionsIn(e) :
                \/ \E b \in ToSet(base) : b.version = e.version /\ o \in RegionsIn(b)
                \/ \E m \in 1..n : ss[m].version = e.version /\ o \in ToSet(ss[m].regions)
    /\ \A m \in 1..n : \E e \in ToSet(entries) :
          e.version = ss[m].version /\ ToSet(ss[m].regions) \subseteq RegionsIn(e)

\* A round keeps it so: an image of another version disturbs none of it, and the base
\* has no flavors under the version of an image.
LEMMA RoundServes ==
    ASSUME NEW base, NEW ss, NEW n \in Nat, n # 0,
           \A m \in 1..(n - 1) : ss[m].version # ss[n].version,
           \A e \in ToSet(base) : e.flavors # <<>> => e.version # ss[n].version,
           NEW entries, Served(entries, base, ss, n - 1),
           NEW new, RegionsAdded(entries, ss[n], new)
    PROVE  Served(new, base, ss, n)
<1>1. /\ \A m \in 1..(n - 1) : m \in 1..n
      /\ n \in 1..n /\ \A m \in 1..n : m = n \/ m \in 1..(n - 1)
  OBVIOUS
<1>2. ASSUME NEW e \in ToSet(new), e \in ToSet(entries)
      PROVE  /\ e.regions = <<>> \/ e.flavors = <<>>
             /\ e.flavors # <<>> => e \in ToSet(base) \/ \E m \in 1..n : ss[m].version = e.version
             /\ \A o \in RegionsIn(e) :
                   \/ \E b \in ToSet(base) : b.version = e.version /\ o \in RegionsIn(b)
                   \/ \E m \in 1..n : ss[m].version = e.version /\ o \in ToSet(ss[m].regions)
  BY <1>1, <1>2 DEF Served
<1>3. ASSUME NEW e \in ToSet(new), e \notin ToSet(entries)
      PROVE  /\ e.regions = <<>> \/ e.flavors = <<>>
             /\ e.flavors # <<>> => e \in ToSet(base) \/ \E m \in 1..n : ss[m].version = e.version
             /\ \A o \in RegionsIn(e) :
                   \/ \E b \in ToSet(base) : b.version = e.version /\ o \in RegionsIn(b)
                   \/ \E m \in 1..n : ss[m].version = e.version /\ o \in ToSet(ss[m].regions)
  <2>1. /\ e.version = ss[n].version
        /\ \A o \in RegionsIn(e) :
              \/ o \in ToSet(ss[n].regions)
              \/ \E d \in ToSet(entries) : d.version = ss[n].version /\ o \in RegionsIn(d)
        /\ \/ e.regions = <<>> \/ e.flavors = <<>>
           \/ \E d \in ToSet(entries) : d.version = ss[n].version /\ d.flavors # <<>>
    BY <1>3 DEF RegionsAdded
  <2>2. ASSUME NEW d \in ToSet(entries), d.version = ss[n].version PROVE d.flavors = <<>>
    BY <2>2 DEF Served
  <2>3. ASSUME NEW o \in RegionsIn(e)
        PROVE  \/ \E b \in ToSet(base) : b.version = e.version /\ o \in RegionsIn(b)
               \/ \E m \in 1..n : ss[m].version = e.version /\ o \in ToSet(ss[m].regions)
    BY <1>1, <2>1, <2>3 DEF Served
  <2> QED
    BY <1>1, <2>1, <2>2, <2>3
<1>4. ASSUME NEW m \in 1..n
      PROVE  \E e \in ToSet(new) :
                e.version = ss[m].version /\ ToSet(ss[m].regions) \subseteq RegionsIn(e)
  <2>1. CASE m = n
    BY <2>1 DEF RegionsAdded
  <2>2. CASE m # n
    <3>1. m \in 1..(n - 1)
      BY <1>1, <2>2
    <3>2. PICK e \in ToSet(entries) :
             e.version = ss[m].version /\ ToSet(ss[m].regions) \subseteq RegionsIn(e)
      BY <3>1 DEF Served
    <3>3. e \in ToSet(new)
      BY <3>1, <3>2 DEF RegionsAdded
    <3> QED
      BY <3>2, <3>3
  <2> QED
    BY <2>1, <2>2
<1> QED
  BY <1>2, <1>3, <1>4 DEF Served

\* So Configure ends with it.
LEMMA ConfiguredServes ==
    ASSUME NEW base \in Seq(TidyEntry), NEW ss \in Seq(TidyImage),
           \A i, j \in 1..Len(ss) : i < j => ss[i].version # ss[j].version,
           \A e \in ToSet(base) : e.flavors # <<>> =>
              e.regions = <<>> /\ \A i \in 1..Len(ss) : e.version # ss[i].version
    PROVE  Served(ConfigureOpenStack(base, ss), base, ss, Len(ss))
<1>0. PICK N \in Nat : N = Len(ss)
  OBVIOUS
<1>1. PICK after : RegionRounds(after, base, ss) /\ ConfigureOpenStack(base, ss) = after[N]
  BY <1>0, ConfiguredInRegionRounds
<1>2. /\ \A n \in 0..N : after[n] \in Seq(TidyEntry)
      /\ after[0] = base /\ \A n \in 1..N : after[n] = OfferRegions(after[n - 1], ss[n])
  BY <1>0, <1>1 DEF RegionRounds
<1>3. PICK P : P = {n \in 0..N : Served(after[n], base, ss, n)}
  OBVIOUS
<1>4. 0 \in P
  <2>1. Served(base, base, ss, 0)
    BY DEF Served
  <2> QED
    BY <1>2, <1>3, <2>1
<1>5. ASSUME NEW n \in 1..N, n - 1 \in P PROVE n \in P
  <2>1. n \in Nat /\ n # 0 /\ Served(after[n - 1], base, ss, n - 1)
    BY <1>3, <1>5
  <2>2. \A m \in 1..(n - 1) : ss[m].version # ss[n].version
    BY <1>0
  <2>3. \A e \in ToSet(base) : e.flavors # <<>> => e.version # ss[n].version
    BY <1>0
  <2>4. after[n - 1] \in Seq(TidyEntry) /\ ss[n] \in TidyImage
    BY <1>0, <1>2
  <2>5. RegionsAdded(after[n - 1], ss[n], after[n])
    BY <1>2, <2>4, OfferAddsRegions
  <2>6. Served(after[n], base, ss, n)
    BY <2>1, <2>2, <2>3, <2>5, RoundServes
  <2> QED
    BY <1>3, <2>6
<1>6. \A n \in 0..N : n \in P
  BY <1>4, <1>5, EveryRound
<1>7. N \in 0..N
  OBVIOUS
<1> QED
  BY <1>0, <1>1, <1>3, <1>6, <1>7

\* AddFlat, of what it reads of an image.
FlatUnder(entries, v, archs) ==
    LET add(es, arch) ==
            IF \E e \in ToSet(es) : e.ref = v /\ e.arch = arch THEN es
            ELSE Append(es, [version |-> v, ref |-> v, arch |-> arch, flavors |-> <<>>])
    IN  Loop(add, entries, archs)

\* Neither Apply nor Configure of ironcore reads regions.
LEMMA RoundsAlike ==
    ASSUME NEW s, NEW t, AlikeButRegions(s, t)
    PROVE  /\ \A entries : Upsert(entries, t) = Upsert(entries, s)
           /\ \A cfg : OfferImage(cfg, t) = OfferImage(cfg, s)
<1>1. /\ t.version = s.version /\ t.clean = s.clean /\ t.archs = s.archs /\ t.caps = s.caps
      /\ t.inPlace = s.inPlace
  BY DEF AlikeButRegions
<1>2. ASSUME NEW entries PROVE Upsert(entries, t) = Upsert(entries, s)
  <2>1. \A es : UpsertLegacy(es, t) = UpsertLegacy(es, s)
    BY <1>1 DEF UpsertLegacy
  <2>2. \A es : UpsertClean(es, t) = UpsertClean(es, s)
    BY <1>1 DEF UpsertClean
  <2> QED
    BY <1>1, <2>1, <2>2 DEF Upsert
<1>3. ASSUME NEW cfg PROVE OfferImage(cfg, t) = OfferImage(cfg, s)
  <2>1. \A es : AddFlat(es, t) = FlatUnder(es, t.version, t.archs)
    BY DEF AddFlat, FlatUnder, Loop
  <2>2. \A es : AddFlat(es, s) = FlatUnder(es, s.version, s.archs)
    BY DEF AddFlat, FlatUnder, Loop
  <2>3. \A es : AddFlat(es, t) = AddFlat(es, s)
    BY <1>1, <2>1, <2>2
  <2>4. \A es, known : AddFlavorUnder(es, known, t) = AddFlavorUnder(es, known, s)
    BY <1>1 DEF AddFlavorUnder
  <2>5. \A c : Group(c, t) = Group(c, s)
    BY <1>1, <2>4 DEF Group
  <2> QED
    BY <1>1, <2>3, <2>5 DEF OfferImage
<1> QED
  BY <1>2, <1>3

\* So both end alike.
LEMMA AppliedAlike ==
    ASSUME NEW ss \in Seq(KeptImage), NEW ts \in Seq(KeptImage),
           Len(ss) = Len(ts), \A n \in 1..Len(ss) : AlikeButRegions(ss[n], ts[n])
    PROVE  /\ \A base \in Seq(VersionEntry) : MachineImages(base, ss) = MachineImages(base, ts)
           /\ \A base \in Seq(IroncoreEntry) :
                 ConfigureIroncore(base, ss) = ConfigureIroncore(base, ts)
<1>0. PICK N \in Nat : N = Len(ss)
  OBVIOUS
<1>1. N \in 0..N
  OBVIOUS
<1>2. ASSUME NEW base \in Seq(VersionEntry)
      PROVE  MachineImages(base, ss) = MachineImages(base, ts)
  <2>1. PICK a : Rounds(a, base, ss) /\ MachineImages(base, ss) = a[N]
    BY <1>0, AppliedInRounds
  <2>2. PICK b : Rounds(b, base, ts) /\ MachineImages(base, ts) = b[N]
    BY <1>0, AppliedInRounds
  <2>3. /\ a[0] = base /\ b[0] = base
        /\ \A n \in 1..N : a[n] = Upsert(a[n - 1], ss[n]) /\ b[n] = Upsert(b[n - 1], ts[n])
    BY <1>0, <2>1, <2>2 DEF Rounds
  <2>4. PICK P : P = {n \in 0..N : a[n] = b[n]}
    OBVIOUS
  <2>5. 0 \in P
    BY <2>3, <2>4
  <2>6. ASSUME NEW n \in 1..N, n - 1 \in P PROVE n \in P
    <3>1. Upsert(a[n - 1], ts[n]) = Upsert(a[n - 1], ss[n])
      BY <1>0, RoundsAlike
    <3> QED
      BY <2>3, <2>4, <2>6, <3>1
  <2>7. \A n \in 0..N : n \in P
    BY <2>5, <2>6, EveryRound
  <2> QED
    BY <1>1, <2>1, <2>2, <2>4, <2>7
<1>3. ASSUME NEW base \in Seq(IroncoreEntry)
      PROVE  ConfigureIroncore(base, ss) = ConfigureIroncore(base, ts)
  <2>1. PICK a : OfferRounds(a, base, ss) /\ ConfigureIroncore(base, ss) = a[N].entries
    BY <1>0, ConfiguredInRounds
  <2>2. PICK b : OfferRounds(b, base, ts) /\ ConfigureIroncore(base, ts) = b[N].entries
    BY <1>0, ConfiguredInRounds
  <2>3. /\ a[0] = FirstOffer(base) /\ b[0] = FirstOffer(base)
        /\ \A n \in 1..N : a[n] = OfferImage(a[n - 1], ss[n]) /\ b[n] = OfferImage(b[n - 1], ts[n])
    BY <1>0, <2>1, <2>2 DEF OfferRounds
  <2>4. PICK P : P = {n \in 0..N : a[n] = b[n]}
    OBVIOUS
  <2>5. 0 \in P
    BY <2>3, <2>4
  <2>6. ASSUME NEW n \in 1..N, n - 1 \in P PROVE n \in P
    <3>1. OfferImage(a[n - 1], ts[n]) = OfferImage(a[n - 1], ss[n])
      BY <1>0, RoundsAlike
    <3> QED
      BY <2>3, <2>4, <2>6, <3>1
  <2>7. \A n \in 0..N : n \in P
    BY <2>5, <2>6, EveryRound
  <2> QED
    BY <1>1, <2>1, <2>2, <2>4, <2>7
<1> QED
  BY <1>2, <1>3
=============================================================================
