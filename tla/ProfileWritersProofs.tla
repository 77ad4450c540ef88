------------------------ MODULE ProfileWritersProofs ------------------------
(***************************************************************************)
(* Proofs about ProfileWriters, for any number of replicas, versions,      *)
(* dates, listings and specs.                                              *)
(***************************************************************************)
EXTENDS ProfileWriters, TLAPS

\* resolveExpiration and Apply make well-formed entries.
LEMMA PreparedTyped ==
    ASSUME TypeOK, NEW now \in Dates
    PROVE  Prepared(now) \in Image
<1> SUFFICES ASSUME NEW v \in Versions
             PROVE  (IF listing[v] = "absent" THEN base[v]
                     ELSE [class |-> listing[v],
                           date |-> Resolved(SourceDate(v, now), base[v].date)]) \in Entry
  BY DEF Prepared, Image
<1>1. base[v] \in Entry
  BY WritersAssumption DEF TypeOK, Image
<1>2. listing[v] \in Classes \cup {"absent"}
  BY WritersAssumption DEF TypeOK
<1>3. base[v].date \in Dates \cup {None}
  BY <1>1 DEF Entry, Absent
<1>4. Resolved(SourceDate(v, now), base[v].date) \in Dates \cup {None}
  BY <1>3 DEF Resolved, SourceDate
<1> QED
  BY <1>1, <1>2, <1>4 DEF Entry

\* carryExpirationDates keeps entries well-formed, and changes no more of one
\* than its date.
LEMMA CarriedTyped ==
    ASSUME NEW old \in Image, NEW new \in Image
    PROVE  Carried(old, new) \in Image
<1> SUFFICES ASSUME NEW v \in Versions
             PROVE  (IF new[v].class = "deprecated" /\ old[v].date # None
                     THEN [new[v] EXCEPT !.date = old[v].date] ELSE new[v]) \in Entry
  BY DEF Carried, Image
<1>1. new[v] \in Entry /\ old[v] \in Entry
  BY DEF Image
<1>2. CASE new[v].class = "deprecated" /\ old[v].date # None
  <2>1. new[v] \in [class: Classes, date: Dates \cup {None}]
    BY <1>1, <1>2 DEF Entry, Absent
  <2>2. old[v].date \in Dates
    BY <1>1, <1>2 DEF Entry, Absent
  <2>3. [new[v] EXCEPT !.date = old[v].date]
          = [class |-> new[v].class, date |-> old[v].date]
    BY <2>1
  <2> QED
    BY <2>1, <2>2, <2>3 DEF Entry
<1> QED
  BY <1>1, <1>2

\* An image that nothing was published of.
LEMMA NothingTyped == Nothing \in Image
  BY DEF Nothing, Image, Entry

-----------------------------------------------------------------------------
\* One replica's steps keep the types.
LEMMA StepTyped ==
    ASSUME TypeOK, NEW c \in Controllers, Step(c) \/ Sync(c) \/ Fail(c)
    PROVE  TypeOK'
<1> USE DEF TypeOK
<1>1. CASE Fetch(c)
  BY <1>1, PreparedTyped DEF Fetch, external
<1>2. CASE Read(c)
  BY <1>2 DEF Read, external
<1>3. CASE Write(c)
  <2>1. Carried(read[c], prepared[c]) \in Image
    BY CarriedTyped
  <2>2. live' \in Image
    BY <1>3, <2>1 DEF Write
  <2> QED
    BY <1>3, <2>2, NothingTyped DEF Write, Done, external
<1>4. CASE Sync(c)
  BY <1>4 DEF Sync, external
<1>5. CASE Fail(c)
  BY <1>5, WritersAssumption, NothingTyped DEF Fail, Done, Change, external
<1> QED
  BY <1>1, <1>2, <1>3, <1>4, <1>5 DEF Step

\* The steps of the world keep the types.
LEMMA WorldTyped ==
    ASSUME TypeOK,
           \/ \E l \in Listings : SourceChanges(l)
           \/ \E b \in Bases : EditSpec(b)
    PROVE  TypeOK'
<1> USE DEF TypeOK
<1>1. ASSUME NEW l \in Listings, SourceChanges(l) PROVE TypeOK'
  BY <1>1, WritersAssumption DEF SourceChanges, Change
<1>2. ASSUME NEW b \in Bases, EditSpec(b) PROVE TypeOK'
  <2>1. \A v \in Versions : b[v] \in Entry
    BY WritersAssumption DEF Image
  <2> QED
    BY <1>2, <2>1, WritersAssumption DEF EditSpec, Change
<1> QED
  BY <1>1, <1>2

\* Initially everything is well typed.
LEMMA InitTyped == Init => TypeOK
<1>1. \A b \in Bases : \A v \in Versions : b[v] \in Entry
  BY WritersAssumption DEF Image
<1> QED
  BY <1>1, WritersAssumption, NothingTyped DEF Init, TypeOK

\* Every step keeps the types.
LEMMA NextTyped == TypeOK /\ [Next]_vars => TypeOK'
<1>1. TypeOK /\ UNCHANGED vars => TypeOK'
  BY DEF TypeOK, vars, external
<1> QED
  BY <1>1, StepTyped, WorldTyped DEF Next

\* Every behaviour of any number of replicas keeps the types: a copy that does not
\* list a version has no date of it either.
THEOREM TypeCorrect == Spec => []TypeOK
  BY InitTyped, NextTyped, PTL DEF Spec

-----------------------------------------------------------------------------
\* The inductive invariant: no copy of the images anywhere, published, cached,
\* read or prepared, has another date than the spec's where it has always had
\* one, or lacks a date where the spec has never left it out.
Dated(image) ==
    \A v \in Versions :
        None \notin Given(v) /\ image[v] # Absent => image[v].date \in Given(v)
Vouched(image) ==
    \A v \in Versions : image[v] = Undated => Undated \in said[v]
Sound(image) == Dated(image) /\ Vouched(image)
SpecDates ==
    /\ \A v \in Versions : base[v] \in said[v]
    /\ Sound(live)
    /\ \A c \in Controllers : Sound(cached[c]) /\ Sound(prepared[c]) /\ Sound(read[c])

\* What a replica prepares has the spec's dates, and a date where the source
\* deprecates.
LEMMA PreparedSound ==
    ASSUME TypeOK, SpecDates, NEW now \in Dates
    PROVE  Sound(Prepared(now))
<1>1. ASSUME NEW v \in Versions, None \notin Given(v)
      PROVE  Prepared(now)[v].date \in Given(v)
  <2>1. base[v].date \in Given(v) /\ base[v].date # None
    BY <1>1 DEF SpecDates, Given
  <2> QED
    BY <2>1 DEF Prepared, Resolved
<1>2. ASSUME NEW v \in Versions, Prepared(now)[v] = Undated
      PROVE  Undated \in said[v]
  <2>1. CASE listing[v] = "absent"
    BY <1>2, <2>1 DEF Prepared, SpecDates
  <2>2. CASE listing[v] # "absent"
    <3>1. /\ listing[v] = "deprecated"
          /\ Resolved(SourceDate(v, now), base[v].date) = None
      BY <1>2, <2>2 DEF Prepared, Undated
    <3> QED
      BY <3>1, WritersAssumption DEF Resolved, SourceDate
  <2> QED
    BY <2>1, <2>2
<1> QED
  BY <1>1, <1>2 DEF Sound, Dated, Vouched

\* What carryExpirationDates makes of two images with the spec's dates has them,
\* and it takes no date away.
LEMMA CarriedSound ==
    ASSUME NEW old \in Image, NEW new \in Image, Sound(old), Sound(new)
    PROVE  Sound(Carried(old, new))
<1> SUFFICES ASSUME NEW v \in Versions
             PROVE  /\ None \notin Given(v) /\ Carried(old, new)[v] # Absent
                          => Carried(old, new)[v].date \in Given(v)
                    /\ Carried(old, new)[v] = Undated => Undated \in said[v]
  BY DEF Sound, Dated, Vouched
<1>1. new[v] \in Entry /\ old[v] \in Entry
  BY DEF Image
<1>2. CASE new[v].class = "deprecated" /\ old[v].date # None
  <2>1. old[v] # Absent
    BY <1>2 DEF Absent
  <2>2. None \notin Given(v) => old[v].date \in Given(v)
    BY <2>1 DEF Sound, Dated
  <2>3. new[v] \in [class: Classes, date: Dates \cup {None}]
    BY <1>1, <1>2 DEF Entry, Absent
  <2>4. Carried(old, new)[v].date = old[v].date
    BY <1>2, <2>3 DEF Carried
  <2> QED
    BY <1>2, <2>2, <2>4 DEF Undated
<1>3. CASE ~(new[v].class = "deprecated" /\ old[v].date # None)
  <2>1. Carried(old, new)[v] = new[v]
    BY <1>3 DEF Carried
  <2> QED
    BY <2>1 DEF Sound, Dated, Vouched
<1> QED
  BY <1>2, <1>3

\* An image of which nothing is known has no dates and lacks none.
LEMMA NothingSound == Sound(Nothing)
  BY DEF Sound, Dated, Vouched, Nothing, Absent, Undated

\* One replica's steps keep the spec's dates.
LEMMA StepDated ==
    ASSUME TypeOK, SpecDates, NEW c \in Controllers, Step(c) \/ Sync(c) \/ Fail(c)
    PROVE  SpecDates'
<1> USE DEF SpecDates
<1>0. UNCHANGED <<base, said>>
  BY DEF Step, Fetch, Read, Write, Sync, Fail, external
<1>a. ASSUME NEW image, Sound(image)
      PROVE  /\ \A v \in Versions :
                   None \notin Given(v)' /\ image[v] # Absent => image[v].date \in Given(v)'
             /\ \A v \in Versions : image[v] = Undated => Undated \in said'[v]
  BY <1>0, <1>a DEF Sound, Dated, Vouched, Given
<1>b. ASSUME /\ live' = live \/ Sound(live')
             /\ \A d \in Controllers : /\ cached'[d] = cached[d] \/ Sound(cached'[d])
                                       /\ prepared'[d] = prepared[d] \/ Sound(prepared'[d])
                                       /\ read'[d] = read[d] \/ Sound(read'[d])
      PROVE  SpecDates'
  <2>1. Sound(live)'
    BY <1>a, <1>b DEF Sound, Dated, Vouched
  <2>2. ASSUME NEW d \in Controllers
        PROVE  Sound(cached[d])' /\ Sound(prepared[d])' /\ Sound(read[d])'
    BY <1>a, <1>b DEF Sound, Dated, Vouched
  <2> QED
    BY <1>0, <2>1, <2>2
<1>1. CASE Fetch(c)
  <2>1. PICK now \in Dates : prepared' = [prepared EXCEPT ![c] = Prepared(now)]
    BY <1>1 DEF Fetch
  <2>2. Sound(Prepared(now))
    BY PreparedSound
  <2>3. UNCHANGED <<live, cached, read>>
    BY <1>1 DEF Fetch
  <2> QED
    BY <1>b, <2>1, <2>2, <2>3 DEF TypeOK
<1>2. CASE Read(c)
  BY <1>b, <1>2 DEF Read, TypeOK
<1>3. CASE Write(c)
  <2>1. Sound(Carried(read[c], prepared[c]))
    BY CarriedSound DEF TypeOK
  <2>2. \/ live' = live
        \/ live' = Carried(read[c], prepared[c])
    BY <1>3 DEF Write
  <2>3. /\ prepared' = [prepared EXCEPT ![c] = Nothing]
        /\ read' = [read EXCEPT ![c] = Nothing]
        /\ UNCHANGED cached
    BY <1>3 DEF Write, Done
  <2> QED
    BY <1>b, <2>1, <2>2, <2>3, NothingSound DEF TypeOK
<1>4. CASE Sync(c)
  BY <1>b, <1>4 DEF Sync, TypeOK
<1>5. CASE Fail(c)
  BY <1>b, <1>5, NothingSound DEF Fail, Done, TypeOK
<1> QED
  BY <1>1, <1>2, <1>3, <1>4, <1>5 DEF Step

\* What the spec has said only grows, by what it says now.
LEMMA WorldDated ==
    ASSUME TypeOK, SpecDates,
           \/ \E l \in Listings : SourceChanges(l)
           \/ \E b \in Bases : EditSpec(b)
    PROVE  SpecDates'
<1>0. UNCHANGED <<live, cached, prepared, read>>
  BY DEF SourceChanges, EditSpec
<1>1. ASSUME NEW l \in Listings, SourceChanges(l) PROVE SpecDates'
  BY <1>0, <1>1 DEF SourceChanges, SpecDates, Sound, Dated, Vouched, Given
<1>2. ASSUME NEW b \in Bases, EditSpec(b) PROVE SpecDates'
  <2>1. \A v \in Versions : said'[v] = said[v] \cup {base'[v]}
    BY <1>2 DEF EditSpec
  <2>2. ASSUME NEW image, Sound(image)
        PROVE  /\ \A v \in Versions :
                     None \notin Given(v)' /\ image[v] # Absent
                         => image[v].date \in Given(v)'
               /\ \A v \in Versions : image[v] = Undated => Undated \in said'[v]
    <3>1. \A v \in Versions : Given(v)' = Given(v) \cup {base'[v].date}
      BY <2>1 DEF Given
    <3> QED
      BY <2>1, <2>2, <3>1 DEF Sound, Dated, Vouched
  <2>3. \A v \in Versions : base'[v] \in said'[v]
    BY <2>1
  <2>4. Sound(live)'
    BY <1>0, <2>2 DEF SpecDates, Sound, Dated, Vouched
  <2>5. ASSUME NEW d \in Controllers
        PROVE  Sound(cached[d])' /\ Sound(prepared[d])' /\ Sound(read[d])'
    BY <1>0, <2>2 DEF SpecDates, Sound, Dated, Vouched
  <2> QED
    BY <2>3, <2>4, <2>5 DEF SpecDates
<1> QED
  BY <1>1, <1>2

\* Every behaviour keeps the spec's dates.
LEMMA SpecDatesHold == Spec => []SpecDates
<1>1. Init => SpecDates
  <2>1. ASSUME Init PROVE SpecDates
    <3>1. \A v \in Versions : base[v] \in said[v]
      BY <2>1 DEF Init
    <3> QED
      BY <2>1, <3>1, NothingSound DEF Init, SpecDates
  <2> QED
    BY <2>1
<1>2. TypeOK /\ SpecDates /\ [Next]_vars => SpecDates'
  <2>1. SpecDates /\ UNCHANGED vars => SpecDates'
    BY DEF SpecDates, Sound, Dated, Vouched, Given, vars, external
  <2> QED
    BY <2>1, StepDated, WorldDated DEF Next
<1> QED
  BY <1>1, <1>2, TypeCorrect, PTL DEF Spec

\* A replica that writes from a stale copy, however many there are, never
\* publishes a date that a fetch made up where the spec always had one.
THEOREM SpecGoesFirst == Spec => []SpecDateWins
<1>1. SpecDates => SpecDateWins
  BY DEF SpecDates, Sound, Dated, SpecDateWins
<1> QED
  BY <1>1, SpecDatesHold, PTL

\* A version is published as deprecated without a date only if the spec has said
\* that of it: no write of any replica loses the date of one that only the source
\* deprecates, and a date carried over is always one.
THEOREM UndatedOnlyAsSaid == Spec => []UndatedAsSaid
<1>1. SpecDates => UndatedAsSaid
  BY DEF SpecDates, Sound, Vouched, UndatedAsSaid
<1> QED
  BY <1>1, SpecDatesHold, PTL

-----------------------------------------------------------------------------
\* Once all replicas have seen a deprecated version's date, it stays: a write
\* carries over the date it read, and that is the published one.
THEOREM DatesKept == Spec => DateKept
<1> DEFINE Keeps ==
        \A v \in Versions :
            Known(v) /\ live[v].class = "deprecated" /\ live[v].date # None
                     /\ live'[v].class = "deprecated"
                => live'[v].date = live[v].date
<1>1. TypeOK /\ [Next]_vars => Keeps
  <2> SUFFICES ASSUME TypeOK, [Next]_vars, NEW v \in Versions,
                      Known(v), live[v].class = "deprecated",
                      live[v].date # None, live'[v].class = "deprecated"
               PROVE  live'[v].date = live[v].date
    OBVIOUS
  <2>1. ASSUME NEW c \in Controllers, Write(c) PROVE live'[v].date = live[v].date
    <3>1. read[c][v] = live[v]
      BY <2>1 DEF Known, Write
    <3>2. live[v] \in Entry /\ prepared[c] \in Image /\ prepared[c][v] \in Entry
      BY DEF TypeOK, Image
    <3>3. CASE live' = live
      BY <3>3
    <3>4. CASE live' = Carried(read[c], prepared[c])
      <4>1. CASE prepared[c][v].class = "deprecated"
        <5>1. prepared[c][v] \in [class: Classes, date: Dates \cup {None}]
          BY <3>2, <4>1 DEF Entry, Absent
        <5>2. live'[v] = [prepared[c][v] EXCEPT !.date = live[v].date]
          BY <3>1, <3>4, <4>1 DEF Carried
        <5> QED
          BY <5>1, <5>2
      <4>2. CASE prepared[c][v].class # "deprecated"
        BY <3>4, <4>2 DEF Carried
      <4> QED
        BY <4>1, <4>2
    <3> QED
      BY <2>1, <3>3, <3>4 DEF Write
  <2>2. ASSUME UNCHANGED live PROVE live'[v].date = live[v].date
    BY <2>2
  <2>3. \/ UNCHANGED live
        \/ \E c \in Controllers : Write(c)
    BY DEF Next, Step, Fetch, Read, Sync, Fail, SourceChanges, EditSpec, vars
  <2> QED
    BY <2>1, <2>2, <2>3
<1>2. TypeOK /\ [Next]_vars => [Keeps]_vars
  BY <1>1
<1> QED
  BY <1>2, TypeCorrect, PTL DEF Spec, DateKept
=============================================================================
