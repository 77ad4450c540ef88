-------------------------- MODULE LandscapeProofs --------------------------
(***************************************************************************)
(* Theorems about Landscape, for any repository, Shoots and bounds.        *)
(***************************************************************************)
EXTENDS Landscape, TLAPS

Chosen == {"supported", "classified", "publish"}

\* What an update knows of the repository, except of tags that changed meanwhile:
\* while it probes, every tag that would do is still to be tried; then none is
\* newer than the one it chose, and what it read of that one is what it says.
Knowledge ==
    /\ stage = "probe" => want # None
    /\ stage = "probe" /\ ~faulted => Eligible(want) \ touched \subseteq candidates
    /\ stage \in Chosen /\ ~faulted => \A t \in Eligible(want) \ touched : t <= tag
    /\ stage \in Chosen /\ tag \notin touched => tag \in Eligible(want)
    /\ stage \in {"classified", "publish"} /\ tag \notin touched =>
          supported = registry[tag].supported
    /\ stage = "publish" /\ tag \notin touched =>
          fetched = registry[tag].classified \cap supported

UpdateInv == TypeOK /\ Knowledge

\* The highest of some tags is one of them, and none is higher.
LEMMA Highest ==
    ASSUME NEW S \in SUBSET Tags, S # {}
    PROVE  Max(S) \in S /\ \A u \in S : u <= Max(S)
<1>1. PICK t \in S : \A u \in S : u <= t
  BY OrderAssumption
<1>2. t \in S /\ \A u \in S : t >= u
  BY <1>1, LandscapeAssumption
<1>3. Max(S) \in S /\ \A u \in S : Max(S) >= u
  BY <1>2 DEF Max
<1> QED
  BY <1>3, LandscapeAssumption

\* A tag than which no other of a set is higher is the highest.
LEMMA HighestIs ==
    ASSUME NEW S \in SUBSET Tags, NEW t \in S, \A u \in S : u <= t
    PROVE  Max(S) = t
<1>1. Max(S) \in S /\ t <= Max(S) /\ Max(S) <= t
  BY Highest
<1>2. Max(S) \in Nat /\ t \in Nat
  BY <1>1, LandscapeAssumption
<1> QED
  BY <1>1, <1>2

\* The Gardener version that is chosen is one that a Shoot has, or none.
LEMMA OldestType ==
    ASSUME gardener \in [Shoots -> Releases \cup {None}]
    PROVE  OldestVersion \in Releases \cup {None}
<1> DEFINE known == {gardener[s] : s \in Shoots} \ {None}
<1>1. known \in SUBSET Releases
  OBVIOUS
<1>2. CASE known = {}
  BY <1>2 DEF OldestVersion
<1>3. CASE known # {}
  <2>1. \E v \in known : \A w \in known : v <= w
    BY <1>1, <1>3, OrderAssumption
  <2>2. Min(known) \in known
    BY <2>1 DEF Min
  <2> QED
    BY <1>1, <1>3, <2>2 DEF OldestVersion
<1> QED
  BY <1>2, <1>3

\* Tags that are eligible are tags.
LEMMA EligibleTags == \A version : Eligible(version) \in SUBSET Tags
  BY DEF Eligible

\* What a descriptor says is of the right types.
LEMMA DescriptorType ==
    ASSUME TypeOK, NEW t \in Tags
    PROVE  /\ registry[t].supported \in SUBSET Versions
           /\ registry[t].classified \in SUBSET Versions
<1>1. registry[t] \in Descriptors \cup {Absent}
  BY DEF TypeOK
<1>2. CASE registry[t] \in Descriptors
  BY <1>2, LandscapeAssumption
<1>3. CASE registry[t] = Absent
  BY <1>3 DEF Absent
<1> QED
  BY <1>1, <1>2, <1>3

-----------------------------------------------------------------------------
\* Before the first update nothing is known.
LEMMA InitUpdate == Init => UpdateInv
<1> SUFFICES ASSUME Init PROVE UpdateInv
  OBVIOUS
<1>1. registry \in [Tags -> Descriptors \cup {Absent}] /\ 0 \in 0..MaxChanges /\ 0 \in 0..MaxFaults
  BY LandscapeAssumption DEF Init
<1>2. TypeOK
  BY <1>1 DEF Init, TypeOK, Stages, None
<1>3. Knowledge
  BY DEF Init, Knowledge, Chosen
<1> QED
  BY <1>2, <1>3 DEF UpdateInv

\* When an update ends, the CloudProfile has what it had or some versions.
LEMMA EndKeeps ==
    ASSUME UpdateInv, End, profile' \subseteq Versions, faults' \in 0..MaxFaults
    PROVE  UpdateInv'
<1>1. TypeOK'
  BY DEF UpdateInv, TypeOK, End, world, Stages, None
<1>2. Knowledge'
  BY DEF End, Knowledge, Chosen
<1> QED
  BY <1>1, <1>2 DEF UpdateInv

\* An update that fails ends.
LEMMA GiveUpKeeps ==
    ASSUME UpdateInv, GiveUp, NoFault \/ Fault
    PROVE  UpdateInv'
<1>1. profile' \subseteq Versions /\ faults' \in 0..MaxFaults
  BY LandscapeAssumption DEF UpdateInv, TypeOK, GiveUp, NoFault, Fault
<1> QED
  BY <1>1, EndKeeps DEF GiveUp

\* The start of an update, and the listing of tags.
LEMMA BeginKeeps == UpdateInv /\ Begin => UpdateInv'
<1> SUFFICES ASSUME UpdateInv, Begin PROVE UpdateInv'
  OBVIOUS
<1>1. TypeOK'
  BY OldestType DEF Begin, Continue, NoFault, world, UpdateInv, TypeOK, Stages
<1> QED
  BY <1>1 DEF Begin, UpdateInv, Knowledge, Chosen

\* Listing the tags: the highest is chosen, or all are candidates.
LEMMA ListTagsKeeps == UpdateInv /\ ListTags => UpdateInv'
<1> SUFFICES ASSUME UpdateInv, ListTags PROVE UpdateInv'
  OBVIOUS
<1> DEFINE all == {t \in Tags : Present(t)}
<1>1. all \in SUBSET Tags /\ all # {} /\ stage = "tags"
  BY DEF ListTags
<1>2. Max(all) \in all /\ \A u \in all : u <= Max(all)
  BY <1>1, Highest
<1>3. UNCHANGED <<registry, gardener, expired, changes, profile, faulted, touched, faults,
                  want, supported, fetched>>
  BY DEF ListTags, NoFault, Continue, world
<1>4. Eligible(want)' = Eligible(want) /\ Eligible(want) \subseteq all
  BY <1>3 DEF Eligible, Present
<1>5. CASE want = None
  <2>1. stage' = "supported" /\ tag' = Max(all) /\ candidates' = candidates
    BY <1>5 DEF ListTags
  <2>2. TypeOK'
    BY <1>2, <1>3, <2>1 DEF UpdateInv, TypeOK, Stages
  <2>3. Eligible(want) = all
    BY <1>5 DEF Eligible
  <2>4. Knowledge'
    BY <1>2, <1>3, <1>4, <2>1, <2>3 DEF Knowledge, Chosen
  <2> QED
    BY <2>2, <2>4 DEF UpdateInv
<1>6. CASE want # None
  <2>1. stage' = "probe" /\ candidates' = all /\ tag' = tag
    BY <1>6 DEF ListTags
  <2>2. TypeOK'
    BY <1>3, <2>1 DEF UpdateInv, TypeOK, Stages
  <2>3. Knowledge'
    BY <1>3, <1>4, <1>6, <2>1 DEF Knowledge, Chosen
  <2> QED
    BY <2>2, <2>3 DEF UpdateInv
<1> QED
  BY <1>5, <1>6

\* The tag that is probed is the highest of those still to be tried.
LEMMA ProbedHighest ==
    ASSUME UpdateInv, candidates # {}
    PROVE  Probed \in Tags /\ Probed \in candidates /\ \A u \in candidates : u <= Probed
  BY Highest DEF UpdateInv, TypeOK, Probed

\* A tag that matches is chosen, and it is the highest that would do.
LEMMA ProbeMatchesKeeps == UpdateInv /\ ProbeMatches => UpdateInv'
<1> SUFFICES ASSUME UpdateInv, ProbeMatches PROVE UpdateInv'
  OBVIOUS
<1>1. /\ stage = "probe" /\ candidates # {} /\ Matches(Probed)
      /\ stage' = "supported" /\ tag' = Probed /\ candidates' = {}
      /\ UNCHANGED <<registry, gardener, expired, changes, profile, faulted, touched, faults,
                     want, supported, fetched>>
  BY DEF ProbeMatches, NoFault, Continue, world
<1>2. Eligible(want)' = Eligible(want)
  BY <1>1 DEF Eligible, Present
<1>3. Probed \in Eligible(want)
  BY <1>1, ProbedHighest DEF Eligible, Matches
<1>4. TypeOK'
  BY <1>1, ProbedHighest DEF UpdateInv, TypeOK, Stages
<1>5. Knowledge'
  BY <1>1, <1>2, <1>3, ProbedHighest DEF UpdateInv, Knowledge, Chosen
<1> QED
  BY <1>4, <1>5 DEF UpdateInv

\* A tag that is passed over does not match, or could not be read.
LEMMA PassKeeps == UpdateInv /\ (ProbePasses \/ ProbeFails) => UpdateInv'
<1> SUFFICES ASSUME UpdateInv, ProbePasses \/ ProbeFails PROVE UpdateInv'
  OBVIOUS
<1>1. /\ stage = "probe" /\ candidates # {}
      /\ candidates' = candidates \ {Probed}
      /\ UNCHANGED <<registry, gardener, expired, changes, profile, stage, want, tag,
                     supported, fetched, touched>>
  BY DEF ProbePasses, ProbeFails, Pass, world
<1>2. faults' \in 0..MaxFaults
  BY LandscapeAssumption DEF ProbePasses, ProbeFails, Fault, NoFault, UpdateInv, TypeOK
<1>3. faulted' \in BOOLEAN
  BY DEF ProbePasses, ProbeFails, UpdateInv, TypeOK
<1>4. faulted' \/ (faulted' = faulted /\ ~Matches(Probed))
  BY DEF ProbePasses, ProbeFails
<1>5. Eligible(want)' = Eligible(want)
  BY <1>1 DEF Eligible, Present
<1>6. want # None
  BY <1>1 DEF UpdateInv, Knowledge
<1>7. ~Matches(Probed) => Probed \notin Eligible(want)
  BY <1>6 DEF Eligible, Matches
<1>8. TypeOK'
  BY <1>1, <1>2, <1>3 DEF UpdateInv, TypeOK
<1>9. Knowledge'
  BY <1>1, <1>4, <1>5, <1>7 DEF UpdateInv, Knowledge, Chosen
<1> QED
  BY <1>8, <1>9 DEF UpdateInv

\* The two reads at the tag.
LEMMA ReadKeeps == UpdateInv /\ (ReadSupported \/ ReadClassified) => UpdateInv'
<1> SUFFICES ASSUME UpdateInv, ReadSupported \/ ReadClassified PROVE UpdateInv'
  OBVIOUS
<1>1. UNCHANGED <<registry, gardener, expired, changes, profile, faulted, touched, faults,
                  want, candidates, tag>>
  BY DEF ReadSupported, ReadClassified, NoFault, Continue, world
<1>2. Eligible(want)' = Eligible(want)
  BY <1>1 DEF Eligible, Present
<1>3. tag \in Tags /\ stage \in Chosen
  BY DEF ReadSupported, ReadClassified, UpdateInv, TypeOK, Chosen
<1>4. CASE ReadSupported
  <2>1. TypeOK'
    BY <1>1, <1>3, <1>4, DescriptorType DEF ReadSupported, UpdateInv, TypeOK, Stages
  <2>2. Knowledge'
    BY <1>1, <1>2, <1>3, <1>4 DEF ReadSupported, UpdateInv, Knowledge, Chosen
  <2> QED
    BY <2>1, <2>2 DEF UpdateInv
<1>5. CASE ReadClassified
  <2>1. TypeOK'
    BY <1>1, <1>3, <1>5, DescriptorType DEF ReadClassified, UpdateInv, TypeOK, Stages
  <2>2. Knowledge'
    BY <1>1, <1>2, <1>3, <1>5 DEF ReadClassified, UpdateInv, Knowledge, Chosen
  <2> QED
    BY <2>1, <2>2 DEF UpdateInv
<1> QED
  BY <1>4, <1>5

\* The world changes: a tag that is pushed or moved counts as touched.
LEMMA PushKeeps ==
    ASSUME UpdateInv, NEW t \in Tags, NEW d \in Descriptors \cup {Absent}, Push(t, d)
    PROVE  UpdateInv'
<1>1. /\ registry' = [registry EXCEPT ![t] = d]
      /\ touched' = IF stage = "idle" THEN {} ELSE touched \cup {t}
      /\ UNCHANGED <<gardener, expired, profile, stage, want, candidates, tag, supported, fetched,
                     faulted, faults>>
      /\ changes' \in 0..MaxChanges
  BY LandscapeAssumption DEF Push, Change, AllElse, locals, UpdateInv, TypeOK
<1>2. TypeOK'
  BY <1>1 DEF UpdateInv, TypeOK
<1>3. CASE stage = "idle"
  BY <1>1, <1>2, <1>3 DEF UpdateInv, Knowledge, Chosen
<1>4. CASE stage # "idle"
  <2>1. \A u \in Tags : u \notin touched' => registry'[u] = registry[u] /\ u \notin touched
    BY <1>1, <1>4 DEF UpdateInv, TypeOK
  <2>2. \A u \in Tags : u \notin touched' => (u \in Eligible(want)' <=> u \in Eligible(want))
    BY <1>1, <2>1 DEF Eligible, Present
  <2>3. Eligible(want)' \subseteq Tags
    BY DEF Eligible
  <2>4. stage \in Chosen => tag \in Tags
    BY DEF UpdateInv, TypeOK, Chosen
  <2>5. (Eligible(want) \ touched)' \subseteq Eligible(want) \ touched
    BY <2>1, <2>2, <2>3
  <2>6. Knowledge'
    BY <1>1, <2>1, <2>2, <2>4, <2>5 DEF UpdateInv, Knowledge, Chosen
  <2> QED
    BY <1>2, <2>6 DEF UpdateInv
<1> QED
  BY <1>3, <1>4

\* Shoots that are upgraded and versions that expire disturb no update.
LEMMA WorldKeeps ==
    ASSUME UpdateInv,
           \/ \E s \in Shoots, v \in Releases : Upgrade(s, v)
           \/ \E v \in Versions : Expire(v)
    PROVE  UpdateInv'
<1>1. /\ UNCHANGED <<registry, profile, stage, want, candidates, tag, supported, fetched,
                     faulted, faults, touched>>
      /\ gardener' \in [Shoots -> Releases \cup {None}] /\ expired' \subseteq Versions
      /\ changes' \in 0..MaxChanges
  BY LandscapeAssumption DEF Upgrade, Expire, Change, AllElse, locals, UpdateInv, TypeOK
<1>2. Eligible(want)' = Eligible(want)
  BY <1>1 DEF Eligible, Present
<1>3. TypeOK'
  BY <1>1 DEF UpdateInv, TypeOK
<1>4. Knowledge'
  BY <1>1, <1>2 DEF UpdateInv, Knowledge
<1> QED
  BY <1>3, <1>4 DEF UpdateInv

\* An update that publishes ends.
LEMMA PublishKeeps == UpdateInv /\ Publish => UpdateInv'
<1> SUFFICES ASSUME UpdateInv, Publish PROVE UpdateInv'
  OBVIOUS
<1>1. End /\ profile' \subseteq Versions /\ faults' \in 0..MaxFaults
  BY DEF Publish, NoFault, UpdateInv, TypeOK
<1> QED
  BY <1>1, EndKeeps

\* Every step keeps the invariant.
LEMMA NextKeeps == UpdateInv /\ [Next]_vars => UpdateInv'
<1> SUFFICES ASSUME UpdateInv, [Next]_vars PROVE UpdateInv'
  OBVIOUS
<1>1. CASE ListNoTags \/ ProbedAll \/ TagGone \/ NotClassified \/ ReadFails \/ RefuseToWipe
  BY <1>1, GiveUpKeeps DEF ListNoTags, ProbedAll, TagGone, NotClassified, ReadFails, RefuseToWipe
<1>2. CASE Begin \/ ListTags \/ ProbeMatches \/ ProbePasses \/ ProbeFails
           \/ ReadSupported \/ ReadClassified \/ Publish
  BY <1>2, BeginKeeps, ListTagsKeeps, ProbeMatchesKeeps, PassKeeps, ReadKeeps, PublishKeeps
<1>3. CASE UNCHANGED vars
  <2>1. TypeOK'
    BY <1>3 DEF vars, world, locals, UpdateInv, TypeOK
  <2>2. Eligible(want)' = Eligible(want)
    BY <1>3 DEF vars, world, locals, Eligible, Present
  <2>3. Knowledge'
    BY <1>3, <2>2 DEF vars, world, locals, UpdateInv, Knowledge
  <2> QED
    BY <2>1, <2>3 DEF UpdateInv
<1> QED
  BY <1>1, <1>2, <1>3, PushKeeps, WorldKeeps DEF Next, Update, Probe, Read

\* The invariant of Landscape.
LEMMA Invariance == Spec => []UpdateInv
  BY InitUpdate, NextKeeps, PTL DEF Spec

\* The state of an update is well formed, whatever the repository does to its tags.
THEOREM TypeCorrect == Spec => []TypeOK
  BY Invariance, PTL DEF UpdateInv

\* An update that met no error, nor a change of its tag or a newer one, publishes
\* what the newest tag of the Gardener version entails when it is published.
THEOREM UpdatePublishesEntailed == Spec => PublishesEntailed
<1>1. ASSUME UpdateInv, Publish, ~faulted, \A t \in touched : t < tag
      PROVE  profile' = Entailed(want)
  <2>1. tag \in Tags /\ stage \in Chosen /\ stage = "publish"
    BY <1>1 DEF Publish, UpdateInv, TypeOK, Chosen
  <2>2. tag \notin touched
    BY <1>1, <2>1, LandscapeAssumption
  <2>3. tag \in Eligible(want) /\ Eligible(want) \in SUBSET Tags
    BY <1>1, <2>1, <2>2, EligibleTags DEF UpdateInv, Knowledge
  <2>4. ASSUME NEW u \in Eligible(want) PROVE u <= tag
    <3>1. CASE u \in touched
      <4>1. u < tag /\ u \in Nat /\ tag \in Nat
        BY <1>1, <2>3, <3>1, LandscapeAssumption
      <4> QED
        BY <4>1
    <3>2. CASE u \notin touched
      BY <1>1, <2>1, <3>2 DEF UpdateInv, Knowledge
    <3> QED
      BY <3>1, <3>2
  <2>5. Max(Eligible(want)) = tag
    BY <2>3, <2>4, HighestIs
  <2>6. fetched = registry[tag].supported \cap registry[tag].classified
    BY <1>1, <2>1, <2>2 DEF UpdateInv, Knowledge
  <2> QED
    BY <1>1, <2>3, <2>5, <2>6 DEF Publish, Entailed
<1>2. UpdateInv => [Publish /\ ~faulted /\ (\A t \in touched : t < tag) => profile' = Entailed(want)]_vars
  BY <1>1
<1> QED
  BY <1>2, Invariance, PTL DEF Spec, PublishesEntailed

\* Only Publish writes versions, and never none.
THEOREM NothingWiped == Spec => NeverWiped
<1>1. ASSUME [Next]_vars, profile # {} PROVE profile' # {}
  <2>1. CASE Publish
    BY <2>1 DEF Publish
  <2>2. CASE ~Publish
    BY <1>1, <2>2 DEF Next, Update, Probe, Read, Begin, ListTags, ListNoTags, ProbeMatches, ProbePasses,
        ProbeFails, ProbedAll, ReadSupported, ReadClassified, TagGone, NotClassified, ReadFails,
        RefuseToWipe, Push, Upgrade, Expire, AllElse, GiveUp, Pass, Continue, vars
  <2> QED
    BY <2>1, <2>2
<1>2. [Next]_vars => [profile # {} => profile' # {}]_vars
  BY <1>1
<1> QED
  BY <1>2, PTL DEF Spec, NeverWiped
=============================================================================
