----------------------- MODULE GarbageCollectionProofs ----------------------
(***************************************************************************)
(* Theorems about GarbageCollection, for any tags, names and bounds.       *)
(***************************************************************************)
EXTENDS GarbageCollection, TLAPS

\* Beside its type, the CloudProfile lists semantic versions only: a tag that is
\* none is published by its clean version.
Inv == TypeOK /\ profile \subseteq SemverNames

\* ImageUpdater.Apply publishes semantic versions only.
LEMMA PublishedSemver ==
    ASSUME NEW ts \in SUBSET Tags PROVE Published(ts) \subseteq SemverNames
<1>1. ASSUME NEW t \in ts, CleanVersion[t] # None PROVE CleanVersion[t] \in SemverNames
  BY <1>1, ConstantsAssumption
<1> QED
  BY <1>1 DEF Published

\* A reconciliation that returns leaves its locals empty.
LEMMA ReturnType ==
    ASSUME Return
    PROVE  /\ stage' \in Stages /\ listed' = {} /\ filtering' \in BOOLEAN
           /\ pushed' \in [Names -> Ages]
  BY DEF Return, Stages, Ages, NothingKnown

\* Each step of the reconciliation and of the world keeps the invariant.
LEMMA InvStep == Inv /\ [Next]_vars => Inv'
<1> SUFFICES ASSUME Inv, [Next]_vars PROVE Inv'
  OBVIOUS
<1> USE ConstantsAssumption DEF Inv, TypeOK
<1>1. ASSUME ListShoots PROVE Inv'
  BY <1>1 DEF ListShoots, Stages
<1>2. ASSUME BuildFilter PROVE Inv'
  <2>1. faults' \in 0..MaxFaults
    BY <1>2 DEF BuildFilter
  <2>2. PICK untimed \in SUBSET Present :
           pushed' = [v \in Names |->
              IF \E t \in Present \ untimed : Version(t) = v
              THEN registry[CHOOSE t \in Present \ untimed : Version(t) = v]
              ELSE "absent"]
    BY <1>2 DEF BuildFilter
  <2>3. ASSUME NEW v \in Names, \E t \in Present \ untimed : Version(t) = v
        PROVE  registry[CHOOSE t \in Present \ untimed : Version(t) = v] \in Ages
    <3>1. (CHOOSE t \in Present \ untimed : Version(t) = v) \in Present
      BY <2>3
    <3> QED
      BY <3>1 DEF Present
  <2>4. pushed' \in [Names -> Ages]
    BY <2>2, <2>3 DEF Ages
  <2> QED
    BY <1>2, <2>1, <2>4 DEF BuildFilter, Stages
<1>3. ASSUME BuildFilterFails PROVE Inv'
  <2>1. faults' \in 0..MaxFaults
    BY <1>3 DEF BuildFilterFails
  <2>2. filtering' \in BOOLEAN
    BY <1>3 DEF BuildFilterFails
  <2> QED
    BY <1>3, <2>1, <2>2 DEF BuildFilterFails, Stages
<1>4. ASSUME FetchAndWrite PROVE Inv'
  <2>1. faults' \in 0..MaxFaults
    BY <1>4 DEF FetchAndWrite
  <2>2. profile' \subseteq SemverNames
    BY <1>4, PublishedSemver DEF FetchAndWrite, Present
  <2> QED
    BY <1>4, <2>1, <2>2, ReturnType DEF FetchAndWrite
<1>5. ASSUME Abort PROVE Inv'
  BY <1>5, ReturnType DEF Abort
<1>6. ASSUME UseVersion \/ ReleaseVersion PROVE Inv'
  BY <1>6 DEF UseVersion, ReleaseVersion, Change, reconcileVars
<1>7. ASSUME Push \/ RemoveTag \/ GrowOld PROVE Inv'
  <2>1. registry' \in [Tags -> Ages]
    BY <1>7 DEF Push, RemoveTag, GrowOld, Present, Ages
  <2>2. changes' \in 0..MaxChanges
    BY <1>7 DEF Push, RemoveTag, GrowOld, Change
  <2> QED
    BY <1>7, <2>1, <2>2 DEF Push, RemoveTag, GrowOld, reconcileVars
<1>8. ASSUME UNCHANGED vars PROVE Inv'
  BY <1>8 DEF vars, reconcileVars
<1> QED
  BY <1>1, <1>2, <1>3, <1>4, <1>5, <1>6, <1>7, <1>8 DEF Next, Reconcile

\* Every reachable state has its types, and the CloudProfile lists semantic
\* versions only, as upsertLegacyVersion and upsertCleanVersion see to.
THEOREM Invariance == Spec => []Inv
<1>1. Init => Inv
  <2> SUFFICES ASSUME Init PROVE Inv
    OBVIOUS
  <2>1. changes \in 0..MaxChanges /\ faults \in 0..MaxFaults
    BY ConstantsAssumption DEF Init
  <2>2. filtering \in BOOLEAN
    BY DEF Init
  <2>3. pushed \in [Names -> Ages]
    BY DEF Init, Ages, NothingKnown
  <2> QED
    BY <2>1, <2>2, <2>3 DEF Init, Inv, TypeOK, Stages
<1> QED
  BY <1>1, InvStep, PTL DEF Spec

\* Every behaviour of garbage collection keeps its types, for any tags and names.
THEOREM TypeCorrect == Spec => []TypeOK
<1>1. Inv => TypeOK
  BY DEF Inv
<1> QED
  BY <1>1, Invariance, PTL

-----------------------------------------------------------------------------
\* Only FetchAndWrite changes the CloudProfile; with no manifest skipped, it
\* publishes the images kept among those present.
LEMMA OnlyWriter ==
    ASSUME [Next]_vars, profile' # profile, faults' = faults, Inv
    PROVE  FetchAndWrite /\ profile' = Published({t \in Present : Keep(t)})
<1>1. FetchAndWrite
  BY DEF Next, Reconcile, ListShoots, BuildFilter, BuildFilterFails, Abort, UseVersion,
     ReleaseVersion, Push, RemoveTag, GrowOld, vars
<1>2. PICK skipped \in SUBSET Present :
         /\ faults' = IF skipped = {} THEN faults ELSE faults + 1
         /\ profile' = IF Present = skipped THEN profile
                       ELSE Published({t \in Present \ skipped : Keep(t)})
  BY <1>1 DEF FetchAndWrite
<1>3. faults \in Nat
  BY ConstantsAssumption DEF Inv, TypeOK
<1>4. skipped = {}
  BY <1>2, <1>3
<1> QED
  BY <1>1, <1>2, <1>4

\* A version that is published stays so as long as one of its images is kept.
LEMMA KeptIsPublished ==
    ASSUME Inv, NEW v \in profile, NEW t \in ImagesOf(v), Keep(t)
    PROVE  v \in Published({u \in Present : Keep(u)})
<1>1. v \in SemverNames /\ v # None /\ t \in Present /\ v \in {Version(t), CleanVersion[t]}
  BY ConstantsAssumption DEF Inv, TypeOK, ImagesOf
<1> QED
  BY <1>1 DEF Published

\* A version that some Shoot named when the Shoots were listed survives the
\* reconciliation, whatever is pushed, removed or fetched meanwhile.
THEOREM ReferencedSurvive == Spec => ListedSurvive
<1>1. ASSUME Inv, [Next]_vars
      PROVE  \A v \in listed \cap profile :
                profile' # profile /\ faults' = faults /\ ImagesOf(v) # {} => v \in profile'
  <2> SUFFICES ASSUME NEW v \in listed \cap profile,
                      profile' # profile, faults' = faults, ImagesOf(v) # {}
               PROVE  v \in profile'
    OBVIOUS
  <2>1. PICK t \in ImagesOf(v) : TRUE
    OBVIOUS
  <2>2. v # None
    BY <1>1, ConstantsAssumption DEF Inv, TypeOK
  <2>3. Version(t) \in listed \/ (CleanVersion[t] # None /\ CleanVersion[t] \in listed)
    BY <2>2 DEF ImagesOf
  <2>4. Keep(t)
    BY <2>3 DEF Keep
  <2> QED
    BY <1>1, <2>4, OnlyWriter, KeptIsPublished
<1> QED
  BY <1>1, Invariance, PTL DEF Spec, ListedSurvive

\* Garbage collection removes nothing that is young, of unknown age, or named by
\* a Shoot that was listed.
THEOREM CollectedForAReason == Spec => LeavesForAReason
<1>1. ASSUME Inv, [Next]_vars
      PROVE  \A v \in profile \ profile' :
                \/ ImagesOf(v) = {} \/ faults' # faults
                \/ /\ filtering /\ v \notin listed
                   /\ \A t \in ImagesOf(v) :
                         pushed[Version(t)] = "old" /\ Version(t) \notin listed
  <2> SUFFICES ASSUME NEW v \in profile \ profile',
                      ImagesOf(v) # {}, faults' = faults
               PROVE  /\ filtering /\ v \notin listed
                      /\ \A t \in ImagesOf(v) :
                            pushed[Version(t)] = "old" /\ Version(t) \notin listed
    OBVIOUS
  <2>1. \A t \in ImagesOf(v) : ~Keep(t)
    BY <1>1, OnlyWriter, KeptIsPublished
  <2>2. v # None /\ \A t \in ImagesOf(v) : v \in {Version(t), CleanVersion[t]}
    BY <1>1, ConstantsAssumption DEF ImagesOf, Inv, TypeOK
  <2> QED
    BY <2>1, <2>2 DEF Keep
<1> QED
  BY <1>1, Invariance, PTL DEF Spec, LeavesForAReason
=============================================================================
