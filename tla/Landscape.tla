----------------------------- MODULE Landscape -----------------------------
(***************************************************************************)
(* The Kubernetes versions of a CloudProfile: from the Gardener versions   *)
(* of the Shoots to a tag of the landscape repository, from its component  *)
(* descriptor to the versions it supports, and from the data it refers to  *)
(* to those that are classified and have not expired.                      *)
(*                                                                         *)
(* Each read is a step: tags are pushed and moved, Shoots are upgraded and *)
(* time passes in between, and a read may fail.  A tag is a number, the    *)
(* higher the newer; a Gardener version is 10 times its minor plus a patch.*)
(***************************************************************************)
EXTENDS Integers, FiniteSets, FiniteSetsExt

CONSTANTS
    Tags,                \* the tags that are semantic versions; others are ignored
    Versions,            \* Kubernetes versions
    Descriptors,         \* what a component descriptor may say
    Releases,            \* the Gardener versions a Shoot may have
    Shoots,
    InitialRegistries,   \* what the repository may hold at first
    MaxChanges,          \* bound: pushes, removals, upgrades, expirations
    MaxFaults            \* bound: reads that fail

None == 0                \* no Gardener version
Absent == [gardener |-> None, supported |-> {}, classified |-> {}, there |-> FALSE]

ASSUME LandscapeAssumption ==
    /\ IsFiniteSet(Tags) /\ Tags \subseteq Nat \ {0}
    /\ Releases \subseteq Nat \ {None}
    /\ Descriptors \subseteq [gardener: Nat, supported: SUBSET Versions,
                              classified: SUBSET Versions, there: {TRUE}]
    /\ InitialRegistries \subseteq [Tags -> Descriptors \cup {Absent}]
    /\ MaxChanges \in Nat /\ MaxFaults \in Nat

\* Tags and Gardener versions are totally ordered, and tags are finitely many.
ASSUME OrderAssumption ==
    /\ \A S \in SUBSET Tags : S # {} => \E t \in S : \A u \in S : u <= t
    /\ \A S \in SUBSET Releases : S # {} => \E v \in S : \A w \in S : v <= w

VARIABLES
    registry,    \* the descriptor of each tag
    gardener,    \* status.gardener.version of each Shoot, None if unset
    expired,     \* the versions that are past their expiration and threshold
    profile,     \* spec.kubernetes.versions of the CloudProfile
    stage,       \* the next step of the update
    want,        \* the Gardener version that was chosen, None if there is none
    candidates,  \* the tags that are still to be tried
    tag,         \* the tag that was chosen
    supported,   \* the versions its descriptor supports
    fetched,     \* those of them that are classified
    faulted,     \* history: a read of this update failed
    touched,     \* history: the tags that changed during this update
    changes, faults

world == <<registry, gardener, expired, changes>>
locals == <<want, candidates, tag, supported, fetched>>
vars == <<world, profile, stage, locals, faulted, touched, faults>>

Stages == {"idle", "tags", "probe", "supported", "classified", "publish"}
Present(t) == registry[t].there
Minor(v) == v \div 10

\* gardenerVersionFromShoots.  Mutant: the newest of the versions.
NewestVersion ==
    LET known == {gardener[s] : s \in Shoots} \ {None} IN
    IF known = {} THEN None ELSE Max(known)
OldestVersion ==
    LET known == {gardener[s] : s \in Shoots} \ {None} IN
    IF known = {} THEN None ELSE Min(known)

-----------------------------------------------------------------------------
Continue == UNCHANGED <<world, profile, faulted, touched>>
NoFault == UNCHANGED faults
Fault == faults < MaxFaults /\ faults' = faults + 1

\* The update is over, with what was published or an error, and forgets all.
End ==
    /\ stage' = "idle"
    /\ want' = None /\ candidates' = {} /\ tag' = 0 /\ supported' = {} /\ fetched' = {}
    /\ faulted' = FALSE /\ touched' = {}
    /\ UNCHANGED world
GiveUp == End /\ UNCHANGED profile

\* A new reconciliation: its List of Shoots.
Begin ==
    /\ stage = "idle"
    /\ stage' = "tags" /\ want' = OldestVersion
    /\ NoFault /\ Continue
    /\ UNCHANGED <<candidates, tag, supported, fetched>>

\* listSemverTags and LatestTag: without a Gardener version the highest tag.
ListTags ==
    LET all == {t \in Tags : Present(t)} IN
    /\ stage = "tags" /\ all # {}
    /\ IF want = None
       THEN stage' = "supported" /\ tag' = Max(all) /\ UNCHANGED candidates
       ELSE stage' = "probe" /\ candidates' = all /\ UNCHANGED tag
    /\ NoFault /\ Continue
    /\ UNCHANGED <<want, supported, fetched>>
ListNoTags == stage = "tags" /\ {t \in Tags : Present(t)} = {} /\ NoFault /\ GiveUp

\* TagForGardenerVersion, highest tag first; the patch level does not matter.
Probed == Max(candidates)
\* Mutant: any minor that is not newer.
MatchesOlder(t) == Present(t) /\ Minor(registry[t].gardener) <= Minor(want)
Matches(t) ==
    Present(t) /\ registry[t].gardener # None /\ Minor(registry[t].gardener) = Minor(want)
Pass ==
    /\ candidates' = candidates \ {Probed}
    /\ UNCHANGED <<world, profile, stage, want, tag, supported, fetched, touched>>

\* Mutant: a variable of its own in the branch shadows the tag.
ProbeShadowsTag ==
    /\ stage = "probe" /\ candidates # {} /\ Matches(Probed)
    /\ stage' = "supported" /\ candidates' = {}
    /\ NoFault /\ Continue
    /\ UNCHANGED <<want, tag, supported, fetched>>
ProbeMatches ==
    /\ stage = "probe" /\ candidates # {} /\ Matches(Probed)
    /\ stage' = "supported" /\ tag' = Probed /\ candidates' = {}
    /\ NoFault /\ Continue
    /\ UNCHANGED <<want, supported, fetched>>
ProbePasses ==
    /\ stage = "probe" /\ candidates # {} /\ ~Matches(Probed)
    /\ NoFault /\ UNCHANGED faulted /\ Pass
\* An error is passed over like a descriptor of another Gardener version.
ProbeFails ==
    /\ stage = "probe" /\ candidates # {}
    /\ Fault /\ faulted' = TRUE /\ Pass
ProbedAll == stage = "probe" /\ candidates = {} /\ NoFault /\ GiveUp

\* The tag is resolved again for each read: fetchSupportedVersions, then
\* fetchClassification, which wants versions for the provider.
ReadSupported ==
    /\ stage = "supported" /\ Present(tag)
    /\ stage' = "classified" /\ supported' = registry[tag].supported
    /\ NoFault /\ Continue
    /\ UNCHANGED <<want, candidates, tag, fetched>>
ReadClassified ==
    /\ stage = "classified" /\ registry[tag].classified # {}
    /\ stage' = "publish" /\ fetched' = registry[tag].classified \cap supported
    /\ NoFault /\ Continue
    /\ UNCHANGED <<want, candidates, tag, supported>>
TagGone == stage = "supported" /\ ~Present(tag) /\ NoFault /\ GiveUp
NotClassified == stage = "classified" /\ registry[tag].classified = {} /\ NoFault /\ GiveUp

\* List of Shoots, listing of tags, descriptor or data: an error ends the update.
ReadFails == stage \in {"tags", "supported", "classified"} /\ Fault /\ GiveUp

\* KubernetesVersionUpdater.Apply, and the write.  Mutant: whatever is left.
PublishAny ==
    /\ stage = "publish"
    /\ profile' = fetched \ expired
    /\ NoFault /\ End
Publish ==
    /\ stage = "publish" /\ fetched \ expired # {}
    /\ profile' = fetched \ expired
    /\ NoFault /\ End
RefuseToWipe == stage = "publish" /\ fetched \ expired = {} /\ NoFault /\ GiveUp

-----------------------------------------------------------------------------
Change == changes < MaxChanges /\ changes' = changes + 1
AllElse == UNCHANGED <<profile, stage, locals, faulted, faults>>

\* A tag is pushed, moved or removed.
Push(t, d) ==
    /\ Change /\ registry[t] # d
    /\ registry' = [registry EXCEPT ![t] = d]
    /\ touched' = IF stage = "idle" THEN {} ELSE touched \cup {t}
    /\ UNCHANGED <<gardener, expired>> /\ AllElse

Upgrade(s, v) ==
    /\ Change /\ gardener[s] < v
    /\ gardener' = [gardener EXCEPT ![s] = v]
    /\ UNCHANGED <<registry, expired, touched>> /\ AllElse

Expire(v) ==
    /\ Change /\ v \notin expired
    /\ expired' = expired \cup {v}
    /\ UNCHANGED <<registry, gardener, touched>> /\ AllElse

-----------------------------------------------------------------------------
Init ==
    /\ registry \in InitialRegistries
    /\ gardener \in [Shoots -> Releases \cup {None}]
    /\ expired = {}
    /\ profile = {}
    /\ stage = "idle" /\ want = None /\ candidates = {} /\ tag = 0
    /\ supported = {} /\ fetched = {}
    /\ faulted = FALSE /\ touched = {} /\ changes = 0 /\ faults = 0

Probe == ProbeMatches \/ ProbePasses \/ ProbedAll
Read == ReadSupported \/ TagGone \/ ReadClassified \/ NotClassified
Update == Begin \/ ListTags \/ ListNoTags \/ Probe \/ Read \/ Publish \/ RefuseToWipe

Next ==
    \/ Update
    \/ ProbeFails \/ ReadFails
    \/ \E t \in Tags, d \in Descriptors \cup {Absent} : Push(t, d)
    \/ \E s \in Shoots, v \in Releases : Upgrade(s, v)
    \/ \E v \in Versions : Expire(v)

Spec == Init /\ [][Next]_vars

\* Reconciliations recur and go on, whatever fails.
FairSpec == Spec /\ WF_vars(Update)

-----------------------------------------------------------------------------
(***************************************************************************)
(* Properties.                                                             *)
(***************************************************************************)
TypeOK ==
    /\ registry \in [Tags -> Descriptors \cup {Absent}]
    /\ gardener \in [Shoots -> Releases \cup {None}]
    /\ expired \subseteq Versions /\ profile \subseteq Versions
    /\ stage \in Stages
    /\ want \in Releases \cup {None}
    /\ candidates \subseteq Tags
    /\ tag \in Tags \cup {0} /\ (stage \in {"supported", "classified", "publish"} => tag \in Tags)
    /\ supported \subseteq Versions /\ fetched \subseteq Versions
    /\ faulted \in BOOLEAN /\ touched \subseteq Tags
    /\ changes \in 0..MaxChanges /\ faults \in 0..MaxFaults

\* The tags of a Gardener version, or all of them if there is none.
Eligible(version) ==
    {t \in Tags : /\ Present(t)
                  /\ version # None =>
                        /\ registry[t].gardener # None
                        /\ Minor(registry[t].gardener) = Minor(version)}

\* What the registry entails for a Gardener version, if it entails anything.
Entailed(version) ==
    IF Eligible(version) = {} THEN {}
    ELSE LET t == Max(Eligible(version)) IN
         (registry[t].supported \cap registry[t].classified) \ expired

\* An update in which no read failed publishes what the newest tag of the oldest
\* Gardener version entails, whatever happens meanwhile to older tags, to Shoots
\* and to time.
PublishesEntailed ==
    [][Publish /\ ~faulted /\ (\A t \in touched : t < tag) => profile' = Entailed(want)]_vars

\* No sequence of failures, moving tags and expiring versions leaves a CloudProfile
\* without Kubernetes versions that had some.
NeverWiped == [][profile # {} => profile' # {}]_vars

\* When changes and faults end, the CloudProfile comes to offer what the Gardener
\* version entails that no Shoot is behind; if that is nothing, it keeps what it has.
Oldest(v) ==
    /\ \E s \in Shoots : gardener[s] = v
    /\ v = None => \A s \in Shoots : gardener[s] = None
    /\ v # None => \A s \in Shoots : gardener[s] = None \/ v <= gardener[s]
Converges ==
    <>[](\A v \in Releases \cup {None} :
            Oldest(v) /\ Entailed(v) # {} => profile = Entailed(v))

\* TagForGardenerVersion "returns the highest semver tag in the OCI repository
\* whose component descriptor contains a componentReference to the given Gardener
\* version".  A descriptor that cannot be read is passed over.
HighestTag ==
    stage = "supported" /\ want # None /\ touched = {} => tag = Max(Eligible(want))
=============================================================================
