-------------------------- MODULE GarbageCollection -------------------------
(***************************************************************************)
(* Garbage collection of machine image versions: one update whose source   *)
(* is an OCI repository in a Keppel registry, from the listing of the      *)
(* Shoots at the start of a reconciliation to the write of the             *)
(* CloudProfile at its end.  In between, Shoots come and go, and tags are  *)
(* pushed, grow older than maxAge and are removed.                         *)
(*                                                                         *)
(* A tag is a name in the registry; NormalizeTag turns it into the name    *)
(* the CloudProfile and the Shoots use.  The image of a tag may carry a    *)
(* clean version, which is published beside it.                            *)
(***************************************************************************)
EXTENDS Naturals

CONSTANTS
    Names,          \* names of tags, versions and clean versions
    Tags,           \* the tags the registry may have
    NormalizeTag,   \* gc.NormalizeTag: "_" becomes "+"
    CleanVersion,   \* the clean version of the image of a tag, or None
    SemverNames,    \* the names that are semantic versions
    None,
    MaxChanges,     \* bound: pushes and removals of tags, new and deleted Shoots
    MaxFaults       \* bound: calls that fail

ASSUME ConstantsAssumption ==
    /\ Tags \subseteq Names /\ SemverNames \subseteq Names
    /\ NormalizeTag \in [Names -> Names]
    /\ \A t, u \in Tags : NormalizeTag[t] = NormalizeTag[u] => t = u  \* no "+" in a tag
    /\ CleanVersion \in [Tags -> SemverNames \cup {None}]
    /\ None \notin Names
    /\ MaxChanges \in Nat /\ MaxFaults \in Nat

\* SourceImage.Version of the image of a tag.
Version(t) == NormalizeTag[t]

VARIABLES
    registry,    \* registry[t]: "absent", "young", or "old": pushed before maxAge
    inUse,       \* the versions the workers of some Shoot name
    profile,     \* the versions the CloudProfile lists for this image
    stage,       \* where the running reconciliation is
    listed,      \* the versions that were in use when the Shoots were listed
    pushed,      \* Filter.Tags: the age of the versions it knows
    filtering,   \* a filter was built
    changes, faults

reconcileVars == <<stage, listed, pushed, filtering>>
vars == <<registry, inUse, profile, reconcileVars, changes, faults>>

Ages == {"absent", "young", "old"}
Stages == {"idle", "filter", "fetch"}
NothingKnown == [v \in Names |-> "absent"]

TypeOK ==
    /\ registry \in [Tags -> Ages]
    /\ inUse \subseteq Names /\ profile \subseteq Names /\ listed \subseteq Names
    /\ stage \in Stages
    /\ pushed \in [Names -> Ages]
    /\ filtering \in BOOLEAN
    /\ changes \in 0..MaxChanges /\ faults \in 0..MaxFaults

-----------------------------------------------------------------------------
(***************************************************************************)
(* The reconciliation.                                                     *)
(***************************************************************************)
\* referencedVersions, from the Shoots listed first.
ListShoots ==
    /\ stage = "idle"
    /\ listed' = {NormalizeTag[v] : v \in inUse}
    /\ stage' = "filter"
    /\ UNCHANGED <<registry, inUse, profile, pushed, filtering, changes, faults>>

Present == {t \in Tags : registry[t] # "absent"}

\* GetTags and the cutoff.  Keppel may have no time for a tag.
\* Mutant: tags compared as the registry spells them.
BuildFilterRaw ==
    /\ stage = "filter"
    /\ \E untimed \in SUBSET Present :
          /\ untimed # {} => faults < MaxFaults
          /\ faults' = IF untimed = {} THEN faults ELSE faults + 1
          /\ pushed' = [v \in Names |->
                IF v \in Present \ untimed THEN registry[v] ELSE "absent"]
    /\ filtering' = TRUE
    /\ stage' = "fetch"
    /\ UNCHANGED <<registry, inUse, profile, listed, changes>>

BuildFilter ==
    /\ stage = "filter"
    /\ \E untimed \in SUBSET Present :
          /\ untimed # {} => faults < MaxFaults
          /\ faults' = IF untimed = {} THEN faults ELSE faults + 1
          /\ pushed' = [v \in Names |->
                IF \E t \in Present \ untimed : Version(t) = v
                THEN registry[CHOOSE t \in Present \ untimed : Version(t) = v]
                ELSE "absent"]
    /\ filtering' = TRUE
    /\ stage' = "fetch"
    /\ UNCHANGED <<registry, inUse, profile, listed, changes>>

\* No times at all: the update goes on without a filter.
BuildFilterFails ==
    /\ stage = "filter"
    /\ faults < MaxFaults
    /\ faults' = faults + 1
    /\ filtering' = FALSE
    /\ stage' = "fetch"
    /\ UNCHANGED <<registry, inUse, profile, listed, pushed, changes>>

\* Filter.keep.  Mutants: only the full tag protects; an unknown age is old.
KeepByTag(t) ==
    \/ ~filtering
    \/ Version(t) \in listed
    \/ pushed[Version(t)] # "old"
KeepIfYoung(t) ==
    \/ ~filtering
    \/ Version(t) \in listed
    \/ CleanVersion[t] # None /\ CleanVersion[t] \in listed
    \/ pushed[Version(t)] = "young"
Keep(t) ==
    \/ ~filtering
    \/ Version(t) \in listed
    \/ CleanVersion[t] # None /\ CleanVersion[t] \in listed
    \/ pushed[Version(t)] # "old"

\* What ImageUpdater.Apply publishes for images: the tag if it is a version,
\* and the clean version if there is one.  Mutant: even if there is none.
PublishedAlways(ts) ==
    {Version(t) : t \in {u \in ts : Version(u) \in SemverNames}}
        \cup {CleanVersion[t] : t \in ts}
Published(ts) ==
    {Version(t) : t \in {u \in ts : Version(u) \in SemverNames}}
        \cup {CleanVersion[t] : t \in {u \in ts : CleanVersion[u] # None}}

Return ==
    /\ stage' = "idle"
    /\ listed' = {}
    /\ pushed' = NothingKnown
    /\ filtering' = FALSE

\* GetVersions fetches the manifest of every tag and leaves out those it
\* cannot fetch; it fails when it could fetch none, and the write may fail.
FetchAndWrite ==
    /\ stage = "fetch"
    /\ \E skipped \in SUBSET Present :
          /\ skipped # {} => faults < MaxFaults
          /\ faults' = IF skipped = {} THEN faults ELSE faults + 1
          /\ profile' = IF Present = skipped THEN profile
                        ELSE Published({t \in Present \ skipped : Keep(t)})
    /\ Return
    /\ UNCHANGED <<registry, inUse, changes>>

\* Another call fails: the reconciliation ends without a write.
Abort ==
    /\ stage # "idle"
    /\ faults < MaxFaults
    /\ faults' = faults + 1
    /\ Return
    /\ UNCHANGED <<registry, inUse, profile, changes>>

-----------------------------------------------------------------------------
(***************************************************************************)
(* The world around it.                                                    *)
(***************************************************************************)
Change ==
    /\ changes < MaxChanges
    /\ changes' = changes + 1

\* A Shoot names a version the CloudProfile lists, as its admission demands.
UseVersion ==
    /\ Change
    /\ \E v \in profile \ inUse : inUse' = inUse \cup {v}
    /\ UNCHANGED <<registry, profile, reconcileVars, faults>>

ReleaseVersion ==
    /\ Change
    /\ \E v \in inUse : inUse' = inUse \ {v}
    /\ UNCHANGED <<registry, profile, reconcileVars, faults>>

Push ==
    /\ Change
    /\ \E t \in Tags : registry' = [registry EXCEPT ![t] = "young"]
    /\ UNCHANGED <<inUse, profile, reconcileVars, faults>>

RemoveTag ==
    /\ Change
    /\ \E t \in Present : registry' = [registry EXCEPT ![t] = "absent"]
    /\ UNCHANGED <<inUse, profile, reconcileVars, faults>>

GrowOld ==
    /\ \E t \in Tags : registry[t] = "young" /\ registry' = [registry EXCEPT ![t] = "old"]
    /\ UNCHANGED <<inUse, profile, reconcileVars, changes, faults>>

-----------------------------------------------------------------------------
Init ==
    /\ registry \in [Tags -> Ages]
    /\ inUse = {}
    /\ profile = {}
    /\ stage = "idle"
    /\ listed = {} /\ pushed = NothingKnown /\ filtering = FALSE
    /\ changes = 0 /\ faults = 0

Reconcile == ListShoots \/ BuildFilter \/ FetchAndWrite

Next ==
    \/ Reconcile
    \/ BuildFilterFails \/ Abort
    \/ UseVersion \/ ReleaseVersion
    \/ Push \/ RemoveTag \/ GrowOld

Spec == Init /\ [][Next]_vars

\* Reconciliations recur, every five minutes at the latest.
FairSpec == Spec /\ WF_vars(Reconcile)

-----------------------------------------------------------------------------
(***************************************************************************)
(* Properties.                                                             *)
(***************************************************************************)
\* The versions the registry has an image for.
Offered == Published(Present)

\* The images a version stands for: more than one when variants of an image
\* share a clean version.
ImagesOf(v) == {t \in Present : v \in {Version(t), CleanVersion[t]}}

\* A version that some Shoot named when the Shoots were listed is not collected:
\* it stays in the CloudProfile unless all of its images have left the registry
\* or could not be fetched.
ListedSurvive ==
    [][\A v \in listed \cap profile :
          profile' # profile /\ faults' = faults /\ ImagesOf(v) # {} => v \in profile']_vars

\* A version leaves the CloudProfile for a reason: no image of it was fetched,
\* or one was known to be old, and no Shoot named it.
LeavesForAReason ==
    [][\A v \in profile \ profile' :
          \/ ImagesOf(v) = {} \/ faults' # faults
          \/ /\ filtering /\ v \notin listed
             /\ \A t \in ImagesOf(v) :
                   pushed[Version(t)] = "old" /\ Version(t) \notin listed]_vars

\* Once the world is quiet, every version in use that the registry offers is
\* listed, and stays so, even one that was collected while a Shoot took it up.
InUseEventuallyListed == <>[](inUse \cap Offered \subseteq profile)

\* Once the world is quiet, what is old and not in use is gone; but a registry
\* that offers nothing at all is taken for a fault.
StaleEventuallyCollected ==
    <>[](Present # {} => \A v \in profile : \E t \in ImagesOf(v) :
            \/ registry[t] = "young"
            \/ {Version(t), CleanVersion[t]} \cap inUse # {})

\* Versions "in use (e.g. referenced by a Shoot)" "must never be collected".  The
\* set is the one read before the images were fetched, and a Shoot may take up a
\* version since.
InUseNeverCollected ==
    [][\A v \in inUse \cap profile :
          faults' = faults /\ ImagesOf(v) # {} => v \in profile']_vars
=============================================================================
