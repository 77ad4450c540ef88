----------------------------- MODULE Reconciler -----------------------------
(***************************************************************************)
(* The control loop of controllers.Reconciler for one ManagedCloudProfile  *)
(* (MCP) and the CloudProfile it generates.                                *)
(*                                                                         *)
(* The API server holds the two objects; the controller reads both through *)
(* informer caches that lag behind, writes the CloudProfile with an        *)
(* un-preconditioned JSON merge patch (the difference between what it read *)
(* and what it wants) and the MCP status with another.  Between any two of *)
(* its calls the user edits the MCP, somebody edits the CloudProfile, a    *)
(* source changes, a call fails, or the process restarts.                  *)
(*                                                                         *)
(* What a source lists is abstract here: a listing (the versions, which    *)
(* become spec.machineImages) and the identifiers of those images (which   *)
(* only reach spec.providerConfig).                                        *)
(***************************************************************************)
EXTENDS Naturals

CONSTANTS
    N,                \* number of entries of spec.machineImageUpdates
    Bases,            \* values of spec.cloudProfile, the hand-written part
    BasesWithImages,  \* those that declare machine images themselves
    Listings,         \* sets of versions a source may list
    Ids,              \* image identifiers a source may attach to a listing
    Releases,         \* lists of Kubernetes versions their source may give
    KubeUpdate,       \* spec.kubernetesUpdate is set
    GCEnabled,        \* spec.garbageCollection is enabled
    MaxGen,           \* bound: generations of the MCP
    MaxUpsets,        \* bound: faults, source changes and foreign edits
    None              \* the absent value of a field

Updates == 1..N

\* What fetching one source yields.
Fetched == [vers: Listings, ids: Ids]

ASSUME ConstantsAssumption ==
    /\ N \in Nat
    /\ BasesWithImages \subseteq Bases
    /\ None \notin Bases \cup Listings \cup Fetched
    /\ KubeUpdate \in BOOLEAN /\ GCEnabled \in BOOLEAN
    /\ MaxGen \in Nat /\ MaxUpsets \in Nat

(***************************************************************************)
(* The objects.  A status keeps its two halves apart because a merge patch *)
(* does: status.status (sum) and the one entry of status.conditions.       *)
(***************************************************************************)
Condition == [value: {"none", "True", "False"}, obs: Nat,
              msg: {"", "applied", "fetch", "apply"}]
Status == [sum: {"", "Succeeded", "Failed"}, cond: Condition]
NoStatus == [sum |-> "", cond |-> [value |-> "none", obs |-> 0, msg |-> ""]]

Mcp == [exists: BOOLEAN, gen: Nat, base: Bases \cup {None},
        paused: BOOLEAN, status: Status]
NoMcp == [exists |-> FALSE, gen |-> 0, base |-> None,
          paused |-> FALSE, status |-> NoStatus]

\* spec.machineImages: the base's images, merged with a listing per update.
Images == [base: Bases \cup {None}, vers: [Updates -> Listings \cup {None}]]
\* spec.providerConfig: the same, with the identifiers.
Config == [base: Bases \cup {None}, got: [Updates -> Fetched \cup {None}]]

BaseImages(b) == [base |-> b, vers |-> [u \in Updates |-> None]]
BaseConfig(b) == [base |-> b, got |-> [u \in Updates |-> None]]

Profile == [owner: {"absent", "none", "us", "other"}, static: Bases \cup {None},
            images: Images, config: Config, kube: Releases \cup {None}]
NoProfile == [owner |-> "absent", static |-> None, images |-> BaseImages(None),
              config |-> BaseConfig(None), kube |-> None]

NothingGot == [u \in Updates |-> None]

VARIABLES
    mcp,         \* the ManagedCloudProfile on the API server
    profile,     \* the CloudProfile on the API server
    source,      \* source[u]: what the source of update u lists now
    kube,        \* the Kubernetes versions their source gives now
    cMcp,        \* the controller's cached copy of mcp
    cProfile,    \* the controller's cached copy of profile
    missed,      \* what changed in profile since that copy
    queue,       \* the workqueue entry of this MCP
    stage,       \* where the running Reconcile is
    seen,        \* the MCP it read
    next,        \* the update it fetches next
    got,         \* what it has fetched, per update
    gotKube,     \* the Kubernetes versions it has fetched
    found,       \* the CloudProfile CreateOrPatch read
    verdict,     \* the status it is about to record, or recorded last
    after,       \* how it requeues if recording that status succeeds
    upsets       \* faults and foreign changes so far

apiVars == <<mcp, profile>>
sourceVars == <<source, kube>>
cacheVars == <<cMcp, cProfile, missed>>
localVars == <<seen, next, got, gotKube, found, verdict, after>>
vars == <<apiVars, sourceVars, cacheVars, queue, stage, localVars, upsets>>

Stages == {"idle", "images", "kube", "read", "write", "status"}

(***************************************************************************)
(* The type invariant.                                                     *)
(***************************************************************************)
TypeOK ==
    /\ mcp \in Mcp /\ cMcp \in Mcp /\ seen \in Mcp
    /\ profile \in Profile /\ cProfile \in Profile /\ found \in Profile
    /\ source \in [Updates -> Fetched]
    /\ kube \in Releases
    /\ missed \in {"nothing", "foreign", "owned"}
    /\ queue \in {"empty", "period", "backoff", "now"}
    /\ stage \in Stages
    /\ next \in Nat
    /\ got \in [Updates -> Fetched \cup {None}]
    /\ gotKube \in Releases \cup {None}
    /\ verdict \in Status
    /\ after \in {"period", "backoff"}
    /\ upsets \in Nat

-----------------------------------------------------------------------------
(***************************************************************************)
(* The workqueue keeps one entry per MCP: an event makes it due now, a     *)
(* delayed add only matters when the entry is not already due.             *)
(***************************************************************************)
\* Mutant: RequeueAfter is forgotten.
RequeueNoPeriod(how) ==
    queue' = IF queue = "now" THEN "now" ELSE IF how = "period" THEN "empty" ELSE how
Requeue(how) == queue' = IF queue = "now" THEN "now" ELSE how

ClearLocals ==
    /\ seen' = NoMcp
    /\ next' = 1
    /\ got' = NothingGot
    /\ gotKube' = None
    /\ found' = NoProfile
    /\ after' = "backoff"

\* Reconcile returns: nil with RequeueAfter, or an error.
Return(how) ==
    /\ stage' = "idle"
    /\ Requeue(how)
    /\ ClearLocals
    /\ UNCHANGED verdict

\* The live CloudProfile becomes new.  A write that changes nothing raises no
\* event; the others are told apart by whether they concern our object.
Publish(new) ==
    /\ profile' = new
    /\ missed' = IF new = profile THEN missed
                 ELSE IF "us" \in {profile.owner, new.owner} \/ missed = "owned"
                 THEN "owned" ELSE "foreign"

\* A fault or a foreign change happens: at most MaxUpsets of them.
Upset ==
    /\ upsets < MaxUpsets
    /\ upsets' = upsets + 1

Succeeded ==
    [sum |-> "Succeeded",
     cond |-> [value |-> "True", obs |-> seen.gen, msg |-> "applied"]]
\* Mutant: the summary's vocabulary used for the condition.
FailedTwice(why) ==
    [sum |-> "Failed",
     cond |-> [value |-> "Failed", obs |-> seen.gen, msg |-> why]]
Failed(why) ==
    [sum |-> "Failed",
     cond |-> [value |-> "False", obs |-> seen.gen, msg |-> why]]

\* Hand over to patchStatusAndCondition with a status and a way to requeue.
Conclude(status, how) ==
    /\ stage' = "status"
    /\ verdict' = status
    /\ after' = how

-----------------------------------------------------------------------------
(***************************************************************************)
(* Reconcile, first part: Get the MCP, List the Shoots if they are needed. *)
(***************************************************************************)
NeedShoots(m) == (GCEnabled /\ ~m.paused) \/ KubeUpdate

AfterImages == IF KubeUpdate THEN "kube" ELSE "read"

Start ==
    /\ stage = "idle" /\ queue = "now"
    /\ cMcp.exists
    /\ queue' = "empty"
    /\ seen' = cMcp
    /\ stage' = IF cMcp.paused \/ N = 0 THEN AfterImages ELSE "images"
    /\ UNCHANGED <<apiVars, sourceVars, cacheVars, next, got, gotKube, found,
                   verdict, after, upsets>>

\* Get finds no MCP: Reconcile returns no error and asks for no requeue.
StartNotFound ==
    /\ stage = "idle" /\ queue = "now"
    /\ ~cMcp.exists
    /\ queue' = "empty"
    /\ UNCHANGED <<apiVars, sourceVars, cacheVars, stage, localVars, upsets>>

\* Listing the Shoots fails: an error, and no status is recorded.
StartListFails ==
    /\ stage = "idle" /\ queue = "now"
    /\ cMcp.exists /\ NeedShoots(cMcp)
    /\ Upset
    /\ queue' = "backoff"
    /\ UNCHANGED <<apiVars, sourceVars, cacheVars, stage, localVars>>

(***************************************************************************)
(* The updates are prepared one after the other, then the Kubernetes       *)
(* versions.  The first failure ends the reconciliation.                   *)
(***************************************************************************)
FetchImages ==
    /\ stage = "images"
    /\ got' = [got EXCEPT ![next] = source[next]]
    /\ next' = next + 1
    /\ stage' = IF next = N THEN AfterImages ELSE "images"
    /\ UNCHANGED <<apiVars, sourceVars, cacheVars, queue, seen, gotKube, found,
                   verdict, after, upsets>>

\* Mutant: a source that fails is passed over.
FetchImagesPassedOver ==
    /\ stage = "images"
    /\ Upset
    /\ next' = next + 1
    /\ stage' = IF next = N THEN AfterImages ELSE "images"
    /\ UNCHANGED <<apiVars, sourceVars, cacheVars, queue, seen, got, gotKube,
                   found, verdict, after>>

FetchImagesFails ==
    /\ stage = "images"
    /\ Upset
    /\ Conclude(Failed("fetch"), "backoff")
    /\ UNCHANGED <<apiVars, sourceVars, cacheVars, queue, seen, next, got,
                   gotKube, found>>

FetchKube ==
    /\ stage = "kube"
    /\ gotKube' = kube
    /\ stage' = "read"
    /\ UNCHANGED <<apiVars, sourceVars, cacheVars, queue, seen, next, got, found,
                   verdict, after, upsets>>

FetchKubeFails ==
    /\ stage = "kube"
    /\ Upset
    /\ Conclude(Failed("fetch"), "backoff")
    /\ UNCHANGED <<apiVars, sourceVars, cacheVars, queue, seen, next, got,
                   gotKube, found>>

-----------------------------------------------------------------------------
(***************************************************************************)
(* CreateOrPatch: read the cached CloudProfile, mutate it, and send the    *)
(* difference.                                                             *)
(***************************************************************************)
NoImages(images) ==
    /\ images.base \notin BasesWithImages
    /\ \A u \in Updates : images.vers[u] = None

\* What the fetched sources turn the base into.
FetchedImages ==
    [base |-> seen.base,
     vers |-> [u \in Updates |-> IF got[u] = None THEN None ELSE got[u].vers]]
FetchedConfig == [base |-> seen.base, got |-> got]

\* The mutate closure, applied to the profile p that was read.
\* Mutants: a pause that resets either half to the base.
WantedImagesReset(p) == IF seen.paused THEN BaseImages(seen.base) ELSE FetchedImages
WantedConfigReset(p) == IF seen.paused THEN BaseConfig(seen.base) ELSE FetchedConfig
WantedImages(p) ==
    IF ~seen.paused THEN FetchedImages
    ELSE IF NoImages(p.images) THEN BaseImages(seen.base) ELSE p.images
WantedConfig(p) ==
    IF ~seen.paused THEN FetchedConfig
    ELSE IF NoImages(p.images) THEN BaseConfig(seen.base) ELSE p.config

Wanted(p) ==
    [owner |-> "us", static |-> seen.base,
     images |-> WantedImages(p), config |-> WantedConfig(p),
     kube |-> IF KubeUpdate THEN gotKube ELSE None]

\* The server applies to cur the merge patch that turns old into new.
MergePatch(old, new, cur) ==
    LET Field(o, n, c) == IF n = o THEN c ELSE n IN
    [owner |-> Field(old.owner, new.owner, cur.owner),
     static |-> Field(old.static, new.static, cur.static),
     images |-> Field(old.images, new.images, cur.images),
     config |-> Field(old.config, new.config, cur.config),
     kube |-> Field(old.kube, new.kube, cur.kube)]

ReadProfile ==
    /\ stage = "read"
    /\ found' = cProfile
    /\ stage' = "write"
    /\ UNCHANGED <<apiVars, sourceVars, cacheVars, queue, seen, next, got, gotKube,
                   verdict, after, upsets>>

\* The server takes the write: a create, or a patch of the live object.
Creates == found.owner = "absent" /\ profile.owner = "absent"
Patches == /\ found.owner \in {"none", "us"} /\ Wanted(found) # found
           /\ profile.owner # "absent"
NoDifference == found.owner = "us" /\ Wanted(found) = found

Stored == IF Creates THEN Wanted(found)
          ELSE MergePatch(found, Wanted(found), profile)

WriteProfile ==
    /\ stage = "write"
    /\ \/ (Creates \/ Patches) /\ Publish(Stored)
       \/ NoDifference /\ UNCHANGED <<profile, missed>>
    /\ Conclude(Succeeded, "period")
    /\ UNCHANGED <<mcp, sourceVars, cMcp, cProfile, queue, seen, next, got, gotKube,
                   found, upsets>>

\* AlreadyOwned (before any call), AlreadyExists, NotFound.
WriteRejected ==
    /\ stage = "write"
    /\ ~(Creates \/ Patches \/ NoDifference)
    /\ Conclude(Failed("apply"), "backoff")
    /\ UNCHANGED <<apiVars, sourceVars, cacheVars, queue, seen, next, got, gotKube,
                   found, upsets>>

\* The call is refused as Invalid, so retrying it soon is pointless.
WriteInvalid ==
    /\ stage = "write"
    /\ Creates \/ Patches
    /\ Upset
    /\ Conclude(Failed("apply"), "period")
    /\ UNCHANGED <<apiVars, sourceVars, cacheVars, queue, seen, next, got, gotKube,
                   found>>

\* The call errs, before or after the server has applied it.
WriteErrs ==
    /\ stage = "write"
    /\ Creates \/ Patches
    /\ Upset
    /\ \/ Publish(Stored)
       \/ UNCHANGED <<profile, missed>>
    /\ Conclude(Failed("apply"), "backoff")
    /\ UNCHANGED <<mcp, sourceVars, cMcp, cProfile, queue, seen, next, got, gotKube,
                   found>>

-----------------------------------------------------------------------------
(***************************************************************************)
(* patchStatusAndCondition: compare with the status that was read, send    *)
(* what differs, and return.                                               *)
(***************************************************************************)
PatchedStatus ==
    [sum |-> IF verdict.sum = seen.status.sum
             THEN mcp.status.sum ELSE verdict.sum,
     cond |-> IF verdict.cond = seen.status.cond
              THEN mcp.status.cond ELSE verdict.cond]

SkipStatus ==
    /\ stage = "status"
    /\ verdict = seen.status
    /\ Return(after)
    /\ UNCHANGED <<apiVars, sourceVars, cacheVars, upsets>>

PatchStatus ==
    /\ stage = "status"
    /\ verdict # seen.status
    /\ mcp.exists
    /\ mcp' = [mcp EXCEPT !.status = PatchedStatus]
    /\ Return(after)
    /\ UNCHANGED <<profile, sourceVars, cacheVars, upsets>>

\* The MCP is gone: the patch finds nothing, and Reconcile returns its error.
PatchStatusNotFound ==
    /\ stage = "status"
    /\ verdict # seen.status
    /\ ~mcp.exists
    /\ Return("backoff")
    /\ UNCHANGED <<apiVars, sourceVars, cacheVars, upsets>>

\* The call errs, before or after the server has applied it.
PatchStatusErrs ==
    /\ stage = "status"
    /\ verdict # seen.status
    /\ mcp.exists
    /\ Upset
    /\ \/ mcp' = [mcp EXCEPT !.status = PatchedStatus]
       \/ UNCHANGED mcp
    /\ Return("backoff")
    /\ UNCHANGED <<profile, sourceVars, cacheVars>>

-----------------------------------------------------------------------------
(***************************************************************************)
(* The machinery around Reconcile: watches, timers, a restart.             *)
(***************************************************************************)
\* The watch of the MCP catches up.  GenerationChangedPredicate lets through
\* a creation, a deletion and a change of generation, not a status update.
SyncMcp ==
    /\ cMcp # mcp
    /\ cMcp' = mcp
    /\ queue' = IF cMcp.exists # mcp.exists \/ cMcp.gen # mcp.gen
                THEN "now" ELSE queue
    /\ UNCHANGED <<apiVars, sourceVars, cProfile, missed, stage, localVars, upsets>>

\* Mutant: the CloudProfile is not watched.
SyncProfileQuietly ==
    /\ missed # "nothing"
    /\ cProfile' = profile
    /\ missed' = "nothing"
    /\ UNCHANGED <<apiVars, sourceVars, cMcp, queue, stage, localVars, upsets>>

\* The watch of the CloudProfile catches up and enqueues its owner.
SyncProfile ==
    /\ missed # "nothing"
    /\ cProfile' = profile
    /\ missed' = "nothing"
    /\ queue' = IF missed = "owned" THEN "now" ELSE queue
    /\ UNCHANGED <<apiVars, sourceVars, cMcp, stage, localVars, upsets>>

\* A delayed entry (RequeueAfter, or the rate limiter's backoff) falls due.
Elapse ==
    /\ queue \in {"period", "backoff"}
    /\ queue' = "now"
    /\ UNCHANGED <<apiVars, sourceVars, cacheVars, stage, localVars, upsets>>

\* The process dies and comes back: fresh caches, every MCP enqueued.
Restart ==
    /\ Upset
    /\ cMcp' = mcp
    /\ cProfile' = profile
    /\ missed' = "nothing"
    /\ queue' = IF mcp.exists \/ profile.owner = "us" THEN "now" ELSE "empty"
    /\ stage' = "idle"
    /\ ClearLocals
    /\ verdict' = NoStatus
    /\ UNCHANGED <<apiVars, sourceVars>>

(***************************************************************************)
(* The environment: the user, the sources, other writers, and the garbage  *)
(* collector of the API server, which removes what a deleted MCP owned.    *)
(***************************************************************************)
EditSpec(b, p) ==
    /\ mcp.exists /\ mcp.gen < MaxGen
    /\ b # mcp.base \/ p # mcp.paused
    /\ mcp' = [mcp EXCEPT !.gen = @ + 1, !.base = b, !.paused = p]
    /\ UNCHANGED <<profile, sourceVars, cacheVars, queue, stage, localVars, upsets>>

DeleteMcp ==
    /\ mcp.exists
    /\ mcp' = NoMcp
    /\ UNCHANGED <<profile, sourceVars, cacheVars, queue, stage, localVars, upsets>>

SourceChanges ==
    /\ Upset
    /\ \/ \E u \in Updates, f \in Fetched : source' = [source EXCEPT ![u] = f]
          /\ UNCHANGED kube
       \/ kube' \in Releases /\ UNCHANGED source
    /\ UNCHANGED <<apiVars, cacheVars, queue, stage, localVars>>

\* Somebody else overwrites the static part of the profile, or deletes it.
ForeignEdit ==
    /\ profile.owner \in {"none", "us"}
    /\ Upset
    /\ \/ \E b \in Bases : Publish([profile EXCEPT !.static = b])
       \/ Publish(NoProfile)
    /\ UNCHANGED <<mcp, sourceVars, cMcp, cProfile, queue, stage, localVars>>

CollectOrphan ==
    /\ ~mcp.exists /\ profile.owner = "us"
    /\ Publish(NoProfile)
    /\ UNCHANGED <<mcp, sourceVars, cMcp, cProfile, queue, stage, localVars, upsets>>

-----------------------------------------------------------------------------
\* Before the controller first runs: an MCP of generation 1, and no profile,
\* or one made by hand, or one that another controller owns.
HandMade(owner, b) ==
    [owner |-> owner, static |-> b, images |-> BaseImages(b),
     config |-> BaseConfig(b), kube |-> None]

Init ==
    /\ \E b \in Bases, p \in BOOLEAN :
          mcp = [exists |-> TRUE, gen |-> 1, base |-> b, paused |-> p,
                 status |-> NoStatus]
    /\ \/ profile = NoProfile
       \/ \E o \in {"none", "other"}, b \in BasesWithImages : profile = HandMade(o, b)
    /\ source \in [Updates -> Fetched]
    /\ kube \in Releases
    /\ cMcp = mcp /\ cProfile = profile /\ missed = "nothing"
    /\ queue = "now"
    /\ stage = "idle"
    /\ seen = NoMcp
    /\ next = 1
    /\ got = NothingGot
    /\ gotKube = None
    /\ found = NoProfile
    /\ verdict = NoStatus
    /\ after = "backoff"
    /\ upsets = 0

\* The steps of Reconcile that are not faults.
Work ==
    \/ Start \/ StartNotFound
    \/ FetchImages \/ FetchKube
    \/ ReadProfile \/ WriteProfile \/ WriteRejected
    \/ SkipStatus \/ PatchStatus \/ PatchStatusNotFound

Faults ==
    \/ StartListFails \/ FetchImagesFails \/ FetchKubeFails
    \/ WriteInvalid \/ WriteErrs \/ PatchStatusErrs
    \/ Restart

Environment ==
    \/ \E b \in Bases, p \in BOOLEAN : EditSpec(b, p)
    \/ DeleteMcp
    \/ SourceChanges
    \/ ForeignEdit
    \/ CollectOrphan

Next ==
    \/ Work
    \/ Faults
    \/ SyncMcp \/ SyncProfile \/ Elapse
    \/ Environment

Spec == Init /\ [][Next]_vars

\* The worker runs, watches deliver, timers expire and the API server
\* collects orphans; nobody has to edit anything and nothing has to fail.
FairSpec ==
    /\ Spec
    /\ WF_vars(Work)
    /\ WF_vars(SyncMcp) /\ WF_vars(SyncProfile)
    /\ WF_vars(Elapse)
    /\ WF_vars(CollectOrphan)

-----------------------------------------------------------------------------
(***************************************************************************)
(* Properties.                                                             *)
(***************************************************************************)
\* Something already under way will run Reconcile again without waiting for
\* the five-minute period.
Healing ==
    \/ stage # "idle"
    \/ queue \in {"now", "backoff"}
    \/ missed = "owned" \/ cMcp # mcp

\* The MCP the workqueue serves is never dropped: whatever failed, it is being
\* reconciled or queued, or the cache does not know it any more (Reconcile and
\* the watches of SetupWithManager).
NeverForgotten ==
    mcp.exists => stage # "idle" \/ queue # "empty" \/ ~cMcp.exists

Uniform(f) == (\A u \in Updates : f[u] # None) \/ (\A u \in Updates : f[u] = None)

\* A CloudProfile never shows some of the machine image updates and not the
\* others: one source that fails ends the reconciliation before CreateOrPatch.
AllOrNothing == Uniform(profile.images.vers) /\ Uniform(profile.config.got)

\* The status reports success for the current generation, and the last
\* reconciliation did succeed.
UpToDate ==
    /\ mcp.exists
    /\ mcp.status.cond.value = "True" /\ mcp.status.cond.obs = mcp.gen
    /\ verdict.cond.value = "True"

\* "Applied" for the current generation means that the hand-written part is in
\* the CloudProfile, or that the next reconciliation is already due: an edit
\* that a stale cache hid, or a foreign edit, is not left for the period.
AppliedOrHealing ==
    UpToDate => Healing \/ (profile.owner = "us" /\ profile.static = mcp.base)

Coherent(images, config) ==
    /\ images.base = config.base
    /\ \A u \in Updates :
          images.vers[u] = IF config.got[u] = None THEN None ELSE config.got[u].vers

\* spec.machineImages and spec.providerConfig come from the same fetch, though a
\* merge patch computed from a stale copy may replace only one of them; unless
\* that is about to be repaired.
CoherentOrHealing ==
    UpToDate /\ ~mcp.paused =>
        Healing \/ Coherent(profile.images, profile.config)

PauseAcknowledged == UpToDate /\ mcp.paused /\ profile.owner = "us"

\* Once a reconciliation has recorded success for a paused generation, no later
\* write of the controller touches the machine images the CloudProfile has, or
\* their provider config, however stale its copies are; at most it repairs a
\* pair that an earlier merge patch tore apart.
PauseHolds ==
    [][PauseAcknowledged /\ ~NoImages(profile.images) /\ profile'.owner = "us" =>
           /\ UNCHANGED profile.images
           /\ \/ UNCHANGED profile.config
              \/ /\ ~Coherent(profile.images, profile.config)
                 /\ Coherent(profile'.images, profile'.config)]_vars

\* "MachineImagesPaused [...] keeps the existing CloudProfile machine images and
\* provider config unchanged": a reconciliation of a paused spec leaves images
\* that are published.  The code does not have this property before the pause is
\* acknowledged: the copy it decides by may be older than the images.
PausedKeepsExisting ==
    [][WriteProfile /\ seen.paused /\ profile.owner = "us" /\ ~NoImages(profile.images) =>
           UNCHANGED <<profile.images, profile.config>>]_vars

Settled ==
    CASE ~mcp.exists -> profile.owner # "us"
      [] mcp.exists /\ profile.owner = "us" ->
            /\ UpToDate /\ mcp.status.sum = "Succeeded"
            /\ profile.static = mcp.base
            /\ KubeUpdate => profile.kube = kube
            /\ ~mcp.paused =>
                  /\ profile.config = [base |-> mcp.base, got |-> source]
                  /\ Coherent(profile.images, profile.config)
      [] mcp.exists /\ profile.owner # "us" ->
            /\ profile.owner = "other"
            /\ mcp.status.sum = "Failed" /\ mcp.status.cond.value = "False"
            /\ mcp.status.cond.obs = mcp.gen

\* When edits and faults stop, the CloudProfile and the status come to say what
\* the MCP and the sources say, and stay so; a CloudProfile that belongs to
\* another controller is left alone and reported; a deleted MCP leaves none.
Converges == <>[]Settled

\* "Conditions represents the latest available observations": when a
\* reconciliation has recorded its status without an error, the live status is
\* the one it came to.  The code does not have this property: it compares with,
\* and sends a difference from, a copy of the status that may be stale.
LatestObservation ==
    [][mcp.exists /\ (SkipStatus \/ PatchStatus) => mcp'.status = verdict]_vars
=============================================================================
