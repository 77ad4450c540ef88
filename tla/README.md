# cloud-profile-sync: a TLA+ verification project

`cloud-profile-sync` is a Kubernetes controller. For every `ManagedCloudProfile`
(MCP) it asks sources for machine image versions and Kubernetes versions, and
generates the Gardener `CloudProfile` of the same name from a hand-written base
and what the sources gave. This directory holds its specifications (TLA+), the
TLC configurations that check them on small instances, and proofs that TLAPS
checks for every value of the parameters. Paths below are relative to `src/`.

## 1. Inventory

| Component | State | Operations | Talks to |
|---|---|---|---|
| `controllers.Reconciler` (`controllers/managedcloudprofile_controller.go`, `cloud_profile.go`) | none of its own; informer caches, one workqueue entry per MCP, the locals of a running `Reconcile` | `Reconcile`: get MCP, list Shoots, prepare each image update, prepare the Kubernetes update, `CreateOrPatch` the CloudProfile, patch the status, requeue | API server (cached reads, direct writes), sources |
| Sources and credentials (`cloud_profile_helpers.go`) | none | pick a source and provider, read a Secret, choose the minimum Gardener version of the Shoots | Reconciler |
| Garbage collection (`garbage_collection.go`, `ossync/gc`) | a filter value: tag times, protected versions, cutoff | build the filter from the registry and the Shoots; filter images | Keppel registry, image updater |
| Image updater (`ossync/os_image_updater.go`, `capabilities.go`) | none | `Fetch` (validate, sort, filter), `Apply` (upsert tag and clean versions) | a source, a provider |
| Glance source (`ossync/source/glance`) | a semaphore per source; a channel per call | `GetVersions`: one goroutine per region, merge, window, classify | OpenStack |
| OCI source (`ossync/source/oci`) | the same | `GetVersions`: one goroutine per tag, image filter | OCI registry |
| Providers (`ossync/provider/openstack`, `ironcore`) | none | `Configure`: write image identifiers into `providerConfig` | image updater |
| Kubernetes updater and landscape source (`k8ssync`) | none | resolve a tag, intersect supported versions and classifications, drop the expired | OCI registry |
| `main.go` | none | start the manager, without leader election | |

What is hard, and what makes each component correct:

* **Reconciler.** It reads from caches that lag, and writes un-preconditioned
  merge patches, so two reconciliations, a user and another writer interleave
  field by field. Any call can fail before or after it took effect, the process
  can restart between any two. Correct means: it is never left unqueued; what it
  publishes is complete; what a stale copy damages is repaired by something
  already under way, not by luck; a pause freezes the images; and when the world
  is quiet, CloudProfile and status say what the spec and the sources say.
* **Glance source.** Answers arrive in any order, and a timeout makes the call
  return while its goroutines still run. Correct means: the result does not depend
  on the order; a region that is down costs its images and not the update; nobody
  blocks or leaks.
* **Garbage collection.** The Shoots are listed minutes before the CloudProfile is
  written, and names are spelled differently by registry and Shoots. Correct means:
  what is in use stays, what goes was old and unused, and what is old goes.
* **OCI source.** One goroutine per tag and a channel without a buffer. Correct
  means: all answers are received whatever some of them say, an error costs one tag,
  and no goroutine is left.
* **Image updater and providers.** Upserts under map iteration and several images
  per version. Correct means: the result is a function of the set of images, no
  variant of a version is lost, and `machineImages` and `providerConfig` agree.
* **Kubernetes updater.** Several reads, each of which may fail, at a tag that may
  move. Correct means: what is published is what the chosen tag says, it comes to be
  what the Shoots call for, and the CloudProfile never loses all its versions.
* **Several replicas.** Leader election is off, and every Glance fetch dates the last
  version anew. Correct means: replicas stop overwriting each other, and a date that
  all of them have seen stays.

`PROJECT.json` lists the hazards one by one, at the line where each bites.

## 2. Modules

| Module | Models |
|---|---|
| `Reconciler` | the control loop of one MCP and its CloudProfile |
| `Source` | the abstract source: what an update relies on when it calls `GetVersions` |
| `GlanceSource` | `Glance.GetVersions` over several calls; implements `Source` |
| `OciSource` | `OCI.GetVersions` over any number of calls; implements `Source` |
| `ImageUpdater` | `Fetch`, `Apply` and both `Configure`, as functions |
| `ImagePipeline` | composes `OciSource`, the choice of Glance images and `ImageUpdater` |
| `GarbageCollection` | one image update from an OCI source, from listing the Shoots to the write |
| `Landscape` | the Kubernetes versions, from Shoots and tags to what is published |
| `ProfileWriters` | expiration dates in a CloudProfile that several replicas write |
| `ReconcilerProofs`, `GlanceSourceProofs`, `GarbageCollectionProofs`, `OciSourceProofs`, `ImagePipelineProofs`, `LandscapeProofs`, `ProfileWritersProofs` | theorems |
| `ImageUpdaterProofs` | lemmas about `Fetch`, `Apply` and both `Configure`, for `ImagePipelineProofs` |
| `MCReconciler`, `MCGlanceSource`, `MCGarbageCollection`, `MCImagePipeline`, `MCLandscape`, `MCProfileWriters` | small instances for TLC |

How they fit: `Reconciler` treats what an update fetches as a value or an error;
`Source` says when a source may give which, and the two sources are shown to
implement it; `ImagePipeline` follows the value into `machineImages` and
`providerConfig`; `Landscape` and `GarbageCollection` do the same for the Kubernetes
versions and the filter; `ProfileWriters` takes the write of `Reconciler` apart where
several replicas and dates meet.

Operators commented "Mutant" are plausible bugs in the definition below them. No
specification uses them; they exist to show that each property can fail.

### 2.1 Reconciler

`mcp` and `profile` are the objects on the API server, `cMcp` and `cProfile` the
controller's cached copies. `SyncMcp` and `SyncProfile` deliver watch events;
`missed` remembers whether an event of ours is among those not yet delivered, so
that an edit that was undone before the cache saw it still enqueues the owner. A
cache jumps to the latest state in one step: the stale states in between are
reached by delivering earlier. A status update of the MCP reaches the cache but
enqueues nothing, as `GenerationChangedPredicate` has it.

`queue` is the workqueue entry: `now` (due), `period` (`RequeueAfter`),
`backoff` (rate-limited after an error) or `empty`. An event during a
reconciliation makes it due again, which the return does not undo (`Requeue`).

`stage` is the point `Reconcile` has reached; each step is one call:

| Stage | Actions | Code |
|---|---|---|
| idle | `Start`, `StartNotFound`, `StartListFails` | `Reconcile`, `List` of Shoots |
| images | `FetchImages`, `FetchImagesFails` | `prepareMachineImageUpdate`, once per update |
| kube | `FetchKube`, `FetchKubeFails` | `prepareKubernetesUpdate` |
| read, write | `ReadProfile`, `WriteProfile`, `WriteRejected`, `WriteInvalid`, `WriteErrs` | `CreateOrPatch` |
| status | `SkipStatus`, `PatchStatus`, `PatchStatusNotFound`, `PatchStatusErrs` | `patchStatusAndCondition`, then the return |

`WriteRejected` covers what the code meets without a fault: an owner that is
another controller, a create of what exists, a patch of what is gone. `WriteErrs`
and `PatchStatusErrs` choose whether the server had applied the call.
`MergePatch(old, new, cur)` is a JSON merge patch: only the fields that differ
between what was read and what is wanted are sent. The CloudProfile has five such
fields: owner, the static part, `machineImages`, `providerConfig` and the
Kubernetes versions; the status has two.

A listing and the identifiers of its images are two values, because a change of
identifiers alone changes `providerConfig` and not `machineImages`. Left out:
expiration dates and the text of messages; errors of reads that the cache serves
(get MCP, get CloudProfile), except the listing of Shoots; an MCP that is created
again under the name of one that was deleted.

### 2.2 GlanceSource

`worker[c][r]` is the goroutine of region `r` of call `c`; `channel[c]` the
buffered channel; the locals of `GetVersions` are `listed`, `spoke` (allRegions),
`skipped` and `received`. A goroutine waits for the semaphore (`Acquire`), may be
refused when the context has ended (`Refuse`), queries (`Discover`), and sends
(`Send`) before it releases its weight. `GetVersions` receives (`Merge`, `Skip`,
`GiveUp`) and ends (`Finish`). A request that outlasts the client's 60 s is an
error that is `context.DeadlineExceeded`, so `ended` answers need no cancelled
context. A version is a number; a region appears once in `regions`. `answers` is a
history variable: the answers of the current call, without an order.

`ImplementsSource` is the refinement of `Source`: `params` for `config`, the images
returned as a set, and `Expected`, which counts newer versions instead of sorting,
for `Images`. An answer that is sent is the abstract `Answer`; receiving and merging
stutter; `Finish` and `GiveUp` are the abstract `Return`, so that a call which
returned images before all regions answered, or an error that no answer accounts
for, would not implement it.

### 2.3 GarbageCollection

`ListShoots`, `BuildFilter` (or `BuildFilterFails`) and `FetchAndWrite` are the three
moments the outcome depends on; between them the registry and the Shoots change.
`untimed` and `skipped` are the tags whose time or manifest was not obtained.
Assumed: garbage collection and capabilities are enabled, the base declares no
version of this image itself, and an OCI tag has no `+`, so that no two tags
normalize to one version. A registry that yields no image is an error in the
source, and no write.

### 2.4 Source and OciSource

`Source` has four variables: the configuration of a call, whether it is under way,
the answers so far and what was returned. A call returns images only when the answers
are `Conclusive`, an error only when they excuse one.

`OciSource` lists the tags (`Call`), starts a goroutine for each, and receives from
every one, whether it found an image (`Collect`), an error (`Skip`) or the end of a
context (`Record`). The channel has no buffer, so that sending and receiving are one
step; the weight of the semaphore is given back after it. In contrast to Glance the
call waits for all answers also when it is to fail, and nothing is left behind
(`NoneLeft`). `Finish` filters, and fails if a context ended or every tag was skipped.
A manifest is the labels the code reads: architecture, clean version and features.
The capabilities are a function of the manifest only if `featureToCapabilityMap` maps no
two features to one capability and none to the architecture: the code fills a map in the
order of another (`oci/os_source.go:135`). `FeatureAssumption` says so.
The registry does not change during a behaviour; `GarbageCollection` and `Landscape`
have registries that do.

### 2.5 ImageUpdater and ImagePipeline

`ImageUpdater` has no state: `FetchedFrom` validates and sorts; `MachineImages` folds
`UpsertLegacy` and `UpsertClean` over the images; `ConfigureIroncore` and
`ConfigureOpenStack` do the same for `providerConfig`. Versions, regions and
identifiers are numbers in the order of the strings they stand for; capabilities are
sets of pairs. `Normal` is what `ParseTolerant` makes of a clean version ("1.0" of the
instance becomes "1.0.0"), `SemVers` what `semver.Parse` accepts.

`ImagePipeline` runs it. `PublishOci` takes what `OciSource` returned in any order;
`PublishGlance` takes any set of regions that answer, in any order, each with its
images in any order, through `DiscoverRegion` (`preferImage`) and `MergeRegions`, which
filters (`Everywhere`, if `RequireAllRegions`) and cuts the window of `VersionOffset` and
`KeepLatest`, with the defaults of `NewGlance`. `Precedence` is the order of
`compareSemverDesc`, apart from the order of the strings. What is published is compared
with what one fixed order gives, and with `Selected`, which counts newer versions.

The base of an update (`BaseAssumption`) may have entries of its own and, with ironcore,
refer to images the source lists, with their capabilities or others, so that the
deduplication of `ironcore/provider.go:74-79` has something to find. It has to agree with
itself: what its `machineImages` offers, its `providerConfig` resolves, and conversely;
with OpenStack it names a region once per entry, and has flavors only under versions the
source does not have.

### 2.6 Landscape

`stage` follows `prepareKubernetesUpdate`: the Gardener version of the Shoots, the
list of tags, the descriptors of the candidates from the highest tag down, the
descriptor once more for the supported versions and once more for the classified ones,
and the write. Between any two a tag is pushed, moved or removed, a Shoot is upgraded,
a version expires. A tag is its rank among the semantic versions; a Gardener version is
ten times its minor plus the patch. A descriptor and the blobs it refers to are one
read: a blob is named by its digest and does not move. The code reads the descriptor
of the chosen tag by name each time, which is why the reads are separate steps.
`faulted` and `touched` are history: whether a read of this update failed, and which
tags changed during it.

Two things are coarser than the code. `Publish` takes the cutoff of `Apply`
(`k8s_image_updater.go:52`) at the moment of the write, while the code takes it before
`CreateOrPatch` reads (`cloud_profile.go:72`); a version that passes its threshold in
between stays until the next reconciliation, as if it had expired after the write. And
`expired` is one set of versions, while in the code each descriptor gives a version its
own expiration date; that two descriptors disagree about a date is not modelled.

### 2.7 ProfileWriters

`cached[c]` is replica `c`'s copy of `spec.machineImages`, `prepared[c]` what it
fetched, `read[c]` what `CreateOrPatch` read. `Fetch` may take place at any of the
`Dates`, so that a fetch never agrees with an earlier one by necessity. `Write`
carries dates over (`Carried`) and replaces the whole list if it differs from the one
read, as a merge patch does: a change of one version puts the stale date of another
back. A spec or a CloudProfile may deprecate a version without a date (`Undated`): the
field is optional, and only a source always dates what it deprecates. `said` is history,
what the spec has said of a version so far, and `dated` the versions some replica has
prepared with a date. The CloudProfile exists and the MCP's cache is not separate here;
both are in `Reconciler`.

## 3. Runs

| Run | Shows | Bounds |
|---|---|---|
| `reconciler_safety` | `TypeOK`, `NeverForgotten`, `AllOrNothing`, `AppliedOrHealing`, `CoherentOrHealing`, `PauseHolds` | 2 updates, no Kubernetes source, 1 listing with 2 identifiers, 3 generations, 1 upset |
| `reconciler_pause` | the code lacks `PausedKeepsExisting` | 1 update, 3 generations, no upset |
| `reconciler_live` | `Converges` | 1 update, 2 Kubernetes listings, 2 generations, 1 upset |
| `reconciler_stale_status` | the code lacks `LatestObservation` | 1 update, 1 generation, 2 upsets |
| `glance` | `OrderIndependent`, `FailsForAReason`, `ImplementsSource`, `NeverBlocks`, `CallsReturn`, `NoneLeaks` | 2 regions, 4 versions, 3 listings, 5 configurations, 2 calls, semaphore of 1 |
| `glance_regions` | the code lacks `PresentEverywhere` | 1 call |
| `garbage` | `ListedSurvive`, `LeavesForAReason`, `InUseEventuallyListed`, `StaleEventuallyCollected` | 3 tags, 5 names, 3 changes, 1 fault |
| `garbage_in_use` | the code lacks `InUseNeverCollected` | 2 changes |
| `images` | `NoneLeft`, `ImplementsSource`, `CallsReturn`, `ArrivalIndependent`, `RegionsIndependent`, `VariantsListed`, `FlavorsResolve`, `OneShape`, `PreferredImage`, `RegionsServed` | 6 registries of at most 3 tags, 6 configurations, 3 regions of which one lists nothing, 7 images of 3 versions, semaphore of 1 |
| `landscape` | `PublishesEntailed`, `NeverWiped`, `Converges` | 3 tags, 5 descriptors, 2 Shoots, 2 changes, 1 fault |
| `landscape_tag` | the code lacks `HighestTag` | 2 tags of one Gardener version, 1 fault |
| `writers` | `SpecDateWins`, `UndatedAsSaid`, `DateKept`, `DatesSettle`, `Converges` | 2 replicas, 2 versions, 2 dates, 3 listings, 2 specs, 2 changes or failures |

Why the bounds are enough to be interesting:

* `MaxUpsets` counts everything that can go wrong or change outside the MCP:
  failing calls, restarts, source changes, foreign edits. The safety run has one, at
  any point, between reconciliations of two edits of the spec; two updates are needed
  for a reconciliation that has fetched one and not the other, and one is enough for
  convergence. Of the two hand-written parts one declares images, so a pause meets
  both cases.
* `MaxGen` bounds edits of the spec. Two generations already let a reconciliation of
  the old spec overlap the new one. The safety run has three: only then can a patch
  from a stale copy replace one of `machineImages` and `providerConfig` and leave the
  other, which `CoherentOrHealing` and `PauseHolds` are about. Two identifiers of one
  listing make the two differ; they are interchangeable, and a symmetry set of that
  run, which has no liveness property.
* The safety properties of these runs are proved for any values of the bounds
  (section 5); the runs show that the interesting cases happen.
* In `glance`, one listing is empty and the others overlap, the window is unset,
  partial, offset, past the end and unlimited, and the second call overlaps the
  goroutines the first left. A semaphore of 1 for 2 regions makes one wait.
* In `garbage`, two tags share a clean version, one of them is spelled `_` in the
  registry, one is no semantic version, and one has no clean version. Three changes
  push, remove, take up and release in any order; growing old is unbounded.

* In `images` the registries have variants of one clean version that is spelled in two
  ways, one without a semantic tag; a tag that is another image's clean version; an
  invalid clean version, missing labels, tags the filter drops, and no tags. The
  configurations cover both providers, capabilities declared fully, in part and not at
  all, and bases that have entries, or refer to images of the registry with their own
  capabilities and with others. The Glance regions have a rebuilt image of the same age,
  one that is not active though newer, a version of their own, a prerelease (whose string
  is above that of its release), and one lists nothing. One Glance configuration has the
  defaults, the other keeps one version after an offset of one and requires all regions.
* In `landscape` two patches of one Gardener minor and the next minor meet descriptors
  with more, other and no versions for the provider, and one without a reference to
  Gardener. Two changes suffice to move the chosen tag and to upgrade a Shoot within
  one update.
* In `writers` the source lists one version or both, deprecates either, and may drop
  either; the spec says nothing, or deprecates the older with a date and the newer
  without. Two dates make every fetch able to disagree with what is published, and two
  changes let the source drop a version it has dated.

Deadlock is checked in `images`, `landscape` and `writers`, where something can always
go on. It is not in the others: with the bounds used up, an MCP that is deleted, a
context that is cancelled or a quiet world really may stop.

The most important properties, in words:

* `AppliedOrHealing`: "Applied" for the current generation means that the base is
  in the CloudProfile, or that a reconciliation is running, due or about to be
  made due by an undelivered event. It says that stale reads are repaired at once
  and not five minutes later. It is stated for a reconciliation that itself ended
  well, because of the finding below.
* `CoherentOrHealing`: the same for the pairing of `machineImages` with
  `providerConfig`, which a merge patch from a stale copy can tear apart.
* `PauseHolds`: when a pause is acknowledged in the status, no step changes
  `machineImages` the CloudProfile has, nor its `providerConfig`, whatever copy it was
  computed from. One exception is in the property because the code has it: if an earlier
  patch from a stale copy left a `providerConfig` that is not that of the images, the
  reconciliation that notices may put the right one there. The statement without the
  exception fails only after long chains of stale reads, which no run with these bounds
  reaches; the attempt to prove it found them.
* `Converges`: eventually and for ever, the CloudProfile and the status agree with
  spec and sources, a foreign-owned CloudProfile is reported, and a deleted MCP
  leaves none, even when it was deleted in the middle of a reconciliation.
* `OrderIndependent` compares the result with one defined from the set of answers
  by counting newer versions, without sorting or an order of arrival.
* `ArrivalIndependent`: the same for everything behind the source, to the last list of
  `machineImages` and `providerConfig`. A violation would be a patch at every
  reconciliation. `RegionsIndependent` says it of Glance: of regions, and of the images
  of a region.
* `PreferredImage` and `RegionsServed`: what OpenStack is offered of a source is the
  newest active image of that region and version, of a version that is selected; and of
  every selected version each region that answered and lists it is offered.
* `VariantsListed` (with capabilities enabled) and `FlavorsResolve`: no variant of a
  clean version is lost in the merge, and what `machineImages` offers
  `providerConfig` can resolve, and conversely. Exempt is a variant to which the base
  refers with other capabilities (below).
* `PublishesEntailed`: however the world moves during an update, what it publishes is
  what the newest tag of its Gardener version entails, as long as no read failed and
  no tag from the chosen one up was touched.
* `DatesSettle`: two replicas with stale caches overwrite each other's dates for a
  while, and then stop, although every fetch brings another date.
* `DateKept`: once all of them have seen a date, no fetch and no edit moves it.
* `UndatedAsSaid`: nothing is published as deprecated without a date that the spec has
  not said to be so; a version that only the source deprecates always has one.
* `Converges` of `writers` says in both directions which versions have a date in the end:
  those that the source deprecates or the spec dates, and no other, but for the leftover
  date below.

### What the runs found

* `LatestObservation` is violated. A reconciliation fails and records it; the next
  one succeeds and records that; its own write of the CloudProfile raises an event
  that arrives before the status event of the MCP; the third one fails. It compares
  with the cached status, still the first failure, sees no difference, and sends
  nothing: the status reads Succeeded until the error is retried with a fresh copy.
* `PausedKeepsExisting` is violated. Whether the CloudProfile has images to keep is
  decided by the cached copy. The base had no images and the updates published some;
  the spec is edited to a base that declares images and pauses them, and is reconciled
  before the event of the last write has arrived: the copy shows no images, and the
  patch replaces the published ones by the base's. `PauseHolds` says what is left: it
  cannot happen once a success was recorded for the pause.
* `PresentEverywhere` is violated: a region that answered with no matching image is
  not part of the baseline of `RequireAllRegions`.
* `InUseNeverCollected` is violated: protection is as old as the listing of the
  Shoots. `InUseEventuallyListed` shows that the next reconciliation restores it.
* `HighestTag` is violated: a tag whose descriptor cannot be read is passed over, and a
  lower one of the same Gardener version is used, without a log line or an error.

Observed while modelling, and not contradicted by a text of the repository:

* A tag that equals another image's clean version, and is sorted after it, is written as
  a legacy entry over the architectures merged so far (`os_image_updater.go:219`);
  `VariantsListed` exempts it.
* The semaphore of `parallel` is made with the source, one for each reconciliation:
  a call that gave up leaves its queries running beside those of the next.
* With capabilities enabled and no `featureToCapabilityMap`, or none that
  `machineCapabilities` declares, an OCI image gets a clean version in `machineImages`
  and no entry for it in ironcore's `providerConfig` (`provider.go:67`);
  `FlavorsResolve` is about flavors.
* An OpenStack base entry that has flavors gets regions beside them when the image's
  capabilities are all filtered away: that branch (`provider.go:97`) does not clear
  `CapabilityFlavors`. `OneShape` is therefore about bases that list flavors only under
  versions the source does not have (`BaseAssumption`).
* A date that the spec gives a version after it was deprecated does not reach the
  CloudProfile: the stored one is carried over it (`cloud_profile.go:278`).
  `SpecDateWins` therefore speaks of every date the spec has given.
* A date that a fetch made up may outlive its reason. The spec deprecates a version
  without a date, Glance deprecates it too, and its date is published; then the source
  drops the version. What is prepared now has no date, and `carryExpirationDates` puts the
  published one back at every write (`cloud_profile.go:277-279`), for ever: neither the
  source nor the spec stands by it, and the version counts as expired. `Converges` names
  this case, and only for a version that was dated once; `DateKept` holds through it.
* If an ironcore base refers to an image under its clean version with other capabilities
  than the image has, `Configure` finds the reference and leaves it
  (`provider.go:74-79`), while `machineImages` gets a flavor with the image's: it
  cannot be resolved unless another reference has these capabilities.
* Two features that `featureToCapabilityMap` maps to one capability give it the value of
  whichever the iteration of a map writes last (`oci/os_source.go:135`), so that the
  flavors may change from one reconciliation to the next.
* If all Glance regions but one fail and that one lists nothing, the call returns an
  empty list, and the image loses its versions (`glance/os_source.go:219`).
* The minor of a Gardener version is compared as text (`landscape_source.go:244`), so
  that `v1.150` and `1.150` differ; `gardenerVersionFromShoots` ignores versions that do
  not parse.
* Glance versions that differ only in build metadata compare equal, and which of them
  the window keeps depends on the iteration of a map (`glance/os_source.go:360`).
  `PrecedenceAssumption` of `ImagePipeline` and the versions of `GlanceSource`, which are
  numbers, rule that out.

## 4. Fairness

* `Reconciler!FairSpec`: weak fairness of the reconciler's own fault-free steps
  taken together (a controller-runtime worker), of each watch, of the timers and of
  the API server's garbage collector. Nothing makes a user act or a call fail. A
  step that fails competes with one that succeeds, and the bound on upsets says that
  faults end.
* `GlanceSource!FairSpec`: goroutines are scheduled; a query ends, for its client
  has a timeout; the semaphore is granted; `GetVersions` receives. Ending the
  context is not assumed.
* `OciSource!SourceFairness`: goroutines are scheduled, the semaphore is granted, and the
  registry answers every request, if with an error. The last is an assumption: the
  client of this source has no timeout, and a registry that never answers holds
  `GetVersions` until the context ends. Nothing makes a call start or a context end.
* `Landscape!FairSpec`: reconciliations recur and take their fault-free steps. A read
  that fails competes with one that succeeds; faults and changes are bounded.
* `ProfileWriters!FairSpec`: every replica goes on reconciling and its watch delivers.
* `GarbageCollection!FairSpec`: reconciliations recur, which is what `RequeueAfter`
  and `Reconciler!NeverForgotten` give. Growing old is not assumed: the property says
  what holds if nothing more ages.

## 5. Proofs

All theorems are for arbitrary constants that satisfy the assumptions their modules
name, which TLC evaluates for each instance; nothing else is assumed. Those of
`Landscape` include `OrderAssumption`: tags and Gardener versions are ordered such that
a set of them that is not empty has a least element.

* `ReconcilerProofs`
  * `TypeCorrect`: `TypeOK` with the place of the loop (`Progress`: while images are
    fetched, `next` is an update) is inductive; alone it is not, since `FetchImages`
    indexes by `next`.
  * `NothingForgotten`: the queue entry is only taken by `Start`, which leaves the
    idle stage, or when the cache has no MCP; every return adds an entry.
  * `PublishedWhole`: `WholeInv` says that the live, cached and read CloudProfiles
    are whole, and that `got` is complete when the loop is left. The cached and read
    copies are needed because a merge patch takes each field from one of the three.
  * `AppliedMeansApplied` and `MixturesHeal`, from `HealInv`: a cached CloudProfile that
    is not the live one has missed an event (`CacheInv`); if that event concerns ours it
    makes the MCP due, so a copy read before it is either current, or of a CloudProfile
    that is not ours, or the damage it does is *noticed* (`FoundInv`); a generation has
    one spec and the cache is never ahead (`GenInv`); so what is recorded as a success
    matches the spec that was read, and later the cached one, or is noticed
    (`SuccessInv`). The argument does not need the status to be read back.
  * `AcknowledgedPauseHolds`: a copy without images makes the mutate closure reset
    them to the base's, and may be older than the images. `OrderInv` orders the
    generations along the status, the locals, the cache and the MCP, so that after an
    acknowledgement every reconciliation works with the paused spec. `PausedInv` says
    that a copy it may read then is *harmless*: if it shows no images, the reset was
    made already, or a merge patch against it sends nothing, separately for
    `machineImages` and for `providerConfig`. The two halves do not hold together: a
    patch may send the base's `providerConfig` and leave the images, which is the repair
    that `PauseHolds` allows. `ReadImagesInv` says that the cache shows, when
    `CreateOrPatch` writes, the images it showed when `CreateOrPatch` read, or the live
    ones; `AbsentInv` that a CloudProfile that is absent has none.
* `GlanceSourceProofs`
  * `GoroutinesProceed`: `ChannelInv` bounds what a channel holds by the number of
    goroutines that are done, by cardinality; a goroutine that is about to send is
    not among them, so there is room.
  * `FailsOnlyForAReason`: `GetVersions` counts failures, it does not remember which
    regions they came from. `AnswersInv` says that a region is in the channel at most
    once and sends nothing after that; then `skipped` is at most the number of regions
    whose failure was received (`SkippedInv`), and a count of `len(regions)` is all of
    them.
  * `ReturnsTheNewest`, `TypeCorrect` and `Refines`, from `CollectInv`: while a call
    collects, `imagesByVersion`, `allRegions` and the counters are functions of the set
    of answers received (`Merged`), whatever their order. That the sorted sequence
    exists and that its window is the versions with at most so many newer ones is
    induction over a finite set, done with a smallest counterexample under strict
    inclusion, which is well-founded on finite sets; it needs listings to be finite.
    `Refines` maps a step that sends to the abstract answer, one that returns to the
    abstract return, with the invariant for what is returned, and every other step to
    a stutter. Only the safety part of `Source` is refined; it states no other.
* `GarbageCollectionProofs`
  * `TypeCorrect`, from the invariant below.
  * `ReferencedSurvive` and `CollectedForAReason`: only a step that writes can make a
    version leave, and `Keep` and `Published` decide which. The invariant adds to the
    types that the CloudProfile lists semantic versions only: without it a listed
    version could be a tag that the write never publishes.

* `OciSourceProofs`
  * `TypeCorrect`: the type invariant holds the bookkeeping (`received` is the number of
    tags in the three lists, which are disjoint), and needs to know that a goroutine
    that has yet to send is in none of them.
  * `NoneLeftBehind`: the invariant ties each goroutine to the lists, so that
    `received = len(tags)` leaves none that has not sent.
  * `Refines`: the lists are the answers sorted by kind, so that `Finish` returns what
    the set of answers entails, or has an excuse.
* `ImagePipelineProofs`, with the lemmas of `ImageUpdaterProofs`. `PipelineInv` says
  that what is published is the base, or the outcome of what arrived in *some* order;
  the theorems say what follows for every order. They rest on what the assumptions of
  `OciSource` and `ImagePipeline` say: no two tags spell one version (a tag is in a
  registry once), no two images of a region have one identifier, no two features map to
  one capability (`FeatureAssumption`), no two Glance versions have one precedence
  (`PrecedenceAssumption`), and the base agrees with itself (`BaseAssumption`, 2.5).
  * `SourceWithin`: `PublishOci` and `PublishGlance` leave `OciSource` alone, so that its
    theorems hold in the pipeline too.
  * The loops of the code are folds. `LoopExists` gives the function that maps each
    round to the value after it (by a least round without one), and everything below is
    induction over rounds: the least round at which a claim fails does not exist.
  * `ArrivalDoesNotMatter`: `Fetch`'s comparison is a strict total order on the images,
    because they differ in their versions; a finite set has one sequence that follows
    such an order (`OneOrder`), so that sorting forgets the order of arrival.
  * `EveryVariantListed`: the entry that lists a variant is kept by every later round,
    but for one of an image whose tag is the clean version, which the property exempts.
  * `FlavorsAlwaysResolve`: `Apply` and `Configure` group variants by different rules and
    have different tables of known entries, so neither side has an invariant alone.
    `InStep` relates the two after the same number of rounds: what one offers the other
    resolves, or it is the flavor of an image that only `machineImages` groups, being its
    own clean version, or of one to which the base refers with other capabilities; and
    every flavor of `providerConfig` is the base's or refers to an image so far. So a
    reference that `Configure` finds in its way is the base's, since images differ in
    their versions.
  * `RegionsDoNotMatter`: `discoverRegion` finds the one best image of each version
    (`BestIn`), since `preferImage` tells any two apart; the regions of a version are
    appended in the order of the answers, and compared as sets (`RegionsGathered`).
    `Configure` sorts regions of distinct names, which have one order; `Apply` and
    ironcore do not read them (`AppliedAlike`, `ConfiguredAlike`).
  * The window: `Sorted` follows the precedence (`RankedByAge`), so that a place in the
    sequence is the number of newer versions, and the subsequence that is cut is what
    `Selected` counts (`WindowShows`, `ChosenVersions`, `SelectedAre`).
  * `OneShapeOnly`, `PreferredImageOnly` and `AnsweredRegionsServed`, from `Served`, an
    invariant of the rounds of OpenStack's `Configure`: every region comes from the base
    or from an image of that version, and those of every image so far are there. That a
    later round does not overwrite them needs that no two images have one version.
* `LandscapeProofs`
  * `UpdatePublishesEntailed`: the invariant (`Knowledge`) says at each stage what is
    known of the tags from the chosen one up, as long as none of them was touched and no
    read failed: all candidates passed over are of another Gardener version, and what
    was read is still what the registry says.
  * `NothingWiped`: a write needs a version that is left.
* `ProfileWritersProofs`
  * `TypeCorrect`: of the types alone. An entry has a classification, and a date or none.
  * `SpecGoesFirst` and `UndatedOnlyAsSaid`, from one invariant (`SpecDates`): every copy
    of the images, published, cached, read or prepared, has only dates the spec gave where
    it always gave one, and is undated only as the spec has said; the copies are needed
    because any of them may be written later, by any replica.
  * `DatesKept`: a write carries over the date it read, which is the published one.

Every safety property a run checks, invariant, action property or refinement, is
stated by a theorem. Only model-checked, because it is out of the prover's reach, is
everything under fairness: `Converges` of `Reconciler`, `Landscape` and
`ProfileWriters`, `CallsReturn`, `NoneLeaks`, `DatesSettle`, `InUseEventuallyListed` and
`StaleEventuallyCollected`. The lemmas say of a fold what its rounds preserve; what it
computes in closed form is not stated.

## 6. Not modelled, and the plan

Still to be written, in this order:

1. An abstract specification of a level-triggered controller, refined by `Reconciler`.
2. Of `Landscape` and `ProfileWriters`, the invariants that liveness rests on: what is
   true of a quiet world.

Not planned: the generated deep copies and scheme registration, the CRD manifests,
wire formats, TLS and authentication, the parsing of Glance image names, log lines and
the truncation of messages. A registry whose tags move during one `OCI.GetVersions` is
in `GarbageCollection` only, where a tag that is gone is a manifest not obtained.
