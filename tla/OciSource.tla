----------------------------- MODULE OciSource -----------------------------
(***************************************************************************)
(* OCI.GetVersions: the tags of a repository are listed, one goroutine per *)
(* tag fetches its manifest, at most Parallel of them at a time, and sends *)
(* what it found through a channel without a buffer; GetVersions receives  *)
(* from all of them, whatever some of them say, then filters.              *)
(*                                                                         *)
(* Versions and features are compared only; the order in which answers     *)
(* arrive matters to nobody here, and ImagePipeline considers every one.   *)
(***************************************************************************)
EXTENDS Integers, FiniteSets

CONSTANTS
    Tags,                \* the tags a repository may have
    Registries,          \* what a registry may hold: manifests by tag
    Spelled,             \* the version a tag spells, "_" read as "+"
    FeatureMap,          \* featureToCapabilityMap, as pairs; empty if unset
    Required,            \* imageFilter.RequiredFeatureSetValues; empty if unset
    InPlaceFeature,      \* usiImageFeature
    Parallel             \* the semaphore's size

None == 0                \* an annotation that is not there
Manifest == [arch: Nat, clean: Nat, features: SUBSET Nat]

\* featureToCapabilityMap is one-to-one and leaves out the architecture.  The code does
\* not ask for that; of two features for one capability the last in the order of Go's
\* map iteration decides, so that the image would not be a function of its manifest.
ASSUME FeatureAssumption ==
    /\ \A f, g \in FeatureMap : f[1] = g[1] \/ f[2] = g[2] => f = g
    /\ \A f \in FeatureMap : f[2] # 0

ASSUME OciAssumption ==
    /\ IsFiniteSet(Tags)
    /\ \A reg \in Registries : DOMAIN reg \subseteq Tags /\ reg \in [DOMAIN reg -> Manifest]
    /\ Spelled \in [Tags -> Nat \ {None}]
    /\ \A t, u \in Tags : Spelled[t] = Spelled[u] => t = u
    /\ FeatureMap \subseteq Nat \X Nat
    /\ Required \subseteq Nat /\ InPlaceFeature \in Nat
    /\ Parallel \in Nat \ {0}

VARIABLES
    registry,    \* the manifests of the repository
    cancelled,   \* the context has ended
    collecting,  \* GetVersions is receiving
    listed,      \* the tags that were listed
    worker,      \* worker[t]: the goroutine of tag t
    held,        \* held[t]: what it is about to send
    items,       \* the tags whose manifest was received
    skipped,     \* the tags whose error is passed over
    errs,        \* the tags whose error fails the call
    received,    \* how many answers were received
    returned,    \* what the last call returned
    answers      \* history: the answers of the last call, as they are sent

localVars == <<items, skipped, errs, received>>
ociVars == <<registry, cancelled, collecting, listed, worker, held, localVars, returned, answers>>

WorkerStates == {"none", "waiting", "fetching", "refused", "sending", "done"}
\* "ended" is an error that is context.Canceled or DeadlineExceeded.
Kinds == {"found", "failed", "ended"}
Answers == [tag: Tags, kind: Kinds]

Pending == [kind |-> "none", images |-> {}]
Failure == [kind |-> "error", images |-> {}]

\* The capabilities of an image; none unless both map and clean version are set.
ArchitectureCapability == 0
Capabilities(m) ==
    IF FeatureMap = {} \/ m.clean = None THEN {}
    ELSE {<<ArchitectureCapability, m.arch>>}
            \cup {<<f[2], IF f[1] \in m.features THEN 1 ELSE 0>> : f \in FeatureMap}

SourceImageOf(t, m) ==
    [version |-> Spelled[t], clean |-> m.clean, archs |-> <<m.arch>>,
     caps |-> Capabilities(m), regions |-> <<>>, inPlace |-> InPlaceFeature \in m.features]

\* passesImageFilter
Passes(m) == Required \subseteq m.features
ImagesOf(reg, ts) == {SourceImageOf(t, reg[t]) : t \in {u \in ts : Passes(reg[u])}}

-----------------------------------------------------------------------------
\* The listing, and a goroutine for each tag; or no listing, and an error.
Call ==
    /\ ~collecting
    /\ \/ /\ ~cancelled
          /\ listed' = DOMAIN registry
          /\ collecting' = TRUE
          /\ returned' = Pending
          /\ worker' = [t \in Tags |-> IF t \in listed' THEN "waiting" ELSE "none"]
       \/ /\ returned' = Failure
          /\ UNCHANGED <<collecting, listed, worker>>
    /\ answers' = {}
    /\ items' = {} /\ skipped' = {} /\ errs' = {} /\ received' = 0
    /\ UNCHANGED <<registry, cancelled, held>>

\* Mutant: the weight is not released.
FetchingUnreleased == {t \in Tags : worker[t] \in {"fetching", "sending", "done"}}
\* The weight is released after the answer is received.
Fetching == {t \in Tags : worker[t] \in {"fetching", "sending"}}

Acquire(t) ==
    /\ worker[t] = "waiting"
    /\ Cardinality(Fetching) < Parallel
    /\ worker' = [worker EXCEPT ![t] = "fetching"]
    /\ UNCHANGED <<registry, cancelled, collecting, listed, held, localVars, returned, answers>>

Refuse(t) ==
    /\ worker[t] = "waiting" /\ cancelled
    /\ worker' = [worker EXCEPT ![t] = "refused"]
    /\ held' = [held EXCEPT ![t] = "ended"]
    /\ UNCHANGED <<registry, cancelled, collecting, listed, localVars, returned, answers>>

\* A manifest without an architecture is an error like one not obtained; a
\* connection that times out is DeadlineExceeded, also when no context ended.
Fetch(t) ==
    /\ worker[t] = "fetching"
    /\ worker' = [worker EXCEPT ![t] = "sending"]
    /\ \E kind \in Kinds :
          /\ kind = "found" => registry[t].arch # None
          /\ held' = [held EXCEPT ![t] = kind]
    /\ UNCHANGED <<registry, cancelled, collecting, listed, localVars, returned, answers>>

-----------------------------------------------------------------------------
\* Sending and receiving are one step.
Deliver(t) ==
    /\ worker[t] \in {"refused", "sending"}
    /\ collecting /\ received < Cardinality(listed)
    /\ worker' = [worker EXCEPT ![t] = "done"]
    /\ received' = received + 1
    /\ answers' = answers \cup {[tag |-> t, kind |-> held[t]]}
    /\ held' = [held EXCEPT ![t] = "failed"]
    /\ UNCHANGED <<registry, cancelled, listed>>

\* Mutant: what comes with an error is collected all the same.
CollectAny(t) ==
    /\ Deliver(t) /\ held[t] # "ended"
    /\ items' = items \cup {t}
    /\ skipped' = IF held[t] = "failed" THEN skipped \cup {t} ELSE skipped
    /\ UNCHANGED <<collecting, errs, returned>>

Collect(t) ==
    /\ Deliver(t) /\ held[t] = "found"
    /\ items' = items \cup {t}
    /\ UNCHANGED <<collecting, skipped, errs, returned>>

\* Mutant: an error that ends a context is passed over like any other.
SkipAll(t) ==
    /\ Deliver(t) /\ held[t] \in {"failed", "ended"}
    /\ skipped' = skipped \cup {t}
    /\ UNCHANGED <<collecting, items, errs, returned>>

Skip(t) ==
    /\ Deliver(t) /\ held[t] = "failed"
    /\ skipped' = skipped \cup {t}
    /\ UNCHANGED <<collecting, items, errs, returned>>

\* Mutant: return at once, as Glance does.
RecordAndReturn(t) ==
    /\ Deliver(t) /\ held[t] = "ended"
    /\ collecting' = FALSE /\ returned' = Failure
    /\ UNCHANGED <<items, skipped, errs>>

Record(t) ==
    /\ Deliver(t) /\ held[t] = "ended"
    /\ errs' = errs \cup {t}
    /\ UNCHANGED <<collecting, items, skipped, returned>>

\* Images that come with an error are dropped by Fetch.
Finish ==
    LET images == ImagesOf(registry, items) IN
    /\ collecting /\ received = Cardinality(listed)
    /\ collecting' = FALSE
    /\ returned' = IF errs # {} \/ (images = {} /\ Cardinality(skipped) = Cardinality(listed))
                   THEN Failure
                   ELSE [kind |-> "images", images |-> images]
    /\ UNCHANGED <<registry, cancelled, listed, worker, held, localVars, answers>>

Cancel ==
    /\ ~cancelled
    /\ cancelled' = TRUE
    /\ UNCHANGED <<registry, collecting, listed, worker, held, localVars, returned, answers>>

-----------------------------------------------------------------------------
Init ==
    /\ registry \in Registries
    /\ cancelled = FALSE
    /\ collecting = FALSE
    /\ listed = {}
    /\ worker = [t \in Tags |-> "none"]
    /\ held = [t \in Tags |-> "failed"]
    /\ items = {} /\ skipped = {} /\ errs = {} /\ received = 0
    /\ returned = Pending
    /\ answers = {}

Goroutine(t) ==
    Acquire(t) \/ Refuse(t) \/ Fetch(t) \/ Collect(t) \/ Skip(t) \/ Record(t)

SourceNext == Call \/ (\E t \in Tags : Goroutine(t)) \/ Finish \/ Cancel

Spec == Init /\ [][SourceNext]_ociVars

\* Goroutines are scheduled, the semaphore is granted, and the registry answers
\* every request, if with an error: unlike Glance's, this client has no timeout.
SourceFairness ==
    /\ \A t \in Tags :
          /\ WF_ociVars(Acquire(t)) /\ WF_ociVars(Fetch(t))
          /\ WF_ociVars(Collect(t)) /\ WF_ociVars(Skip(t)) /\ WF_ociVars(Record(t))
    /\ WF_ociVars(Finish)

-----------------------------------------------------------------------------
\* With the bookkeeping of GetVersions: every answer is counted once.
TypeOK ==
    /\ registry \in Registries
    /\ cancelled \in BOOLEAN /\ collecting \in BOOLEAN
    /\ listed \subseteq DOMAIN registry
    /\ worker \in [Tags -> WorkerStates]
    /\ held \in [Tags -> Kinds]
    /\ items \cup skipped \cup errs \subseteq listed
    /\ items \cap (skipped \cup errs) = {} /\ skipped \cap errs = {}
    /\ received = Cardinality(items \cup skipped \cup errs)
    /\ returned \in [kind: {"none", "error", "images"},
                     images: {ImagesOf(registry, ts) : ts \in SUBSET DOMAIN registry}]
    /\ answers \subseteq Answers

\* What a call asks, and what its answers entail, without an order.
Of(as, kind) == {a.tag : a \in {b \in as : b.kind = kind}}
Entailed(c, as) == ImagesOf(c.registry, Of(as, "found"))
Excused(c, as) == Of(as, "ended") # {} \/ Of(as, "failed") = c.listed
Conclusive(c, as) == {a.tag : a \in as} = c.listed /\ ~Excused(c, as)

\* To its caller the registry is a source like any other: an update is made of
\* the manifests of all the tags that have one, and fails only when a context
\* ended or no tag could be read.
Abstract == INSTANCE Source WITH
    config <- [registry |-> registry, listed |-> listed],
    Images <- Entailed
ImplementsSource == Abstract!Spec

\* GetVersions leaves no goroutine behind: with a channel that has no buffer, one
\* that is left could never send.
NoneLeft == ~collecting => \A t \in Tags : worker[t] \in {"none", "done"}

\* If the registry answers, every call returns.
CallsReturn == collecting ~> ~collecting
=============================================================================
