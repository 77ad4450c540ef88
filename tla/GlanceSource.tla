---------------------------- MODULE GlanceSource ----------------------------
(***************************************************************************)
(* Glance.GetVersions: one goroutine per region lists the images of that   *)
(* region, at most Parallel of them at a time, and sends what it found     *)
(* through a buffered channel; GetVersions merges the answers in the order *)
(* they arrive and keeps a window of the newest versions.                  *)
(*                                                                         *)
(* A timeout makes GetVersions return at once, leaving goroutines behind,  *)
(* and the reconciler calls it again, on a source of its own.  A version   *)
(* is a number, the newer the greater; parsing image names is left out.    *)
(***************************************************************************)
EXTENDS Integers, FiniteSets, SequencesExt

CONSTANTS
    Regions,             \* params.Regions
    Versions,            \* the versions images may have
    Listings,            \* the sets of versions a region may list
    Parallel,            \* the semaphore's size
    Params,              \* how sources may be configured
    MaxCalls             \* bound: calls of GetVersions

ASSUME ConstantsAssumption ==
    /\ IsFiniteSet(Regions) /\ Regions # {}
    /\ Versions \subseteq Nat
    /\ Listings \subseteq SUBSET Versions
    /\ \A vs \in Listings : IsFiniteSet(vs)
    /\ Parallel \in Nat \ {0}
    /\ Params \subseteq [keepLatest: Int, versionOffset: Int, requireAllRegions: BOOLEAN]
    /\ MaxCalls \in Nat

Calls == 1..MaxCalls
Count == Cardinality(Regions)

\* How many answers the channel of a call holds.  Mutant: as many as query.
CapacityParallel == Parallel
Capacity == Count

\* What a goroutine sends: what it found, or an error of one of two kinds.
\* "ended" is an error that is context.Canceled or context.DeadlineExceeded.
Kinds == {"found", "failed", "ended"}
Answers == [region: Regions, kind: Kinds, versions: Listings \cup {{}}]
Found(r, vs) == [region |-> r, kind |-> "found", versions |-> vs]
\* Mutant: an error comes with images, though its region listed none of them.
ErrorWithImages(r, kind) == [region |-> r, kind |-> kind, versions |-> Versions]
Error(r, kind) == [region |-> r, kind |-> kind, versions |-> {}]

VARIABLES
    params,      \* how the source is configured
    cancelled,   \* the context of the reconciler has ended: it is shutting down
    call,        \* the last call of GetVersions
    collecting,  \* it is receiving answers
    worker,      \* worker[c][r]: the goroutine of region r of call c
    held,        \* held[c][r]: the answer it is about to send
    channel,     \* channel[c]: what was sent and not received
    listed,      \* imagesByVersion: the regions of each version
    spoke,       \* allRegions
    skipped,     \* how many regions failed
    received,    \* how many answers were received
    returned,    \* what the last call returned
    answers      \* history: the answers of the last call, as they are sent

collectVars == <<listed, spoke, skipped, received>>
workerVars == <<worker, held, channel, answers>>
vars == <<params, cancelled, call, collecting, workerVars, collectVars, returned>>

\* A goroutine that was refused sends an error without holding the semaphore.
WorkerStates == {"none", "waiting", "querying", "refused", "sending", "done"}
NoAnswer == [region |-> CHOOSE r \in Regions : TRUE, kind |-> "failed", versions |-> {}]

\* NewGlance's defaults.
KeepLatest(p) == IF p.keepLatest = 0 THEN 3 ELSE p.keepLatest
Offset(p) == IF p.versionOffset <= 0 THEN 0 ELSE p.versionOffset

(***************************************************************************)
(* The window: newest first, without the first Offset, at most KeepLatest. *)
(***************************************************************************)
Nothing == [v \in Versions |-> {}]
Classes == {"supported", "deprecated"}
Image == [version: Versions, regions: SUBSET Regions, class: Classes]

Pending == [kind |-> "none", images |-> <<>>]
Failure == [kind |-> "error", images |-> <<>>]

NewestFirst(vs) ==
    LET places == 1..Cardinality(vs) IN
    CHOOSE s \in [places -> vs] : \A i, j \in places : i < j => s[i] > s[j]

Smaller(a, b) == IF a < b THEN a ELSE b
\* Mutant: the upper bound ignores the offset.
WindowFromStart(s) ==
    SubSeq(s, Smaller(Offset(params), Len(s)) + 1,
           IF KeepLatest(params) > 0 THEN Smaller(KeepLatest(params), Len(s)) ELSE Len(s))
Window(s) ==
    LET lo == Smaller(Offset(params), Len(s)) IN
    SubSeq(s, lo + 1,
           IF KeepLatest(params) > 0 THEN Smaller(lo + KeepLatest(params), Len(s)) ELSE Len(s))

\* filterRequireRegions
Everywhere(vs) == {v \in vs : spoke \subseteq listed[v]}
Candidates ==
    LET all == {v \in Versions : listed[v] # {}} IN
    IF params.requireAllRegions THEN Everywhere(all) ELSE all

Classified(s) ==
    [i \in 1..Len(s) |->
        [version |-> s[i], regions |-> listed[s[i]],
         class |-> IF i = Len(s) THEN "deprecated" ELSE "supported"]]

-----------------------------------------------------------------------------
\* The reconciler calls GetVersions; the goroutines are started at once.
Call ==
    /\ ~collecting /\ call < MaxCalls /\ ~cancelled
    /\ call' = call + 1
    /\ collecting' = TRUE
    /\ worker' = [worker EXCEPT ![call + 1] = [r \in Regions |-> "waiting"]]
    /\ answers' = {}
    /\ returned' = Pending
    /\ UNCHANGED <<params, cancelled, held, channel, collectVars>>

\* Mutant: the weight is not released.
QueryingUnreleased(c) ==
    {r \in Regions : worker[c][r] \in {"querying", "sending", "done"}}
Querying(c) == {r \in Regions : worker[c][r] \in {"querying", "sending"}}

\* sema.Acquire; the weight is released after the answer is sent.
Acquire(c, r) ==
    /\ worker[c][r] = "waiting"
    /\ Cardinality(Querying(c)) < Parallel
    /\ worker' = [worker EXCEPT ![c][r] = "querying"]
    /\ UNCHANGED <<params, cancelled, call, collecting, held, channel, answers, collectVars, returned>>

\* The context ends while the goroutine waits, or before.
Refuse(c, r) ==
    /\ worker[c][r] = "waiting" /\ cancelled
    /\ worker' = [worker EXCEPT ![c][r] = "refused"]
    /\ held' = [held EXCEPT ![c][r] = Error(r, "ended")]
    /\ UNCHANGED <<params, cancelled, call, collecting, channel, answers, collectVars, returned>>

\* discoverRegion returns: the images of the region, or an error, which a
\* request that outlasts the client's timeout makes "ended".
Discover(c, r) ==
    /\ worker[c][r] = "querying"
    /\ worker' = [worker EXCEPT ![c][r] = "sending"]
    /\ \/ \E vs \in Listings : held' = [held EXCEPT ![c][r] = Found(r, vs)]
       \/ \E kind \in {"failed", "ended"} :
             held' = [held EXCEPT ![c][r] = Error(r, kind)]
    /\ UNCHANGED <<params, cancelled, call, collecting, channel, answers, collectVars, returned>>

Send(c, r) ==
    /\ worker[c][r] \in {"refused", "sending"}
    /\ Len(channel[c]) < Capacity
    /\ worker' = [worker EXCEPT ![c][r] = "done"]
    /\ held' = [held EXCEPT ![c][r] = NoAnswer]
    /\ channel' = [channel EXCEPT ![c] = Append(@, held[c][r])]
    /\ answers' = IF c = call THEN answers \cup {held[c][r]} ELSE answers
    /\ UNCHANGED <<params, cancelled, call, collecting, collectVars, returned>>

-----------------------------------------------------------------------------
ClearLocals == listed' = Nothing /\ spoke' = {} /\ skipped' = 0 /\ received' = 0

Return(result) ==
    /\ collecting' = FALSE
    /\ returned' = result
    /\ ClearLocals

NextAnswer == Head(channel[call])
CanReceive == collecting /\ received < Count /\ channel[call] # <<>>
Receive ==
    /\ CanReceive
    /\ channel' = [channel EXCEPT ![call] = Tail(@)]
    /\ UNCHANGED <<params, cancelled, call, worker, held, answers>>

\* Mutant: a version already seen keeps the regions of its first answer.
MergeFirstOnly ==
    /\ Receive
    /\ NextAnswer.kind = "found"
    /\ listed' = [v \in Versions |->
                    IF v \in NextAnswer.versions /\ listed[v] = {}
                    THEN {NextAnswer.region} ELSE listed[v]]
    /\ spoke' = IF NextAnswer.versions = {} THEN spoke ELSE spoke \cup {NextAnswer.region}
    /\ received' = received + 1
    /\ UNCHANGED <<collecting, skipped, returned>>

Merge ==
    /\ Receive
    /\ NextAnswer.kind = "found"
    /\ listed' = [v \in Versions |->
                    IF v \in NextAnswer.versions
                    THEN listed[v] \cup {NextAnswer.region} ELSE listed[v]]
    /\ spoke' = IF NextAnswer.versions = {} THEN spoke ELSE spoke \cup {NextAnswer.region}
    /\ received' = received + 1
    /\ UNCHANGED <<collecting, skipped, returned>>

\* Mutant: an error is not one of the answers waited for.
SkipUncounted ==
    /\ Receive
    /\ NextAnswer.kind = "failed"
    /\ skipped' = skipped + 1
    /\ UNCHANGED <<collecting, listed, spoke, received, returned>>

Skip ==
    /\ Receive
    /\ NextAnswer.kind = "failed"
    /\ skipped' = skipped + 1
    /\ received' = received + 1
    /\ UNCHANGED <<collecting, listed, spoke, returned>>

\* Mutant: any region that fails fails the call.
GiveUpOnAny ==
    /\ Receive
    /\ NextAnswer.kind \in {"failed", "ended"}
    /\ Return(Failure)

\* An ended context or a timed-out request: return without the others.
GiveUp ==
    /\ Receive
    /\ NextAnswer.kind = "ended"
    /\ Return(Failure)

\* Mutant: one answer short.
FinishEarly ==
    /\ collecting /\ received = Count - 1
    /\ Return([kind |-> "images",
               images |-> Classified(Window(NewestFirst(Candidates)))])
    /\ UNCHANGED <<params, cancelled, call, workerVars>>

Finish ==
    /\ collecting /\ received = Count
    /\ IF Nothing = listed /\ skipped = Count
       THEN Return(Failure)
       ELSE Return([kind |-> "images",
                    images |-> Classified(Window(NewestFirst(Candidates)))])
    /\ UNCHANGED <<params, cancelled, call, workerVars>>

Cancel ==
    /\ ~cancelled
    /\ cancelled' = TRUE
    /\ UNCHANGED <<params, call, collecting, workerVars, collectVars, returned>>

-----------------------------------------------------------------------------
Init ==
    /\ params \in Params
    /\ cancelled = FALSE
    /\ call = 0
    /\ collecting = FALSE
    /\ worker = [c \in Calls |-> [r \in Regions |-> "none"]]
    /\ held = [c \in Calls |-> [r \in Regions |-> NoAnswer]]
    /\ channel = [c \in Calls |-> <<>>]
    /\ listed = Nothing /\ spoke = {} /\ skipped = 0 /\ received = 0
    /\ returned = Pending
    /\ answers = {}

Goroutine(c, r) == Acquire(c, r) \/ Refuse(c, r) \/ Discover(c, r) \/ Send(c, r)
Collect == Merge \/ Skip \/ GiveUp \/ Finish

Next ==
    \/ Call
    \/ \E c \in Calls, r \in Regions : Goroutine(c, r)
    \/ Collect
    \/ Cancel

Spec == Init /\ [][Next]_vars

\* Goroutines and GetVersions are scheduled, and a request ends, for its client
\* has a timeout.
FairSpec ==
    /\ Spec
    /\ \A c \in Calls, r \in Regions :
          /\ WF_vars(Acquire(c, r))
          /\ WF_vars(Discover(c, r)) /\ WF_vars(Send(c, r))
    /\ WF_vars(Collect)

-----------------------------------------------------------------------------
(***************************************************************************)
(* Properties.                                                             *)
(***************************************************************************)
TypeOK ==
    /\ params \in Params
    /\ cancelled \in BOOLEAN
    /\ call \in 0..MaxCalls
    /\ collecting \in BOOLEAN
    /\ worker \in [Calls -> [Regions -> WorkerStates]]
    /\ held \in [Calls -> [Regions -> Answers]]
    /\ channel \in [Calls -> Seq(Answers)]
    /\ listed \in [Versions -> SUBSET Regions]
    /\ spoke \subseteq Regions
    /\ skipped \in 0..Count /\ received \in 0..Count
    /\ returned \in [kind: {"none", "error", "images"}, images: Seq(Image)]
    /\ answers \subseteq Answers

\* What the answers of a call should become, said without an order of arrival.
Offering(as, v) == {a.region : a \in {b \in as : v \in b.versions}}
Speaking(as) == {a.region : a \in {b \in as : b.versions # {}}}
Qualified(p, as) ==
    {v \in Versions : /\ Offering(as, v) # {}
                      /\ p.requireAllRegions => Offering(as, v) = Speaking(as)}
Kept(p, as) ==
    {v \in Qualified(p, as) :
        LET newer == Cardinality({w \in Qualified(p, as) : w > v}) IN
        /\ newer >= Offset(p)
        /\ KeepLatest(p) > 0 => newer < Offset(p) + KeepLatest(p)}
Expected(p, as) ==
    {[version |-> v, regions |-> Offering(as, v),
      class |-> IF \E w \in Kept(p, as) : w < v THEN "supported" ELSE "deprecated"] :
        v \in Kept(p, as)}

\* A context ended or a request timed out, or every region failed.
Excused(p, as) ==
    \/ \E a \in as : a.kind = "ended"
    \/ {a.region : a \in {b \in as : b.kind = "failed"}} = Regions
Conclusive(p, as) == {a.region : a \in as} = Regions /\ ~Excused(p, as)

Returned == ~collecting /\ call > 0

\* Whatever the order in which the regions answer, GetVersions returns the same
\* images: those the answers entail, each with every region that has it, the
\* oldest of them deprecated and no other.
OrderIndependent ==
    Returned /\ returned.kind = "images" =>
        /\ ToSet(returned.images) = Expected(params, answers)
        /\ Len(returned.images) = Cardinality(Expected(params, answers))

\* GetVersions fails only when a context ended or every region failed: one
\* region that is down costs its images, not the update.
FailsForAReason ==
    Returned /\ returned.kind = "error" => Excused(params, answers)

\* To its caller Glance is a source like any other: only a complete set of
\* answers becomes images, an answer that comes after an error changes nothing,
\* and no call returns twice.
Abstract == INSTANCE Source WITH
    config <- params,
    returned <- [kind |-> returned.kind, images |-> ToSet(returned.images)],
    Images <- Expected
ImplementsSource == Abstract!Spec

\* A goroutine with an answer is never held up by a channel nobody receives
\* from any more.
NeverBlocks ==
    \A c \in Calls, r \in Regions :
        worker[c][r] \in {"refused", "sending"} => Len(channel[c]) < Capacity

\* Every call returns.
CallsReturn == collecting ~> ~collecting

\* Every goroutine ends, also those of a call that returned without them.
NoneLeaks ==
    \A c \in Calls, r \in Regions : worker[c][r] = "waiting" ~> worker[c][r] = "done"

\* RequireAllRegions "keeps only versions that are present in every region that
\* was successfully queried".  The code takes the regions that listed something.
PresentEverywhere ==
    Returned /\ returned.kind = "images" /\ params.requireAllRegions =>
        \A i \in DOMAIN returned.images :
            {a.region : a \in {b \in answers : b.kind = "found"}}
                \subseteq returned.images[i].regions
=============================================================================
