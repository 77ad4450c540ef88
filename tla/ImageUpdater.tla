---------------------------- MODULE ImageUpdater ----------------------------
(***************************************************************************)
(* ImageUpdater.Fetch and Apply and the two providers' Configure, as       *)
(* functions of the images a source returned: what is published in         *)
(* machineImages and in providerConfig for one image name.                 *)
(*                                                                         *)
(* Versions, regions and identifiers are numbers, ordered as the strings   *)
(* they stand for.  Capabilities are a set of pairs, {} where the code has *)
(* nil.  Classification and expiration date are left to ProfileWriters.    *)
(***************************************************************************)
EXTENDS Integers, FiniteSets, SequencesExt

CONSTANTS
    SemVers,             \* the versions semver.Parse accepts
    Normal,              \* Normal[v]: what ParseTolerant makes of v; 0 if it is invalid
    EnableCapabilities

ASSUME UpdaterAssumption ==
    /\ SemVers \subseteq Nat
    /\ Normal \in [DOMAIN Normal -> SemVers \cup {0}]
    /\ EnableCapabilities \in BOOLEAN

Unset == 0

Caps == SUBSET (Nat \X Nat)
Region == [name: Nat, id: Nat]
\* A version of spec.machineImages, and of an image in either provider's config.
VersionEntry == [version: Nat, archs: Seq(Nat), flavors: Seq(Caps), inPlace: BOOLEAN]
IroncoreEntry == [version: Nat, ref: Nat, arch: Nat, flavors: Seq([ref: Nat, caps: Caps])]
OpenStackEntry == [version: Nat, regions: Seq(Region),
                   flavors: Seq([caps: Caps, regions: Seq(Region)])]

\* The orders in which the members of S may come.
Orders(S) == {f \in [1..Cardinality(S) -> S] : \A i, j \in DOMAIN f : f[i] = f[j] => i = j}
AnyOrder(S) == SetToSeq(S)

\* The members of S in the order of Less; where that leaves a choice, any.
Sorted(S, Less(_, _)) ==
    CHOOSE p \in [1..Cardinality(S) -> S] :
        \A i, j \in DOMAIN p : i < j => p[i] # p[j] /\ ~Less(p[j], p[i])

\* What a loop over ss makes of base.
Loop(Round(_, _), base, ss) ==
    LET after[n \in 0..Len(ss)] == IF n = 0 THEN base ELSE Round(after[n - 1], ss[n])
    IN  after[Len(ss)]

-----------------------------------------------------------------------------
(***************************************************************************)
(* Fetch: validate, then sort.                                             *)
(***************************************************************************)
Effective(s) == IF s.clean # Unset THEN s.clean ELSE s.version

WithNormalClean(s) ==
    IF s.clean = Unset THEN s ELSE [s EXCEPT !.clean = Normal[s.clean]]
Valid(s) == s.archs # <<>> /\ (s.version \in SemVers \/ s.clean # Unset)

\* Mutant: images of one version stay in the order in which they arrived.
BeforeByEffective(a, b) == Effective(a) < Effective(b)
Before(a, b) ==
    \/ Effective(a) < Effective(b)
    \/ Effective(a) = Effective(b) /\ a.version < b.version

\* The valid images in the order of Before; where that leaves a choice between
\* images, the order in which they arrived may decide.
FetchedFrom(ss) ==
    LET image(i) == WithNormalClean(ss[i])
        order == Sorted({i \in DOMAIN ss : Valid(image(i))},
                        LAMBDA i, j : Before(image(i), image(j)))
    IN  [i \in DOMAIN order |-> image(order[i])]

-----------------------------------------------------------------------------
(***************************************************************************)
(* Apply: every image under its tag, and, with capabilities, all variants  *)
(* of a clean version under that version.                                  *)
(***************************************************************************)
\* filterCapabilities, for what spec.machineCapabilities allows.
Allowed(s, allowed) == [s EXCEPT !.caps = s.caps \cap allowed]

\* existingVersions: the last entry of a version, 0 if there is none.
IndexOf(entries, v) ==
    LET at == {i \in DOMAIN entries : entries[i].version = v} IN
    IF at = {} THEN 0 ELSE CHOOSE i \in at : \A j \in at : j <= i

Merged(xs, x) == IF Contains(xs, x) THEN xs ELSE Append(xs, x)
MergedAll(xs, ys) == Loop(Merged, xs, ys)
\* mergeCapabilityFlavor
MergeFlavor(flavors, caps) == IF caps = {} THEN flavors ELSE Merged(flavors, caps)

UpsertLegacy(entries, s) ==
    LET i == IndexOf(entries, s.version) IN
    IF i # 0
    THEN [entries EXCEPT ![i].archs = s.archs, ![i].inPlace = s.inPlace]
    ELSE IF s.version \notin SemVers THEN entries
    ELSE Append(entries, [version |-> s.version, archs |-> s.archs,
                          flavors |-> <<>>, inPlace |-> s.inPlace])

\* Mutant: the architectures of the last variant only.
UpsertCleanLast(entries, s) ==
    LET i == IndexOf(entries, s.clean) IN
    IF i # 0
    THEN [entries EXCEPT ![i].archs = s.archs, ![i].inPlace = s.inPlace,
                         ![i].flavors = MergeFlavor(@, s.caps)]
    ELSE Append(entries, [version |-> s.clean, archs |-> s.archs,
                          flavors |-> MergeFlavor(<<>>, s.caps), inPlace |-> s.inPlace])
UpsertClean(entries, s) ==
    LET i == IndexOf(entries, s.clean) IN
    IF i # 0
    THEN [entries EXCEPT ![i].archs = MergedAll(@, s.archs),
                         ![i].inPlace = s.inPlace,
                         ![i].flavors = MergeFlavor(@, s.caps)]
    ELSE Append(entries, [version |-> s.clean, archs |-> s.archs,
                          flavors |-> MergeFlavor(<<>>, s.caps), inPlace |-> s.inPlace])

Upsert(entries, s) ==
    LET legacy == UpsertLegacy(entries, s) IN
    IF EnableCapabilities /\ s.clean # Unset THEN UpsertClean(legacy, s) ELSE legacy

\* Apply, without the provider.
MachineImages(base, ss) == Loop(Upsert, base, ss)

-----------------------------------------------------------------------------
(***************************************************************************)
(* ironcore Configure.  An entry is flat (a reference and an architecture) *)
(* or has flavors; the reference of a tag is the tag.                      *)
(***************************************************************************)
AddFlat(entries, s) ==
    LET add(es, arch) ==
            IF \E e \in ToSet(es) : e.ref = s.version /\ e.arch = arch THEN es
            ELSE Append(es, [version |-> s.version, ref |-> s.version,
                             arch |-> arch, flavors |-> <<>>])
    IN  Loop(add, entries, s.archs)

\* known: where the versions are that were there at first or got flavors since.
AddFlavorUnder(entries, known, s) ==
    LET i == known[s.clean]
        has == \E k \in DOMAIN entries[i].flavors : entries[i].flavors[k].ref = s.version
    IN  IF has THEN entries
        ELSE [entries EXCEPT ![i].flavors = Append(@, [ref |-> s.version, caps |-> s.caps])]

\* Mutant: an image is grouped under its clean version only if it is the first.
GroupOnce(cfg, s) ==
    IF s.clean \in DOMAIN cfg.known THEN cfg
    ELSE [entries |-> Append(cfg.entries,
                             [version |-> s.clean, ref |-> Unset, arch |-> Unset,
                              flavors |-> <<[ref |-> s.version, caps |-> s.caps]>>]),
          known |-> cfg.known @@ (s.clean :> Len(cfg.entries) + 1)]
Group(cfg, s) ==
    IF s.clean \in DOMAIN cfg.known
    THEN [cfg EXCEPT !.entries = AddFlavorUnder(@, cfg.known, s)]
    ELSE [entries |-> Append(cfg.entries,
                             [version |-> s.clean, ref |-> Unset, arch |-> Unset,
                              flavors |-> <<[ref |-> s.version, caps |-> s.caps]>>]),
          known |-> [v \in DOMAIN cfg.known \cup {s.clean} |->
                        IF v = s.clean THEN Len(cfg.entries) + 1 ELSE cfg.known[v]]]

OfferImage(cfg, s) ==
    LET flat == [cfg EXCEPT !.entries = AddFlat(@, s)] IN
    IF EnableCapabilities /\ s.caps # {} /\ s.clean # Unset /\ s.clean # s.version
    THEN Group(flat, s) ELSE flat

ConfigureIroncore(base, ss) ==
    LET known == [v \in {base[i].version : i \in DOMAIN base} |-> IndexOf(base, v)]
    IN  Loop(OfferImage, [entries |-> base, known |-> known], ss).entries

\* What machineImages offers under a version, and what ironcore resolves under one.
HasFlavor(es, v, caps) == \E i \in DOMAIN es : es[i].version = v /\ caps \in ToSet(es[i].flavors)
FlavorUnder(es, v, f) == \E i \in DOMAIN es : es[i].version = v /\ f \in ToSet(es[i].flavors)
Resolves(es, v, caps) ==
    \E i \in DOMAIN es : es[i].version = v /\ \E f \in ToSet(es[i].flavors) : f.caps = caps
\* There is a flavor of the image ref under v, but of other capabilities.
RefersOtherwise(es, v, ref, caps) ==
    \E i \in DOMAIN es :
        es[i].version = v /\ \E f \in ToSet(es[i].flavors) : f.ref = ref /\ f.caps # caps

-----------------------------------------------------------------------------
(***************************************************************************)
(* OpenStack Configure.  An entry has regions or flavors with regions.     *)
(***************************************************************************)
\* Mutant: a region that is there keeps its identifier.
UpsertRegionOnce(regions, r) ==
    IF \E q \in ToSet(regions) : q.name = r.name THEN regions ELSE Append(regions, r)
UpsertRegion(regions, r) ==
    LET i == SelectInSeq(regions, LAMBDA q : q.name = r.name) IN
    IF i # 0 THEN [regions EXCEPT ![i].id = r.id] ELSE Append(regions, r)

MergedRegions(regions, rs) == Loop(UpsertRegion, regions, rs)

RegionBefore(a, b) == a.name < b.name \/ (a.name = b.name /\ a.id < b.id)
SortRegions(regions) ==
    LET order == Sorted(DOMAIN regions, LAMBDA i, j : RegionBefore(regions[i], regions[j]))
    IN  [i \in DOMAIN order |-> regions[order[i]]]

\* Mutant: the regions stay in the order in which they were merged.
RegionsUnsorted(regions, rs) == MergedRegions(regions, rs)
SortedRegions(regions, rs) == SortRegions(MergedRegions(regions, rs))

FlavorsWith(flavors, s) ==
    LET i == SelectInSeq(flavors, LAMBDA f : f.caps = s.caps) IN
    IF i # 0 THEN [flavors EXCEPT ![i].regions = SortedRegions(@, s.regions)]
    ELSE Append(flavors, [caps |-> s.caps, regions |-> SortedRegions(<<>>, s.regions)])

\* Mutant: regions stay on an entry that has flavors.
FlavorsBeside(entry, s) == [entry EXCEPT !.flavors = FlavorsWith(@, s)]
Flavors(entry, s) ==
    [version |-> entry.version, regions |-> <<>>, flavors |-> FlavorsWith(entry.flavors, s)]

OfferRegions(entries, s) ==
    LET known == IndexOf(entries, s.version)
        all == IF known # 0 THEN entries
               ELSE Append(entries, [version |-> s.version, regions |-> <<>>, flavors |-> <<>>])
        i == IF known # 0 THEN known ELSE Len(all)
    IN  IF EnableCapabilities /\ s.caps # {}
        THEN [all EXCEPT ![i] = Flavors(@, s)]
        ELSE [all EXCEPT ![i].regions = SortedRegions(@, s.regions)]

ConfigureOpenStack(base, ss) == Loop(OfferRegions, base, ss)

\* The regions an entry has, with flavors or without.
RegionsIn(e) == ToSet(e.regions) \cup UNION {ToSet(f.regions) : f \in ToSet(e.flavors)}
\* No region has two identifiers.
OneEach(regions) == \A i, j \in DOMAIN regions : regions[i].name = regions[j].name => i = j
=============================================================================
