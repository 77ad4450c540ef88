--------------------------- MODULE ImagePipeline ---------------------------
(***************************************************************************)
(* From a source to the CloudProfile, for one machine image update: what   *)
(* OciSource returned, or what the regions of a Glance source listed, in   *)
(* whatever order it came, goes through Fetch, Apply and Configure.        *)
(*                                                                         *)
(* Of Glance this has what GlanceSource leaves out: the choice of an image *)
(* of each version in a region, and the identifiers of the regions.        *)
(***************************************************************************)
EXTENDS OciSource, ImageUpdater

CONSTANTS
    Plans,               \* how an update may be configured, and the base it starts from
    Listings,            \* what Glance may list: sets of images by region
    Precedence           \* of the versions it may list, as semantic versions

\* How Glance selects versions: its parameters KeepLatest, VersionOffset and
\* RequireAllRegions.
Selection == [keepLatest: Int, versionOffset: Int, requireAllRegions: BOOLEAN]

\* An image with the version that its name has; parseVersion returns normal ones.
ListedImage ==
    [id: Nat, version: {v \in (DOMAIN Normal \cap SemVers) \ {Unset} : Normal[v] = v},
     active: BOOLEAN, created: Nat]

ASSUME PipelineAssumption ==
    /\ \A p \in Plans : p.source \in {"oci", "glance"} /\ p.provider \in {"ironcore", "openstack"}
    /\ \A p \in Plans :
          /\ p.images \in Seq(VersionEntry) /\ p.select \in Selection
          /\ p.config \in IF p.provider = "ironcore" THEN Seq(IroncoreEntry) ELSE Seq(OpenStackEntry)
    /\ \A l \in Listings :
          /\ IsFiniteSet(DOMAIN l) /\ DOMAIN l \subseteq Nat
          /\ \A r \in DOMAIN l :
                /\ IsFiniteSet(l[r]) /\ l[r] \subseteq ListedImage
                /\ \A a, b \in l[r] : a.id = b.id => a = b
    /\ \A reg \in Registries : \A t \in DOMAIN reg : reg[t].clean \in DOMAIN Normal \cup {None}

GlanceVersions == UNION {UNION {{a.version : a \in l[r]} : r \in DOMAIN l} : l \in Listings}
SourceVersions == {Spelled[t] : t \in Tags} \cup GlanceVersions

\* Versions that differ have different precedence: none differ in build metadata only.
ASSUME PrecedenceAssumption ==
    /\ Precedence \in [GlanceVersions -> Nat]
    /\ \A v, w \in GlanceVersions : Precedence[v] = Precedence[w] => v = w

\* The base of an update is consistent itself.  With ironcore it resolves what it
\* offers and offers what it resolves; with OpenStack an entry has one identifier for a
\* region, and those with flavors have no regions, nor the version of an image of the
\* source.
ASSUME BaseAssumption ==
    /\ \A p \in Plans : p.provider = "ironcore" =>
          /\ \A e \in ToSet(p.images) : \A caps \in ToSet(e.flavors) :
                Resolves(p.config, e.version, caps)
          /\ \A e \in ToSet(p.config) : \A f \in ToSet(e.flavors) :
                HasFlavor(p.images, e.version, f.caps)
    /\ \A p \in Plans : p.provider = "openstack" => \A e \in ToSet(p.config) :
          /\ OneEach(e.regions) /\ \A f \in ToSet(e.flavors) : OneEach(f.regions)
          /\ e.flavors # <<>> => e.regions = <<>> /\ e.version \notin SourceVersions

VARIABLES
    plan,        \* the configuration of the update
    listing,     \* the images of each region
    arrived,     \* history: what was published, as a set: images or regions
    profile,     \* spec.machineImages, the versions of the image
    config       \* spec.providerConfig, the versions of the image

pipelineVars == <<plan, listing, arrived, profile, config>>
vars == <<ociVars, pipelineVars>>

ListingOrders(rs) ==
    {f \in [rs -> UNION {Orders(listing[r]) : r \in rs}] : \A r \in rs : f[r] \in Orders(listing[r])}

-----------------------------------------------------------------------------
(***************************************************************************)
(* Glance: one image per version and region, then the regions together.    *)
(***************************************************************************)
\* Mutant: an image that is not active wins if it is newer.
PreferNewest(c, k) == c.created > k.created \/ (c.created = k.created /\ c.id > k.id)
\* Mutant: equally old images are not told apart.
PreferImageNoId(c, k) ==
    IF c.active # k.active THEN c.active ELSE c.created > k.created
PreferImage(c, k) ==
    IF c.active # k.active THEN c.active
    ELSE c.created > k.created \/ (c.created = k.created /\ c.id > k.id)

DiscoverRegion(imgs) ==
    LET take(found, img) ==
            IF img.version \notin DOMAIN found \/ PreferImage(img, found[img.version])
            THEN [v \in DOMAIN found \cup {img.version} |->
                     IF v = img.version THEN img ELSE found[v]]
            ELSE found
    IN  Loop(take, <<>>, imgs)

\* The regions of a version in the order in which they answer.
RegionsOf(v, rs, found) ==
    LET add(regions, r) ==
            IF v \in DOMAIN found[r] THEN Append(regions, [name |-> r, id |-> found[r][v].id])
            ELSE regions
    IN  Loop(add, <<>>, rs)

GlanceImage(v, regions) ==
    [version |-> v, clean |-> v, archs |-> <<1>>, caps |-> {<<ArchitectureCapability, 1>>},
     inPlace |-> FALSE, regions |-> regions]

\* NewGlance's defaults, and the window: newest first, from the offset on.
KeepLatest(sel) == IF sel.keepLatest = 0 THEN 3 ELSE sel.keepLatest
Offset(sel) == IF sel.versionOffset <= 0 THEN 0 ELSE sel.versionOffset
Smaller(a, b) == IF a < b THEN a ELSE b
\* Mutant: the order of strings.
NewerByName(v, w) == v > w
Newer(v, w) == Precedence[v] > Precedence[w]
Window(sel, vs) ==
    LET newest == Sorted(vs, Newer)
        lo == Smaller(Offset(sel), Len(newest))
        hi == IF KeepLatest(sel) > 0 THEN Smaller(lo + KeepLatest(sel), Len(newest))
              ELSE Len(newest)
    IN  SubSeq(newest, lo + 1, hi)

\* filterRequireRegions: a region that found nothing does not count.
Everywhere(vs, A, found) ==
    {v \in vs : \A r \in A : DOMAIN found[r] # {} => v \in DOMAIN found[r]}

\* What each region found, together.
MergeRegions(sel, rs, found) ==
    LET all == UNION {DOMAIN found[r] : r \in ToSet(rs)}
        kept == IF sel.requireAllRegions THEN Everywhere(all, ToSet(rs), found) ELSE all
    IN  AnyOrder({GlanceImage(v, RegionsOf(v, rs, found)) : v \in ToSet(Window(sel, kept))})

-----------------------------------------------------------------------------
\* prepareMachineImageUpdate, once the source has returned.
Outcome(p, ss) ==
    LET fetched == FetchedFrom(ss)
        images == [i \in DOMAIN fetched |-> Allowed(fetched[i], p.allowed)]
    IN  [profile |-> MachineImages(p.images, images),
         config |-> IF p.provider = "ironcore" THEN ConfigureIroncore(p.config, images)
                    ELSE ConfigureOpenStack(p.config, images)]

Publish(from, ss) ==
    LET out == Outcome(plan, ss) IN
    /\ arrived' = from /\ profile' = out.profile /\ config' = out.config
    /\ UNCHANGED <<ociVars, plan, listing>>

PublishOci ==
    /\ plan.source = "oci" /\ ~collecting /\ returned.kind = "images"
    /\ \E ss \in Orders(returned.images) : Publish(returned.images, ss)

\* Some regions answer, in some order, each with its images in some order.
PublishGlance ==
    /\ plan.source = "glance"
    /\ \E answering \in (SUBSET DOMAIN listing) \ {{}} :
          \E rs \in Orders(answering), os \in ListingOrders(answering) :
             Publish(answering, MergeRegions(plan.select, rs,
                                    [r \in answering |-> DiscoverRegion(os[r])]))

SourceStep == plan.source = "oci" /\ SourceNext /\ UNCHANGED pipelineVars

PipelineInit ==
    /\ Init
    /\ plan \in Plans
    /\ listing \in Listings
    /\ arrived = {} /\ profile = plan.images /\ config = plan.config

Next == SourceStep \/ PublishOci \/ PublishGlance

PipelineSpec == PipelineInit /\ [][Next]_vars /\ SourceFairness

-----------------------------------------------------------------------------
(***************************************************************************)
(* Properties.                                                             *)
(***************************************************************************)
\* Whatever the order in which the tags of a registry answer, the same CloudProfile
\* is published: no reconciliation changes what did not change.
ArrivalIndependent ==
    plan.source = "oci" /\ arrived # {} =>
        [profile |-> profile, config |-> config] = Outcome(plan, AnyOrder(arrived))

\* The same of the regions of a Glance source, and of the images of a region.
RegionsIndependent ==
    plan.source = "glance" /\ arrived # {} =>
        [profile |-> profile, config |-> config] =
            Outcome(plan, MergeRegions(plan.select, AnyOrder(arrived),
                              [r \in arrived |-> DiscoverRegion(AnyOrder(listing[r]))]))

\* The images that were published, as Apply sees them.
Variants ==
    IF plan.source # "oci" THEN {}
    ELSE {Allowed(s, plan.allowed) : s \in ToSet(FetchedFrom(AnyOrder(arrived)))}

\* A clean version offers the architectures and capabilities of each of its
\* variants.  Not so if a later image has that version for its tag: it is then
\* written as a legacy entry, over the architectures that were there.
VariantsListed ==
    EnableCapabilities => \A s \in Variants :
        \/ s.clean = Unset
        \/ \E u \in Variants : u.version = s.clean /\ Before(s, u)
        \/ \E e \in ToSet(profile) :
              /\ e.version = s.clean
              /\ ToSet(s.archs) \subseteq ToSet(e.archs)
              /\ s.caps # {} => s.caps \in ToSet(e.flavors)

\* What machineImages offers under a version ironcore can resolve, to one of its
\* variants or to the image of that tag, and what it can resolve is offered.  Not so
\* if the base refers to a variant under that version, with other capabilities: the
\* reference is there, so that Configure leaves it.
FlavorsResolve ==
    plan.provider = "ironcore" /\ plan.source = "oci" =>
        /\ \A e \in ToSet(profile) : \A caps \in ToSet(e.flavors) :
              \/ \E s \in Variants : s.version = e.version /\ s.caps = caps
              \/ Resolves(config, e.version, caps)
              \/ \E s \in Variants :
                    /\ s.clean = e.version /\ s.caps = caps
                    /\ RefersOtherwise(plan.config, e.version, s.version, caps)
        /\ \A p \in ToSet(config) : \A f \in ToSet(p.flavors) : HasFlavor(profile, p.version, f.caps)

\* No OpenStack version has both regions and flavors with regions, which the
\* admission of the extension forbids.
OneShape ==
    plan.provider = "openstack" =>
        \A e \in ToSet(config) : e.regions = <<>> \/ e.flavors = <<>>

\* The image of a region to be published under a version: the newest of the active
\* ones, or the newest if none is active.
Preferred(r, v, id) ==
    LET better(a, b) == (a.active /\ ~b.active) \/ (a.active = b.active /\ a.created > b.created)
        of == {a \in listing[r] : a.version = v}
    IN  \E b \in of : b.id = id /\ ~\E a \in of : better(a, b)

\* The versions that the regions which answered list, in each of them if the plan wants
\* that (a region that lists nothing is not asked); and those of them that are selected:
\* as many are newer as the offset says, or more, up to the number to be kept.
Lists(r, v) == \E a \in listing[r] : a.version = v
Qualified ==
    {v \in GlanceVersions :
        /\ \E r \in arrived : Lists(r, v)
        /\ plan.select.requireAllRegions =>
              \A r \in arrived : listing[r] # {} => Lists(r, v)}
Selected(v) ==
    LET newer == Cardinality({w \in Qualified : Precedence[w] > Precedence[v]}) IN
    /\ v \in Qualified
    /\ newer >= Offset(plan.select)
    /\ KeepLatest(plan.select) > 0 => newer < Offset(plan.select) + KeepLatest(plan.select)

\* What OpenStack is offered is of the base, or it is the preferred image of a region
\* under the version of that image, which is selected.
PreferredImage ==
    plan.source = "glance" /\ plan.provider = "openstack" =>
        \A e \in ToSet(config) : \A o \in RegionsIn(e) :
            \/ \E b \in ToSet(plan.config) : b.version = e.version /\ o \in RegionsIn(b)
            \/ /\ Selected(e.version) /\ o.name \in arrived
               /\ Preferred(o.name, e.version, o.id)

\* Of every region that answered the preferred image of each selected version that it
\* lists is offered, under that version.
RegionsServed ==
    plan.source = "glance" /\ plan.provider = "openstack" =>
        \A r \in arrived : \A a \in listing[r] : Selected(a.version) =>
            \E e \in ToSet(config) :
                /\ e.version = a.version
                /\ \E o \in RegionsIn(e) : o.name = r /\ Preferred(r, a.version, o.id)
=============================================================================
