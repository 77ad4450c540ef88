-------------------------- MODULE MCImagePipeline --------------------------
(* A small instance of ImagePipeline for TLC. *)
EXTENDS ImagePipeline

\* "1.0" 10, "1.0.0" 11, "1.0.0-amd64" 12, "1.0.0-arm64" 13, "1.1" 14, "1.1.0" 15,
\* "build" 16.
MCSemVers == {11, 12, 13, 15}
MCNormal == [v \in 10..16 |-> IF v = 10 THEN 11 ELSE IF v = 14 THEN 15 ELSE IF v = 16 THEN 0 ELSE v]

CONSTANTS plain, amd, arm, build
MCTags == {plain, amd, arm, build}
MCSpelled == (plain :> 11) @@ (amd :> 12) @@ (arm :> 13) @@ (build :> 16)

\* Features: 1 for in-place updates, 2 mapped to capability 1, 3 required.
Labels(arch, clean, features) == [arch |-> arch, clean |-> clean, features |-> features]
MCFeatureMap == {<<2, 1>>}
MCRequired == {3}

\* Variants of one clean version, one of them without a semantic tag; a tag that
\* is the clean version of another, and of itself or not; labels that are missing
\* or that the filter drops.
MCRegistries ==
    { (amd :> Labels(1, 10, {1, 2, 3})) @@ (arm :> Labels(2, 11, {3})) @@ (build :> Labels(1, 11, {3})),
      (plain :> Labels(1, 11, {2, 3})) @@ (arm :> Labels(2, 11, {1, 3})) @@ (amd :> Labels(1, 16, {3})),
      (plain :> Labels(1, 14, {3})) @@ (amd :> Labels(1, 11, {2, 3})) @@ (arm :> Labels(2, 10, {3})),
      (plain :> Labels(1, 0, {3})) @@ (build :> Labels(1, 0, {3})) @@ (arm :> Labels(0, 11, {3})),
      (plain :> Labels(1, 11, {2})) @@ (amd :> Labels(1, 11, {3})),
      <<>> }

\* Region 1 rebuilt an image, and has a version of its own; region 2 has an image that
\* is not active; region 3 has none.  12 is a prerelease of 11.
Image(id, version, active, created) ==
    [id |-> id, version |-> version, active |-> active, created |-> created]
MCListings ==
    { (1 :> {Image(1, 11, TRUE, 1), Image(2, 11, TRUE, 1), Image(3, 15, TRUE, 2),
             Image(6, 12, TRUE, 0)})
        @@ (2 :> {Image(4, 11, TRUE, 1), Image(5, 11, FALSE, 2), Image(7, 12, TRUE, 1)})
        @@ (3 :> {}) }
MCPrecedence == (12 :> 1) @@ (11 :> 2) @@ (15 :> 3)

All == {<<0, 1>>, <<0, 2>>, <<1, 0>>, <<1, 1>>}
Entry(v, arch) == [version |-> v, archs |-> <<arch>>, flavors |-> <<>>, inPlace |-> FALSE]
Offering(v, caps) == [version |-> v, archs |-> <<1>>, flavors |-> <<caps>>, inPlace |-> FALSE]
Flat(v, arch) == [version |-> v, ref |-> v, arch |-> arch, flavors |-> <<>>]
Under(v, ref, caps) ==
    [version |-> v, ref |-> Unset, arch |-> Unset, flavors |-> <<[ref |-> ref, caps |-> caps]>>]
InRegion(v, r, id) == [version |-> v, regions |-> <<[name |-> r, id |-> id]>>, flavors |-> <<>>]
Flavored(v, r, id, caps) ==
    [version |-> v, regions |-> <<>>,
     flavors |-> <<[caps |-> caps, regions |-> <<[name |-> r, id |-> id]>>]>>]
Selecting(keep, offset, all) ==
    [keepLatest |-> keep, versionOffset |-> offset, requireAllRegions |-> all]
Plan(source, provider, allowed, images, base) ==
    [source |-> source, provider |-> provider, allowed |-> allowed, images |-> images,
     config |-> base, select |-> Selecting(0, 0, FALSE)]
\* A base that refers to the images of the source, with their capabilities or others.
Referring ==
    <<[Under(11, 12, {<<0, 1>>}) EXCEPT !.flavors = Append(@, [ref |-> 13, caps |-> {<<0, 1>>}])]>>
MCPlans ==
    { Plan("oci", "ironcore", All, <<>>, <<>>),
      Plan("oci", "ironcore", {<<0, 1>>, <<0, 2>>}, <<Offering(11, {<<0, 1>>})>>, Referring),
      Plan("oci", "ironcore", {<<0, 1>>, <<0, 2>>}, 
           <<Offering(11, {<<0, 1>>}), Entry(13, 2)>>, <<Under(11, 17, {<<0, 1>>}), Flat(13, 2)>>),
      Plan("oci", "openstack", {<<1, 1>>}, <<>>, <<>>),
      Plan("glance", "openstack", {}, <<>>, <<InRegion(11, 2, 9)>>),
      [Plan("glance", "openstack", All, <<Entry(11, 1)>>,
            <<InRegion(11, 2, 9), Flavored(14, 1, 8, {<<0, 1>>})>>)
          EXCEPT !.select = Selecting(1, 1, TRUE)] }
=============================================================================
