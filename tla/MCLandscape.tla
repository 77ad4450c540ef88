---------------------------- MODULE MCLandscape ----------------------------
(* A small instance of Landscape for TLC. *)
EXTENDS Landscape

CONSTANTS s1, s2
MCShoots == {s1, s2}
MCTags == 1..3
MCVersions == 1..3
\* Two patches of one Gardener minor, and the next minor.
MCReleases == {11, 12, 21}

Descriptor(g, vs, cs) == [gardener |-> g, supported |-> vs, classified |-> cs, there |-> TRUE]
\* The second has more versions and the third others; the fourth has no data for
\* the provider, and the last no reference to Gardener.
MCDescriptors ==
    {Descriptor(11, {1}, {1, 2}), Descriptor(12, {1, 2}, {1, 2, 3}), Descriptor(21, {2, 3}, {2, 3}),
     Descriptor(12, {1, 2}, {}), Descriptor(None, {3}, {3})}

Tagged(a, b, c) == [t \in 1..3 |-> IF t = 1 THEN a ELSE IF t = 2 THEN b ELSE c]
MCInitialRegistries ==
    {Tagged(Descriptor(11, {1}, {1, 2}), Descriptor(12, {1, 2}, {1, 2, 3}), Descriptor(21, {2, 3}, {2, 3})),
     Tagged(Descriptor(11, {1}, {1, 2}), Descriptor(12, {1, 2}, {}), Descriptor(None, {3}, {3})),
     Tagged(Absent, Absent, Absent)}

FewDescriptors == {Descriptor(11, {1}, {1, 2}), Descriptor(12, {1, 2}, {1, 2, 3})}
FewRegistries == {Tagged(Descriptor(11, {1}, {1, 2}), Descriptor(12, {1, 2}, {1, 2, 3}), Absent)}
=============================================================================
