--------------------------- MODULE MCGlanceSource ---------------------------
(* Small instances of GlanceSource for TLC. *)
EXTENDS GlanceSource

CONSTANTS r1, r2

MCRegions == {r1, r2}
MCVersions == 1..4

\* A region that lists nothing, and regions that agree on some versions only.
MCListings == {{}, {1, 2, 4}, {2, 3, 4}}

\* keepLatest: all, unset, some; versionOffset: unset, some, beyond the end.
Configured(k, o, a) == [keepLatest |-> k, versionOffset |-> o, requireAllRegions |-> a]
MCParams == {Configured(-1, 0, FALSE), Configured(0, 0, TRUE), Configured(1, 1, TRUE),
             Configured(2, 1, FALSE), Configured(0, 4, FALSE)}

OneVersion == {1}
FewListings == {{}, {1}}
AllRegions == {Configured(1, 0, TRUE)}
=============================================================================
