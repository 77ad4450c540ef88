------------------------- MODULE MCGarbageCollection ------------------------
(* Small instances of GarbageCollection for TLC: two variants of an image     *)
(* that share a clean version, one of them with a tag the registry spells     *)
(* differently, and an image without a clean version.                         *)
EXTENDS GarbageCollection, TLC

CONSTANTS rawA, verA, tagB, tagC, clean

MCNames == {rawA, verA, tagB, tagC, clean}
MCTags == {rawA, tagB, tagC}
MCNormalizeTag == [n \in MCNames |-> IF n = rawA THEN verA ELSE n]
MCCleanVersion == rawA :> clean @@ tagB :> clean @@ tagC :> None
\* tagB is no semantic version: only its clean version is published.
MCSemverNames == {verA, tagC, clean}
=============================================================================
