---------------------------- MODULE MCReconciler ----------------------------
(* Small instances of Reconciler for TLC: two hand-written parts, one of    *)
(* which declares images, and two listings of versions.                     *)
EXTENDS Reconciler, TLC

CONSTANTS b1, b2, l1, l2, i1, i2, k1, k2

MCBases == {b1, b2}
MCBasesWithImages == {b1}
MCListings == {l1, l2}
MCOneListing == {l1}
MCIds == {i1}
MCTwoIds == {i1, i2}
MCReleases == {k1}
MCTwoReleases == {k1, k2}

\* The two identifiers are interchangeable.
MCSymmetry == Permutations(MCTwoIds)
=============================================================================
