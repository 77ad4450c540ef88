-------------------------- MODULE MCProfileWriters --------------------------
(***************************************************************************)
(* Two versions, of which the source lists one or both, supported or       *)
(* deprecated, in three ways; the spec says nothing, or deprecates both    *)
(* itself, the older with a date and the newer without.                    *)
(***************************************************************************)
EXTENDS ProfileWriters

MCVersions == {1, 2}
MCDates == 1..2
MCListings == {<<"absent", "deprecated">>, <<"deprecated", "supported">>,
               <<"supported", "absent">>}
MCBases == {Nothing, <<[class |-> "deprecated", date |-> 2], Undated>>}
=============================================================================
