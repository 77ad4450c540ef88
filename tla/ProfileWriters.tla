--------------------------- MODULE ProfileWriters ---------------------------
(***************************************************************************)
(* The expiration dates of machine image versions in one CloudProfile that *)
(* several replicas write: leader election is off, and each replica reads  *)
(* the CloudProfile through a cache of its own.                            *)
(*                                                                         *)
(* A Glance source dates the version it deprecates at the time of the      *)
(* fetch, so that every fetch brings another date; the date in the         *)
(* CloudProfile stays only because a write carries over the one it read.   *)
(* The versions of spec.machineImages are one list, which a merge patch    *)
(* replaces as a whole.                                                    *)
(***************************************************************************)
EXTENDS Naturals

CONSTANTS
    Controllers,   \* the replicas
    Versions,      \* versions of one machine image
    Dates,         \* expiration dates; a fetch may take place at any of them
    Listings,      \* what the source may list: each version's classification
    Bases,         \* what the spec may say of the versions itself
    MaxChanges,    \* bound: changes of the source or the spec, failed calls
    None           \* no date

Classes == {"supported", "deprecated"}
Absent == [class |-> "absent", date |-> None]

\* What a spec or a CloudProfile says of a version; a date is optional, whatever
\* the classification.
Undated == [class |-> "deprecated", date |-> None]
Entry == {Absent} \cup [class: Classes, date: Dates \cup {None}]
Image == [Versions -> Entry]

ASSUME WritersAssumption ==
    /\ None \notin Dates
    /\ Listings \subseteq [Versions -> Classes \cup {"absent"}]
    /\ Bases \subseteq Image
    /\ MaxChanges \in Nat

VARIABLES
    listing,   \* what the source lists
    base,      \* spec.cloudProfile.machineImages of the ManagedCloudProfile
    live,      \* spec.machineImages of the CloudProfile
    cached,    \* each replica's cached copy of it
    stage,     \* where each replica's Reconcile is
    prepared,  \* the images it prepared
    read,      \* the CloudProfile that CreateOrPatch read
    said,      \* history: what the spec has said of each version so far
    dated,     \* history: the versions that a replica has prepared with a date
    changes

external == <<listing, base, said>>
vars == <<external, live, cached, stage, prepared, read, dated, changes>>

Nothing == [v \in Versions |-> Absent]

-----------------------------------------------------------------------------
\* Glance.GetVersions at the time now: only what it deprecates has a date.
SourceDate(v, now) == IF listing[v] = "deprecated" THEN now ELSE None

\* resolveExpiration.  Mutant: the source's date first.
ResolvedBySource(date, existing) == IF date # None THEN date ELSE existing
Resolved(date, existing) == IF existing # None THEN existing ELSE date

\* Apply.  Mutants: only what the source lists; what it does not list too.
PreparedUnlisted(now) ==
    [v \in Versions |->
        [class |-> listing[v], date |-> Resolved(SourceDate(v, now), base[v].date)]]
PreparedListed(now) ==
    [v \in Versions |->
        IF listing[v] = "absent" THEN Absent
        ELSE [class |-> listing[v], date |-> Resolved(SourceDate(v, now), base[v].date)]]
Prepared(now) ==
    [v \in Versions |->
        IF listing[v] = "absent" THEN base[v]
        ELSE [class |-> listing[v], date |-> Resolved(SourceDate(v, now), base[v].date)]]

\* carryExpirationDates.  It does not ask where the date it restores came from.
\* Mutants: nothing is; it forgets to look whether there is a date to carry.
CarriedNothing(old, new) == new
CarriedBlindly(old, new) ==
    [v \in Versions |->
        IF new[v].class = "deprecated" /\ old[v] # Absent
        THEN [new[v] EXCEPT !.date = old[v].date] ELSE new[v]]
Carried(old, new) ==
    [v \in Versions |->
        IF new[v].class = "deprecated" /\ old[v].date # None
        THEN [new[v] EXCEPT !.date = old[v].date] ELSE new[v]]

-----------------------------------------------------------------------------
Fetch(c) ==
    /\ stage[c] = "idle"
    /\ stage' = [stage EXCEPT ![c] = "read"]
    /\ \E now \in Dates :
          /\ prepared' = [prepared EXCEPT ![c] = Prepared(now)]
          /\ dated' = dated \cup {v \in Versions : Prepared(now)[v].date # None}
    /\ UNCHANGED <<external, live, cached, read, changes>>

\* CreateOrPatch reads from the cache.
Read(c) ==
    /\ stage[c] = "read"
    /\ stage' = [stage EXCEPT ![c] = "write"]
    /\ read' = [read EXCEPT ![c] = cached[c]]
    /\ UNCHANGED <<external, live, cached, prepared, dated, changes>>

Done(c) ==
    /\ stage' = [stage EXCEPT ![c] = "idle"]
    /\ prepared' = [prepared EXCEPT ![c] = Nothing]
    /\ read' = [read EXCEPT ![c] = Nothing]

\* It sends the list it wants, without a precondition, if that is not the one
\* it read.
Write(c) ==
    LET wanted == Carried(read[c], prepared[c]) IN
    /\ stage[c] = "write"
    /\ live' = IF wanted = read[c] THEN live ELSE wanted
    /\ Done(c)
    /\ UNCHANGED <<external, cached, dated, changes>>

\* The watch brings a replica's cache up to date.
Sync(c) ==
    /\ cached[c] # live
    /\ cached' = [cached EXCEPT ![c] = live]
    /\ UNCHANGED <<external, live, stage, prepared, read, dated, changes>>

-----------------------------------------------------------------------------
Change == changes < MaxChanges /\ changes' = changes + 1

\* The write fails, or the process restarts.
Fail(c) ==
    /\ stage[c] # "idle" /\ Change
    /\ Done(c)
    /\ UNCHANGED <<external, live, cached, dated>>

SourceChanges(l) ==
    /\ l # listing /\ Change
    /\ listing' = l
    /\ UNCHANGED <<base, said, live, cached, stage, prepared, read, dated>>

EditSpec(b) ==
    /\ b # base /\ Change
    /\ base' = b
    /\ said' = [v \in Versions |-> said[v] \cup {b[v]}]
    /\ UNCHANGED <<listing, live, cached, stage, prepared, read, dated>>

-----------------------------------------------------------------------------
Init ==
    /\ listing \in Listings
    /\ base \in Bases
    /\ live = Nothing
    /\ cached = [c \in Controllers |-> Nothing]
    /\ stage = [c \in Controllers |-> "idle"]
    /\ prepared = [c \in Controllers |-> Nothing]
    /\ read = [c \in Controllers |-> Nothing]
    /\ said = [v \in Versions |-> {base[v]}]
    /\ dated = {}
    /\ changes = 0

Step(c) == Fetch(c) \/ Read(c) \/ Write(c)

Next ==
    \/ \E c \in Controllers : Step(c) \/ Sync(c) \/ Fail(c)
    \/ \E l \in Listings : SourceChanges(l)
    \/ \E b \in Bases : EditSpec(b)

Spec == Init /\ [][Next]_vars

\* Each replica reconciles again and again, and its watch goes on.
FairSpec == Spec /\ \A c \in Controllers : WF_vars(Step(c)) /\ WF_vars(Sync(c))

-----------------------------------------------------------------------------
(***************************************************************************)
(* Properties.                                                             *)
(***************************************************************************)
TypeOK ==
    /\ listing \in Listings /\ base \in Bases
    /\ live \in Image
    /\ cached \in [Controllers -> Image]
    /\ stage \in [Controllers -> {"idle", "read", "write"}]
    /\ prepared \in [Controllers -> Image]
    /\ read \in [Controllers -> Image]
    /\ said \in [Versions -> SUBSET Entry]
    /\ dated \subseteq Versions
    /\ changes \in 0..MaxChanges

\* A date that a fetch made up never takes the place of one the spec has given a
\* version all along, in whatever order replicas with stale copies write.
Given(v) == {e.date : e \in said[v]}
SpecDateWins ==
    \A v \in Versions :
        None \notin Given(v) /\ live[v] # Absent => live[v].date \in Given(v)

\* No version is published as deprecated with no date unless the spec has said
\* just that of it: one that only the source deprecates always has a date,
\* whatever the copy that was carried over said.
UndatedAsSaid ==
    \A v \in Versions : live[v] = Undated => Undated \in said[v]

\* Once every replica knows what the CloudProfile says of a version, a version
\* that has a date and stays deprecated keeps it: no fetch moves its expiration,
\* and no edit of the spec.
Known(v) ==
    \A c \in Controllers :
        cached[c][v] = live[v] /\ (stage[c] = "write" => read[c][v] = live[v])
DateKept ==
    [][\A v \in Versions :
          Known(v) /\ live[v].class = "deprecated" /\ live[v].date # None
                   /\ live'[v].class = "deprecated"
             => live'[v].date = live[v].date]_vars

\* The replicas stop overwriting each other, although each of their fetches
\* brings another date.
DatesSettle == <>[][FALSE]_live

\* When changes end, the CloudProfile classifies every version as the source or
\* else the spec does; a supported one has the spec's date, and a deprecated one
\* has a date if the source deprecates it or the spec dates it.  The converse
\* holds but for a version that the spec deprecates without a date: if a write
\* ever dated it, carryExpirationDates may restore that date for ever, although
\* neither the source nor the spec stands by it any more.
Class(v) == IF listing[v] = "absent" THEN base[v].class ELSE listing[v]
IsDated(v) == listing[v] = "deprecated" \/ base[v].date # None
Agrees(v) ==
    /\ live[v].class = Class(v)
    /\ Class(v) # "deprecated" => live[v].date = base[v].date
    /\ Class(v) = "deprecated" /\ IsDated(v) => live[v].date # None
    /\ live[v].date # None => IsDated(v) \/ (base[v] = Undated /\ v \in dated)
Converges == <>[](\A v \in Versions : Agrees(v))
=============================================================================
