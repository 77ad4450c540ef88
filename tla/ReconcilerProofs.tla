-------------------------- MODULE ReconcilerProofs --------------------------
(***************************************************************************)
(* Theorems about Reconciler, for any number of updates, any hand-written  *)
(* parts, any listings and any bounds: first what is published at all,     *)
(* then what a recorded success and an acknowledged pause are worth.       *)
(***************************************************************************)
EXTENDS Reconciler, TLAPS

\* Where a reconciliation stands in its loop over the updates.
Progress ==
    /\ stage = "idle" => next = 1
    /\ stage = "images" => next \in Updates

TypeInv == TypeOK /\ Progress

\* The profiles that are, or are about to be, published show all updates or none.
WholeProfile(p) == Uniform(p.images.vers) /\ Uniform(p.config.got)

\* What a reconciliation has fetched when it stops fetching, unless it is paused.
Complete ==
    /\ stage = "images" =>
          ~seen.paused /\ \A u \in Updates : u < next => got[u] # None
    /\ stage \in {"kube", "read", "write"} /\ ~seen.paused =>
          \A u \in Updates : got[u] # None

WholeInv ==
    /\ WholeProfile(profile) /\ WholeProfile(cProfile) /\ WholeProfile(found)
    /\ Complete

-----------------------------------------------------------------------------
(***************************************************************************)
(* What the values the actions build are.                                  *)
(***************************************************************************)
\* What the constants give the arithmetic on updates.
LEMMA ZeroOrMore == N \in Nat /\ None \notin Bases \cup Listings \cup Fetched
  BY ConstantsAssumption

\* The absent objects and the cleared locals of Reconcile.
LEMMA EmptyValues ==
    /\ NoStatus \in Status /\ NoMcp \in Mcp /\ NoProfile \in Profile
    /\ NothingGot \in [Updates -> Fetched \cup {None}]
  BY DEF NoStatus, Status, Condition, NoMcp, Mcp, NoProfile, Profile, Images,
     Config, BaseImages, BaseConfig, NothingGot

\* The images and the provider config of a hand-written part.
LEMMA BaseValues ==
    ASSUME NEW b \in Bases \cup {None}
    PROVE  BaseImages(b) \in Images /\ BaseConfig(b) \in Config
  BY DEF BaseImages, BaseConfig, Images, Config

\* What the mutate closure makes of a profile is a profile.
LEMMA WantedType ==
    ASSUME TypeOK, NEW p \in Profile
    PROVE  Wanted(p) \in Profile
<1>1. seen.base \in Bases \cup {None}
  BY DEF TypeOK, Mcp
<1>2. FetchedConfig \in Config
  BY <1>1 DEF TypeOK, FetchedConfig, Config
<1>3. FetchedImages \in Images
  BY <1>1 DEF TypeOK, FetchedImages, Images, Fetched
<1>4. WantedImages(p) \in Images
  BY <1>1, <1>3, BaseValues DEF WantedImages, Profile
<1>5. WantedConfig(p) \in Config
  BY <1>1, <1>2, BaseValues DEF WantedConfig, Profile
<1> QED
  BY <1>1, <1>4, <1>5 DEF Wanted, Profile, TypeOK

\* A merge patch mixes fields of profiles into a profile.
LEMMA MergeType ==
    ASSUME NEW p \in Profile, NEW q \in Profile, NEW r \in Profile
    PROVE  MergePatch(p, q, r) \in Profile
  BY DEF MergePatch, Profile

\* What the server stores after CreateOrPatch is a profile.
LEMMA StoredType ==
    ASSUME TypeOK PROVE Stored \in Profile
<1>1. found \in Profile /\ profile \in Profile
  BY DEF TypeOK
<1> QED
  BY <1>1, WantedType, MergeType DEF Stored

\* The statuses Reconcile may come to.
LEMMA VerdictType ==
    ASSUME TypeOK
    PROVE  Succeeded \in Status /\ Failed("fetch") \in Status /\ Failed("apply") \in Status
  BY DEF TypeOK, Mcp, Succeeded, Failed, Status, Condition

\* What the server stores after the status patch.
LEMMA PatchedType ==
    ASSUME TypeOK PROVE [mcp EXCEPT !.status = PatchedStatus] \in Mcp
<1>1. PatchedStatus \in Status
  BY DEF TypeOK, Mcp, PatchedStatus, Status
<1> QED
  BY <1>1 DEF TypeOK, Mcp

\* A reconciliation that returns leaves its locals empty.
LEMMA ReturnType ==
    ASSUME TypeOK, NEW how \in {"period", "backoff"}, Return(how)
    PROVE  /\ stage' = "idle" /\ next' = 1 /\ verdict' = verdict
           /\ seen' \in Mcp /\ found' \in Profile
           /\ got' \in [Updates -> Fetched \cup {None}]
           /\ gotKube' \in Releases \cup {None}
           /\ after' \in {"period", "backoff"}
           /\ queue' \in {"period", "backoff", "now"}
  BY EmptyValues DEF TypeOK, Return, Requeue, ClearLocals

-----------------------------------------------------------------------------
(***************************************************************************)
(* The type invariant.                                                     *)
(***************************************************************************)
\* The types hold before the controller first runs.
LEMMA TypeInit == Init => TypeInv
<1> SUFFICES ASSUME Init PROVE TypeInv
  OBVIOUS
<1>1. mcp \in Mcp
  BY EmptyValues DEF Init, Mcp
<1>2. profile \in Profile
  BY EmptyValues, BaseValues, ConstantsAssumption DEF Init, HandMade, Profile
<1> QED
  BY <1>1, <1>2, EmptyValues DEF Init, TypeInv, TypeOK, Progress, Stages

\* Each step of the controller, the API server and the world keeps the types.
LEMMA TypeStep == TypeInv /\ [Next]_vars => TypeInv'
<1> SUFFICES ASSUME TypeInv, [Next]_vars PROVE TypeInv'
  OBVIOUS
<1> USE DEF TypeInv, Progress
<1>1. ASSUME Start PROVE TypeInv'
  BY <1>1, ZeroOrMore DEF Start, TypeOK, AfterImages, Stages, Updates, apiVars, sourceVars, cacheVars
<1>2. ASSUME StartNotFound PROVE TypeInv'
  BY <1>2 DEF StartNotFound, TypeOK, apiVars, sourceVars, cacheVars, localVars
<1>3. ASSUME StartListFails PROVE TypeInv'
  BY <1>3 DEF StartListFails, TypeOK, Upset, apiVars, sourceVars, cacheVars, localVars
<1>4. ASSUME FetchImages PROVE TypeInv'
  BY <1>4, ZeroOrMore DEF FetchImages, TypeOK, AfterImages, Stages, Updates, apiVars, sourceVars, cacheVars
<1>5. ASSUME FetchImagesFails PROVE TypeInv'
  BY <1>5, VerdictType DEF FetchImagesFails, TypeOK, Upset, Conclude, Stages, apiVars, sourceVars, cacheVars
<1>6. ASSUME FetchKube PROVE TypeInv'
  BY <1>6 DEF FetchKube, TypeOK, Stages, apiVars, sourceVars, cacheVars
<1>7. ASSUME FetchKubeFails PROVE TypeInv'
  BY <1>7, VerdictType DEF FetchKubeFails, TypeOK, Upset, Conclude, Stages, apiVars, sourceVars, cacheVars
<1>8. ASSUME ReadProfile PROVE TypeInv'
  BY <1>8 DEF ReadProfile, TypeOK, Stages, apiVars, sourceVars, cacheVars
<1>9. ASSUME WriteProfile PROVE TypeInv'
  BY <1>9, VerdictType, StoredType DEF WriteProfile, TypeOK, Publish, Conclude, Stages, sourceVars
<1>10. ASSUME WriteRejected PROVE TypeInv'
  BY <1>10, VerdictType DEF WriteRejected, TypeOK, Conclude, Stages, apiVars, sourceVars, cacheVars
<1>11. ASSUME WriteInvalid PROVE TypeInv'
  BY <1>11, VerdictType DEF WriteInvalid, TypeOK, Upset, Conclude, Stages, apiVars, sourceVars, cacheVars
<1>12. ASSUME WriteErrs PROVE TypeInv'
  BY <1>12, VerdictType, StoredType DEF WriteErrs, TypeOK, Upset, Publish, Conclude, Stages, sourceVars
<1>13. ASSUME SkipStatus PROVE TypeInv'
  BY <1>13, ReturnType DEF SkipStatus, TypeOK, Stages, apiVars, sourceVars, cacheVars
<1>14. ASSUME PatchStatus PROVE TypeInv'
  BY <1>14, ReturnType, PatchedType DEF PatchStatus, TypeOK, Stages, sourceVars, cacheVars
<1>15. ASSUME PatchStatusNotFound PROVE TypeInv'
  BY <1>15, ReturnType DEF PatchStatusNotFound, TypeOK, Stages, apiVars, sourceVars, cacheVars
<1>16. ASSUME PatchStatusErrs PROVE TypeInv'
  BY <1>16, ReturnType, PatchedType DEF PatchStatusErrs, TypeOK, Upset, Stages, sourceVars, cacheVars
<1>17. ASSUME Restart PROVE TypeInv'
  BY <1>17, EmptyValues DEF Restart, TypeOK, Upset, ClearLocals, Stages, apiVars, sourceVars
<1>18. ASSUME SyncMcp PROVE TypeInv'
  BY <1>18 DEF SyncMcp, TypeOK, apiVars, sourceVars, localVars
<1>19. ASSUME SyncProfile PROVE TypeInv'
  BY <1>19 DEF SyncProfile, TypeOK, apiVars, sourceVars, localVars
<1>20. ASSUME Elapse PROVE TypeInv'
  BY <1>20 DEF Elapse, TypeOK, apiVars, sourceVars, cacheVars, localVars
<1>21. ASSUME NEW b \in Bases, NEW p \in BOOLEAN, EditSpec(b, p) PROVE TypeInv'
  <2>1. mcp \in Mcp /\ mcp.gen + 1 \in Nat
    BY DEF TypeOK, Mcp
  <2>2. mcp' = [mcp EXCEPT !.gen = mcp.gen + 1, !.base = b, !.paused = p]
    BY <1>21 DEF EditSpec
  <2>3. mcp' \in Mcp
    BY <2>1, <2>2 DEF Mcp
  <2> QED
    BY <1>21, <2>3 DEF EditSpec, TypeOK, sourceVars, cacheVars, localVars
<1>22. ASSUME DeleteMcp PROVE TypeInv'
  BY <1>22, EmptyValues DEF DeleteMcp, TypeOK, sourceVars, cacheVars, localVars
<1>23. ASSUME SourceChanges PROVE TypeInv'
  BY <1>23 DEF SourceChanges, TypeOK, Upset, apiVars, cacheVars, localVars
<1>24. ASSUME ForeignEdit PROVE TypeInv'
  <2>1. profile' \in Profile /\ missed' \in {"nothing", "foreign", "owned"}
    BY <1>24, EmptyValues DEF ForeignEdit, TypeOK, Publish, Profile
  <2> QED
    BY <1>24, <2>1 DEF ForeignEdit, TypeOK, Upset, sourceVars, localVars
<1>25. ASSUME CollectOrphan PROVE TypeInv'
  BY <1>25, EmptyValues DEF CollectOrphan, TypeOK, Publish, sourceVars, localVars
<1>26. ASSUME UNCHANGED vars PROVE TypeInv'
  BY <1>26 DEF vars, TypeOK, apiVars, sourceVars, cacheVars, localVars
<1> QED
  BY <1>1, <1>2, <1>3, <1>4, <1>5, <1>6, <1>7, <1>8, <1>9, <1>10, <1>11, <1>12, <1>13, <1>14, <1>15, <1>16, <1>17, <1>18, <1>19, <1>20, <1>21, <1>22, <1>23, <1>24, <1>25, <1>26
  DEF Next, Work, Faults, Environment

\* Every state the controller, its caches and the API server reach is of the
\* types declared; in particular the loop over the updates stays within them.
THEOREM TypeCorrect == Spec => []TypeOK
<1>1. Spec => []TypeInv
  BY TypeInit, TypeStep, PTL DEF Spec
<1> QED
  BY <1>1, PTL DEF TypeInv

-----------------------------------------------------------------------------
(***************************************************************************)
(* The MCP is never dropped.  NeverForgotten is inductive beside the type  *)
(* invariant: only three steps leave the queue empty, and each has a       *)
(* reason that NeverForgotten names.                                       *)
(***************************************************************************)
\* No step leaves an MCP that the cache knows without a queue entry.
LEMMA ForgottenStep ==
    TypeInv /\ NeverForgotten /\ [Next]_vars => NeverForgotten'
<1> SUFFICES ASSUME TypeInv, NeverForgotten, [Next]_vars PROVE NeverForgotten'
  OBVIOUS
<1> USE DEF NeverForgotten
\* The queue is emptied: a reconciliation runs, or the MCP is not in the cache.
<1>1. ASSUME Start PROVE NeverForgotten'
  BY <1>1 DEF Start, AfterImages
<1>2. ASSUME StartNotFound PROVE NeverForgotten'
  BY <1>2 DEF StartNotFound, cacheVars
<1>3. ASSUME Restart PROVE NeverForgotten'
  BY <1>3 DEF Restart, apiVars
\* A reconciliation that goes on, or returns and requeues.
<1>4. ASSUME \/ StartListFails \/ FetchImages \/ FetchImagesFails
             \/ FetchKube \/ FetchKubeFails
      PROVE  NeverForgotten'
  BY <1>4 DEF StartListFails, FetchImages, FetchImagesFails, FetchKube,
     FetchKubeFails, AfterImages, Conclude
<1>5. ASSUME ReadProfile \/ WriteProfile \/ WriteRejected \/ WriteInvalid \/ WriteErrs
      PROVE  NeverForgotten'
  BY <1>5 DEF ReadProfile, WriteProfile, WriteRejected, WriteInvalid, WriteErrs, Conclude
<1>6. ASSUME SkipStatus \/ PatchStatus \/ PatchStatusNotFound \/ PatchStatusErrs
      PROVE  NeverForgotten'
  <2>1. PICK how \in {"period", "backoff"} : Return(how)
    BY <1>6 DEF SkipStatus, PatchStatus, PatchStatusNotFound, PatchStatusErrs, TypeInv, TypeOK
  <2> QED
    BY <2>1, ReturnType DEF TypeInv
\* The cache follows the MCP, and a creation or deletion enqueues it.
<1>7. ASSUME SyncMcp PROVE NeverForgotten'
  BY <1>7 DEF SyncMcp, apiVars
<1>8. ASSUME SyncProfile \/ Elapse PROVE NeverForgotten'
  BY <1>8 DEF SyncProfile, Elapse, apiVars, cacheVars
\* Nobody else touches the queue, and the MCP is not created again.
<1>9. ASSUME NEW b \in Bases, NEW p \in BOOLEAN, EditSpec(b, p) PROVE NeverForgotten'
  BY <1>9 DEF EditSpec, cacheVars
<1>10. ASSUME DeleteMcp \/ SourceChanges \/ ForeignEdit \/ CollectOrphan
       PROVE  NeverForgotten'
  BY <1>10 DEF DeleteMcp, NoMcp, SourceChanges, ForeignEdit, CollectOrphan, apiVars, cacheVars
<1>11. ASSUME UNCHANGED vars PROVE NeverForgotten'
  BY <1>11 DEF vars, apiVars, cacheVars
<1> QED
  BY <1>1, <1>2, <1>3, <1>4, <1>5, <1>6, <1>7, <1>8, <1>9, <1>10, <1>11
  DEF Next, Work, Faults, Environment

\* Whatever fails and whatever is lost, an MCP that exists and that the cache
\* knows is being reconciled or is in the workqueue.
THEOREM NothingForgotten == Spec => []NeverForgotten
<1>1. Init => NeverForgotten
  BY DEF Init, NeverForgotten
<1>2. Spec => [](TypeInv /\ NeverForgotten)
  BY <1>1, TypeInit, TypeStep, ForgottenStep, PTL DEF Spec
<1> QED
  BY <1>2, PTL

-----------------------------------------------------------------------------
(***************************************************************************)
(* A CloudProfile shows all updates or none.  A merge patch mixes whole    *)
(* fields of three profiles, so the property needs all three to have it:   *)
(* the live one, the cached one and the one CreateOrPatch read; and what   *)
(* is written is complete because the loop over the updates was.           *)
(***************************************************************************)
\* An absent CloudProfile shows no update at all.
LEMMA EmptyWhole == WholeProfile(NoProfile)
  BY DEF WholeProfile, Uniform, NoProfile, BaseImages, BaseConfig

\* A merge patch takes each field from one whole profile.
LEMMA MergeWhole ==
    ASSUME NEW p, NEW q, NEW r,
           WholeProfile(p), WholeProfile(q), WholeProfile(r)
    PROVE  WholeProfile(MergePatch(p, q, r))
  BY DEF WholeProfile, MergePatch

\* The mutate closure makes a whole profile of what was fetched or read.
LEMMA WantedWhole ==
    ASSUME TypeInv, Complete, stage \in {"kube", "read", "write"},
           NEW p, WholeProfile(p)
    PROVE  WholeProfile(Wanted(p))
<1>1. ASSUME ~seen.paused
      PROVE  Uniform(FetchedImages.vers) /\ Uniform(FetchedConfig.got)
  <2>1. \A u \in Updates : got[u] # None
    BY <1>1 DEF Complete
  <2>2. \A u \in Updates : got[u].vers # None
    BY <2>1, ConstantsAssumption DEF TypeInv, TypeOK, Fetched
  <2> QED
    BY <2>1, <2>2 DEF Uniform, FetchedImages, FetchedConfig
<1>2. Uniform(BaseImages(seen.base).vers) /\ Uniform(BaseConfig(seen.base).got)
  BY DEF Uniform, BaseImages, BaseConfig
<1>3. Uniform(WantedImages(p).vers) /\ Uniform(WantedConfig(p).got)
  BY <1>1, <1>2 DEF WantedImages, WantedConfig, WholeProfile
<1> QED
  BY <1>3 DEF Wanted, WholeProfile

\* The first CloudProfile is absent or made by hand.
LEMMA WholeInit == Init => WholeInv
<1> SUFFICES ASSUME Init PROVE WholeInv
  OBVIOUS
<1>1. WholeProfile(profile)
  BY EmptyWhole DEF Init, HandMade, WholeProfile, Uniform, BaseImages, BaseConfig
<1> QED
  BY <1>1, EmptyWhole DEF Init, WholeInv, Complete

\* No step makes the live, the cached or the read CloudProfile a partial one.
LEMMA WholeStep == TypeInv /\ WholeInv /\ [Next]_vars => WholeInv'
<1> SUFFICES ASSUME TypeInv, WholeInv, [Next]_vars PROVE WholeInv'
  OBVIOUS
\* Fetching: got grows in the order of the updates.
<1>1. ASSUME Start PROVE WholeInv'
  <2>1. Complete'
    BY <1>1 DEF Start, Complete, AfterImages, TypeInv, TypeOK, Progress, Updates
  <2> QED
    BY <1>1, <2>1 DEF Start, WholeInv, apiVars, cacheVars, WholeProfile
<1>2. ASSUME FetchImages PROVE WholeInv'
  <2>1. /\ next \in Updates /\ next \in Nat /\ N \in Nat
        /\ got \in [Updates -> Fetched \cup {None}] /\ source[next] # None
    BY <1>2, ConstantsAssumption DEF FetchImages, TypeInv, TypeOK, Progress
  <2>2. ~seen'.paused /\ \A u \in Updates : u < next' => got'[u] # None
    BY <1>2, <2>1 DEF FetchImages, WholeInv, Complete, Updates
  <2>3. next = N => \A u \in Updates : u < next'
    BY <1>2, <2>1 DEF FetchImages, Updates
  <2>4. Complete'
    BY <1>2, <2>2, <2>3 DEF FetchImages, Complete, AfterImages
  <2> QED
    BY <1>2, <2>4 DEF FetchImages, WholeInv, apiVars, cacheVars, WholeProfile
<1>3. ASSUME FetchKube \/ ReadProfile PROVE WholeInv'
  BY <1>3 DEF FetchKube, ReadProfile, WholeInv, Complete, apiVars, cacheVars, WholeProfile
\* A failure ends the reconciliation before anything is written.
<1>4. ASSUME FetchImagesFails \/ FetchKubeFails \/ WriteRejected \/ WriteInvalid
      PROVE  WholeInv'
  BY <1>4 DEF FetchImagesFails, FetchKubeFails, WriteRejected, WriteInvalid, Conclude,
     WholeInv, Complete, apiVars, cacheVars, WholeProfile
\* What is written is whole.
<1>5. ASSUME WriteProfile \/ WriteErrs PROVE WholeInv'
  <2>1. WholeProfile(Stored)
    BY <1>5, WantedWhole, MergeWhole DEF WriteProfile, WriteErrs, Stored, WholeInv
  <2>2. profile' = Stored \/ profile' = profile
    BY <1>5 DEF WriteProfile, WriteErrs, Publish
  <2>3. Complete'
    BY <1>5 DEF WriteProfile, WriteErrs, Conclude, Complete
  <2> QED
    BY <1>5, <2>1, <2>2, <2>3 DEF WriteProfile, WriteErrs, WholeInv, WholeProfile
\* Returning forgets what was fetched.
<1>6. ASSUME SkipStatus \/ PatchStatus \/ PatchStatusNotFound \/ PatchStatusErrs \/ Restart
      PROVE  WholeInv'
  <2>1. stage' = "idle" /\ found' = NoProfile
    BY <1>6 DEF SkipStatus, PatchStatus, PatchStatusNotFound, PatchStatusErrs, Restart,
       Return, ClearLocals
  <2>2. profile' = profile /\ cProfile' \in {profile, cProfile}
    BY <1>6 DEF SkipStatus, PatchStatus, PatchStatusNotFound, PatchStatusErrs, Restart,
       apiVars, cacheVars
  <2> QED
    BY <2>1, <2>2, EmptyWhole DEF WholeInv, Complete, WholeProfile
\* The cache takes the live profile, and nobody else writes images.
<1>7. ASSUME SyncProfile PROVE WholeInv'
  BY <1>7 DEF SyncProfile, WholeInv, Complete, apiVars, localVars, WholeProfile
<1>8. ASSUME \/ StartNotFound \/ StartListFails \/ SyncMcp \/ Elapse
             \/ DeleteMcp \/ SourceChanges \/ UNCHANGED vars
      PROVE  WholeInv'
  BY <1>8 DEF StartNotFound, StartListFails, SyncMcp, Elapse, DeleteMcp, SourceChanges,
     vars, WholeInv, Complete, apiVars, cacheVars, localVars, WholeProfile
<1>9. ASSUME NEW b \in Bases, NEW p \in BOOLEAN, EditSpec(b, p) PROVE WholeInv'
  BY <1>9 DEF EditSpec, WholeInv, Complete, cacheVars, localVars, WholeProfile
<1>10. ASSUME ForeignEdit \/ CollectOrphan PROVE WholeInv'
  <2>1. WholeProfile(profile')
    BY <1>10, EmptyWhole
    DEF ForeignEdit, CollectOrphan, Publish, WholeInv, WholeProfile, TypeInv, TypeOK, Profile
  <2> QED
    BY <1>10, <2>1
    DEF ForeignEdit, CollectOrphan, WholeInv, Complete, localVars, WholeProfile
<1> QED
  BY <1>1, <1>2, <1>3, <1>4, <1>5, <1>6, <1>7, <1>8, <1>9, <1>10
  DEF Next, Work, Faults, Environment

\* The published CloudProfile never shows some of the updates without the
\* others, for any number of updates, failures and stale reads.
THEOREM PublishedWhole == Spec => []AllOrNothing
<1>1. WholeInv => AllOrNothing
  BY DEF WholeInv, WholeProfile, AllOrNothing
<1> QED
  BY <1>1, TypeInit, TypeStep, WholeInit, WholeStep, PTL DEF Spec

-----------------------------------------------------------------------------
(***************************************************************************)
(* What a recorded success is worth, for any number of updates, faults and *)
(* generations: the caches may be stale when CreateOrPatch reads them, and *)
(* the merge patch has no precondition, yet a CloudProfile that is not     *)
(* what was wanted is noticed, and a pause keeps the images it found.      *)
(***************************************************************************)
\* The workqueue has, or is about to get, an entry that is due at once.
Noticed == queue = "now" \/ missed = "owned"

\* The cached CloudProfile is the live one, but for changes not yet delivered.
CacheInv ==
    /\ missed = "nothing" => cProfile = profile
    /\ missed = "foreign" => cProfile.owner # "us" /\ profile.owner # "us"

\* So is the one CreateOrPatch has read, and what it missed was noticed.
FoundInv ==
    stage = "write" =>
        Noticed \/ found = profile \/ (found.owner # "us" /\ profile.owner # "us")

SameSpec(m, n) ==
    m.exists = n.exists /\ m.gen = n.gen /\ m.base = n.base /\ m.paused = n.paused

\* A generation has one spec, and the cache is never ahead.
GenInv ==
    mcp.exists /\ cMcp.exists =>
        cMcp.gen <= mcp.gen /\ (cMcp.gen = mcp.gen => SameSpec(cMcp, mcp))

\* A reconciliation works with the cached spec, or another one is due.
SeenInv ==
    stage # "idle" => seen.exists /\ (queue = "now" \/ SameSpec(seen, cMcp))

\* The CloudProfile is what the spec m asks for.
Matches(m) ==
    /\ profile.owner = "us" /\ profile.static = m.base
    /\ ~m.paused => Coherent(profile.images, profile.config)

\* A success is worth that, when it is about to be recorded and afterwards.
SuccessInv ==
    verdict.cond.value = "True" =>
        /\ stage = "status" => Noticed \/ Matches(seen)
        /\ stage = "idle" /\ cMcp.exists =>
              queue = "backoff" \/ Noticed \/ Matches(cMcp)

HealInv == CacheInv /\ FoundInv /\ GenInv /\ SeenInv /\ SuccessInv

-----------------------------------------------------------------------------
(***************************************************************************)
(* The parts of the invariant, kept by the steps that touch them.          *)
(***************************************************************************)
\* Before the controller first runs nothing has been missed or recorded.
LEMMA HealInit == Init => HealInv
<1> SUFFICES ASSUME Init PROVE HealInv
  OBVIOUS
<1>1. /\ cMcp = mcp /\ cProfile = profile /\ missed = "nothing"
      /\ stage = "idle" /\ verdict.cond.value = "none"
  BY DEF Init, NoStatus
<1>2. mcp.gen \in Nat
  BY TypeInit DEF TypeInv, TypeOK, Mcp
<1> QED
  BY <1>1, <1>2 DEF HealInv, CacheInv, FoundInv, GenInv, SeenInv, SuccessInv, SameSpec

\* A write of the live CloudProfile is missed by the cache unless it changes
\* nothing, and noticed if we own the profile before or after.
LEMMA PublishMissed ==
    ASSUME TypeOK, CacheInv, NEW new, Publish(new), cProfile' = cProfile
    PROVE  /\ CacheInv' /\ profile' = new
           /\ missed = "owned" => missed' = "owned"
           /\ \/ missed' = "owned" \/ profile' = profile
              \/ profile.owner # "us" /\ profile'.owner # "us"
<1>1. CASE new = profile
  BY <1>1 DEF Publish, CacheInv
<1>2. CASE new # profile /\ ("us" \in {profile.owner, new.owner} \/ missed = "owned")
  BY <1>2 DEF Publish, CacheInv
<1>3. CASE new # profile /\ ~("us" \in {profile.owner, new.owner} \/ missed = "owned")
  BY <1>3 DEF Publish, CacheInv, TypeOK
<1> QED
  BY <1>1, <1>2, <1>3

\* Somebody else's write is noticed if it makes the profile ours no longer match.
LEMMA ForeignKeeps ==
    ASSUME TypeOK, HealInv, NEW new, Publish(new),
           UNCHANGED <<mcp, cMcp, cProfile, queue, stage, localVars>>
    PROVE  HealInv'
<1>1. /\ CacheInv'
      /\ missed = "owned" => missed' = "owned"
      /\ \/ missed' = "owned" \/ profile' = profile
         \/ profile.owner # "us" /\ profile'.owner # "us"
  BY PublishMissed DEF HealInv
<1>2. FoundInv'
  BY <1>1 DEF HealInv, FoundInv, Noticed, localVars
<1>3. GenInv' /\ SeenInv'
  BY DEF HealInv, GenInv, SeenInv, SameSpec, localVars
<1>4. SuccessInv'
  BY <1>1 DEF HealInv, SuccessInv, Noticed, Matches, Coherent, localVars
<1> QED
  BY <1>1, <1>2, <1>3, <1>4 DEF HealInv

\* A step of Reconcile that only goes on fetching.
LEMMA FetchKeeps ==
    ASSUME HealInv,
           UNCHANGED <<mcp, profile, cMcp, cProfile, missed, queue, seen>>,
           stage # "idle", stage' \in {"images", "kube", "read"}
    PROVE  HealInv'
  BY DEF HealInv, CacheInv, FoundInv, GenInv, SeenInv, SuccessInv, SameSpec

\* A failure that is about to be recorded promises nothing.
LEMMA FailureKeeps ==
    ASSUME TypeOK, HealInv, NEW why, NEW how, Conclude(Failed(why), how),
           stage # "idle", CacheInv',
           UNCHANGED <<mcp, cMcp, cProfile, queue, seen, found>>
    PROVE  HealInv'
  BY DEF HealInv, FoundInv, GenInv, SeenInv, SuccessInv, SameSpec, Conclude, Failed

-----------------------------------------------------------------------------
(***************************************************************************)
(* CreateOrPatch reports success.                                          *)
(***************************************************************************)
\* What the closure wants of the profile it read is what the spec asks for.
LEMMA WantedMatches ==
    /\ Wanted(found).owner = "us" /\ Wanted(found).static = seen.base
    /\ ~seen.paused => Coherent(Wanted(found).images, Wanted(found).config)
<1>1. Wanted(found).owner = "us" /\ Wanted(found).static = seen.base
  BY DEF Wanted
<1>2. ASSUME ~seen.paused
      PROVE  Coherent(Wanted(found).images, Wanted(found).config)
  <2>1. Wanted(found).images = FetchedImages /\ Wanted(found).config = FetchedConfig
    BY <1>2 DEF Wanted, WantedImages, WantedConfig
  <2> QED
    BY <2>1 DEF Coherent, FetchedImages, FetchedConfig
<1> QED
  BY <1>1, <1>2

\* A merge patch computed from the live profile makes it what was wanted.
LEMMA FreshPatch ==
    ASSUME NEW old \in Profile, NEW new \in Profile
    PROVE  MergePatch(old, new, old) = new
  BY DEF MergePatch, Profile

\* What a create or a patch stores is ours, if the copy read was not stale or
\* was of a profile that is not ours.
LEMMA StoredOurs ==
    ASSUME Creates \/ Patches,
           found = profile \/ (found.owner # "us" /\ profile.owner # "us")
    PROVE  Stored.owner = "us"
<1>1. CASE Creates
  BY <1>1 DEF Stored, Wanted
<1>2. CASE ~Creates /\ Patches
  BY <1>2 DEF Stored, Patches, MergePatch, Wanted
<1> QED
  BY <1>1, <1>2

\* If it finds the profile as it wants it, or makes it so, that is what it is;
\* if it wrote from a stale copy, the profile changed and that is noticed.
LEMMA WriteKeeps == TypeOK /\ HealInv /\ WriteProfile => HealInv'
<1> SUFFICES ASSUME TypeOK, HealInv, WriteProfile PROVE HealInv'
  OBVIOUS
<1>1. /\ stage = "write" /\ stage' = "status" /\ verdict' = Succeeded
      /\ UNCHANGED <<mcp, cMcp, cProfile, queue, seen, found>>
  BY DEF WriteProfile, Conclude
<1>2. /\ CacheInv'
      /\ missed = "owned" => missed' = "owned"
      /\ \/ Creates \/ Patches
         \/ NoDifference /\ UNCHANGED <<profile, missed>>
      /\ Creates \/ Patches =>
            /\ profile' = Stored
            /\ \/ missed' = "owned" \/ profile' = profile
               \/ profile.owner # "us" /\ profile'.owner # "us"
  <2>1. CASE (Creates \/ Patches) /\ Publish(Stored)
    BY <1>1, <2>1, PublishMissed DEF HealInv, NoDifference, Creates, Patches
  <2>2. CASE NoDifference /\ UNCHANGED <<profile, missed>>
    BY <1>1, <2>2 DEF HealInv, CacheInv, NoDifference, Creates, Patches
  <2> QED
    BY <2>1, <2>2 DEF WriteProfile
<1>3. Noticed' \/ Matches(seen)'
  <2>1. CASE Noticed
    BY <1>1, <1>2, <2>1 DEF Noticed
  <2>2. CASE found = profile /\ NoDifference /\ UNCHANGED <<profile, missed>>
    <3>1. profile' = Wanted(found)
      BY <2>2 DEF NoDifference
    <3> QED
      BY <1>1, <3>1, WantedMatches DEF Matches, Coherent
  <2>3. CASE found = profile /\ (Creates \/ Patches)
    <3>1. found \in Profile /\ Wanted(found) \in Profile
      BY WantedType DEF TypeOK
    <3>2. Stored = Wanted(found)
      BY <2>3, <3>1, FreshPatch DEF Stored
    <3>3. profile' = Wanted(found)
      BY <1>2, <2>3, <3>2
    <3> QED
      BY <1>1, <3>3, WantedMatches DEF Matches, Coherent
  <2>4. CASE found.owner # "us" /\ profile.owner # "us"
    <3>1. Creates \/ Patches
      BY <1>2, <2>4 DEF NoDifference
    <3>2. profile'.owner = "us"
      BY <1>2, <2>4, <3>1, StoredOurs
    <3> QED
      BY <1>2, <2>4, <3>1, <3>2 DEF Noticed
  <2> QED
    BY <1>1, <1>2, <2>1, <2>2, <2>3, <2>4 DEF HealInv, FoundInv
<1>4. SuccessInv'
  BY <1>1, <1>3 DEF SuccessInv
<1>5. FoundInv' /\ GenInv' /\ SeenInv'
  BY <1>1 DEF HealInv, FoundInv, GenInv, SeenInv, SameSpec
<1> QED
  BY <1>2, <1>4, <1>5 DEF HealInv

-----------------------------------------------------------------------------
(***************************************************************************)
(* The other steps.                                                        *)
(***************************************************************************)
\* A reconciliation that returns leaves what it was about to record, unless it
\* is retried with backoff; what it worked with is what the cache has, unless
\* another reconciliation is due.
LEMMA ReturnKeeps ==
    ASSUME TypeOK, HealInv, stage = "status",
           NEW how \in {"period", "backoff"}, Return(how), how # "backoff" => how = after,
           GenInv', UNCHANGED <<profile, cMcp, cProfile, missed>>
    PROVE  HealInv'
<1>1. stage' = "idle" /\ verdict' = verdict /\ Requeue(how)
  BY DEF Return
<1>2. CacheInv' /\ FoundInv' /\ SeenInv'
  BY <1>1 DEF HealInv, CacheInv, FoundInv, SeenInv
<1>3. ASSUME verdict.cond.value = "True"
      PROVE  queue' = "backoff" \/ Noticed' \/ Matches(cMcp)'
  <2>1. Noticed \/ Matches(seen)
    BY <1>3 DEF HealInv, SuccessInv
  <2>2. CASE Noticed
    BY <1>1, <2>2 DEF Noticed, Requeue
  <2>3. CASE queue = "now"
    BY <1>1, <2>3 DEF Noticed, Requeue
  <2>4. CASE Matches(seen) /\ SameSpec(seen, cMcp)
    BY <2>4 DEF Matches, SameSpec, Coherent
  <2> QED
    BY <2>1, <2>2, <2>3, <2>4 DEF HealInv, SeenInv
<1>4. SuccessInv'
  BY <1>1, <1>3 DEF SuccessInv
<1> QED
  BY <1>2, <1>4 DEF HealInv

\* Changing its status does not change the MCP's spec.
LEMMA StatusKeepsGen ==
    ASSUME TypeOK, HealInv, UNCHANGED cMcp,
           mcp' = mcp \/ mcp' = [mcp EXCEPT !.status = PatchedStatus]
    PROVE  GenInv'
  BY DEF TypeOK, Mcp, HealInv, GenInv, SameSpec

\* When the cache catches up with a new generation the MCP is enqueued; with
\* the same generation the spec is the same.
LEMMA SyncMcpKeeps == TypeOK /\ HealInv /\ SyncMcp => HealInv'
<1> SUFFICES ASSUME TypeOK, HealInv, SyncMcp PROVE HealInv'
  OBVIOUS
<1>1. /\ cMcp' = mcp /\ mcp' = mcp /\ mcp.gen \in Nat
      /\ UNCHANGED <<profile, cProfile, missed, stage, seen, found, verdict>>
  BY DEF SyncMcp, apiVars, localVars, TypeOK, Mcp
<1>2. CASE cMcp.exists = mcp.exists /\ cMcp.gen = mcp.gen
  <2>1. queue' = queue
    BY <1>2 DEF SyncMcp
  <2>2. mcp.exists => SameSpec(cMcp, mcp)
    BY <1>2 DEF HealInv, GenInv
  <2>3. SeenInv'
    BY <1>1, <1>2, <2>1, <2>2 DEF HealInv, SeenInv, SameSpec
  <2>4. SuccessInv'
    BY <1>1, <1>2, <2>1, <2>2
    DEF HealInv, SuccessInv, SameSpec, Noticed, Matches, Coherent
  <2> QED
    BY <1>1, <2>1, <2>3, <2>4 DEF HealInv, CacheInv, FoundInv, GenInv, SameSpec, Noticed
<1>3. CASE cMcp.exists # mcp.exists \/ cMcp.gen # mcp.gen
  <2>1. queue' = "now"
    BY <1>3 DEF SyncMcp
  <2> QED
    BY <1>1, <2>1
    DEF HealInv, CacheInv, FoundInv, GenInv, SeenInv, SuccessInv, SameSpec, Noticed
<1> QED
  BY <1>2, <1>3

\* When the cache catches up with the CloudProfile, what was noticed is due.
LEMMA SyncProfileKeeps == TypeOK /\ HealInv /\ SyncProfile => HealInv'
<1> SUFFICES ASSUME TypeOK, HealInv, SyncProfile PROVE HealInv'
  OBVIOUS
<1>1. /\ cProfile' = profile /\ missed' = "nothing" /\ missed # "nothing"
      /\ queue' = IF missed = "owned" THEN "now" ELSE queue
      /\ UNCHANGED <<mcp, profile, cMcp, stage, seen, found, verdict>>
  BY DEF SyncProfile, apiVars, localVars
<1>2. Noticed => Noticed'
  BY <1>1 DEF Noticed
<1>3. CacheInv' /\ GenInv' /\ SeenInv'
  BY <1>1 DEF HealInv, CacheInv, GenInv, SeenInv, SameSpec
<1>4. FoundInv'
  BY <1>1, <1>2 DEF HealInv, FoundInv
<1>5. SuccessInv'
  BY <1>1, <1>2 DEF HealInv, SuccessInv, Matches, Coherent, Noticed
<1> QED
  BY <1>3, <1>4, <1>5 DEF HealInv

\* No step of the controller, the API server or the world breaks it.
LEMMA HealStep == TypeInv /\ HealInv /\ [Next]_vars => HealInv'
<1> SUFFICES ASSUME TypeInv, HealInv, [Next]_vars PROVE HealInv'
  OBVIOUS
<1> USE DEF TypeInv
\* A reconciliation starts with the cached spec, or does not start.
<1>1. ASSUME Start PROVE HealInv'
  BY <1>1 DEF Start, AfterImages, apiVars, cacheVars, HealInv, CacheInv, FoundInv,
     GenInv, SeenInv, SuccessInv, SameSpec
<1>2. ASSUME StartNotFound \/ StartListFails PROVE HealInv'
  BY <1>2 DEF StartNotFound, StartListFails, apiVars, cacheVars, localVars, HealInv,
     CacheInv, FoundInv, GenInv, SeenInv, SuccessInv, SameSpec
<1>3. ASSUME FetchImages \/ FetchKube PROVE HealInv'
  BY <1>3, FetchKeeps DEF FetchImages, FetchKube, AfterImages, apiVars, cacheVars
<1>4. ASSUME ReadProfile PROVE HealInv'
  BY <1>4 DEF ReadProfile, apiVars, cacheVars, HealInv, CacheInv, FoundInv, GenInv,
     SeenInv, SuccessInv, SameSpec, Noticed, TypeOK
<1>5. ASSUME FetchImagesFails \/ FetchKubeFails \/ WriteRejected \/ WriteInvalid
      PROVE  HealInv'
  <2>1. PICK why, how : Conclude(Failed(why), how)
    BY <1>5 DEF FetchImagesFails, FetchKubeFails, WriteRejected, WriteInvalid
  <2>2. CacheInv'
    BY <1>5 DEF FetchImagesFails, FetchKubeFails, WriteRejected, WriteInvalid, apiVars,
       cacheVars, HealInv, CacheInv
  <2> QED
    BY <1>5, <2>1, <2>2, FailureKeeps
    DEF FetchImagesFails, FetchKubeFails, WriteRejected, WriteInvalid, apiVars, cacheVars
<1>6. ASSUME WriteErrs PROVE HealInv'
  <2>1. CacheInv'
    BY <1>6, PublishMissed DEF WriteErrs, HealInv, CacheInv
  <2> QED
    BY <1>6, <2>1, FailureKeeps DEF WriteErrs
<1>7. ASSUME WriteProfile PROVE HealInv'
  BY <1>7, WriteKeeps
<1>8. ASSUME SkipStatus \/ PatchStatus \/ PatchStatusNotFound \/ PatchStatusErrs
      PROVE  HealInv'
  <2>1. PICK how \in {"period", "backoff"} : Return(how) /\ (how # "backoff" => how = after)
    BY <1>8 DEF SkipStatus, PatchStatus, PatchStatusNotFound, PatchStatusErrs, TypeOK
  <2>2. GenInv'
    BY <1>8, StatusKeepsGen
    DEF SkipStatus, PatchStatus, PatchStatusNotFound, PatchStatusErrs, apiVars, cacheVars
  <2> QED
    BY <1>8, <2>1, <2>2, ReturnKeeps
    DEF SkipStatus, PatchStatus, PatchStatusNotFound, PatchStatusErrs, apiVars, cacheVars
<1>9. ASSUME Restart PROVE HealInv'
  <2>1. /\ cMcp' = mcp' /\ cProfile' = profile' /\ missed' = "nothing"
        /\ stage' = "idle" /\ verdict'.cond.value = "none" /\ mcp' = mcp
    BY <1>9 DEF Restart, NoStatus, apiVars
  <2>2. mcp.gen \in Nat
    BY DEF TypeOK, Mcp
  <2> QED
    BY <2>1, <2>2 DEF HealInv, CacheInv, FoundInv, GenInv, SeenInv, SuccessInv, SameSpec
<1>10. ASSUME SyncMcp PROVE HealInv'
  BY <1>10, SyncMcpKeeps
<1>11. ASSUME SyncProfile PROVE HealInv'
  BY <1>11, SyncProfileKeeps
<1>12. ASSUME Elapse PROVE HealInv'
  BY <1>12 DEF Elapse, apiVars, cacheVars, localVars, HealInv, CacheInv, FoundInv, GenInv,
     SeenInv, SuccessInv, SameSpec, Noticed
\* A new generation is ahead of the cache.
<1>13. ASSUME NEW b \in Bases, NEW p \in BOOLEAN, EditSpec(b, p) PROVE HealInv'
  <2>1. /\ mcp'.exists = mcp.exists /\ mcp'.gen = mcp.gen + 1
        /\ mcp.gen \in Nat /\ cMcp.gen \in Nat
    BY <1>13 DEF EditSpec, TypeOK, Mcp
  <2>2. GenInv'
    BY <1>13, <2>1 DEF EditSpec, cacheVars, HealInv, GenInv
  <2>3. CacheInv' /\ FoundInv' /\ SeenInv'
    BY <1>13 DEF EditSpec, cacheVars, localVars, HealInv, CacheInv, FoundInv, SeenInv,
       SameSpec, Noticed
  <2>4. SuccessInv'
    BY <1>13 DEF EditSpec, cacheVars, localVars, HealInv, SuccessInv, Noticed, Matches, Coherent
  <2> QED
    BY <2>2, <2>3, <2>4 DEF HealInv
<1>14. ASSUME DeleteMcp PROVE HealInv'
  BY <1>14 DEF DeleteMcp, NoMcp, cacheVars, localVars, HealInv, CacheInv, FoundInv, GenInv,
     SeenInv, SuccessInv, SameSpec, Noticed, Matches, Coherent
<1>15. ASSUME SourceChanges \/ UNCHANGED vars PROVE HealInv'
  BY <1>15 DEF SourceChanges, vars, apiVars, cacheVars, localVars, HealInv, CacheInv,
     FoundInv, GenInv, SeenInv, SuccessInv, SameSpec, Noticed, Matches, Coherent
<1>16. ASSUME ForeignEdit \/ CollectOrphan PROVE HealInv'
  <2>1. PICK new : Publish(new)
    BY <1>16 DEF ForeignEdit, CollectOrphan
  <2> QED
    BY <1>16, <2>1, ForeignKeeps DEF ForeignEdit, CollectOrphan
<1> QED
  BY <1>1, <1>2, <1>3, <1>4, <1>5, <1>6, <1>7, <1>8, <1>9, <1>10, <1>11, <1>12, <1>13, <1>14, <1>15, <1>16
  DEF Next, Work, Faults, Environment

\* While nothing is under way or due, a success means what it says.
LEMMA SuccessHolds ==
    HealInv /\ UpToDate => Healing \/ (cMcp = mcp /\ Matches(mcp))
  BY DEF HealInv, SuccessInv, UpToDate, Healing, Noticed, Matches, Coherent

\* However stale the copies CreateOrPatch works from, and whatever else writes
\* the CloudProfile: "applied" for the current generation means that its
\* hand-written part is there, or that a reconciliation is due at once.
THEOREM AppliedMeansApplied == Spec => []AppliedOrHealing
<1>1. HealInv => AppliedOrHealing
  BY SuccessHolds DEF AppliedOrHealing, Matches
<1> QED
  BY <1>1, TypeInit, TypeStep, HealInit, HealStep, PTL DEF Spec

\* The merge patch may replace the machine images without their provider
\* config, or the reverse; such a mixture does not survive unnoticed.
THEOREM MixturesHeal == Spec => []CoherentOrHealing
<1>1. HealInv => CoherentOrHealing
  BY SuccessHolds DEF CoherentOrHealing, Matches
<1> QED
  BY <1>1, TypeInit, TypeStep, HealInit, HealStep, PTL DEF Spec

-----------------------------------------------------------------------------
(***************************************************************************)
(* A pause that was acknowledged.  The mutate closure resets machine       *)
(* images only when the copy it read shows none, but that copy may be      *)
(* older than the images; what saves them is that the copy cannot be older *)
(* than the acknowledgement without the reset being one already made.      *)
(***************************************************************************)
\* Generations only grow, along mcp, cMcp, seen and what was recorded last.
OrderInv ==
    mcp.exists =>
        /\ cMcp.exists /\ cMcp.gen <= mcp.gen
        /\ cMcp.gen = mcp.gen => SameSpec(cMcp, mcp)
        /\ mcp.status.cond.obs <= cMcp.gen
        /\ stage # "idle" =>
              /\ seen.gen <= cMcp.gen
              /\ seen.gen = mcp.gen => SameSpec(seen, mcp)
              /\ mcp.status.cond.obs <= seen.gen
        /\ stage = "status" => verdict.cond.obs = seen.gen
        /\ verdict.cond.value = "True" =>
              /\ mcp.status.cond.obs <= verdict.cond.obs
              /\ verdict.cond.obs <= cMcp.gen

\* An absent CloudProfile has no images.
AbsentInv ==
    \A p \in {profile, cProfile, found} : p.owner = "absent" => NoImages(p.images)

SameImages(p, q) == p.images = q.images /\ p.config = q.config

\* What the cache shows when CreateOrPatch writes: what it showed when
\* CreateOrPatch read, or the live images, which nobody else writes.
ReadImagesInv ==
    stage = "write" =>
        \/ profile.owner = "absent"
        \/ SameImages(cProfile, found)
        \/ SameImages(cProfile, profile)

\* Reading p instead of the live profile resets no images, and no provider
\* config but that of images which are the base's.
Harmless(p) ==
    NoImages(p.images) =>
        /\ BaseImages(mcp.base) \in {p.images, profile.images}
        /\ \/ profile.images = BaseImages(mcp.base)
           \/ BaseConfig(mcp.base) \in {p.config, profile.config}

\* The last success was of this, paused, generation.
Paused == mcp.exists /\ mcp.paused /\ verdict.cond.value = "True" /\ verdict.cond.obs = mcp.gen

PausedInv ==
    Paused /\ profile.owner = "us" /\ ~NoImages(profile.images) =>
        Harmless(cProfile) /\ (stage = "write" => Harmless(found))

PauseInv == OrderInv /\ AbsentInv /\ ReadImagesInv /\ PausedInv

\* What generations are compared as.
LEMMA Generations ==
    ASSUME TypeOK
    PROVE  /\ mcp.gen \in Nat /\ cMcp.gen \in Nat /\ seen.gen \in Nat
           /\ mcp.status.cond.obs \in Nat /\ verdict.cond.obs \in Nat
  BY DEF TypeOK, Mcp, Status, Condition

\* The order is kept by a step that leaves the MCP, its copies, what is
\* recorded and the end of a reconciliation alone.
LEMMA OrderIdles ==
    ASSUME OrderInv, UNCHANGED <<mcp, cMcp, seen, verdict>>, stage' # "status",
           stage' # "idle" => stage # "idle"
    PROVE  OrderInv'
  BY DEF OrderInv, SameSpec

\* A status about to be recorded is of the generation that was read.
LEMMA OrderConcludes ==
    ASSUME TypeOK, OrderInv, stage # "idle", NEW status, NEW how, Conclude(status, how),
           status.cond.obs = seen.gen, UNCHANGED <<mcp, cMcp, seen>>
    PROVE  OrderInv'
  BY Generations DEF OrderInv, SameSpec, Conclude

\* Recording it leaves the order as it was.
LEMMA OrderReturns ==
    ASSUME TypeOK, OrderInv, stage = "status", NEW how, Return(how), cMcp' = cMcp,
           mcp' = mcp \/ mcp' = [mcp EXCEPT !.status = PatchedStatus]
    PROVE  OrderInv'
<1>1. CASE mcp' = mcp
  BY <1>1 DEF Return, OrderInv, SameSpec
<1>2. CASE mcp' = [mcp EXCEPT !.status = PatchedStatus]
  <2>1. /\ mcp'.exists = mcp.exists /\ mcp'.gen = mcp.gen
        /\ mcp'.base = mcp.base /\ mcp'.paused = mcp.paused
        /\ mcp'.status = PatchedStatus
    BY <1>2 DEF TypeOK, Mcp
  <2>2. PatchedStatus.cond \in {mcp.status.cond, verdict.cond}
    BY DEF PatchedStatus
  <2>3. mcp'.status.cond.obs \in {mcp.status.cond.obs, verdict.cond.obs}
    BY <2>1, <2>2
  <2> QED
    <3>1. stage' = "idle" /\ verdict' = verdict
      BY DEF Return
    <3>2. SameSpec(cMcp, mcp) => (SameSpec(cMcp, mcp))'
      BY <2>1 DEF SameSpec
    <3> QED
      BY <2>1, <2>3, <3>1, <3>2, Generations DEF OrderInv
<1> QED
  BY <1>1, <1>2

\* Generations grow along mcp, cMcp, seen and the status, whatever happens.
LEMMA OrderStep == TypeInv /\ OrderInv /\ [Next]_vars => OrderInv'
<1> SUFFICES ASSUME TypeInv, OrderInv, [Next]_vars PROVE OrderInv'
  OBVIOUS
<1> USE DEF TypeInv
<1>1. ASSUME Start PROVE OrderInv'
  <2>1. /\ seen' = cMcp /\ stage' \in {"images", "kube", "read"}
        /\ UNCHANGED <<mcp, cMcp, verdict>>
    BY <1>1 DEF Start, AfterImages, apiVars, cacheVars
  <2>2. SameSpec(cMcp, mcp) => (SameSpec(cMcp, mcp))' /\ (SameSpec(seen, mcp))'
    BY <2>1 DEF SameSpec
  <2> QED
    BY <2>1, <2>2, Generations DEF OrderInv
<1>2. ASSUME \/ StartNotFound \/ StartListFails \/ FetchImages \/ FetchKube \/ ReadProfile
      PROVE  OrderInv'
  BY <1>2, OrderIdles DEF StartNotFound, StartListFails, FetchImages, FetchKube, ReadProfile,
     AfterImages, apiVars, cacheVars, localVars
<1>3. ASSUME \/ FetchImagesFails \/ FetchKubeFails
             \/ WriteProfile \/ WriteRejected \/ WriteInvalid \/ WriteErrs
      PROVE  OrderInv'
  <2>1. /\ Succeeded.cond.obs = seen.gen
        /\ Failed("fetch").cond.obs = seen.gen /\ Failed("apply").cond.obs = seen.gen
    BY DEF Succeeded, Failed
  <2>2. PICK status, how : Conclude(status, how) /\ status.cond.obs = seen.gen
    BY <1>3, <2>1 DEF FetchImagesFails, FetchKubeFails, WriteProfile, WriteRejected,
       WriteInvalid, WriteErrs
  <2> QED
    BY <1>3, <2>2, OrderConcludes DEF FetchImagesFails, FetchKubeFails, WriteProfile,
       WriteRejected, WriteInvalid, WriteErrs, apiVars, cacheVars
<1>4. ASSUME SkipStatus \/ PatchStatus \/ PatchStatusNotFound \/ PatchStatusErrs
      PROVE  OrderInv'
  <2>1. PICK how : Return(how)
    BY <1>4 DEF SkipStatus, PatchStatus, PatchStatusNotFound, PatchStatusErrs
  <2> QED
    BY <1>4, <2>1, OrderReturns
    DEF SkipStatus, PatchStatus, PatchStatusNotFound, PatchStatusErrs, apiVars, cacheVars
<1>5. ASSUME Restart PROVE OrderInv'
  <2>1. /\ mcp' = mcp /\ cMcp' = mcp
        /\ stage' = "idle" /\ verdict'.cond.value = "none"
    BY <1>5 DEF Restart, NoStatus, apiVars
  <2> QED
    BY <2>1, Generations DEF OrderInv, SameSpec
<1>6. ASSUME SyncMcp PROVE OrderInv'
  <2>1. /\ mcp' = mcp /\ cMcp' = mcp
        /\ UNCHANGED <<stage, seen, verdict>>
    BY <1>6 DEF SyncMcp, apiVars, localVars
  <2> SUFFICES ASSUME mcp.exists PROVE OrderInv'
    BY <2>1 DEF OrderInv
  <2>2. SameSpec(mcp, mcp)
    BY DEF SameSpec
  <2>3. (SameSpec(cMcp, mcp))' /\ (SameSpec(seen, mcp) => (SameSpec(seen, mcp))')
    BY <2>1, <2>2 DEF SameSpec
  <2> QED
    BY <2>1, <2>3, Generations DEF OrderInv
<1>7. ASSUME NEW b \in Bases, NEW p \in BOOLEAN, EditSpec(b, p) PROVE OrderInv'
  <2>1. /\ mcp'.exists = mcp.exists /\ mcp'.gen = mcp.gen + 1 /\ mcp'.status = mcp.status
        /\ UNCHANGED <<cMcp, stage, seen, verdict>>
    BY <1>7 DEF EditSpec, cacheVars, localVars, TypeOK, Mcp
  <2> QED
    BY <2>1, Generations DEF OrderInv
<1>8. ASSUME DeleteMcp PROVE OrderInv'
  BY <1>8 DEF DeleteMcp, NoMcp, OrderInv
<1>9. ASSUME \/ SyncProfile \/ Elapse \/ SourceChanges \/ ForeignEdit \/ CollectOrphan
             \/ UNCHANGED vars
      PROVE  OrderInv'
  BY <1>9 DEF SyncProfile, Elapse, SourceChanges, ForeignEdit, CollectOrphan, vars, apiVars,
     cacheVars, localVars, OrderInv, SameSpec
<1> QED
  BY <1>1, <1>2, <1>3, <1>4, <1>5, <1>6, <1>7, <1>8, <1>9 DEF Next, Work, Faults, Environment

-----------------------------------------------------------------------------
(***************************************************************************)
(* What a write does to the images.                                        *)
(***************************************************************************)
\* Nothing, the base's own, or what was fetched.
LEMMA AbsentHasNone == NoImages(NoProfile.images)
  BY ConstantsAssumption DEF NoImages, NoProfile, BaseImages

\* While the spec is paused, a copy that shows images leaves the live ones, and
\* one that shows none makes them the base's unless it shows that base already.
LEMMA PausedWrite ==
    ASSUME seen.paused, AbsentInv, Creates \/ Patches
    PROVE  /\ ~NoImages(found.images) => ~Creates /\ SameImages(Stored, profile)
           /\ ~Creates /\ found.images = BaseImages(seen.base) =>
                 Stored.images = profile.images
           /\ NoImages(found.images) =>
                 \/ Stored.images = BaseImages(seen.base)
                 \/ /\ ~Creates /\ found.images = BaseImages(seen.base)
                    /\ Stored.images = profile.images
           /\ NoImages(found.images) =>
                 \/ Stored.config = BaseConfig(seen.base)
                 \/ /\ ~Creates /\ found.config = BaseConfig(seen.base)
                    /\ Stored.config = profile.config
<1>1. /\ WantedImages(found) =
           IF NoImages(found.images) THEN BaseImages(seen.base) ELSE found.images
      /\ WantedConfig(found) =
           IF NoImages(found.images) THEN BaseConfig(seen.base) ELSE found.config
  BY DEF WantedImages, WantedConfig
<1>2. CASE Creates
  BY <1>1, <1>2 DEF Stored, Wanted, Creates, AbsentInv
<1>3. CASE ~Creates
  <2>1. /\ Stored.images = IF WantedImages(found) = found.images
                            THEN profile.images ELSE WantedImages(found)
        /\ Stored.config = IF WantedConfig(found) = found.config
                            THEN profile.config ELSE WantedConfig(found)
    BY <1>3 DEF Stored, MergePatch, Wanted
  <2> QED
    BY <1>1, <1>3, <2>1 DEF SameImages
<1> QED
  BY <1>2, <1>3

\* A success, or a write whose answer is lost, leaves a CloudProfile of ours.
LEMMA StoredPresent ==
    ASSUME Creates \/ Patches, AbsentInv
    PROVE  Stored.owner # "absent"
<1>1. CASE Creates
  BY <1>1 DEF Stored, Wanted
<1>2. CASE ~Creates
  BY <1>2 DEF Stored, Patches, MergePatch, Wanted
<1> QED
  BY <1>1, <1>2

\* No step makes an absent CloudProfile one with images.
LEMMA AbsentStep == TypeInv /\ AbsentInv /\ [Next]_vars => AbsentInv'
<1> SUFFICES ASSUME TypeInv, AbsentInv, [Next]_vars PROVE AbsentInv'
  OBVIOUS
<1>1. ASSUME profile' = profile, cProfile' \in {profile, cProfile},
             found' \in {found, cProfile, NoProfile}
      PROVE  AbsentInv'
  BY <1>1, AbsentHasNone DEF AbsentInv, NoImages
<1>2. ASSUME WriteProfile \/ WriteErrs PROVE AbsentInv'
  <2>1. profile' = profile \/ (profile' = Stored /\ (Creates \/ Patches))
    BY <1>2 DEF WriteProfile, WriteErrs, Publish
  <2>2. profile'.owner = "absent" => profile' = profile
    BY <2>1, StoredPresent
  <2> QED
    BY <1>2, <2>2 DEF WriteProfile, WriteErrs, AbsentInv, NoImages
<1>3. ASSUME ForeignEdit \/ CollectOrphan PROVE AbsentInv'
  <2>1. \/ profile'.owner = profile.owner /\ profile'.images = profile.images
        \/ profile' = NoProfile
    BY <1>3 DEF ForeignEdit, CollectOrphan, Publish, TypeInv, TypeOK, Profile
  <2>2. UNCHANGED <<cProfile, found>>
    BY <1>3 DEF ForeignEdit, CollectOrphan, localVars
  <2> QED
    BY <2>1, <2>2, AbsentHasNone DEF AbsentInv, NoImages
<1>4. ASSUME NEW b \in Bases, NEW p \in BOOLEAN, EditSpec(b, p) PROVE AbsentInv'
  BY <1>1, <1>4 DEF EditSpec, cacheVars, localVars
<1>5. CASE \/ Start \/ StartNotFound \/ StartListFails \/ FetchImages \/ FetchImagesFails
           \/ FetchKube \/ FetchKubeFails \/ ReadProfile \/ WriteRejected \/ WriteInvalid
  BY <1>1, <1>5 DEF Start, StartNotFound, StartListFails, FetchImages, FetchImagesFails,
     FetchKube, FetchKubeFails, ReadProfile, WriteRejected, WriteInvalid, apiVars, cacheVars,
     localVars
<1>6. CASE \/ SkipStatus \/ PatchStatus \/ PatchStatusNotFound \/ PatchStatusErrs \/ Restart
  BY <1>1, <1>6 DEF SkipStatus, PatchStatus, PatchStatusNotFound, PatchStatusErrs, Restart,
     Return, ClearLocals, apiVars, cacheVars
<1>7. CASE \/ SyncMcp \/ SyncProfile \/ Elapse \/ DeleteMcp \/ SourceChanges \/ UNCHANGED vars
  BY <1>1, <1>7 DEF SyncMcp, SyncProfile, Elapse, DeleteMcp, SourceChanges, vars, apiVars,
     cacheVars, localVars
<1> QED
  BY <1>2, <1>3, <1>4, <1>5, <1>6, <1>7 DEF Next, Work, Faults, Environment

\* Somebody else's write leaves the images, or the CloudProfile is gone.
LEMMA ForeignImages ==
    ASSUME TypeOK, ForeignEdit \/ CollectOrphan
    PROVE  \/ profile'.owner = profile.owner /\ SameImages(profile', profile)
           \/ profile'.owner = "absent"
  BY DEF ForeignEdit, CollectOrphan, Publish, TypeOK, Profile, NoProfile, SameImages

\* No step gives the cache other images than those read or the live ones.
LEMMA ReadImagesStep == TypeInv /\ ReadImagesInv /\ [Next]_vars => ReadImagesInv'
<1> SUFFICES ASSUME TypeInv, ReadImagesInv, [Next]_vars PROVE ReadImagesInv'
  OBVIOUS
<1>1. ASSUME ForeignEdit \/ CollectOrphan PROVE ReadImagesInv'
  <2>1. UNCHANGED <<cProfile, found, stage>>
    BY <1>1 DEF ForeignEdit, CollectOrphan, localVars
  <2> QED
    BY <1>1, <2>1, ForeignImages DEF ReadImagesInv, SameImages, TypeInv
<1>2. ASSUME ReadProfile \/ SyncProfile PROVE ReadImagesInv'
  BY <1>2 DEF ReadProfile, SyncProfile, ReadImagesInv, SameImages, apiVars, cacheVars, localVars
<1>3. ASSUME NEW b \in Bases, NEW p \in BOOLEAN, EditSpec(b, p) PROVE ReadImagesInv'
  BY <1>3 DEF EditSpec, ReadImagesInv, SameImages, cacheVars, localVars
<1>4. CASE \/ StartNotFound \/ StartListFails \/ SyncMcp \/ Elapse \/ DeleteMcp
           \/ SourceChanges \/ UNCHANGED vars
  BY <1>4 DEF StartNotFound, StartListFails, SyncMcp, Elapse, DeleteMcp, SourceChanges, vars,
     ReadImagesInv, SameImages, apiVars, cacheVars, localVars
<1>5. ASSUME stage' # "write" PROVE ReadImagesInv'
  BY <1>5 DEF ReadImagesInv
<1>6. CASE Start \/ FetchImages \/ FetchKube
  BY <1>5, <1>6 DEF Start, FetchImages, FetchKube, AfterImages
<1>7. CASE \/ FetchImagesFails \/ FetchKubeFails \/ WriteProfile \/ WriteRejected
           \/ WriteInvalid \/ WriteErrs
  BY <1>5, <1>7 DEF FetchImagesFails, FetchKubeFails, WriteProfile, WriteRejected,
     WriteInvalid, WriteErrs, Conclude
<1>8. CASE \/ SkipStatus \/ PatchStatus \/ PatchStatusNotFound \/ PatchStatusErrs \/ Restart
  BY <1>5, <1>8 DEF SkipStatus, PatchStatus, PatchStatusNotFound, PatchStatusErrs, Restart,
     Return
<1> QED
  BY <1>1, <1>2, <1>3, <1>4, <1>6, <1>7, <1>8 DEF Next, Work, Faults, Environment

\* A success for a paused generation leaves no copy that would reset images.
LEMMA PausedWriteKeeps ==
    ASSUME TypeInv, OrderInv, AbsentInv, ReadImagesInv, WriteProfile
    PROVE  PausedInv'
<1> USE DEF TypeInv
<1>1. /\ stage = "write" /\ stage' = "status" /\ verdict' = Succeeded
      /\ UNCHANGED <<mcp, cProfile, found, seen>>
  BY DEF WriteProfile, Conclude
<1> DEFINE b == mcp.base
<1> SUFFICES ASSUME Paused', profile'.owner = "us", ~NoImages(profile'.images),
                    NoImages(cProfile.images)
             PROVE  /\ BaseImages(b) \in {cProfile.images, profile'.images}
                    /\ \/ profile'.images = BaseImages(b)
                       \/ BaseConfig(b) \in {cProfile.config, profile'.config}
  BY <1>1 DEF PausedInv, Harmless, NoImages
<1>2. seen.paused /\ seen.base = b
  <2>1. mcp.exists /\ mcp.paused /\ seen.gen = mcp.gen
    BY <1>1 DEF Paused, Succeeded
  <2> QED
    BY <1>1, <2>1 DEF OrderInv, SameSpec
<1> HIDE DEF b
\* If the images are those CreateOrPatch met, the copy is the one it read.
<1>3. ASSUME profile'.images = profile.images, profile.owner # "absent"
      PROVE  SameImages(cProfile, found)
  <2>1. cProfile.images # profile.images
    BY <1>3
  <2> QED
    BY <1>1, <1>3, <2>1 DEF ReadImagesInv, SameImages
<1>4. CASE Creates \/ Patches
  <2>1. profile' = Stored
    BY <1>4 DEF WriteProfile, Publish, NoDifference, Creates, Patches
  <2>2. CASE Stored.images = BaseImages(b)
    BY <2>1, <2>2
  <2>3. CASE ~Creates /\ Stored.images = profile.images
    <3>1. profile.owner # "absent"
      BY <1>4, <2>3 DEF Patches
    <3>2. SameImages(cProfile, found)
      BY <1>3, <2>1, <2>3, <3>1
    <3>3. NoImages(found.images)
      BY <3>2 DEF SameImages
    <3>4. Stored.images = BaseImages(b) \/ found.images = BaseImages(b)
      BY <1>2, <1>4, <3>3, PausedWrite
    <3>5. Stored.config = BaseConfig(b) \/ found.config = BaseConfig(b)
      BY <1>2, <1>4, <3>3, PausedWrite
    <3> QED
      BY <2>1, <3>2, <3>4, <3>5 DEF SameImages
  <2> QED
    <3>1. CASE NoImages(found.images)
      BY <1>2, <1>4, <2>2, <2>3, <3>1, PausedWrite
    <3>2. CASE ~NoImages(found.images)
      BY <1>2, <1>4, <2>3, <3>2, PausedWrite DEF SameImages
    <3> QED
      BY <3>1, <3>2
<1>5. CASE ~(Creates \/ Patches)
  <2>1. NoDifference /\ profile' = profile
    BY <1>5 DEF WriteProfile
  <2>2. SameImages(cProfile, found)
    BY <1>3, <2>1
  <2>3. NoImages(found.images)
    BY <2>2 DEF SameImages
  <2>4. found.images = BaseImages(b) /\ found.config = BaseConfig(b)
    BY <1>2, <2>1, <2>3 DEF NoDifference, Wanted, WantedImages, WantedConfig
  <2> QED
    BY <2>2, <2>4 DEF SameImages
<1> QED
  BY <1>4, <1>5

\* Nothing else makes a copy that would reset images.
LEMMA PausedStep ==
    TypeInv /\ PauseInv /\ [Next]_vars => PausedInv'
<1> SUFFICES ASSUME TypeInv, PauseInv, [Next]_vars PROVE PausedInv'
  OBVIOUS
<1> USE DEF TypeInv
\* What is paused, live and cached stays, and nothing is read.
<1>1. ASSUME UNCHANGED <<profile, cProfile, found, verdict>>,
             mcp'.exists = mcp.exists, mcp'.gen = mcp.gen, mcp'.base = mcp.base,
             mcp'.paused = mcp.paused, stage' = "write" => stage = "write"
      PROVE  PausedInv'
  BY <1>1 DEF PauseInv, PausedInv, Paused, Harmless, NoImages
<1>2. ASSUME ~Paused' PROVE PausedInv'
  BY <1>2 DEF PausedInv
<1>3. CASE WriteProfile
  BY <1>3, PausedWriteKeeps DEF PauseInv
<1>4. CASE \/ FetchImagesFails \/ FetchKubeFails \/ WriteRejected \/ WriteInvalid
           \/ WriteErrs \/ Restart
  <2>1. verdict'.cond.value # "True"
    <3>1. CASE Restart
      BY <3>1 DEF Restart, NoStatus
    <3>2. CASE ~Restart
      <4>1. PICK why : verdict' = Failed(why)
        BY <1>4, <3>2 DEF FetchImagesFails, FetchKubeFails, WriteRejected, WriteInvalid,
           WriteErrs, Conclude
      <4> QED
        BY <4>1 DEF Failed
    <3> QED
      BY <3>1, <3>2
  <2> QED
    BY <1>2, <2>1 DEF Paused
<1>5. CASE \/ Start \/ StartNotFound \/ StartListFails \/ FetchImages \/ FetchKube
           \/ SyncMcp \/ Elapse \/ SourceChanges \/ UNCHANGED vars
  BY <1>1, <1>5 DEF Start, StartNotFound, StartListFails, FetchImages, FetchKube, SyncMcp,
     Elapse, SourceChanges, vars, AfterImages, apiVars, cacheVars, localVars
<1>6. CASE ReadProfile
  <2>1. found' = cProfile /\ UNCHANGED <<mcp, profile, cProfile, verdict>>
    BY <1>6 DEF ReadProfile, apiVars, cacheVars
  <2> QED
    BY <2>1 DEF PauseInv, PausedInv, Paused, Harmless, NoImages
<1>7. CASE SyncProfile
  <2>1. cProfile' = profile /\ UNCHANGED <<mcp, profile, found, verdict, stage>>
    BY <1>7 DEF SyncProfile, apiVars, localVars
  <2> QED
    BY <2>1 DEF PauseInv, PausedInv, Paused, Harmless, NoImages
<1>8. CASE SkipStatus \/ PatchStatus \/ PatchStatusNotFound \/ PatchStatusErrs
  <2>1. stage' = "idle" /\ UNCHANGED <<profile, cProfile, verdict>>
    BY <1>8 DEF SkipStatus, PatchStatus, PatchStatusNotFound, PatchStatusErrs, Return,
       apiVars, cacheVars
  <2>2. mcp' = mcp \/ mcp' = [mcp EXCEPT !.status = PatchedStatus]
    BY <1>8 DEF SkipStatus, PatchStatus, PatchStatusNotFound, PatchStatusErrs, apiVars
  <2>3. /\ mcp'.exists = mcp.exists /\ mcp'.gen = mcp.gen
        /\ mcp'.base = mcp.base /\ mcp'.paused = mcp.paused
    BY <2>2 DEF TypeOK, Mcp
  <2> QED
    BY <2>1, <2>3 DEF PauseInv, PausedInv, Paused, Harmless, NoImages
\* A new generation was not the last success; a deleted MCP is not paused.
<1>9. ASSUME NEW b \in Bases, NEW p \in BOOLEAN, EditSpec(b, p) PROVE PausedInv'
  <2>1. mcp.exists /\ mcp'.gen = mcp.gen + 1 /\ verdict' = verdict
    BY <1>9 DEF EditSpec, localVars, TypeOK, Mcp
  <2>2. verdict.cond.value = "True" => verdict.cond.obs <= mcp.gen
    BY <2>1, Generations DEF PauseInv, OrderInv
  <2>3. ~Paused'
    BY <2>1, <2>2, Generations DEF Paused
  <2> QED
    BY <1>2, <2>3
<1>10. CASE DeleteMcp
  <2>1. ~Paused'
    BY <1>10 DEF DeleteMcp, NoMcp, Paused
  <2> QED
    BY <1>2, <2>1
\* Somebody else's write leaves the images, or the CloudProfile is gone.
<1>11. CASE ForeignEdit \/ CollectOrphan
  <2>1. UNCHANGED <<mcp, cProfile, found, verdict, stage>>
    BY <1>11 DEF ForeignEdit, CollectOrphan, localVars
  <2> QED
    BY <1>11, <2>1, ForeignImages
    DEF PauseInv, PausedInv, Paused, Harmless, NoImages, SameImages
<1> QED
  BY <1>3, <1>4, <1>5, <1>6, <1>7, <1>8, <1>9, <1>10, <1>11 DEF Next, Work, Faults, Environment

\* The base's images and provider config belong together, and no other provider
\* config belongs to the base's images.
LEMMA BaseCoherent ==
    ASSUME NEW b, NEW config \in Config, Coherent(BaseImages(b), config)
    PROVE  config = BaseConfig(b)
<1>1. config.base = b
  BY DEF Coherent, BaseImages
<1>2. \A u \in Updates : config.got[u] = None
  <2> SUFFICES ASSUME NEW u \in Updates, config.got[u] # None PROVE FALSE
    OBVIOUS
  <2>1. BaseImages(b).vers[u] = None
    BY DEF BaseImages
  <2>2. config.got[u].vers = None
    BY <2>1 DEF Coherent
  <2>3. config.got[u] \in Fetched
    BY DEF Config
  <2>4. config.got[u].vers \in Listings
    BY <2>3 DEF Fetched
  <2> QED
    BY <2>2, <2>4, ConstantsAssumption
<1>3. config.got = [u \in Updates |-> None]
  BY <1>2 DEF Config
<1> QED
  BY <1>1, <1>3 DEF Config, BaseConfig

LEMMA BaseIsCoherent == \A b : Coherent(BaseImages(b), BaseConfig(b))
  BY DEF Coherent, BaseImages, BaseConfig

\* A step of the controller in a pause that was acknowledged leaves the images,
\* and their provider config, unless the pair was torn: then it is the base's.
LEMMA PauseLeavesImages ==
    ASSUME TypeInv, PauseInv, [Next]_vars, PauseAcknowledged, ~NoImages(profile.images),
           profile'.owner = "us"
    PROVE  /\ profile'.images = profile.images
           /\ \/ profile'.config = profile.config
              \/ /\ ~Coherent(profile.images, profile.config)
                 /\ Coherent(profile.images, profile'.config)
<1> USE DEF TypeInv
<1>1. ASSUME WriteProfile \/ WriteErrs, profile' # profile
      PROVE  /\ profile'.images = profile.images
             /\ \/ profile'.config = profile.config
                \/ /\ ~Coherent(profile.images, profile.config)
                   /\ Coherent(profile.images, profile'.config)
  <2>1. /\ stage = "write" /\ profile' = Stored /\ (Creates \/ Patches)
    BY <1>1 DEF WriteProfile, WriteErrs, Publish
  <2>2. /\ mcp.exists /\ mcp.paused /\ profile.owner = "us"
        /\ mcp.status.cond.obs = mcp.gen /\ verdict.cond.value = "True"
    BY DEF PauseAcknowledged, UpToDate
  <2>3. seen.gen = mcp.gen /\ verdict.cond.obs = mcp.gen
    BY <2>1, <2>2, Generations DEF PauseInv, OrderInv
  <2>4. seen.paused /\ seen.base = mcp.base
    BY <2>1, <2>2, <2>3 DEF PauseInv, OrderInv, SameSpec
  <2>5. Harmless(found)
    BY <2>1, <2>2, <2>3 DEF PauseInv, PausedInv, Paused
  <2>6. ~Creates
    BY <2>2 DEF Creates
  <2>7. CASE NoImages(found.images)
    <3>1. Stored.images = profile.images
      <4>1. Stored.images \in {BaseImages(mcp.base), profile.images}
        BY <2>1, <2>4, <2>7, PausedWrite DEF PauseInv
      <4>2. BaseImages(mcp.base) = found.images => Stored.images = profile.images
        BY <2>1, <2>4, <2>6, PausedWrite DEF PauseInv
      <4> QED
        BY <2>5, <2>7, <4>1, <4>2 DEF Harmless
    <3>2. CASE Stored.config = profile.config
      BY <2>1, <3>1, <3>2
    <3>3. CASE Stored.config # profile.config
      <4>1. Stored.config = BaseConfig(mcp.base) /\ found.config # BaseConfig(mcp.base)
        <5>1. Stored.config = BaseConfig(mcp.base)
          BY <2>1, <2>4, <2>7, <3>3, PausedWrite DEF PauseInv
        <5>2. found.config = BaseConfig(mcp.base) => Stored.config = profile.config
          BY <2>4, <2>6, <2>7 DEF Stored, MergePatch, Wanted, WantedConfig
        <5> QED
          BY <3>3, <5>1, <5>2
      <4>2. profile.images = BaseImages(mcp.base) /\ profile.config # BaseConfig(mcp.base)
        BY <2>5, <2>7, <3>3, <4>1 DEF Harmless
      <4>3. profile.config \in Config
        BY DEF TypeOK, Profile
      <4>4. ~Coherent(profile.images, profile.config)
        BY <4>2, <4>3, BaseCoherent
      <4>5. Coherent(profile.images, Stored.config)
        BY <4>1, <4>2, BaseIsCoherent
      <4> QED
        BY <2>1, <3>1, <4>4, <4>5
    <3> QED
      BY <3>2, <3>3
  <2>8. CASE ~NoImages(found.images)
    BY <2>1, <2>4, <2>8, PausedWrite DEF PauseInv, SameImages
  <2> QED
    BY <2>7, <2>8
<1>2. CASE ForeignEdit \/ CollectOrphan
  BY <1>2, ForeignImages DEF SameImages
<1>3. ASSUME NEW b \in Bases, NEW p \in BOOLEAN, EditSpec(b, p)
      PROVE  profile' = profile
  BY <1>3 DEF EditSpec
<1>4. CASE \/ Start \/ StartNotFound \/ StartListFails \/ FetchImages \/ FetchImagesFails
           \/ FetchKube \/ FetchKubeFails \/ ReadProfile \/ WriteRejected \/ WriteInvalid
  BY <1>4 DEF Start, StartNotFound, StartListFails, FetchImages, FetchImagesFails,
     FetchKube, FetchKubeFails, ReadProfile, WriteRejected, WriteInvalid, apiVars
<1>5. CASE \/ SkipStatus \/ PatchStatus \/ PatchStatusNotFound \/ PatchStatusErrs \/ Restart
           \/ SyncMcp \/ SyncProfile \/ Elapse \/ DeleteMcp \/ SourceChanges \/ UNCHANGED vars
  BY <1>5 DEF SkipStatus, PatchStatus, PatchStatusNotFound, PatchStatusErrs, Restart,
     SyncMcp, SyncProfile, Elapse, DeleteMcp, SourceChanges, vars, apiVars
<1> QED
  BY <1>1, <1>2, <1>3, <1>4, <1>5 DEF Next, Work, Faults, Environment

\* Before the controller first runs no success was recorded.
LEMMA PauseInit == Init => PauseInv
<1> SUFFICES ASSUME Init PROVE PauseInv
  OBVIOUS
<1>1. /\ cMcp = mcp /\ cProfile = profile /\ found = NoProfile /\ stage = "idle"
      /\ verdict.cond.value = "none" /\ mcp.status.cond.obs = 0 /\ mcp.gen = 1
  <2>1. PICK b, p : mcp = [exists |-> TRUE, gen |-> 1, base |-> b, paused |-> p,
                           status |-> NoStatus]
    BY DEF Init
  <2>2. /\ cMcp = mcp /\ cProfile = profile /\ found = NoProfile /\ stage = "idle"
        /\ verdict = NoStatus
    BY DEF Init
  <2> QED
    BY <2>1, <2>2 DEF NoStatus
<1>2. profile.owner = "absent" => NoImages(profile.images)
  BY AbsentHasNone DEF Init, HandMade
<1> QED
  BY <1>1, <1>2, AbsentHasNone
  DEF PauseInv, OrderInv, AbsentInv, ReadImagesInv, PausedInv, Paused, SameSpec, NoImages

\* Once a pause was acknowledged, no write of the controller changes or drops
\* machine images the CloudProfile has, nor their provider config unless that is
\* not theirs, for any number of generations, faults and stale reads.
THEOREM AcknowledgedPauseHolds == Spec => PauseHolds
<1>1. PauseInv /\ TypeInv /\ [Next]_vars => PauseInv'
  BY OrderStep, AbsentStep, ReadImagesStep, PausedStep DEF PauseInv
<1>2. TypeInv /\ PauseInv /\ [Next]_vars =>
          [PauseAcknowledged /\ ~NoImages(profile.images) /\ profile'.owner = "us" =>
               /\ UNCHANGED profile.images
               /\ \/ UNCHANGED profile.config
                  \/ /\ ~Coherent(profile.images, profile.config)
                     /\ Coherent(profile'.images, profile'.config)]_vars
  BY PauseLeavesImages
<1> QED
  BY <1>1, <1>2, TypeInit, TypeStep, PauseInit, PTL DEF Spec, PauseHolds
=============================================================================
