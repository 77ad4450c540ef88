-------------------------- MODULE OciSourceProofs --------------------------
(***************************************************************************)
(* Theorems about OciSource, for any registry, filter and semaphore.       *)
(***************************************************************************)
EXTENDS OciSource, FiniteSetTheorems, TLAPS

Counted == items \cup skipped \cup errs

\* While a call collects, the goroutines that are done are those it counted, and
\* there is one for each tag that was listed; before and after, none is under way.
\* The history says the same as the bookkeeping, tag by tag.
SourceInv ==
    /\ TypeOK
    /\ collecting => \A t \in Tags :
          /\ worker[t] = "none" <=> t \notin listed
          /\ worker[t] = "done" <=> t \in Counted
    /\ NoneLeft
    /\ items = Of(answers, "found") /\ skipped = Of(answers, "failed") /\ errs = Of(answers, "ended")

\* There are finitely many tags.
LEMMA TagsFinite ==
    ASSUME NEW S, S \subseteq Tags
    PROVE  IsFiniteSet(S) /\ Cardinality(S) \in Nat
  BY OciAssumption, FS_Subset, FS_CardinalityType

\* A registry holds manifests of tags.
LEMMA RegistryTags ==
    ASSUME TypeOK
    PROVE  DOMAIN registry \subseteq Tags /\ listed \subseteq Tags
  BY OciAssumption DEF TypeOK

\* The tags of the answers are those of the three kinds together.
LEMMA AnswersByKind ==
    ASSUME answers \subseteq Answers
    PROVE  {a.tag : a \in answers} =
              Of(answers, "found") \cup Of(answers, "failed") \cup Of(answers, "ended")
  BY DEF Of, Answers, Kinds

\* An answer of one kind adds its tag to that kind and to no other.
LEMMA AnswerAdded ==
    ASSUME NEW t, NEW k, answers' = answers \cup {[tag |-> t, kind |-> k]}
    PROVE  \A kind : Of(answers', kind) = IF kind = k THEN Of(answers, kind) \cup {t}
                                          ELSE Of(answers, kind)
<1> DEFINE new == [tag |-> t, kind |-> k]
<1>1. SUFFICES ASSUME NEW kind
               PROVE  Of(answers', kind) = IF kind = k THEN Of(answers, kind) \cup {t}
                                           ELSE Of(answers, kind)
  OBVIOUS
<1>2. {b \in answers' : b.kind = kind} =
         {b \in answers : b.kind = kind} \cup (IF kind = k THEN {new} ELSE {})
  OBVIOUS
<1>3. new.tag = t
  OBVIOUS
<1> HIDE DEF new
<1>4. CASE kind = k
  <2>1. {b \in answers' : b.kind = kind} = {b \in answers : b.kind = kind} \cup {new}
    BY <1>2, <1>4
  <2>2. ASSUME NEW S PROVE {a.tag : a \in S \cup {new}} = {a.tag : a \in S} \cup {t}
    BY <1>3
  <2> QED
    BY <1>4, <2>1, <2>2 DEF Of
<1>5. CASE kind # k
  BY <1>2, <1>5 DEF Of
<1> QED
  BY <1>4, <1>5

-----------------------------------------------------------------------------
\* Before the first call nothing is under way.
LEMMA InitSource == Init => SourceInv
<1> SUFFICES ASSUME Init PROVE SourceInv
  OBVIOUS
<1>1. Counted = {} /\ Cardinality(Counted) = 0
  BY FS_EmptySet DEF Init, Counted
<1>2. ImagesOf(registry, {}) = {}
  BY DEF ImagesOf
<1>3. TypeOK
  BY <1>1, <1>2 DEF Init, TypeOK, WorkerStates, Kinds, Pending, Counted
<1> QED
  BY <1>3 DEF Init, SourceInv, NoneLeft, Of

\* A goroutine that is not done moves, and nothing is sent.
LEMMA MoveKeeps ==
    ASSUME SourceInv, NEW t \in Tags, NEW state \in WorkerStates \ {"none", "done"},
           worker[t] \notin {"none", "done"},
           worker' = [worker EXCEPT ![t] = state],
           held' \in [Tags -> Kinds],
           UNCHANGED <<registry, cancelled, collecting, listed, localVars, returned, answers>>
    PROVE  SourceInv'
<1>1. TypeOK'
  BY DEF SourceInv, TypeOK, localVars
<1>2. collecting
  BY DEF SourceInv, NoneLeft
<1>3. \A u \in Tags : /\ worker'[u] = "none" <=> worker[u] = "none"
                      /\ worker'[u] = "done" <=> worker[u] = "done"
  BY DEF SourceInv, TypeOK
<1>4. Counted' = Counted
  BY DEF Counted, localVars
<1> QED
  BY <1>1, <1>2, <1>3, <1>4 DEF SourceInv, NoneLeft, localVars

\* What all deliveries have in common: the goroutine is not yet counted, and after
\* it there is one more that is.
LEMMA DeliverFacts ==
    ASSUME SourceInv, NEW t \in Tags, Deliver(t), Counted' = Counted \cup {t}
    PROVE  /\ t \in listed /\ t \notin Counted
           /\ received' = Cardinality(Counted')
<1>1. collecting /\ worker[t] \notin {"none", "done"}
  BY DEF Deliver
<1>2. t \in listed /\ t \notin Counted
  BY <1>1 DEF SourceInv
<1>3. Counted \subseteq Tags
  BY RegistryTags DEF SourceInv, TypeOK, Counted
<1>4. Cardinality(Counted') = Cardinality(Counted) + 1
  BY <1>2, <1>3, TagsFinite, FS_AddElement
<1> QED
  BY <1>2, <1>4 DEF Deliver, SourceInv, TypeOK, Counted

\* A delivery keeps the invariant if it puts the tag where its answer belongs.
LEMMA DeliverKeeps ==
    ASSUME SourceInv, NEW t \in Tags, Deliver(t),
           items' = items \cup (IF held[t] = "found" THEN {t} ELSE {}),
           skipped' = skipped \cup (IF held[t] = "failed" THEN {t} ELSE {}),
           errs' = errs \cup (IF held[t] = "ended" THEN {t} ELSE {}),
           UNCHANGED <<collecting, returned>>
    PROVE  SourceInv'
<1>1. held[t] \in Kinds
  BY DEF SourceInv, TypeOK
<1>2. Counted' = Counted \cup {t}
  BY <1>1 DEF Counted, Kinds
<1>3. t \in listed /\ t \notin Counted /\ received' = Cardinality(Counted')
  BY <1>2, DeliverFacts
<1>4. TypeOK'
  <2>1. worker' \in [Tags -> WorkerStates]
    BY DEF Deliver, SourceInv, TypeOK, WorkerStates
  <2>2. held' \in [Tags -> Kinds]
    BY DEF Deliver, SourceInv, TypeOK, Kinds
  <2>3. answers' \subseteq Answers
    BY <1>1 DEF Deliver, SourceInv, TypeOK, Answers
  <2>4. /\ (items \cup skipped \cup errs)' \subseteq listed'
        /\ (items \cap (skipped \cup errs))' = {} /\ (skipped \cap errs)' = {}
    BY <1>1, <1>3 DEF Deliver, SourceInv, TypeOK, Kinds, Counted
  <2>5. received' = Cardinality(items \cup skipped \cup errs)'
    BY <1>3 DEF Counted
  <2>6. UNCHANGED <<registry, cancelled, collecting, listed, returned>>
    BY DEF Deliver
  <2> QED
    BY <2>1, <2>2, <2>3, <2>4, <2>5, <2>6 DEF SourceInv, TypeOK, ImagesOf
<1>5. \A u \in Tags : /\ worker'[u] = "none" <=> worker[u] = "none"
                      /\ worker'[u] = "done" <=> worker[u] = "done" \/ u = t
  BY DEF Deliver, SourceInv, TypeOK
<1>6. collecting /\ collecting' /\ listed' = listed
  BY DEF Deliver
<1>7. \A kind : Of(answers', kind) = IF kind = held[t] THEN Of(answers, kind) \cup {t}
                                      ELSE Of(answers, kind)
  BY AnswerAdded DEF Deliver
<1>8. /\ items' = Of(answers', "found") /\ skipped' = Of(answers', "failed")
      /\ errs' = Of(answers', "ended")
  BY <1>7 DEF SourceInv
<1> QED
  BY <1>2, <1>4, <1>5, <1>6, <1>8 DEF SourceInv, NoneLeft, Of

\* A goroutine keeps the invariant.
LEMMA GoroutineKeeps ==
    ASSUME SourceInv, NEW t \in Tags, Goroutine(t)
    PROVE  SourceInv'
<1>1. CASE Acquire(t)
  BY <1>1, MoveKeeps DEF Acquire, WorkerStates, SourceInv, TypeOK
<1>2. CASE Refuse(t)
  <2>1. held' \in [Tags -> Kinds]
    BY <1>2 DEF Refuse, SourceInv, TypeOK, Kinds
  <2> QED
    BY <1>2, <2>1, MoveKeeps DEF Refuse, WorkerStates
<1>3. CASE Fetch(t)
  <2>1. held' \in [Tags -> Kinds]
    BY <1>3 DEF Fetch, SourceInv, TypeOK
  <2> QED
    BY <1>3, <2>1, MoveKeeps DEF Fetch, WorkerStates
<1>4. CASE Collect(t)
  BY <1>4, DeliverKeeps DEF Collect
<1>5. CASE Skip(t)
  BY <1>5, DeliverKeeps DEF Skip
<1>6. CASE Record(t)
  BY <1>6, DeliverKeeps DEF Record
<1> QED
  BY <1>1, <1>2, <1>3, <1>4, <1>5, <1>6 DEF Goroutine

\* A call starts with nothing counted, or leaves the goroutines as they are.
LEMMA CallKeeps == SourceInv /\ Call => SourceInv'
<1> SUFFICES ASSUME SourceInv, Call PROVE SourceInv'
  OBVIOUS
<1>1. Counted' = {} /\ Cardinality(Counted') = 0 /\ received' = 0
  BY FS_EmptySet DEF Call, Counted
<1>2. \A kind : Of(answers', kind) = {}
  BY DEF Call, Of
<1>3. ImagesOf(registry, {}) = {}
  BY DEF ImagesOf
<1>4. listed' \subseteq DOMAIN registry
  BY DEF Call, SourceInv, TypeOK
<1>5. worker' \in [Tags -> WorkerStates]
  BY DEF Call, SourceInv, TypeOK, WorkerStates
<1>6. returned' \in {Pending, Failure} /\ collecting' \in BOOLEAN
  BY DEF Call, SourceInv, TypeOK
<1>7. TypeOK'
  BY <1>1, <1>3, <1>4, <1>5, <1>6 DEF Call, SourceInv, TypeOK, Pending, Failure, Counted, ImagesOf
<1>8. ASSUME NEW t \in Tags, collecting'
      PROVE  worker'[t] = "none" <=> t \notin listed'
  BY <1>8 DEF Call
<1>9. ASSUME NEW t \in Tags, collecting'
      PROVE  worker'[t] # "done"
  BY <1>9 DEF Call
<1>10. NoneLeft'
  BY DEF Call, SourceInv, NoneLeft
<1>11. items' = {} /\ skipped' = {} /\ errs' = {}
  BY DEF Call
<1> QED
  BY <1>1, <1>2, <1>7, <1>8, <1>9, <1>10, <1>11 DEF SourceInv

\* When as many are received as were listed, every listed tag has been counted.
LEMMA AllCounted ==
    ASSUME SourceInv, received = Cardinality(listed)
    PROVE  Counted = listed
<1>1. Counted \subseteq listed /\ Cardinality(Counted) = Cardinality(listed)
  BY DEF SourceInv, TypeOK, Counted
<1> QED
  BY <1>1, RegistryTags, TagsFinite, FS_Subset DEF SourceInv

\* The last step of a call leaves no goroutine behind.
LEMMA FinishKeeps == SourceInv /\ Finish => SourceInv'
<1> SUFFICES ASSUME SourceInv, Finish PROVE SourceInv'
  OBVIOUS
<1>1. Counted = listed
  BY AllCounted DEF Finish
<1>2. \A t \in Tags : worker[t] \in {"none", "done"}
  BY <1>1 DEF Finish, SourceInv
<1>3. ImagesOf(registry, {}) = {}
  BY DEF ImagesOf
<1>4. items \subseteq DOMAIN registry
  BY DEF SourceInv, TypeOK
<1>5. returned' \in {Failure, [kind |-> "images", images |-> ImagesOf(registry, items)]}
  BY DEF Finish
<1>6. /\ collecting' = FALSE
      /\ UNCHANGED <<registry, cancelled, listed, worker, held, items, skipped, errs, received, answers>>
  BY DEF Finish, localVars
<1>7. {} \in {ImagesOf(registry, ts) : ts \in SUBSET DOMAIN registry}
  BY <1>3
<1>8. returned' \in [kind: {"none", "error", "images"},
                    images: {ImagesOf(registry, ts) : ts \in SUBSET DOMAIN registry}]
  BY <1>4, <1>5, <1>7 DEF Failure
<1>9. TypeOK'
  BY <1>6, <1>8 DEF SourceInv, TypeOK
<1> QED
  BY <1>2, <1>6, <1>9 DEF SourceInv, NoneLeft, Of

\* Every step keeps the invariant.
LEMMA NextKeeps == SourceInv /\ [SourceNext]_ociVars => SourceInv'
<1> SUFFICES ASSUME SourceInv, [SourceNext]_ociVars PROVE SourceInv'
  OBVIOUS
<1>1. CASE Cancel
  BY <1>1 DEF Cancel, SourceInv, TypeOK, NoneLeft, Counted, Of, localVars
<1>2. CASE UNCHANGED ociVars
  BY <1>2 DEF ociVars, SourceInv, TypeOK, NoneLeft, Counted, Of, localVars
<1> QED
  BY <1>1, <1>2, CallKeeps, GoroutineKeeps, FinishKeeps DEF SourceNext

\* The invariant of OciSource.
LEMMA Invariance == Spec => []SourceInv
  BY InitSource, NextKeeps, PTL DEF Spec

\* The bookkeeping of GetVersions counts every answer once, whatever the registry
\* and however many goroutines.
THEOREM TypeCorrect == Spec => []TypeOK
  BY Invariance, PTL DEF SourceInv

\* GetVersions never leaves a goroutine behind that could no longer send.
THEOREM NoneLeftBehind == Spec => []NoneLeft
  BY Invariance, PTL DEF SourceInv

-----------------------------------------------------------------------------
\* The last step of a call returns what the abstract source would.
LEMMA FinishReturns == SourceInv /\ Finish => Abstract!Return
<1> SUFFICES ASSUME SourceInv, Finish PROVE Abstract!Return
  OBVIOUS
<1> DEFINE conf == [registry |-> registry, listed |-> listed]
<1>1. Counted = listed
  BY AllCounted DEF Finish
<1>2. {a.tag : a \in answers} = listed
  BY <1>1, AnswersByKind DEF SourceInv, TypeOK, Counted
<1>3. Entailed(conf, answers) = ImagesOf(registry, items)
  BY DEF Entailed, SourceInv
<1>4. ASSUME errs # {} PROVE Excused(conf, answers)
  BY <1>4 DEF Excused, SourceInv
<1>5. ASSUME Cardinality(skipped) = Cardinality(listed) PROVE Excused(conf, answers)
  <2>1. skipped \subseteq listed /\ listed \subseteq Tags
    BY RegistryTags DEF SourceInv, TypeOK
  <2>2. skipped = listed
    BY <1>5, <2>1, TagsFinite, FS_Subset
  <2> QED
    BY <2>2 DEF Excused, SourceInv
<1>6. ASSUME errs = {}, ImagesOf(registry, items) # {} \/ Cardinality(skipped) # Cardinality(listed)
      PROVE  Conclusive(conf, answers)
  <2>1. skipped # listed
    BY <1>6 DEF SourceInv, TypeOK, ImagesOf
  <2> QED
    BY <1>2, <1>6, <2>1 DEF Conclusive, Excused, SourceInv
<1>7. /\ collecting /\ ~collecting'
      /\ UNCHANGED <<registry, listed, answers>>
  BY DEF Finish
<1>8. CASE errs # {} \/ (ImagesOf(registry, items) = {} /\ Cardinality(skipped) = Cardinality(listed))
  BY <1>4, <1>5, <1>7, <1>8 DEF Finish, Failure, Abstract!Return, Abstract!Failure, SourceInv, TypeOK
<1>9. CASE ~(errs # {} \/ (ImagesOf(registry, items) = {} /\ Cardinality(skipped) = Cardinality(listed)))
  BY <1>3, <1>6, <1>7, <1>9 DEF Finish, Abstract!Return, SourceInv, TypeOK
<1> QED
  BY <1>8, <1>9

\* A step of OciSource is a step of the abstract source, or leaves it as it is.
LEMMA StepRefines ==
    SourceInv /\ [SourceNext]_ociVars => [Abstract!Next]_(Abstract!vars)
<1> SUFFICES ASSUME SourceInv, [SourceNext]_ociVars
             PROVE  Abstract!Next \/ UNCHANGED Abstract!vars
  OBVIOUS
<1>1. CASE Call
  BY <1>1 DEF Call, Pending, Failure, SourceInv, TypeOK,
      Abstract!Next, Abstract!Call, Abstract!Pending, Abstract!Failure
<1>2. ASSUME NEW t \in Tags, Goroutine(t) PROVE Abstract!Next \/ UNCHANGED Abstract!vars
  <2>1. CASE Acquire(t) \/ Refuse(t) \/ Fetch(t)
    BY <2>1 DEF Acquire, Refuse, Fetch, Abstract!vars
  <2>2. CASE Collect(t) \/ Skip(t) \/ Record(t)
    BY <2>2 DEF Collect, Skip, Record, Deliver, Abstract!Next, Abstract!Answer
  <2> QED
    BY <1>2, <2>1, <2>2 DEF Goroutine
<1>3. CASE Finish
  BY <1>3, FinishReturns DEF Abstract!Next
<1>4. CASE Cancel
  BY <1>4 DEF Cancel, Abstract!vars
<1>5. CASE UNCHANGED ociVars
  BY <1>5 DEF ociVars, Abstract!vars
<1> QED
  BY <1>1, <1>2, <1>3, <1>4, <1>5 DEF SourceNext

\* The initial states are those of the abstract source.
LEMMA InitRefines == Init => Abstract!Init
  BY DEF Init, Pending, Abstract!Init, Abstract!Pending

\* Whatever the registry holds and however its answers interleave, OciSource is a
\* source: it returns the images all answers entail, or an error one accounts for.
THEOREM Refines == Spec => ImplementsSource
<1>1. Spec => [][Abstract!Next]_(Abstract!vars)
  BY Invariance, StepRefines, PTL DEF Spec
<1> QED
  BY <1>1, InitRefines, PTL DEF Spec, ImplementsSource, Abstract!Spec
=============================================================================
