------------------------- MODULE GlanceSourceProofs -------------------------
(***************************************************************************)
(* Theorems about GlanceSource, for any regions, listings and bounds.      *)
(***************************************************************************)
EXTENDS GlanceSource, FiniteSetTheorems, FunctionTheorems, SequenceTheorems, TLAPS

Done(c) == {r \in Regions : worker[c][r] = "done"}

\* The parts of the state the argument is about.
ChannelType ==
    /\ call \in 0..MaxCalls
    /\ worker \in [Calls -> [Regions -> WorkerStates]]
    /\ held \in [Calls -> [Regions -> Answers]]
    /\ channel \in [Calls -> Seq(Answers)]

\* A channel holds at most one answer of each goroutine that is done, and a call
\* that is not made has neither answers nor goroutines, nor is it collecting.
ChannelInv ==
    /\ ChannelType
    /\ collecting => call # 0
    /\ \A c \in Calls : Len(channel[c]) <= Cardinality(Done(c))
    /\ \A c \in Calls : c > call =>
          channel[c] = <<>> /\ \A r \in Regions : worker[c][r] = "none"

\* The regions that NewGlance was given can be counted.
LEMMA RegionsFinite == IsFiniteSet(Regions) /\ Count \in Nat
  BY ConstantsAssumption, FS_CardinalityType DEF Count

\* So can the goroutines of a call that are done: at most one per region.
LEMMA DoneFinite ==
    ASSUME NEW c
    PROVE  IsFiniteSet(Done(c)) /\ Cardinality(Done(c)) \in Nat /\ Cardinality(Done(c)) <= Count
  BY RegionsFinite, FS_Subset, FS_CardinalityType DEF Done, Count

\* While one goroutine is not done, there are fewer that are than regions.
LEMMA OneToGo ==
    ASSUME NEW c, NEW r \in Regions, worker[c][r] # "done"
    PROVE  Cardinality(Done(c)) < Count
<1>1. Done(c) \subseteq Regions \ {r}
  BY DEF Done
<1>2. IsFiniteSet(Regions \ {r}) /\ Cardinality(Regions \ {r}) = Count - 1
  BY RegionsFinite, FS_RemoveElement DEF Count
<1>3. Cardinality(Done(c)) <= Cardinality(Regions \ {r})
  BY <1>1, <1>2, FS_Subset
<1> QED
  BY <1>2, <1>3, DoneFinite, RegionsFinite

\* What a goroutine holds before it has anything to send.
LEMMA NoAnswerType == NoAnswer \in Answers
  BY ConstantsAssumption DEF NoAnswer, Answers, Kinds

\* Before the first call every channel is empty.
LEMMA InitChannel == Init => ChannelInv
<1> SUFFICES ASSUME Init PROVE ChannelInv
  OBVIOUS
<1>2. ChannelType
  BY NoAnswerType, ConstantsAssumption DEF Init, ChannelType, WorkerStates
<1>3. ASSUME NEW c \in Calls PROVE channel[c] = <<>> /\ Len(channel[c]) = 0
  BY <1>3 DEF Init
<1>4. ~collecting /\ \A c \in Calls, r \in Regions : worker[c][r] = "none"
  BY DEF Init
<1> QED
  BY <1>2, <1>3, <1>4, DoneFinite DEF ChannelInv

\* A goroutine moves from one state to another that is not "done": the
\* channels stay as they are, and so do the goroutines that are done.
LEMMA MoveKeeps ==
    ASSUME ChannelInv, NEW c \in Calls, NEW r \in Regions, NEW state \in WorkerStates,
           worker[c][r] \notin {"none", "done"},
           worker' = [worker EXCEPT ![c][r] = state],
           held' \in [Calls -> [Regions -> Answers]],
           UNCHANGED <<call, collecting, channel>>
    PROVE  ChannelInv'
<1>1. ChannelType'
  BY DEF ChannelInv, ChannelType
<1>2. ASSUME NEW d \in Calls PROVE Len(channel'[d]) <= Cardinality(Done(d)')
  <2>1. Done(d) \subseteq Done(d)'
    BY DEF ChannelInv, ChannelType, Done
  <2>2. IsFiniteSet(Done(d)')
    BY RegionsFinite, FS_Subset DEF Done
  <2>3. Cardinality(Done(d)) <= Cardinality(Done(d)') /\ Cardinality(Done(d)') \in Nat
    BY <2>1, <2>2, FS_Subset, FS_CardinalityType
  <2>4. Len(channel[d]) <= Cardinality(Done(d)) /\ Len(channel[d]) \in Nat
    BY DEF ChannelInv, ChannelType
  <2> QED
    BY <2>3, <2>4, DoneFinite
<1>3. ASSUME NEW d \in Calls, d > call'
      PROVE  channel'[d] = <<>> /\ \A q \in Regions : worker'[d][q] = "none"
  BY <1>3 DEF ChannelInv, ChannelType
<1> QED
  BY <1>1, <1>2, <1>3 DEF ChannelInv

\* Sending adds one answer to the channel, and one goroutine to those done.
LEMMA SendKeeps ==
    ASSUME ChannelInv, NEW c \in Calls, NEW r \in Regions, Send(c, r)
    PROVE  ChannelInv'
<1>1. /\ worker[c][r] \notin {"none", "done"}
      /\ held[c][r] \in Answers
      /\ worker' = [worker EXCEPT ![c][r] = "done"]
      /\ channel' = [channel EXCEPT ![c] = Append(channel[c], held[c][r])]
      /\ call' = call /\ collecting' = collecting
  BY DEF Send, ChannelInv, ChannelType
<1>2. ChannelType'
  <2>1. NoAnswer \in Answers
    BY NoAnswerType
  <2>2. held' \in [Calls -> [Regions -> Answers]]
    BY <2>1 DEF Send, ChannelInv, ChannelType
  <2>3. worker' \in [Calls -> [Regions -> WorkerStates]]
    BY <1>1 DEF ChannelInv, ChannelType, WorkerStates
  <2>4. channel' \in [Calls -> Seq(Answers)]
    BY <1>1 DEF ChannelInv, ChannelType
  <2> QED
    BY <1>1, <2>2, <2>3, <2>4 DEF ChannelInv, ChannelType
<1>3. ASSUME NEW d \in Calls PROVE Len(channel'[d]) <= Cardinality(Done(d)')
  <2>1. Len(channel[d]) \in Nat /\ Len(channel[d]) <= Cardinality(Done(d))
    BY DEF ChannelInv, ChannelType
  <2>2. CASE d = c
    <3>1. Done(d)' = Done(d) \cup {r} /\ r \notin Done(d)
      BY <1>1, <2>2 DEF ChannelInv, ChannelType, Done
    <3>2. Cardinality(Done(d)') = Cardinality(Done(d)) + 1
      BY <3>1, DoneFinite, FS_AddElement
    <3>3. Len(channel'[d]) = Len(channel[d]) + 1
      BY <1>1, <2>2 DEF ChannelInv, ChannelType
    <3> QED
      BY <2>1, <3>2, <3>3, DoneFinite
  <2>3. CASE d # c
    <3>1. Done(d)' = Done(d)
      BY <1>1, <2>3 DEF ChannelInv, ChannelType, Done
    <3>2. channel'[d] = channel[d]
      BY <1>1, <2>3 DEF ChannelInv, ChannelType
    <3> QED
      BY <2>1, <3>1, <3>2
  <2> QED
    BY <2>2, <2>3
<1>4. ASSUME NEW d \in Calls, d > call'
      PROVE  channel'[d] = <<>> /\ \A q \in Regions : worker'[d][q] = "none"
  BY <1>1, <1>4 DEF ChannelInv, ChannelType
<1> QED
  BY <1>1, <1>2, <1>3, <1>4 DEF ChannelInv

\* A goroutine keeps the invariant.
LEMMA GoroutineKeeps ==
    ASSUME ChannelInv, NEW c \in Calls, NEW r \in Regions, Goroutine(c, r)
    PROVE  ChannelInv'
<1>1. CASE Acquire(c, r)
  BY <1>1, MoveKeeps DEF Acquire, WorkerStates, ChannelInv, ChannelType
<1>2. CASE Refuse(c, r)
  <2>1. Error(r, "ended") \in Answers
    BY DEF Error, Answers, Kinds
  <2>2. held' \in [Calls -> [Regions -> Answers]]
    BY <1>2, <2>1 DEF Refuse, ChannelInv, ChannelType
  <2> QED
    BY <1>2, <2>2, MoveKeeps DEF Refuse, WorkerStates
<1>3. CASE Discover(c, r)
  <2>1. \A vs \in Listings : Found(r, vs) \in Answers
    BY DEF Found, Answers, Kinds
  <2>2. \A kind \in {"failed", "ended"} : Error(r, kind) \in Answers
    BY DEF Error, Answers, Kinds
  <2>3. PICK a \in Answers : held' = [held EXCEPT ![c][r] = a]
    BY <1>3, <2>1, <2>2 DEF Discover
  <2>4. held' \in [Calls -> [Regions -> Answers]]
    BY <2>3 DEF ChannelInv, ChannelType
  <2> QED
    BY <1>3, <2>4, MoveKeeps DEF Discover, WorkerStates
<1>4. CASE Send(c, r)
  BY <1>4, SendKeeps
<1> QED
  BY <1>1, <1>2, <1>3, <1>4 DEF Goroutine

\* Receiving shortens a channel; whether the call is over does not matter.
LEMMA ReceiveKeeps ==
    ASSUME ChannelInv, Receive, CanReceive, collecting' => collecting
    PROVE  ChannelInv'
<1>1. /\ call \in Calls /\ channel[call] \in Seq(Answers) /\ channel[call] # <<>>
      /\ channel' = [channel EXCEPT ![call] = Tail(channel[call])]
      /\ UNCHANGED <<call, worker, held>>
  <2>1. collecting /\ channel[call] # <<>>
    BY DEF CanReceive
  <2>2. call \in Calls
    BY <2>1, ConstantsAssumption DEF ChannelInv, ChannelType, Calls
  <2>3. channel \in [Calls -> Seq(Answers)]
    BY DEF ChannelInv, ChannelType
  <2> QED
    BY <2>1, <2>2, <2>3 DEF Receive
<1>2. channel' \in [Calls -> Seq(Answers)]
  BY <1>1 DEF ChannelInv, ChannelType
<1>3. ChannelType'
  BY <1>1, <1>2 DEF ChannelInv, ChannelType
<1>4. ASSUME NEW d \in Calls PROVE Len(channel'[d]) <= Cardinality(Done(d)')
  <2>1. Done(d)' = Done(d)
    BY <1>1 DEF Done
  <2>2. Len(channel[d]) \in Nat /\ Len(channel[d]) <= Cardinality(Done(d))
    BY DEF ChannelInv, ChannelType
  <2>3. Len(channel'[d]) <= Len(channel[d])
    BY <1>1, <2>2 DEF ChannelInv, ChannelType
  <2>4. Len(channel'[d]) \in Nat
    BY <1>2
  <2> QED
    BY <2>1, <2>2, <2>3, <2>4, DoneFinite
<1>5. ASSUME NEW d \in Calls, d > call'
      PROVE  channel'[d] = <<>> /\ \A q \in Regions : worker'[d][q] = "none"
  BY <1>1, <1>5 DEF ChannelInv, ChannelType, Calls
<1>6. collecting' => call' # 0
  BY <1>1 DEF ChannelInv
<1> QED
  BY <1>3, <1>4, <1>5, <1>6 DEF ChannelInv

\* A new call finds its channel empty.
LEMMA CallKeeps == ChannelInv /\ Call => ChannelInv'
<1> SUFFICES ASSUME ChannelInv, Call PROVE ChannelInv'
  OBVIOUS
<1>1. /\ call + 1 \in Calls /\ call' = call + 1
      /\ worker' = [worker EXCEPT ![call + 1] = [r \in Regions |-> "waiting"]]
      /\ UNCHANGED <<held, channel>>
  BY ConstantsAssumption DEF Call, ChannelInv, ChannelType, Calls
<1>2. worker' \in [Calls -> [Regions -> WorkerStates]]
  BY <1>1 DEF ChannelInv, ChannelType, WorkerStates
<1>3. ChannelType'
  BY <1>1, <1>2, ConstantsAssumption DEF ChannelInv, ChannelType, Calls
<1>4. ASSUME NEW d \in Calls PROVE Len(channel'[d]) <= Cardinality(Done(d)')
  <2>1. CASE d = call + 1
    <3>1. channel'[d] = <<>>
      BY <1>1, <2>1 DEF ChannelInv, ChannelType, Calls
    <3>2. IsFiniteSet(Done(d)')
      BY RegionsFinite, FS_Subset DEF Done
    <3>3. Cardinality(Done(d)') \in Nat
      BY <3>2, FS_CardinalityType
    <3> QED
      BY <3>1, <3>3
  <2>2. CASE d # call + 1
    <3>1. Done(d)' = Done(d)
      BY <1>1, <2>2 DEF ChannelInv, ChannelType, Done
    <3> QED
      BY <1>1, <3>1 DEF ChannelInv
  <2> QED
    BY <2>1, <2>2
<1>5. ASSUME NEW d \in Calls, d > call'
      PROVE  channel'[d] = <<>> /\ \A q \in Regions : worker'[d][q] = "none"
  BY <1>1, <1>5 DEF ChannelInv, ChannelType, Calls
<1>6. call' # 0
  BY <1>1 DEF ChannelInv, ChannelType
<1> QED
  BY <1>3, <1>4, <1>5, <1>6 DEF ChannelInv

\* No step of goroutines or of GetVersions breaks the invariant.
LEMMA NextChannel == ChannelInv /\ [Next]_vars => ChannelInv'
<1> SUFFICES ASSUME ChannelInv, [Next]_vars PROVE ChannelInv'
  OBVIOUS
<1>1. CASE Call
  BY <1>1, CallKeeps
<1>2. ASSUME NEW c \in Calls, NEW r \in Regions, Goroutine(c, r) PROVE ChannelInv'
  BY <1>2, GoroutineKeeps
<1>3. CASE Merge
  BY <1>3, ReceiveKeeps DEF Merge, Receive
<1>4. CASE Skip
  BY <1>4, ReceiveKeeps DEF Skip, Receive
<1>5. CASE GiveUp
  BY <1>5, ReceiveKeeps DEF GiveUp, Receive, Return
<1>6. CASE UNCHANGED <<call, workerVars>> /\ (collecting' => collecting)
  BY <1>6 DEF workerVars, ChannelInv, ChannelType, Done
<1>7. CASE Finish
  BY <1>6, <1>7 DEF Finish, Return
<1>8. CASE Cancel
  BY <1>6, <1>8 DEF Cancel
<1>9. CASE UNCHANGED vars
  BY <1>6, <1>9 DEF vars
<1> QED
  BY <1>1, <1>2, <1>3, <1>4, <1>5, <1>7, <1>8, <1>9 DEF Next, Collect

\* A goroutine that is about to send is not done, so the channel has room.
LEMMA ChannelRoom == ChannelInv => NeverBlocks
<1> SUFFICES ASSUME ChannelInv, NEW c \in Calls, NEW r \in Regions,
                    worker[c][r] \in {"refused", "sending"}
             PROVE  Len(channel[c]) < Capacity
  BY DEF NeverBlocks
<1>1. Cardinality(Done(c)) < Count
  BY OneToGo
<1>2. Len(channel[c]) \in Nat /\ Len(channel[c]) <= Cardinality(Done(c))
  BY DEF ChannelInv, ChannelType
<1> QED
  BY <1>1, <1>2, DoneFinite, RegionsFinite DEF Capacity

\* The buffer of GetVersions' channel is large enough for every region whatever
\* the number of regions, calls and early returns: no goroutine that has an
\* answer waits for a receiver that is gone.
THEOREM GoroutinesProceed == Spec => []NeverBlocks
<1>1. Spec => []ChannelInv
  BY InitChannel, NextChannel, PTL DEF Spec
<1> QED
  BY <1>1, ChannelRoom, PTL

-----------------------------------------------------------------------------
(***************************************************************************)
(* Why GetVersions fails.  That every region failed is counted, not seen:  *)
(* the argument is that no region is counted twice, for it sends one       *)
(* answer, and that answer is received once.                               *)
(***************************************************************************)
FailedRegions == {a.region : a \in {b \in answers : b.kind = "failed"}}
Buffered == {channel[call][i].region : i \in DOMAIN channel[call]}

\* The regions whose failure GetVersions has received.
Gone == FailedRegions \ Buffered

\* What the last call was sent: an answer of a goroutine that is done, under
\* the name of its own region, at most once in the channel.
AnswersInv ==
    /\ answers \subseteq Answers
    /\ \A c \in Calls, r \in Regions :
          worker[c][r] \in {"refused", "sending"} => held[c][r].region = r
    /\ call # 0 =>
          /\ \A a \in answers : worker[call][a.region] = "done"
          /\ \A i \in DOMAIN channel[call] : channel[call][i] \in answers
          /\ \A i, j \in DOMAIN channel[call] :
                channel[call][i].region = channel[call][j].region => i = j

\* A failure is counted when it is received, and a call starts at zero.
SkippedInv ==
    /\ skipped \in Nat
    /\ ~collecting => skipped = 0
    /\ call # 0 => skipped <= Cardinality(Gone)
    /\ returned.kind = "error" => Excused(params, answers)

FailInv == ChannelInv /\ AnswersInv /\ SkippedInv

\* The regions whose failure was received are regions.
LEMMA GoneFinite ==
    ASSUME AnswersInv
    PROVE  Gone \subseteq Regions /\ IsFiniteSet(Gone) /\ Cardinality(Gone) \in Nat
<1>1. Gone \subseteq Regions
  BY DEF Gone, FailedRegions, AnswersInv, Answers
<1> QED
  BY <1>1, RegionsFinite, FS_Subset, FS_CardinalityType

\* An excuse is not taken back by answers that come later.
LEMMA ExcuseStays ==
    ASSUME AnswersInv, AnswersInv', answers \subseteq answers', Excused(params, answers)
    PROVE  Excused(params', answers')
<1>1. CASE \E a \in answers : a.kind = "ended"
  BY <1>1 DEF Excused
<1>2. CASE {a.region : a \in {b \in answers : b.kind = "failed"}} = Regions
  <2>1. Regions \subseteq {a.region : a \in {b \in answers' : b.kind = "failed"}}
    BY <1>2
  <2>2. {a.region : a \in {b \in answers' : b.kind = "failed"}} \subseteq Regions
    BY DEF AnswersInv, Answers
  <2> QED
    BY <2>1, <2>2 DEF Excused
<1> QED
  BY <1>1, <1>2 DEF Excused

\* Before the first call there are no answers, and nothing is counted.
LEMMA InitFail == Init => FailInv
<1> SUFFICES ASSUME Init PROVE FailInv
  OBVIOUS
<1>1. ChannelInv
  BY InitChannel
<1>2. AnswersInv
  BY DEF Init, AnswersInv
<1>3. SkippedInv
  BY DEF Init, SkippedInv, Pending
<1> QED
  BY <1>1, <1>2, <1>3 DEF FailInv

\* What is received was sent, and is not in the channel any more: the failures
\* received grow by its own.
LEMMA ReceiveAnswer ==
    ASSUME FailInv, Receive
    PROVE  /\ AnswersInv'
           /\ NextAnswer \in answers
           /\ NextAnswer.region \in Buffered
           /\ Buffered' = Buffered \ {NextAnswer.region}
           /\ Gone \subseteq Gone'
           /\ NextAnswer.kind = "failed" => NextAnswer.region \in Gone' \ Gone
<1>1. /\ call \in Calls /\ call # 0
      /\ channel[call] \in Seq(Answers) /\ channel[call] # <<>>
      /\ channel' = [channel EXCEPT ![call] = Tail(channel[call])]
      /\ UNCHANGED <<call, worker, held, answers>>
  <2>1. collecting /\ channel[call] # <<>>
    BY DEF Receive, CanReceive
  <2>2. call \in Calls /\ call # 0
    BY <2>1, ConstantsAssumption DEF FailInv, ChannelInv, ChannelType, Calls
  <2>3. channel \in [Calls -> Seq(Answers)]
    BY DEF FailInv, ChannelInv, ChannelType
  <2> QED
    BY <2>1, <2>2, <2>3 DEF Receive
<1> DEFINE old == channel[call]
           new == channel'[call']
<1>2. /\ new = Tail(old) /\ Len(old) \in Nat \ {0}
      /\ DOMAIN old = 1..Len(old) /\ DOMAIN new = 1..(Len(old) - 1)
      /\ \A i \in DOMAIN new : i + 1 \in DOMAIN old /\ new[i] = old[i + 1]
  <2>1. new = Tail(old)
    BY <1>1 DEF FailInv, ChannelInv, ChannelType
  <2>2. ASSUME NEW s \in Seq(Answers), s # <<>>
        PROVE  /\ Len(s) \in Nat \ {0} /\ DOMAIN s = 1..Len(s)
               /\ DOMAIN Tail(s) = 1..(Len(s) - 1)
               /\ \A i \in DOMAIN Tail(s) : i + 1 \in DOMAIN s /\ Tail(s)[i] = s[i + 1]
    BY <2>2
  <2> QED
    BY <1>1, <2>1, <2>2
<1>3. /\ \A i \in DOMAIN old : old[i] \in answers
      /\ \A i, j \in DOMAIN old : old[i].region = old[j].region => i = j
  BY <1>1 DEF FailInv, AnswersInv
<1>4. NextAnswer = old[1] /\ 1 \in DOMAIN old
  BY <1>1, <1>2 DEF NextAnswer
<1>5. AnswersInv'
  <2>1. \A i \in DOMAIN new : new[i] \in answers
    BY <1>2, <1>3
  <2>2. \A i, j \in DOMAIN new : new[i].region = new[j].region => i = j
    BY <1>2, <1>3
  <2> QED
    BY <1>1, <2>1, <2>2 DEF FailInv, AnswersInv
<1>6. FailedRegions' = FailedRegions
  BY <1>1 DEF FailedRegions
<1>7. Buffered' \subseteq Buffered
  BY <1>2 DEF Buffered
<1>8. NextAnswer.region \notin Buffered'
  <2> SUFFICES ASSUME NEW i \in DOMAIN new, new[i].region = NextAnswer.region PROVE FALSE
    BY DEF Buffered
  <2>1. i + 1 \in DOMAIN old /\ old[i + 1].region = old[1].region
    BY <1>2, <1>4
  <2> QED
    BY <1>2, <1>3, <1>4, <2>1
<1>9. NextAnswer.region \in Buffered /\ Buffered' = Buffered \ {NextAnswer.region}
  <2>1. NextAnswer.region \in Buffered
    BY <1>4 DEF Buffered
  <2>2. ASSUME NEW i \in DOMAIN old, old[i].region # NextAnswer.region
        PROVE  old[i].region \in Buffered'
    <3> HIDE DEF old, new
    <3>1. i \in 1..Len(old) /\ i # 1
      BY <1>2, <1>4, <2>2
    <3>2. i - 1 \in 1..(Len(old) - 1) /\ (i - 1) + 1 = i
      BY <1>2, <3>1
    <3>3. new[i - 1] = old[i]
      BY <1>2, <3>2
    <3> QED
      BY <1>2, <3>2, <3>3 DEF Buffered, new
  <2>3. \A r \in Buffered : \E i \in DOMAIN old : r = old[i].region
    BY DEF Buffered
  <2> QED
    BY <1>7, <1>8, <2>1, <2>2, <2>3
<1>10. NextAnswer \in answers
  BY <1>3, <1>4
<1>11. NextAnswer.kind = "failed" => NextAnswer.region \in FailedRegions
  BY <1>10 DEF FailedRegions
<1> QED
  BY <1>5, <1>6, <1>7, <1>8, <1>9, <1>10, <1>11 DEF Gone

\* A new call has neither answers nor failures.
LEMMA CallFail == FailInv /\ Call => FailInv'
<1> SUFFICES ASSUME FailInv, Call PROVE FailInv'
  OBVIOUS
<1>1. ChannelInv'
  BY CallKeeps DEF FailInv
<1>2. /\ call + 1 \in Calls /\ call \in Nat
      /\ call' = call + 1 /\ channel' = channel /\ held' = held
      /\ worker' = [worker EXCEPT ![call + 1] = [r \in Regions |-> "waiting"]]
      /\ answers' = {} /\ skipped' = skipped /\ skipped = 0
      /\ returned' = Pending /\ collecting'
  BY ConstantsAssumption
  DEF Call, FailInv, ChannelInv, ChannelType, Calls, collectVars, SkippedInv
<1>3. channel'[call'] = <<>>
  BY <1>2 DEF FailInv, ChannelInv
<1>4. AnswersInv'
  <2>1. ASSUME NEW c \in Calls, NEW r \in Regions, worker'[c][r] \in {"refused", "sending"}
        PROVE  held'[c][r].region = r
    <3>1. worker[c][r] \in {"refused", "sending"}
      BY <1>2, <2>1 DEF FailInv, ChannelInv, ChannelType
    <3> QED
      BY <1>2, <3>1 DEF FailInv, AnswersInv
  <2> QED
    BY <1>2, <1>3, <2>1 DEF AnswersInv
<1>5. Cardinality(Gone') \in Nat
  <2>1. FailedRegions' = {}
    BY <1>2 DEF FailedRegions
  <2> QED
    BY <2>1, FS_EmptySet DEF Gone
<1>6. SkippedInv'
  BY <1>2, <1>5 DEF SkippedInv, Pending
<1> QED
  BY <1>1, <1>4, <1>6 DEF FailInv

\* A goroutine that does not send leaves what was sent as it is.
LEMMA MoveFail ==
    ASSUME FailInv, ChannelInv', NEW c \in Calls, NEW r \in Regions, NEW state \in WorkerStates,
           worker[c][r] # "done",
           worker' = [worker EXCEPT ![c][r] = state],
           state \in {"refused", "sending"} => held'[c][r].region = r,
           \A d \in Calls, q \in Regions : d # c \/ q # r => held'[d][q] = held[d][q],
           UNCHANGED <<params, call, collecting, channel, answers, skipped, returned>>
    PROVE  FailInv'
<1>1. ASSUME NEW d \in Calls, NEW q \in Regions, worker'[d][q] \in {"refused", "sending"}
      PROVE  held'[d][q].region = q
  <2>1. CASE d = c /\ q = r
    BY <1>1, <2>1 DEF FailInv, ChannelInv, ChannelType
  <2>2. CASE d # c \/ q # r
    <3>1. worker'[d][q] = worker[d][q] /\ held'[d][q] = held[d][q]
      BY <2>2 DEF FailInv, ChannelInv, ChannelType
    <3> QED
      BY <1>1, <3>1 DEF FailInv, AnswersInv
  <2> QED
    BY <2>1, <2>2
<1>2. ASSUME call # 0, NEW a \in answers PROVE worker'[call][a.region] = "done"
  <2>1. worker[call][a.region] = "done" /\ a.region \in Regions
    BY <1>2 DEF FailInv, AnswersInv, Answers
  <2>2. call \in Calls
    BY <1>2, ConstantsAssumption DEF FailInv, ChannelInv, ChannelType, Calls
  <2> QED
    BY <2>1, <2>2 DEF FailInv, ChannelInv, ChannelType
<1>3. AnswersInv'
  BY <1>1, <1>2 DEF FailInv, AnswersInv
<1>4. Gone' = Gone
  BY DEF Gone, FailedRegions, Buffered
<1>5. SkippedInv'
  BY <1>4 DEF FailInv, SkippedInv
<1> QED
  BY <1>3, <1>5 DEF FailInv

\* Sending names the goroutine's region, which no answer of the call did.
LEMMA SendFail ==
    ASSUME FailInv, NEW c \in Calls, NEW r \in Regions, Send(c, r)
    PROVE  FailInv'
<1>1. /\ worker[c][r] \in {"refused", "sending"}
      /\ held[c][r] \in Answers /\ held[c][r].region = r
      /\ worker' = [worker EXCEPT ![c][r] = "done"]
      /\ held' = [held EXCEPT ![c][r] = NoAnswer]
      /\ channel' = [channel EXCEPT ![c] = Append(channel[c], held[c][r])]
      /\ answers' = IF c = call THEN answers \cup {held[c][r]} ELSE answers
      /\ UNCHANGED <<params, call, collecting, skipped, returned>>
  BY DEF Send, FailInv, AnswersInv, ChannelInv, ChannelType, collectVars
<1>2. ChannelInv'
  BY SendKeeps DEF FailInv
<1>3. answers' \subseteq Answers
  BY <1>1 DEF FailInv, AnswersInv
<1>4. ASSUME NEW d \in Calls, NEW q \in Regions, worker'[d][q] \in {"refused", "sending"}
      PROVE  held'[d][q].region = q
  <2>1. d # c \/ q # r
    BY <1>1, <1>4 DEF FailInv, ChannelInv, ChannelType
  <2>2. worker'[d][q] = worker[d][q] /\ held'[d][q] = held[d][q]
    BY <1>1, <2>1 DEF FailInv, ChannelInv, ChannelType
  <2> QED
    BY <1>4, <2>2 DEF FailInv, AnswersInv
<1>5. call # 0 => call \in Calls
  BY ConstantsAssumption DEF FailInv, ChannelInv, ChannelType, Calls
<1>6. ASSUME call # 0, NEW a \in answers' PROVE worker'[call][a.region] = "done"
  <2>1. CASE a \in answers
    <3>1. worker[call][a.region] = "done" /\ a.region \in Regions
      BY <1>6, <2>1 DEF FailInv, AnswersInv, Answers
    <3> QED
      BY <1>1, <1>5, <1>6, <3>1 DEF FailInv, ChannelInv, ChannelType
  <2>2. CASE c = call /\ a = held[c][r]
    BY <1>1, <2>2 DEF FailInv, ChannelInv, ChannelType
  <2> QED
    BY <1>1, <1>6, <2>1, <2>2
<1> DEFINE old == channel[call]
           new == channel'[call']
<1>7. ASSUME c = call PROVE AnswersInv' /\ (call # 0 => Gone \subseteq Gone')
  <2>1. /\ old \in Seq(Answers) /\ Len(old) \in Nat
        /\ new = Append(old, held[c][r])
        /\ DOMAIN old = 1..Len(old) /\ DOMAIN new = 1..(Len(old) + 1)
        /\ \A i \in DOMAIN old : new[i] = old[i]
        /\ new[Len(old) + 1] = held[c][r]
    BY <1>1, <1>7 DEF FailInv, ChannelInv, ChannelType
  <2>2. call # 0
    BY <1>7 DEF Calls
  <2>3. /\ \A i \in DOMAIN old : old[i] \in answers
        /\ \A i, j \in DOMAIN old : old[i].region = old[j].region => i = j
        /\ \A a \in answers : worker[call][a.region] = "done"
    BY <2>2 DEF FailInv, AnswersInv
  <2>4. \A a \in answers : a.region # r
    BY <1>1, <1>7, <2>3
  <2>5. \A i \in DOMAIN new : new[i] \in answers'
    BY <1>1, <1>7, <2>1, <2>3
  <2>6. ASSUME NEW i \in DOMAIN new, NEW j \in DOMAIN new, new[i].region = new[j].region
        PROVE  i = j
    <3>1. \A k \in DOMAIN old : old[k].region # r
      BY <2>3, <2>4
    <3>2. CASE i \in DOMAIN old /\ j \in DOMAIN old
      BY <2>1, <2>3, <2>6, <3>2
    <3>3. CASE i \notin DOMAIN old /\ j \notin DOMAIN old
      BY <2>1, <3>3
    <3>4. CASE i \in DOMAIN old /\ j \notin DOMAIN old
      BY <1>1, <2>1, <2>6, <3>1, <3>4
    <3>5. CASE i \notin DOMAIN old /\ j \in DOMAIN old
      BY <1>1, <2>1, <2>6, <3>1, <3>5
    <3> QED
      BY <3>2, <3>3, <3>4, <3>5
  <2>7. AnswersInv'
    BY <1>1, <1>3, <1>4, <1>6, <2>5, <2>6 DEF AnswersInv
  <2>8. Gone \subseteq Gone'
    <3>1. FailedRegions \subseteq FailedRegions'
      BY <1>1, <1>7 DEF FailedRegions
    <3>2. Buffered' \subseteq Buffered \cup {r}
      BY <1>1, <2>1 DEF Buffered
    <3>3. r \notin FailedRegions
      BY <2>4 DEF FailedRegions
    <3> QED
      BY <3>1, <3>2, <3>3 DEF Gone
  <2> QED
    BY <2>7, <2>8
<1>8. ASSUME c # call PROVE AnswersInv' /\ (call # 0 => Gone \subseteq Gone')
  <2>1. answers' = answers /\ (call # 0 => new = old)
    BY <1>1, <1>5, <1>8 DEF FailInv, ChannelInv, ChannelType
  <2>2. AnswersInv'
    BY <1>1, <1>3, <1>4, <1>6, <2>1 DEF FailInv, AnswersInv
  <2>3. call # 0 => Gone' = Gone
    BY <2>1 DEF Gone, FailedRegions, Buffered
  <2> QED
    BY <2>2, <2>3
<1>9. AnswersInv' /\ (call # 0 => Gone \subseteq Gone')
  BY <1>7, <1>8
<1>10. SkippedInv'
  <2>1. Gone' \subseteq Regions
    BY <1>9 DEF Gone, FailedRegions, AnswersInv, Answers
  <2>2. IsFiniteSet(Gone') /\ Cardinality(Gone') \in Nat
    BY <2>1, RegionsFinite, FS_Subset, FS_CardinalityType
  <2>3. Cardinality(Gone) \in Nat
    BY GoneFinite DEF FailInv
  <2>4. call # 0 => Cardinality(Gone) <= Cardinality(Gone')
    BY <1>9, <2>2, FS_Subset
  <2>5. returned'.kind = "error" => Excused(params', answers')
    <3>1. AnswersInv /\ AnswersInv' /\ answers \subseteq answers'
      BY <1>1, <1>9 DEF FailInv
    <3> QED
      BY <1>1, <3>1, ExcuseStays DEF FailInv, SkippedInv
  <2> QED
    BY <1>1, <2>2, <2>3, <2>4, <2>5 DEF FailInv, SkippedInv
<1> QED
  BY <1>2, <1>9, <1>10 DEF FailInv

\* A goroutine sends a region's answer once, and leaves the count alone.
LEMMA GoroutineFail ==
    ASSUME FailInv, NEW c \in Calls, NEW r \in Regions, Goroutine(c, r)
    PROVE  FailInv'
<1>1. ChannelInv'
  BY GoroutineKeeps DEF FailInv
<1>2. CASE Acquire(c, r)
  BY <1>1, <1>2, MoveFail DEF Acquire, WorkerStates, collectVars
<1>3. CASE Refuse(c, r)
  <2>1. held'[c][r].region = r
    BY <1>3 DEF Refuse, Error, FailInv, ChannelInv, ChannelType
  <2>2. \A d \in Calls, q \in Regions : d # c \/ q # r => held'[d][q] = held[d][q]
    BY <1>3 DEF Refuse, FailInv, ChannelInv, ChannelType
  <2> QED
    BY <1>1, <1>3, <2>1, <2>2, MoveFail DEF Refuse, WorkerStates, collectVars
<1>4. CASE Discover(c, r)
  <2>1. PICK a : a.region = r /\ held' = [held EXCEPT ![c][r] = a]
    BY <1>4 DEF Discover, Found, Error
  <2>2. held'[c][r].region = r
    BY <2>1 DEF FailInv, ChannelInv, ChannelType
  <2>3. \A d \in Calls, q \in Regions : d # c \/ q # r => held'[d][q] = held[d][q]
    BY <2>1 DEF FailInv, ChannelInv, ChannelType
  <2> QED
    BY <1>1, <1>4, <2>2, <2>3, MoveFail DEF Discover, WorkerStates, collectVars
<1>5. CASE Send(c, r)
  BY <1>5, SendFail
<1> QED
  BY <1>2, <1>3, <1>4, <1>5 DEF Goroutine

\* An answer is counted if it is a failure, and the call goes on ...
LEMMA CountFail == FailInv /\ (Merge \/ Skip) => FailInv'
<1> SUFFICES ASSUME FailInv, Merge \/ Skip PROVE FailInv'
  OBVIOUS
<1>1. Receive
  BY DEF Merge, Skip
<1>2. ChannelInv'
  BY <1>1, ReceiveKeeps DEF FailInv, Merge, Skip, Receive
<1>3. /\ AnswersInv' /\ Gone \subseteq Gone'
      /\ NextAnswer.kind = "failed" => NextAnswer.region \in Gone' \ Gone
  BY <1>1, ReceiveAnswer
<1>4. collecting /\ call # 0 /\ UNCHANGED <<params, call, collecting, answers, returned>>
  BY DEF Merge, Skip, Receive, CanReceive, FailInv, ChannelInv
<1>5. /\ IsFiniteSet(Gone) /\ Cardinality(Gone) \in Nat
      /\ IsFiniteSet(Gone') /\ Cardinality(Gone') \in Nat
  <2>1. Gone' \subseteq Regions
    BY <1>3 DEF Gone, FailedRegions, AnswersInv, Answers
  <2> QED
    BY <2>1, GoneFinite, RegionsFinite, FS_Subset, FS_CardinalityType DEF FailInv
<1>6. skipped \in Nat /\ skipped <= Cardinality(Gone)
  BY <1>4 DEF FailInv, SkippedInv
<1>7. skipped' \in Nat /\ skipped' <= Cardinality(Gone')
  <2>1. CASE Merge
    <3>1. Cardinality(Gone) <= Cardinality(Gone')
      BY <1>3, <1>5, FS_Subset
    <3> QED
      BY <1>5, <1>6, <2>1, <3>1 DEF Merge
  <2>2. CASE Skip
    <3> DEFINE r == NextAnswer.region
    <3>1. r \in Gone' /\ r \notin Gone /\ skipped' = skipped + 1
      BY <1>3, <2>2 DEF Skip
    <3>2. IsFiniteSet(Gone \cup {r}) /\ Cardinality(Gone \cup {r}) = Cardinality(Gone) + 1
      BY <1>5, <3>1, FS_AddElement
    <3>3. Cardinality(Gone \cup {r}) <= Cardinality(Gone')
      BY <1>3, <1>5, <3>1, FS_Subset
    <3> QED
      BY <1>5, <1>6, <3>1, <3>2, <3>3
  <2> QED
    BY <2>1, <2>2
<1>8. SkippedInv'
  BY <1>4, <1>7 DEF FailInv, SkippedInv
<1> QED
  BY <1>2, <1>3, <1>8 DEF FailInv

\* ... or ends it, with an answer that was sent for an excuse ...
LEMMA GiveUpFail == FailInv /\ GiveUp => FailInv'
<1> SUFFICES ASSUME FailInv, GiveUp PROVE FailInv'
  OBVIOUS
<1>1. Receive
  BY DEF GiveUp
<1>2. ChannelInv'
  BY <1>1, ReceiveKeeps DEF FailInv, GiveUp, Receive, Return
<1>3. AnswersInv' /\ NextAnswer \in answers
  BY <1>1, ReceiveAnswer
<1>4. Gone' \subseteq Regions
  BY <1>3 DEF Gone, FailedRegions, AnswersInv, Answers
<1>5. Cardinality(Gone') \in Nat
  BY <1>4, RegionsFinite, FS_Subset, FS_CardinalityType
<1>6. NextAnswer.kind = "ended" /\ skipped' = 0 /\ answers' = answers /\ params' = params
  BY DEF GiveUp, Receive, Return, ClearLocals
<1>7. Excused(params', answers')
  BY <1>3, <1>6 DEF Excused
<1>8. SkippedInv'
  BY <1>5, <1>6, <1>7 DEF SkippedInv
<1> QED
  BY <1>2, <1>3, <1>8 DEF FailInv

\* ... and as many failures as regions are the failures of all of them.
LEMMA FinishFail == FailInv /\ Finish => FailInv'
<1> SUFFICES ASSUME FailInv, Finish PROVE FailInv'
  OBVIOUS
<1>1. UNCHANGED <<params, call, worker, held, channel, answers>>
  BY DEF Finish, workerVars
<1>2. collecting /\ collecting' = FALSE /\ skipped' = 0 /\ call # 0
  BY DEF Finish, Return, ClearLocals, FailInv, ChannelInv
<1>3. ChannelInv'
  BY <1>1, <1>2 DEF FailInv, ChannelInv, ChannelType, Done
<1>4. AnswersInv'
  BY <1>1 DEF FailInv, AnswersInv
<1>5. Gone' = Gone
  BY <1>1 DEF Gone, FailedRegions, Buffered
<1>6. Gone \subseteq Regions /\ IsFiniteSet(Gone) /\ Cardinality(Gone) \in Nat
  BY GoneFinite DEF FailInv
<1>7. ASSUME returned'.kind = "error" PROVE Excused(params', answers')
  <2>1. skipped = Count
    BY <1>7 DEF Finish, Return
  <2>2. Cardinality(Gone) <= Count
    BY <1>6, RegionsFinite, FS_Subset DEF Count
  <2>3. Count <= Cardinality(Gone)
    BY <1>2, <2>1 DEF FailInv, SkippedInv
  <2>4. Gone = Regions
    BY <1>6, <2>2, <2>3, RegionsFinite, FS_Subset DEF Count
  <2>5. FailedRegions = Regions
    BY <2>4 DEF Gone, FailedRegions, FailInv, AnswersInv, Answers
  <2> QED
    BY <1>1, <2>5 DEF Excused, FailedRegions
<1>8. SkippedInv'
  BY <1>2, <1>5, <1>6, <1>7 DEF SkippedInv
<1> QED
  BY <1>3, <1>4, <1>8 DEF FailInv

\* No step of goroutines or of GetVersions breaks the invariant.
LEMMA NextFail == FailInv /\ [Next]_vars => FailInv'
<1> SUFFICES ASSUME FailInv, [Next]_vars PROVE FailInv'
  OBVIOUS
<1>1. CASE Call
  BY <1>1, CallFail
<1>2. ASSUME NEW c \in Calls, NEW r \in Regions, Goroutine(c, r) PROVE FailInv'
  BY <1>2, GoroutineFail
<1>3. CASE Collect
  BY <1>3, CountFail, GiveUpFail, FinishFail DEF Collect
<1>4. CASE Cancel \/ UNCHANGED vars
  <2>1. UNCHANGED <<params, call, collecting, workerVars, collectVars, returned>>
    BY <1>4 DEF Cancel, vars
  <2>2. ChannelInv'
    BY <2>1 DEF workerVars, FailInv, ChannelInv, ChannelType, Done
  <2>3. AnswersInv'
    BY <2>1 DEF workerVars, FailInv, AnswersInv
  <2>4. Gone' = Gone
    BY <2>1 DEF workerVars, Gone, FailedRegions, Buffered
  <2>5. SkippedInv'
    BY <2>1, <2>4 DEF workerVars, collectVars, FailInv, SkippedInv
  <2> QED
    BY <2>2, <2>3, <2>5 DEF FailInv
<1> QED
  BY <1>1, <1>2, <1>3, <1>4 DEF Next

\* Whatever the regions and the order of their answers, an error of GetVersions
\* means that a context ended or that every region failed: one region that is
\* down does not stop the update of the others' images.
THEOREM FailsOnlyForAReason == Spec => []FailsForAReason
<1>1. Spec => []FailInv
  BY InitFail, NextFail, PTL DEF Spec
<1>2. FailInv => FailsForAReason
  BY DEF FailInv, SkippedInv, FailsForAReason
<1> QED
  BY <1>1, <1>2, PTL

-----------------------------------------------------------------------------
(***************************************************************************)
(* What the answers become, in whatever order they arrive, and that        *)
(* GlanceSource implements Source.  What is said of every finite set of    *)
(* versions is proved by taking a smallest set of which it is not true.    *)
(***************************************************************************)
\* A number that no other of a set exceeds.
IsGreatest(m, S) == m \in S /\ \A x \in S : x <= m

\* Finitely many numbers have a greatest: a smallest set without one would have
\* one after all, the greater of any of its members and the greatest of the rest.
LEMMA GreatestExists ==
    ASSUME NEW S, IsFiniteSet(S), S \subseteq Nat, S # {}
    PROVE  \E m \in S : IsGreatest(m, S)
<1> DEFINE Bad == {U \in FiniteSubsetsOf(S) : U # {} /\ ~\E m \in U : IsGreatest(m, U)}
<1> SUFFICES ASSUME ~\E m \in S : IsGreatest(m, S) PROVE FALSE
  OBVIOUS
<1>1. Bad # {} /\ Bad \subseteq FiniteSubsetsOf(S)
  BY DEF FiniteSubsetsOf
<1>2. IsWellFoundedOn(StrictSubsetOrdering(S), FiniteSubsetsOf(S))
  BY FS_StrictSubsetOrderingWellFounded
<1>3. PICK U \in Bad : \A V \in Bad : ~(<<V, U>> \in StrictSubsetOrdering(S))
  <2> HIDE DEF Bad
  <2> QED
    BY <1>1, <1>2, WFMin
<1>4. PICK x \in U : TRUE
  OBVIOUS
<1>5. U \subseteq S /\ IsFiniteSet(U) /\ x \in Nat
  BY DEF FiniteSubsetsOf
<1> DEFINE V == U \ {x}
<1>6. V \subseteq U /\ V # U /\ IsFiniteSet(V)
  BY <1>5, FS_RemoveElement
<1>7. <<V, U>> \in StrictSubsetOrdering(S)
  BY <1>5, <1>6 DEF StrictSubsetOrdering
<1>8. V = {} \/ \E m \in V : IsGreatest(m, V)
  BY <1>3, <1>5, <1>6, <1>7 DEF FiniteSubsetsOf
<1>9. \E m \in U : IsGreatest(m, U)
  <2>1. CASE V = {}
    BY <1>5, <2>1 DEF IsGreatest
  <2>2. CASE V # {}
    <3>1. PICK m \in V : IsGreatest(m, V)
      BY <1>8, <2>2
    <3>2. m \in Nat /\ \A y \in U : y \in Nat
      BY <1>5
    <3>3. CASE m >= x
      BY <1>5, <3>1, <3>2, <3>3 DEF IsGreatest
    <3>4. CASE m < x
      BY <1>5, <3>1, <3>2, <3>4 DEF IsGreatest
    <3> QED
      BY <1>5, <3>2, <3>3, <3>4
  <2> QED
    BY <2>1, <2>2
<1> QED
  BY <1>9

\* A sequence of distinct numbers, the greatest first, of all that a set has.
Descends(s, S) ==
    /\ s \in [1..Cardinality(S) -> S]
    /\ \A i, j \in 1..Cardinality(S) : i < j => s[i] > s[j]

\* Finitely many numbers can be put in order: the greatest before the others.
LEMMA OrderExists ==
    ASSUME NEW S, IsFiniteSet(S), S \subseteq Nat
    PROVE  \E s : Descends(s, S)
<1> DEFINE Bad == {U \in FiniteSubsetsOf(S) : ~\E s : Descends(s, U)}
<1> SUFFICES ASSUME ~\E s : Descends(s, S) PROVE FALSE
  OBVIOUS
<1>1. Bad # {} /\ Bad \subseteq FiniteSubsetsOf(S)
  BY DEF FiniteSubsetsOf
<1>2. IsWellFoundedOn(StrictSubsetOrdering(S), FiniteSubsetsOf(S))
  BY FS_StrictSubsetOrderingWellFounded
<1>3. PICK U \in Bad : \A V \in Bad : ~(<<V, U>> \in StrictSubsetOrdering(S))
  <2> HIDE DEF Bad
  <2> QED
    BY <1>1, <1>2, WFMin
<1>4. U \subseteq S /\ IsFiniteSet(U)
  BY DEF FiniteSubsetsOf
<1>5. CASE U = {}
  <2>1. Cardinality(U) = 0
    BY <1>5, FS_EmptySet
  <2>2. Descends([i \in {} |-> 0], U)
    BY <2>1 DEF Descends
  <2> QED
    BY <2>2
<1>6. CASE U # {}
  <2>1. PICK m \in U : IsGreatest(m, U)
    BY <1>4, <1>6, GreatestExists
  <2> DEFINE V == U \ {m}
             n == Cardinality(V)
  <2>2. V \subseteq U /\ V # U /\ IsFiniteSet(V) /\ n \in Nat
    BY <1>4, FS_RemoveElement, FS_CardinalityType
  <2>3. Cardinality(U) = n + 1
    BY <1>4, <2>2, FS_RemoveElement, FS_CardinalityType
  <2>4. <<V, U>> \in StrictSubsetOrdering(S)
    BY <1>4, <2>2 DEF StrictSubsetOrdering
  <2>5. PICK s : Descends(s, V)
    BY <1>3, <1>4, <2>2, <2>4 DEF FiniteSubsetsOf
  <2>6. \A x \in V : x \in Nat /\ m \in Nat /\ x < m
    BY <1>4, <2>1 DEF IsGreatest
  <2> HIDE DEF n
  <2> DEFINE t == [i \in 1..(n + 1) |-> IF i = 1 THEN m ELSE s[i - 1]]
  <2>7. s \in [1..n -> V] /\ \A i, j \in 1..n : i < j => s[i] > s[j]
    BY <2>5 DEF Descends, n
  <2>8. \A i \in 1..(n + 1) : i # 1 => i - 1 \in 1..n /\ t[i] = s[i - 1] /\ t[i] \in V
    BY <2>2, <2>7
  <2>9. t \in [1..(n + 1) -> U]
    BY <2>8
  <2>10. ASSUME NEW i \in 1..(n + 1), NEW j \in 1..(n + 1), i < j PROVE t[i] > t[j]
    <3>1. j # 1 /\ t[j] = s[j - 1] /\ j - 1 \in 1..n /\ t[j] \in V
      BY <2>2, <2>8, <2>10
    <3>2. CASE i = 1
      BY <2>2, <2>6, <3>1, <3>2
    <3>3. CASE i # 1
      <4>1. t[i] = s[i - 1] /\ i - 1 \in 1..n /\ i - 1 < j - 1
        BY <2>2, <2>8, <2>10, <3>3
      <4> QED
        BY <2>7, <3>1, <4>1
    <3> QED
      BY <3>2, <3>3
  <2>11. Descends(t, U)
    BY <2>3, <2>9, <2>10 DEF Descends
  <2> QED
    BY <2>11
<1> QED
  BY <1>5, <1>6

\* The order in which GetVersions sorts is one.
LEMMA Sorted ==
    ASSUME NEW S, IsFiniteSet(S), S \subseteq Nat
    PROVE  Descends(NewestFirst(S), S)
  BY OrderExists DEF Descends, NewestFirst

\* Those of a set that are newer.
Newer(v, S) == {w \in S : w > v}

\* In that order every member has as many before it as exceed it.
LEMMA Ranked ==
    ASSUME NEW S, IsFiniteSet(S), S \subseteq Nat, NEW s, Descends(s, S)
    PROVE  /\ Cardinality(S) \in Nat
           /\ Range(s) = S
           /\ \A i \in 1..Cardinality(S) : Cardinality(Newer(s[i], S)) = i - 1
<1> DEFINE n == Cardinality(S)
<1>1. n \in Nat
  BY FS_CardinalityType
<1>2. s \in [1..n -> S] /\ \A i, j \in 1..n : i < j => s[i] > s[j]
  BY DEF Descends
<1>3. \A i \in 1..n : s[i] \in Nat /\ s[i] \in S
  BY <1>2
<1>4. \A i, j \in 1..n : s[i] = s[j] => i = j
  BY <1>1, <1>2, <1>3
<1>5. \A v \in S : \E i \in 1..n : s[i] = v
  <2>1. s \in Injection(1..n, S)
    BY <1>2, <1>4, Fun_IsInj
  <2>2. Cardinality(1..n) = n
    BY <1>1, FS_Interval
  <2>3. s \in Surjection(1..n, S)
    BY <2>1, <2>2, FS_Injection
  <2> QED
    BY <2>3 DEF Surjection
<1>6. ASSUME NEW i \in 1..n PROVE Cardinality(Newer(s[i], S)) = i - 1
  <2> DEFINE before == [j \in 1..(i - 1) |-> s[j]]
             newer == Newer(s[i], S)
  <2>1. i - 1 \in Nat /\ \A j \in 1..(i - 1) : j \in 1..n /\ j < i
    BY <1>1
  <2>2. before \in [1..(i - 1) -> newer]
    BY <1>2, <1>3, <2>1 DEF Newer
  <2>3. \A j, k \in 1..(i - 1) : before[j] = before[k] => j = k
    BY <1>4, <2>1
  <2>4. ASSUME NEW w \in newer PROVE \E j \in 1..(i - 1) : before[j] = w
    <3>1. PICK j \in 1..n : s[j] = w
      BY <1>5, <2>4 DEF Newer
    <3>2. s[j] > s[i]
      BY <3>1, <2>4 DEF Newer
    <3>3. ~(i < j) /\ i # j
      BY <1>2, <1>3, <3>2
    <3>4. j \in 1..(i - 1)
      BY <1>1, <3>3
    <3> QED
      BY <3>1, <3>4
  <2> HIDE DEF before, newer
  <2>5. before \in Bijection(1..(i - 1), newer)
    BY <2>2, <2>3, <2>4, Fun_IsBij
  <2>6. Cardinality(newer) = i - 1
    BY <2>1, <2>5, FS_CountingElements DEF ExistsBijection
  <2> QED
    BY <2>6 DEF newer
<1>7. Range(s) = S
  BY <1>2, <1>5 DEF Range
<1> QED
  BY <1>1, <1>6, <1>7

\* How a source is configured.
LEMMA ParamsType ==
    ASSUME params \in Params
    PROVE  /\ Offset(params) \in Nat /\ KeepLatest(params) \in Int
           /\ params.requireAllRegions \in BOOLEAN
<1>1. params \in [keepLatest: Int, versionOffset: Int, requireAllRegions: BOOLEAN]
  BY ConstantsAssumption
<1> QED
  BY <1>1 DEF Offset, KeepLatest

\* Of a set of versions, those that the window shows.
Shown(S) ==
    {v \in S :
        LET newer == Cardinality(Newer(v, S)) IN
        /\ newer >= Offset(params)
        /\ KeepLatest(params) > 0 => newer < Offset(params) + KeepLatest(params)}

\* The window keeps the order, and shows the versions that so many exceed.
LEMMA WindowShows ==
    ASSUME params \in Params, NEW S, IsFiniteSet(S), S \subseteq Nat
    PROVE  LET t == Window(NewestFirst(S)) IN
           /\ t \in Seq(S)
           /\ \A i, j \in 1..Len(t) : i < j => t[i] > t[j]
           /\ \A v : v \in Shown(S) <=> \E i \in 1..Len(t) : t[i] = v
<1>0. PICK s : s = NewestFirst(S) /\ Descends(s, S)
  BY Sorted
<1> DEFINE n == Cardinality(S)
           off == Offset(params)
           keep == KeepLatest(params)
           lo == Smaller(off, n)
           hi == IF keep > 0 THEN Smaller(lo + keep, n) ELSE n
           t == Window(s)
<1>1. /\ n \in Nat
      /\ \A v \in S : \E i \in 1..n : s[i] = v
      /\ \A i \in 1..n : Cardinality(Newer(s[i], S)) = i - 1
      /\ s \in [1..n -> S]
      /\ \A i, j \in 1..n : i < j => s[i] > s[j]
  <2>1. Descends(s, S)
    BY <1>0
  <2>2. n \in Nat /\ Range(s) = S
    BY <2>1, Ranked
  <2>3. s \in [1..n -> S] /\ \A i, j \in 1..n : i < j => s[i] > s[j]
    BY <2>1 DEF Descends
  <2>4. \A v \in S : \E i \in 1..n : s[i] = v
    BY <2>2, <2>3 DEF Range
  <2>5. ASSUME NEW i \in 1..n PROVE Cardinality(Newer(s[i], S)) = i - 1
    BY <2>1, <2>2, Ranked
  <2> QED
    BY <2>2, <2>3, <2>4, <2>5
<1> HIDE DEF n
<1>2. off \in Nat /\ keep \in Int
  BY ParamsType
<1> HIDE DEF off, keep
<1>3. s \in Seq(S) /\ Len(s) = n
  BY <1>1
<1>4. lo \in Nat /\ hi \in Nat /\ lo <= hi /\ hi <= n
  BY <1>1, <1>2 DEF Smaller
<1>5. t = SubSeq(s, lo + 1, hi)
  BY <1>3 DEF Window, off, keep
<1>6. \A i \in (lo + 1)..hi : i \in 1..n /\ s[i] \in S
  BY <1>1, <1>4
<1>7. \A i \in 1..n :
          (i - 1 >= off /\ (keep > 0 => i - 1 < off + keep)) <=> i \in (lo + 1)..hi
  BY <1>1, <1>2 DEF Smaller
<1> HIDE DEF lo, hi, t
<1>8. /\ t \in Seq(S) /\ Len(t) = hi - lo
      /\ \A i \in 1..(hi - lo) : t[i] = s[lo + i]
  <2>1. /\ t \in Seq(S)
        /\ Len(t) = IF lo + 1 <= hi THEN hi - (lo + 1) + 1 ELSE 0
        /\ \A i \in 1..(hi - (lo + 1) + 1) : t[i] = s[lo + 1 + i - 1]
    BY <1>4, <1>5, <1>6, SubSeqProperties
  <2>2. Len(t) = hi - lo
    BY <1>4, <2>1
  <2>3. \A i \in 1..(hi - lo) : t[i] = s[lo + i]
    <3> SUFFICES ASSUME NEW i \in 1..(hi - lo) PROVE t[i] = s[lo + i]
      OBVIOUS
    <3>1. i \in 1..(hi - (lo + 1) + 1) /\ lo + 1 + i - 1 = lo + i
      BY <1>4
    <3> QED
      BY <2>1, <3>1
  <2> QED
    BY <2>1, <2>2, <2>3
<1>9. ASSUME NEW i \in 1..Len(t), NEW j \in 1..Len(t), i < j PROVE t[i] > t[j]
  <2>1. lo + i \in 1..n /\ lo + j \in 1..n /\ lo + i < lo + j
    BY <1>1, <1>4, <1>8, <1>9
  <2> QED
    BY <1>1, <1>8, <2>1
<1>10. ASSUME NEW v \in Shown(S) PROVE \E i \in 1..Len(t) : t[i] = v
  <2>1. v \in S
    BY DEF Shown
  <2>2. PICK i \in 1..n : s[i] = v
    BY <1>1, <2>1
  <2>3. Cardinality(Newer(v, S)) = i - 1
    BY <1>1, <2>2
  <2>4. i \in (lo + 1)..hi
    BY <1>7, <2>3 DEF Shown, off, keep
  <2>5. i - lo \in 1..(hi - lo) /\ lo + (i - lo) = i
    BY <1>1, <1>4, <2>4
  <2> QED
    BY <1>8, <2>2, <2>5
<1>11. ASSUME NEW i \in 1..Len(t) PROVE t[i] \in Shown(S)
  <2>1. lo + i \in (lo + 1)..hi
    BY <1>1, <1>4, <1>8
  <2>2. PICK k \in 1..n : k = lo + i /\ k \in (lo + 1)..hi
    BY <1>6, <2>1
  <2>3. t[i] = s[k] /\ s[k] \in S
    BY <1>6, <1>8, <2>2
  <2>4. Cardinality(Newer(s[k], S)) = k - 1
    BY <1>1, <2>2
  <2>5. k - 1 >= off /\ (keep > 0 => k - 1 < off + keep)
    BY <1>7, <2>2
  <2> QED
    BY <2>3, <2>4, <2>5 DEF Shown, off, keep
<1> QED
  BY <1>8, <1>9, <1>10, <1>11, <1>0 DEF t

\* An image for a version, as GetVersions returns it.
ImageOf(v, regionsOf, S) ==
    [version |-> v, regions |-> regionsOf[v],
     class |-> IF \E w \in Shown(S) : w < v THEN "supported" ELSE "deprecated"]

\* One image for each version of the window: the oldest is deprecated, no other is.
LEMMA ClassifiedShows ==
    ASSUME params \in Params, listed \in [Versions -> SUBSET Regions],
           NEW S, IsFiniteSet(S), S \subseteq Versions
    PROVE  LET is == Classified(Window(NewestFirst(S))) IN
           /\ is \in Seq(Image)
           /\ ToSet(is) = {ImageOf(v, listed, S) : v \in Shown(S)}
           /\ Len(is) = Cardinality({ImageOf(v, listed, S) : v \in Shown(S)})
<1>1. S \subseteq Nat
  BY ConstantsAssumption
<1> DEFINE t == Window(NewestFirst(S))
           is == Classified(t)
           expected == {ImageOf(v, listed, S) : v \in Shown(S)}
<1>2. /\ t \in Seq(S)
      /\ \A i, j \in 1..Len(t) : i < j => t[i] > t[j]
      /\ \A v : v \in Shown(S) <=> \E i \in 1..Len(t) : t[i] = v
  BY <1>1, WindowShows
<1> HIDE DEF t
<1>3. Len(t) \in Nat /\ \A i \in 1..Len(t) : t[i] \in S /\ t[i] \in Nat
  <2>1. Len(t) \in Nat /\ \A i \in 1..Len(t) : t[i] \in S
    BY <1>2
  <2> QED
    BY <1>1, <2>1
<1>4. ASSUME NEW i \in 1..Len(t) PROVE i = Len(t) <=> ~\E w \in Shown(S) : w < t[i]
  <2>1. CASE i = Len(t)
    <3> SUFFICES ASSUME NEW w \in Shown(S), w < t[i] PROVE FALSE
      BY <2>1
    <3>1. PICK j \in 1..Len(t) : t[j] = w
      BY <1>2
    <3>2. j = i \/ j < i
      BY <1>3, <2>1
    <3> QED
      BY <1>2, <1>3, <3>1, <3>2
  <2>2. CASE i # Len(t)
    <3>1. Len(t) \in 1..Len(t) /\ i < Len(t)
      BY <1>3, <2>2
    <3>2. t[Len(t)] \in Shown(S) /\ t[i] > t[Len(t)]
      BY <1>2, <3>1
    <3> QED
      BY <1>3, <2>2, <3>1, <3>2
  <2> QED
    BY <2>1, <2>2
<1>5. ASSUME NEW i \in 1..Len(t) PROVE is[i] = ImageOf(t[i], listed, S)
  BY <1>4 DEF Classified, ImageOf
<1>6. Len(is) = Len(t) /\ DOMAIN is = 1..Len(t)
  BY <1>3 DEF Classified
<1>7. ASSUME NEW i \in 1..Len(t) PROVE is[i] \in Image
  <2>1. t[i] \in Versions /\ listed[t[i]] \subseteq Regions
    BY <1>3
  <2>2. ImageOf(t[i], listed, S) \in Image
    BY <2>1 DEF ImageOf, Image, Classes
  <2> QED
    BY <1>5, <2>2
<1>8. is \in Seq(Image)
  BY <1>3, <1>7 DEF Classified
<1> HIDE DEF is
<1>9. ToSet(is) = expected
  <2>1. ASSUME NEW i \in 1..Len(t) PROVE is[i] \in expected
    BY <1>2, <1>5
  <2>2. ASSUME NEW v \in Shown(S) PROVE ImageOf(v, listed, S) \in ToSet(is)
    <3>1. PICK i \in 1..Len(t) : t[i] = v
      BY <1>2
    <3> QED
      BY <1>5, <1>6, <3>1 DEF ToSet
  <2> QED
    BY <1>6, <2>1, <2>2 DEF ToSet
<1>10. \A i, j \in 1..Len(t) : is[i] = is[j] => i = j
  <2> SUFFICES ASSUME NEW i \in 1..Len(t), NEW j \in 1..Len(t), is[i] = is[j] PROVE i = j
    OBVIOUS
  <2>1. \A v : ImageOf(v, listed, S).version = v
    BY DEF ImageOf
  <2>2. t[i] = t[j]
    BY <1>5, <2>1
  <2> QED
    BY <1>2, <1>3, <2>2
<1>11. Len(is) = Cardinality(expected)
  <2>1. is \in [1..Len(t) -> expected]
    <3>1. is \in [1..Len(t) -> Image]
      BY <1>6, <1>8
    <3>2. \A i \in 1..Len(t) : is[i] \in expected
      BY <1>6, <1>9 DEF ToSet
    <3> HIDE DEF expected
    <3> QED
      BY <3>1, <3>2
  <2>2. \A e \in expected : \E i \in 1..Len(t) : is[i] = e
    BY <1>6, <1>9 DEF ToSet
  <2> HIDE DEF expected
  <2>3. is \in Bijection(1..Len(t), expected)
    BY <1>10, <2>1, <2>2, Fun_IsBij
  <2> QED
    BY <1>3, <1>6, <2>3, FS_CountingElements DEF ExistsBijection
<1> QED
  BY <1>8, <1>9, <1>11 DEF is, t

-----------------------------------------------------------------------------
(***************************************************************************)
(* What GetVersions has merged: of the answers that were sent, those that  *)
(* are not in the channel any more.                                        *)
(***************************************************************************)
Heard == {a \in answers : a.region \notin Buffered}
HeardFrom == {a.region : a \in Heard}

\* A region answers a call once, and lists nothing if it fails.
OneAnswer ==
    /\ \A a, b \in answers : a.region = b.region => a = b
    /\ \A a \in answers : a.kind # "found" => a.versions = {}
    /\ \A c \in Calls, r \in Regions : held[c][r].kind # "found" => held[c][r].versions = {}

\* The locals of GetVersions while it collects, and between two calls.
Merged ==
    /\ listed = [v \in Versions |-> Offering(Heard, v)]
    /\ spoke = Speaking(Heard)
    /\ received = Cardinality(HeardFrom)
    /\ skipped = Cardinality(Gone)
    /\ \A a \in Heard : a.kind # "ended"
Cleared == listed = Nothing /\ spoke = {} /\ skipped = 0 /\ received = 0

\* Images are returned when every region has answered, so no answer comes later.
ResultInv ==
    /\ returned \in [kind: {"none", "error", "images"}, images: Seq(Image)]
    /\ collecting => returned = Pending
    /\ returned.kind = "images" =>
          /\ {a.region : a \in answers} = Regions
          /\ ToSet(returned.images) = Expected(params, answers)
          /\ Len(returned.images) = Cardinality(Expected(params, answers))

CollectInv ==
    /\ FailInv
    /\ params \in Params /\ cancelled \in BOOLEAN /\ collecting \in BOOLEAN
    /\ OneAnswer
    /\ IF collecting THEN Merged ELSE Cleared
    /\ ResultInv

\* The regions heard from can be counted, and so can their answers.
LEMMA HeardFinite ==
    ASSUME FailInv, OneAnswer
    PROVE  /\ HeardFrom \subseteq Regions /\ IsFiniteSet(HeardFrom)
           /\ Cardinality(HeardFrom) \in 0..Count
           /\ IsFiniteSet(Heard)
<1>1. HeardFrom \subseteq Regions
  BY DEF HeardFrom, Heard, FailInv, AnswersInv, Answers
<1>2. IsFiniteSet(HeardFrom) /\ Cardinality(HeardFrom) \in Nat /\ Cardinality(HeardFrom) <= Count
  BY <1>1, RegionsFinite, FS_Subset, FS_CardinalityType DEF Count
<1>3. Cardinality(HeardFrom) \in 0..Count
  BY <1>2, RegionsFinite
<1> DEFINE f == [a \in Heard |-> a.region]
<1>4. f \in [Heard -> HeardFrom] /\ \A a, b \in Heard : f[a] = f[b] => a = b
  BY DEF HeardFrom, Heard, OneAnswer
<1> HIDE DEF f
<1>5. f \in Injection(Heard, HeardFrom)
  BY <1>4, Fun_IsInj
<1>6. IsFiniteSet(Heard)
  BY <1>2, <1>5, FS_Injection
<1> QED
  BY <1>1, <1>2, <1>3, <1>6

\* A version has as many images as regions that list it, and there are finitely
\* many versions that any region lists.
LEMMA OfferedFinite ==
    ASSUME NEW as, IsFiniteSet(as), as \subseteq Answers
    PROVE  IsFiniteSet({v \in Versions : Offering(as, v) # {}})
<1> DEFINE lists == {a.versions : a \in as}
           f == [a \in as |-> a.versions]
<1>1. f \in [as -> lists] /\ \A l \in lists : \E a \in as : f[a] = l
  OBVIOUS
<1>2. \A l \in lists : IsFiniteSet(l)
  BY ConstantsAssumption, FS_EmptySet DEF Answers
<1>3. {v \in Versions : Offering(as, v) # {}} \subseteq UNION lists
  BY DEF Offering
<1> HIDE DEF lists, f
<1>4. IsFiniteSet(lists)
  <2>1. f \in Surjection(as, lists)
    BY <1>1, Fun_IsSurj
  <2> QED
    BY <2>1, FS_Surjection
<1>5. IsFiniteSet(UNION lists)
  BY <1>2, <1>4, FS_UNION
<1> QED
  BY <1>3, <1>5, FS_Subset

\* One more answer adds its region to the versions it lists.
LEMMA OneMore ==
    ASSUME NEW as, NEW a
    PROVE  /\ \A v : Offering(as \cup {a}, v) =
                IF v \in a.versions THEN Offering(as, v) \cup {a.region} ELSE Offering(as, v)
           /\ Speaking(as \cup {a}) =
                IF a.versions = {} THEN Speaking(as) ELSE Speaking(as) \cup {a.region}
<1>1. ASSUME NEW v PROVE Offering(as \cup {a}, v) =
                IF v \in a.versions THEN Offering(as, v) \cup {a.region} ELSE Offering(as, v)
  BY DEF Offering
<1>2. Speaking(as \cup {a}) =
        IF a.versions = {} THEN Speaking(as) ELSE Speaking(as) \cup {a.region}
  BY DEF Speaking
<1> QED
  BY <1>1, <1>2

\* Before the first call nothing is merged.
LEMMA InitCollect == Init => CollectInv
<1> SUFFICES ASSUME Init PROVE CollectInv
  OBVIOUS
<1>1. FailInv
  BY InitFail
<1>2. params \in Params /\ cancelled \in BOOLEAN /\ collecting \in BOOLEAN /\ ~collecting
  BY DEF Init
<1>3. OneAnswer
  BY DEF Init, OneAnswer, NoAnswer
<1>4. Cleared
  BY DEF Init, Cleared
<1>5. ResultInv
  BY DEF Init, ResultInv, Pending
<1> QED
  BY <1>1, <1>2, <1>3, <1>4, <1>5 DEF CollectInv

\* What is received is one answer more, of a region not heard from before.
LEMMA ReceiveHeard ==
    ASSUME FailInv, OneAnswer, Receive
    PROVE  /\ NextAnswer \in answers /\ answers' = answers
           /\ Heard' = Heard \cup {NextAnswer}
           /\ HeardFrom' = HeardFrom \cup {NextAnswer.region}
           /\ NextAnswer.region \notin HeardFrom
           /\ Gone' = IF NextAnswer.kind = "failed" THEN Gone \cup {NextAnswer.region} ELSE Gone
           /\ NextAnswer.kind = "failed" => NextAnswer.region \notin Gone
<1> DEFINE r == NextAnswer.region
<1>1. /\ NextAnswer \in answers /\ r \in Buffered /\ Buffered' = Buffered \ {r}
      /\ NextAnswer.kind = "failed" => r \notin Gone
  BY ReceiveAnswer
<1>2. answers' = answers
  BY DEF Receive
<1>3. \A a \in answers : a.region = r => a = NextAnswer
  BY <1>1 DEF OneAnswer
<1>4. Heard' = Heard \cup {NextAnswer}
  BY <1>1, <1>2, <1>3 DEF Heard
<1>5. HeardFrom' = HeardFrom \cup {r}
  BY <1>4 DEF HeardFrom
<1>6. r \notin HeardFrom
  BY <1>1 DEF HeardFrom, Heard
<1>7. FailedRegions' = FailedRegions
  BY <1>2 DEF FailedRegions
<1>8. r \in FailedRegions <=> NextAnswer.kind = "failed"
  BY <1>1, <1>3 DEF FailedRegions
<1>9. Gone' = IF NextAnswer.kind = "failed" THEN Gone \cup {r} ELSE Gone
  BY <1>1, <1>7, <1>8 DEF Gone
<1> QED
  BY <1>1, <1>2, <1>4, <1>5, <1>6, <1>9

\* Merging an answer, or counting a failure, leaves nothing out.
LEMMA MergeCollect == CollectInv /\ (Merge \/ Skip) => CollectInv'
<1> SUFFICES ASSUME CollectInv, Merge \/ Skip PROVE CollectInv'
  OBVIOUS
<1> DEFINE a == NextAnswer
<1>1. FailInv' /\ FailInv /\ OneAnswer
  BY CountFail DEF CollectInv
<1>2. /\ Receive /\ collecting /\ collecting'
      /\ UNCHANGED <<params, cancelled, call, worker, held, answers, returned>>
  BY DEF Merge, Skip, Receive, CanReceive
<1>3. /\ a \in answers
      /\ Heard' = Heard \cup {a}
      /\ HeardFrom' = HeardFrom \cup {a.region}
      /\ a.region \notin HeardFrom
      /\ Gone' = IF a.kind = "failed" THEN Gone \cup {a.region} ELSE Gone
      /\ a.kind = "failed" => a.region \notin Gone
  BY <1>1, <1>2, ReceiveHeard
<1>4. Merged
  BY <1>2 DEF CollectInv
<1>5. OneAnswer'
  BY <1>1, <1>2 DEF OneAnswer
<1> HIDE DEF a
<1>6. received' = Cardinality(HeardFrom')
  <2>1. received' = received + 1
    BY DEF Merge, Skip
  <2>2. Cardinality(HeardFrom') = Cardinality(HeardFrom) + 1
    BY <1>1, <1>3, HeardFinite, FS_AddElement
  <2> QED
    BY <1>4, <2>1, <2>2 DEF Merged
<1>7. Merged'
  <2>1. CASE Merge
    <3>1. a.kind = "found"
      BY <2>1 DEF Merge, a
    <3>2. listed' = [v \in Versions |-> Offering(Heard', v)]
      <4>1. listed' = [v \in Versions |-> IF v \in a.versions
                                         THEN listed[v] \cup {a.region} ELSE listed[v]]
        BY <2>1 DEF Merge, a
      <4>2. \A v \in Versions : listed[v] = Offering(Heard, v)
        BY <1>4 DEF Merged
      <4>3. ASSUME NEW v \in Versions
            PROVE  Offering(Heard', v) =
                      IF v \in a.versions THEN listed[v] \cup {a.region} ELSE listed[v]
        <5>1. Offering(Heard', v) =
                 IF v \in a.versions THEN Offering(Heard, v) \cup {a.region}
                 ELSE Offering(Heard, v)
          BY <1>3, OneMore
        <5> QED
          BY <4>2, <5>1
      <4> QED
        BY <4>1, <4>3
    <3>3. spoke' = Speaking(Heard')
      BY <1>3, <1>4, <2>1, OneMore DEF Merge, Merged, a
    <3>4. skipped' = Cardinality(Gone')
      BY <1>3, <1>4, <2>1, <3>1 DEF Merge, Merged
    <3>5. \A b \in Heard' : b.kind # "ended"
      BY <1>3, <1>4, <3>1 DEF Merged
    <3> QED
      BY <1>6, <3>2, <3>3, <3>4, <3>5 DEF Merged
  <2>2. CASE Skip
    <3>1. a.kind = "failed" /\ a.versions = {}
      BY <1>1, <1>3, <2>2 DEF Skip, OneAnswer, a
    <3>2. listed' = [v \in Versions |-> Offering(Heard', v)]
      <4>1. \A v \in Versions : Offering(Heard', v) = Offering(Heard, v)
        BY <1>3, <3>1, OneMore
      <4> QED
        BY <1>4, <2>2, <4>1 DEF Skip, Merged
    <3>3. spoke' = Speaking(Heard')
      BY <1>3, <1>4, <2>2, <3>1, OneMore DEF Skip, Merged
    <3>4. skipped' = Cardinality(Gone')
      <4>1. skipped' = Cardinality(Gone) + 1
        BY <1>4, <2>2 DEF Skip, Merged
      <4>2. IsFiniteSet(Gone)
        BY <1>1, GoneFinite DEF FailInv
      <4> QED
        BY <1>3, <3>1, <4>1, <4>2, FS_AddElement
    <3>5. \A b \in Heard' : b.kind # "ended"
      BY <1>3, <1>4, <3>1 DEF Merged
    <3> QED
      BY <1>6, <3>2, <3>3, <3>4, <3>5 DEF Merged
  <2> QED
    BY <2>1, <2>2
<1>8. ResultInv'
  BY <1>2 DEF CollectInv, ResultInv, Pending
<1> QED
  BY <1>1, <1>2, <1>5, <1>7, <1>8 DEF CollectInv

\* Giving up forgets what was merged, and returns no images.
LEMMA GiveUpCollect == CollectInv /\ GiveUp => CollectInv'
<1> SUFFICES ASSUME CollectInv, GiveUp PROVE CollectInv'
  OBVIOUS
<1>1. FailInv'
  BY GiveUpFail DEF CollectInv
<1>2. UNCHANGED <<params, cancelled, held, answers>> /\ collecting' = FALSE
  BY DEF GiveUp, Receive, Return
<1>3. OneAnswer'
  BY <1>2 DEF CollectInv, OneAnswer
<1>4. Cleared'
  BY DEF GiveUp, Return, ClearLocals, Cleared, Nothing
<1>5. ResultInv'
  BY DEF GiveUp, Return, ResultInv, Failure
<1> QED
  BY <1>1, <1>2, <1>3, <1>4, <1>5 DEF CollectInv

\* A new call starts from no answers.
LEMMA CallCollect == CollectInv /\ Call => CollectInv'
<1> SUFFICES ASSUME CollectInv, Call PROVE CollectInv'
  OBVIOUS
<1>1. FailInv'
  BY CallFail DEF CollectInv
<1>2. /\ UNCHANGED <<params, cancelled, held, listed, spoke, skipped, received>>
      /\ ~collecting /\ collecting' = TRUE /\ answers' = {} /\ returned' = Pending
  BY DEF Call, collectVars
<1>3. OneAnswer'
  BY <1>2 DEF CollectInv, OneAnswer
<1>4. Heard' = {} /\ HeardFrom' = {} /\ Gone' = {}
  BY <1>2 DEF Heard, HeardFrom, Gone, FailedRegions
<1>5. Cleared
  BY <1>2 DEF CollectInv
<1>6. Merged'
  <2>1. \A v : Offering(Heard', v) = {}
    BY <1>4 DEF Offering
  <2>2. Speaking(Heard') = {}
    BY <1>4 DEF Speaking
  <2>3. Cardinality({}) = 0
    BY FS_EmptySet
  <2> QED
    BY <1>2, <1>4, <1>5, <2>1, <2>2, <2>3 DEF Merged, Cleared, Nothing
<1>7. ResultInv'
  BY <1>2 DEF ResultInv, Pending
<1> QED
  BY <1>1, <1>2, <1>3, <1>6, <1>7 DEF CollectInv

\* A goroutine that does not send changes what no answer shows.
LEMMA MoveCollect ==
    ASSUME CollectInv, FailInv', NEW c \in Calls, NEW r \in Regions, NEW a,
           a.kind # "found" => a.versions = {},
           held' = held \/ held' = [held EXCEPT ![c][r] = a],
           UNCHANGED <<params, cancelled, call, collecting, channel, answers, collectVars, returned>>
    PROVE  CollectInv'
<1>1. OneAnswer'
  <2>1. ASSUME NEW d \in Calls, NEW q \in Regions
        PROVE  held'[d][q] = held[d][q] \/ held'[d][q] = a
    <3>1. held \in [Calls -> [Regions -> Answers]]
      BY DEF CollectInv, FailInv, ChannelInv, ChannelType
    <3>2. CASE held' = held
      BY <3>2
    <3>3. CASE held' = [held EXCEPT ![c][r] = a]
      BY <3>1, <3>3
    <3> QED
      BY <3>2, <3>3
  <2>2. \A d \in Calls, q \in Regions : held'[d][q].kind # "found" => held'[d][q].versions = {}
    BY <2>1 DEF CollectInv, OneAnswer
  <2> QED
    BY <2>2 DEF CollectInv, OneAnswer
<1>2. Heard' = Heard /\ HeardFrom' = HeardFrom /\ Gone' = Gone
  BY DEF Heard, HeardFrom, Gone, FailedRegions, Buffered
<1>3. IF collecting' THEN Merged' ELSE Cleared'
  BY <1>2 DEF CollectInv, Merged, Cleared, collectVars, Nothing
<1>4. ResultInv'
  BY DEF CollectInv, ResultInv, Pending
<1> QED
  BY <1>1, <1>3, <1>4 DEF CollectInv

\* What is sent is in the channel, so it is not heard yet.
LEMMA SendHeard ==
    ASSUME FailInv, NEW c \in Calls, NEW r \in Regions, Send(c, r)
    PROVE  /\ call # 0 /\ held[c][r].region = r
           /\ c = call => \A a \in answers : a.region # r
           /\ Heard' = Heard /\ HeardFrom' = HeardFrom /\ Gone' = Gone
<1>1. /\ worker[c][r] \in {"refused", "sending"}
      /\ held[c][r] \in Answers /\ held[c][r].region = r
      /\ channel' = [channel EXCEPT ![c] = Append(channel[c], held[c][r])]
      /\ answers' = IF c = call THEN answers \cup {held[c][r]} ELSE answers
      /\ call' = call
  BY DEF Send, FailInv, AnswersInv, ChannelInv, ChannelType
<1>2. call # 0 /\ call \in Calls
  <2>1. ~(c > call)
    BY <1>1 DEF FailInv, ChannelInv
  <2> QED
    BY <2>1, ConstantsAssumption DEF FailInv, ChannelInv, ChannelType, Calls
<1>3. ASSUME c = call
      PROVE  /\ \A a \in answers : a.region # r
             /\ Heard' = Heard /\ HeardFrom' = HeardFrom /\ Gone' = Gone
  <2>1. \A a \in answers : a.region # r
    BY <1>1, <1>2, <1>3 DEF FailInv, AnswersInv
  <2> DEFINE old == channel[call]
             new == channel'[call']
  <2>2. /\ old \in Seq(Answers) /\ new = Append(old, held[c][r])
    BY <1>1, <1>2, <1>3 DEF FailInv, ChannelInv, ChannelType
  <2>3. /\ Len(old) \in Nat /\ DOMAIN old = 1..Len(old) /\ DOMAIN new = 1..(Len(old) + 1)
        /\ \A i \in DOMAIN old : new[i] = old[i]
        /\ new[Len(old) + 1] = held[c][r]
    BY <1>1, <2>2
  <2>4. Buffered' = Buffered \cup {r}
    <3>1. Buffered' = {new[i].region : i \in DOMAIN new} /\ Buffered = {old[i].region : i \in DOMAIN old}
      BY DEF Buffered
    <3> HIDE DEF old, new
    <3>2. \A i \in DOMAIN new : i \in DOMAIN old \/ i = Len(old) + 1
      BY <2>3
    <3>3. \A i \in DOMAIN old : i \in DOMAIN new
      BY <2>3
    <3>4. Len(old) + 1 \in DOMAIN new
      BY <2>3
    <3> QED
      BY <1>1, <2>3, <3>1, <3>2, <3>3, <3>4
  <2>5. answers' = answers \cup {held[c][r]}
    BY <1>1, <1>3
  <2>6. Heard' = Heard
    BY <1>1, <2>1, <2>4, <2>5 DEF Heard
  <2>7. FailedRegions' \ {r} = FailedRegions \ {r} /\ r \notin FailedRegions
    BY <1>1, <2>1, <2>5 DEF FailedRegions
  <2>8. Gone' = Gone
    BY <2>4, <2>7 DEF Gone
  <2> QED
    BY <2>1, <2>6, <2>8 DEF HeardFrom
<1>4. ASSUME c # call PROVE Heard' = Heard /\ HeardFrom' = HeardFrom /\ Gone' = Gone
  <2>1. answers' = answers /\ channel'[call'] = channel[call]
    BY <1>1, <1>2, <1>4 DEF FailInv, ChannelInv, ChannelType
  <2> QED
    BY <2>1 DEF Heard, HeardFrom, Gone, FailedRegions, Buffered
<1> QED
  BY <1>1, <1>2, <1>3, <1>4

\* Sending is one answer more of a region that had sent none: had the call
\* returned images, every region would have sent one.
LEMMA SendCollect ==
    ASSUME CollectInv, NEW c \in Calls, NEW r \in Regions, Send(c, r)
    PROVE  CollectInv'
<1> DEFINE a == held[c][r]
<1>1. FailInv /\ FailInv' /\ OneAnswer
  BY SendFail DEF CollectInv
<1>2. /\ call # 0 /\ a.region = r
      /\ c = call => \A b \in answers : b.region # r
      /\ Heard' = Heard /\ HeardFrom' = HeardFrom /\ Gone' = Gone
  BY <1>1, SendHeard
<1>3. /\ UNCHANGED <<params, cancelled, collecting, listed, spoke, skipped, received, returned>>
      /\ held' = [held EXCEPT ![c][r] = NoAnswer]
      /\ answers' = IF c = call THEN answers \cup {a} ELSE answers
  BY DEF Send, collectVars
<1>4. a.kind # "found" => a.versions = {}
  BY <1>1 DEF OneAnswer
<1>5. OneAnswer'
  <2>1. \A d \in Calls, q \in Regions : held'[d][q] = held[d][q] \/ held'[d][q] = NoAnswer
    BY <1>1, <1>3 DEF FailInv, ChannelInv, ChannelType
  <2>2. NoAnswer.versions = {}
    BY DEF NoAnswer
  <2>3. \A d \in Calls, q \in Regions : held'[d][q].kind # "found" => held'[d][q].versions = {}
    BY <1>1, <2>1, <2>2 DEF OneAnswer
  <2> HIDE DEF a
  <2>4. \A b \in answers' : b.kind # "found" => b.versions = {}
    BY <1>1, <1>3, <1>4 DEF OneAnswer
  <2>5. \A b, d \in answers' : b.region = d.region => b = d
    BY <1>1, <1>2, <1>3 DEF OneAnswer
  <2> QED
    BY <2>3, <2>4, <2>5 DEF OneAnswer
<1>6. IF collecting' THEN Merged' ELSE Cleared'
  BY <1>2, <1>3 DEF CollectInv, Merged, Cleared, Nothing
<1>7. ResultInv'
  <2>1. ASSUME returned.kind = "images" PROVE answers' = answers
    <3>1. {b.region : b \in answers} = Regions
      BY <2>1 DEF CollectInv, ResultInv
    <3>2. c # call
      BY <1>2, <3>1
    <3> QED
      BY <1>3, <3>2
  <2> QED
    BY <1>3, <2>1 DEF CollectInv, ResultInv, Pending
<1> QED
  BY <1>1, <1>3, <1>5, <1>6, <1>7 DEF CollectInv

\* A goroutine keeps the invariant.
LEMMA GoroutineCollect ==
    ASSUME CollectInv, NEW c \in Calls, NEW r \in Regions, Goroutine(c, r)
    PROVE  CollectInv'
<1>1. FailInv'
  BY GoroutineFail DEF CollectInv
<1>2. CASE Acquire(c, r)
  <2>1. Error(r, "failed").versions = {}
    BY DEF Error
  <2> QED
    BY <1>1, <1>2, <2>1, MoveCollect DEF Acquire
<1>3. CASE Refuse(c, r)
  <2>1. Error(r, "ended").versions = {}
    BY DEF Error
  <2> QED
    BY <1>1, <1>3, <2>1, MoveCollect DEF Refuse
<1>4. CASE Discover(c, r)
  <2>1. PICK a : (a.kind # "found" => a.versions = {}) /\ held' = [held EXCEPT ![c][r] = a]
    BY <1>4 DEF Discover, Found, Error
  <2> QED
    BY <1>1, <1>4, <2>1, MoveCollect DEF Discover
<1>5. CASE Send(c, r)
  BY <1>5, SendCollect
<1> QED
  BY <1>2, <1>3, <1>4, <1>5 DEF Goroutine

\* When as many answers were received as there are regions, all of them were.
LEMMA AllHeard ==
    ASSUME FailInv, OneAnswer, Cardinality(HeardFrom) = Count
    PROVE  Heard = answers /\ {a.region : a \in answers} = Regions /\ Gone = FailedRegions
<1>1. HeardFrom = Regions
  BY HeardFinite, RegionsFinite, FS_Subset DEF Count
<1>2. {a.region : a \in answers} \subseteq Regions
  BY DEF FailInv, AnswersInv, Answers
<1>3. ASSUME NEW a \in answers PROVE a \in Heard /\ a.region \notin Buffered
  <2>1. PICK b \in Heard : b.region = a.region
    BY <1>1, <1>2 DEF HeardFrom
  <2>2. a = b
    BY <2>1 DEF Heard, OneAnswer
  <2> QED
    BY <2>1, <2>2 DEF Heard
<1>4. Heard = answers
  BY <1>3 DEF Heard
<1>5. Gone = FailedRegions
  BY <1>3 DEF Gone, FailedRegions
<1> QED
  BY <1>1, <1>4, <1>5 DEF HeardFrom

\* The versions GetVersions chooses from are those its answers qualify.
LEMMA CandidatesQualify ==
    ASSUME params \in Params, Merged, Heard = answers
    PROVE  Candidates = Qualified(params, answers)
<1>1. /\ \A v \in Versions : listed[v] = Offering(answers, v)
      /\ spoke = Speaking(answers)
  BY DEF Merged
<1>2. \A v : Offering(answers, v) \subseteq Speaking(answers)
  BY DEF Offering, Speaking
<1>3. \A v \in Versions : spoke \subseteq listed[v] <=> Offering(answers, v) = Speaking(answers)
  BY <1>1, <1>2
<1>4. \A v \in Versions : listed[v] # {} <=> Offering(answers, v) # {}
  BY <1>1
<1>5. params.requireAllRegions \in BOOLEAN
  BY ParamsType
<1>6. CASE params.requireAllRegions
  BY <1>3, <1>4, <1>6 DEF Candidates, Everywhere, Qualified
<1>7. CASE ~params.requireAllRegions
  BY <1>4, <1>7 DEF Candidates, Qualified
<1> QED
  BY <1>6, <1>7

\* What is shown of the versions the answers qualify is what they should become.
LEMMA ShownExpected ==
    ASSUME NEW regionsOf, \A v \in Versions : regionsOf[v] = Offering(answers, v)
    PROVE  LET S == Qualified(params, answers) IN
           {ImageOf(v, regionsOf, S) : v \in Shown(S)} = Expected(params, answers)
<1> DEFINE S == Qualified(params, answers)
<1>1. Shown(S) = Kept(params, answers)
  BY DEF Shown, Kept, Newer
<1>2. Shown(S) \subseteq Versions
  BY DEF Shown, Qualified
<1>3. ASSUME NEW v \in Shown(S)
      PROVE  ImageOf(v, regionsOf, S) =
                [version |-> v, regions |-> Offering(answers, v),
                 class |-> IF \E w \in Kept(params, answers) : w < v
                           THEN "supported" ELSE "deprecated"]
  BY <1>1, <1>2 DEF ImageOf
<1> QED
  BY <1>1, <1>3 DEF Expected

\* At the end, what GetVersions returns is what its answers should become, and
\* they are conclusive.
LEMMA FinishResult ==
    ASSUME CollectInv, Finish
    PROVE  /\ returned' \in [kind: {"error", "images"}, images: Seq(Image)]
           /\ returned'.kind = "error" => returned' = Failure
           /\ returned'.kind = "images" =>
                 /\ {a.region : a \in answers} = Regions
                 /\ Conclusive(params, answers)
                 /\ ToSet(returned'.images) = Expected(params, answers)
                 /\ Len(returned'.images) = Cardinality(Expected(params, answers))
<1>1. FailInv /\ OneAnswer /\ Merged /\ params \in Params
  BY DEF CollectInv, Finish
<1>2. Heard = answers /\ {a.region : a \in answers} = Regions /\ Gone = FailedRegions
  <2>1. Cardinality(HeardFrom) = Count
    BY <1>1 DEF Finish, Merged
  <2> QED
    BY <1>1, <2>1, AllHeard
<1> DEFINE S == Qualified(params, answers)
           is == Classified(Window(NewestFirst(S)))
<1>3. Candidates = S
  BY <1>1, <1>2, CandidatesQualify
<1>4. listed \in [Versions -> SUBSET Regions] /\ \A v \in Versions : listed[v] = Offering(answers, v)
  BY <1>1, <1>2 DEF Merged, Offering, FailInv, AnswersInv, Answers
<1>5. S \subseteq Versions /\ IsFiniteSet(S)
  <2>1. S \subseteq {v \in Versions : Offering(answers, v) # {}}
    BY DEF Qualified
  <2>2. IsFiniteSet({v \in Versions : Offering(answers, v) # {}})
    BY <1>1, <1>2, HeardFinite, OfferedFinite DEF FailInv, AnswersInv
  <2> QED
    BY <2>1, <2>2, FS_Subset
<1>6. /\ is \in Seq(Image)
      /\ ToSet(is) = Expected(params, answers)
      /\ Len(is) = Cardinality(Expected(params, answers))
  <2> HIDE DEF S
  <2>1. /\ is \in Seq(Image)
        /\ ToSet(is) = {ImageOf(v, listed, S) : v \in Shown(S)}
        /\ Len(is) = Cardinality({ImageOf(v, listed, S) : v \in Shown(S)})
    BY <1>1, <1>4, <1>5, ClassifiedShows
  <2>2. {ImageOf(v, listed, S) : v \in Shown(S)} = Expected(params, answers)
    BY <1>4, ShownExpected DEF S
  <2> QED
    BY <2>1, <2>2
<1>7. CASE Nothing = listed /\ skipped = Count
  <2>1. returned' = Failure
    BY <1>7 DEF Finish, Return
  <2> QED
    BY <2>1 DEF Failure
<1>8. CASE ~(Nothing = listed /\ skipped = Count)
  <2> HIDE DEF is
  <2>1. returned' = [kind |-> "images", images |-> is]
    BY <1>3, <1>8 DEF Finish, Return, is
  <2>2. \A a \in answers : a.kind # "ended"
    BY <1>1, <1>2 DEF Merged
  <2>3. FailedRegions # Regions
    <3> SUFFICES ASSUME FailedRegions = Regions PROVE FALSE
      OBVIOUS
    <3>1. skipped = Count
      BY <1>1, <1>2 DEF Merged, Count
    <3>2. \A a \in answers : a.versions = {}
      BY <1>1, <1>2 DEF FailedRegions, OneAnswer
    <3>3. \A v \in Versions : listed[v] = {}
      BY <1>4, <3>2 DEF Offering
    <3>4. listed = Nothing
      BY <1>4, <3>3 DEF Nothing
    <3> QED
      BY <1>8, <3>1, <3>4
  <2>4. Conclusive(params, answers)
    BY <1>2, <2>2, <2>3 DEF Conclusive, Excused, FailedRegions
  <2> QED
    BY <1>2, <1>6, <2>1, <2>4
<1> QED
  BY <1>7, <1>8

\* Finishing keeps the invariant.
LEMMA FinishCollect == CollectInv /\ Finish => CollectInv'
<1> SUFFICES ASSUME CollectInv, Finish PROVE CollectInv'
  OBVIOUS
<1>1. FailInv'
  BY FinishFail DEF CollectInv
<1>2. UNCHANGED <<params, cancelled, held, answers>> /\ collecting' = FALSE
  BY DEF Finish, Return, workerVars
<1>3. OneAnswer'
  BY <1>2 DEF CollectInv, OneAnswer
<1>4. Cleared'
  BY DEF Finish, Return, ClearLocals, Cleared, Nothing
<1>5. ResultInv'
  BY <1>2, FinishResult DEF ResultInv
<1> QED
  BY <1>1, <1>2, <1>3, <1>4, <1>5 DEF CollectInv

\* No step of goroutines or of GetVersions breaks the invariant.
LEMMA NextCollect == CollectInv /\ [Next]_vars => CollectInv'
<1> SUFFICES ASSUME CollectInv, [Next]_vars PROVE CollectInv'
  OBVIOUS
<1>1. CASE Call
  BY <1>1, CallCollect
<1>2. ASSUME NEW c \in Calls, NEW r \in Regions, Goroutine(c, r) PROVE CollectInv'
  BY <1>2, GoroutineCollect
<1>3. CASE Collect
  BY <1>3, MergeCollect, GiveUpCollect, FinishCollect DEF Collect
<1>4. CASE Cancel \/ UNCHANGED vars
  <2>1. FailInv'
    BY <1>4, NextFail DEF CollectInv, Next
  <2>2. /\ UNCHANGED <<params, call, collecting, held, channel, answers, listed, spoke,
                       skipped, received, returned>>
        /\ cancelled' \in BOOLEAN
    BY <1>4 DEF Cancel, vars, workerVars, collectVars, CollectInv
  <2>3. OneAnswer'
    BY <2>2 DEF CollectInv, OneAnswer
  <2>4. Heard' = Heard /\ HeardFrom' = HeardFrom /\ Gone' = Gone
    BY <2>2 DEF Heard, HeardFrom, Gone, FailedRegions, Buffered
  <2>5. IF collecting' THEN Merged' ELSE Cleared'
    BY <2>2, <2>4 DEF CollectInv, Merged, Cleared, Nothing
  <2>6. ResultInv'
    BY <2>2 DEF CollectInv, ResultInv, Pending
  <2> QED
    BY <2>1, <2>2, <2>3, <2>5, <2>6 DEF CollectInv
<1> QED
  BY <1>1, <1>2, <1>3, <1>4 DEF Next

\* The invariant holds of every state.
LEMMA Collecting == Spec => []CollectInv
  BY InitCollect, NextCollect, PTL DEF Spec

\* Every variable of GetVersions and of its goroutines stays of its type; that
\* no more answers are counted than regions is part of it.
THEOREM TypeCorrect == Spec => []TypeOK
<1>1. CollectInv => TypeOK
  <2> SUFFICES ASSUME CollectInv PROVE TypeOK
    OBVIOUS
  <2>1. /\ params \in Params /\ cancelled \in BOOLEAN /\ collecting \in BOOLEAN
        /\ call \in 0..MaxCalls
        /\ worker \in [Calls -> [Regions -> WorkerStates]]
        /\ held \in [Calls -> [Regions -> Answers]]
        /\ channel \in [Calls -> Seq(Answers)]
        /\ answers \subseteq Answers
        /\ returned \in [kind: {"none", "error", "images"}, images: Seq(Image)]
    BY DEF CollectInv, FailInv, ChannelInv, ChannelType, AnswersInv, ResultInv
  <2>2. CASE collecting
    <3>1. Merged /\ FailInv /\ OneAnswer
      BY <2>2 DEF CollectInv
    <3>2. received \in 0..Count
      BY <3>1, HeardFinite DEF Merged
    <3>3. skipped \in 0..Count
      <4>1. Cardinality(Gone) <= Count
        BY <3>1, GoneFinite, RegionsFinite, FS_Subset DEF FailInv, Count
      <4> QED
        BY <3>1, <4>1, GoneFinite, RegionsFinite DEF Merged, FailInv
    <3>4. listed \in [Versions -> SUBSET Regions]
      BY <2>1, <3>1 DEF Merged, Offering, Heard, Answers
    <3>5. spoke \subseteq Regions
      BY <2>1, <3>1 DEF Merged, Speaking, Heard, Answers
    <3> QED
      BY <2>1, <3>2, <3>3, <3>4, <3>5 DEF TypeOK
  <2>3. CASE ~collecting
    BY <2>1, <2>3, RegionsFinite DEF CollectInv, Cleared, Nothing, TypeOK
  <2> QED
    BY <2>2, <2>3
<1> QED
  BY <1>1, Collecting, PTL

\* In whatever order regions answer, and whatever goroutines earlier calls have
\* left, the images GetVersions returns are a function of the answers: of the
\* versions they qualify, sorted, those of the window, each with all its regions
\* and the oldest of them deprecated, whatever the number of regions and versions.
THEOREM ReturnsTheNewest == Spec => []OrderIndependent
<1>1. CollectInv => OrderIndependent
  BY DEF CollectInv, ResultInv, OrderIndependent
<1> QED
  BY <1>1, Collecting, PTL

-----------------------------------------------------------------------------
(***************************************************************************)
(* GlanceSource implements Source.                                         *)
(***************************************************************************)

\* To give up or to finish is to return images that all answers entail, or an
\* error that some answer accounts for.
LEMMA ReturnRefines == CollectInv /\ (GiveUp \/ Finish) => Abstract!Return
<1> SUFFICES ASSUME CollectInv, GiveUp \/ Finish PROVE Abstract!Return
  OBVIOUS
<1>1. /\ collecting /\ collecting' = FALSE /\ UNCHANGED <<params, answers>>
  BY DEF GiveUp, Finish, Receive, CanReceive, Return, workerVars
<1>2. ToSet(<<>>) = {}
  BY DEF ToSet
<1>3. returned'.kind = "error" => Excused(params, answers)
  <2>1. FailInv'
    BY GiveUpFail, FinishFail DEF CollectInv
  <2> QED
    BY <1>1, <2>1 DEF FailInv, SkippedInv
<1>4. CASE GiveUp
  <2>1. returned' = Failure
    BY <1>4 DEF GiveUp, Return
  <2> QED
    BY <1>1, <1>2, <1>3, <2>1 DEF Failure, Abstract!Return, Abstract!Failure
<1>5. CASE Finish
  <2>1. /\ returned'.kind \in {"error", "images"}
        /\ returned'.kind = "error" => returned' = Failure
        /\ returned'.kind = "images" =>
              /\ Conclusive(params, answers)
              /\ ToSet(returned'.images) = Expected(params, answers)
    BY <1>5, FinishResult
  <2>2. CASE returned'.kind = "error"
    BY <1>1, <1>2, <1>3, <2>1, <2>2 DEF Failure, Abstract!Return, Abstract!Failure
  <2>3. CASE returned'.kind = "images"
    BY <1>1, <2>1, <2>3 DEF Abstract!Return
  <2> QED
    BY <2>1, <2>2, <2>3
<1> QED
  BY <1>4, <1>5

\* A step of GlanceSource is a step of the abstract source, or leaves it as it is.
LEMMA StepRefines == CollectInv /\ [Next]_vars => [Abstract!Next]_(Abstract!vars)
<1> SUFFICES ASSUME CollectInv, [Next]_vars PROVE Abstract!Next \/ UNCHANGED Abstract!vars
  OBVIOUS
<1>1. CASE Call
  <2>1. ToSet(<<>>) = {}
    BY DEF ToSet
  <2> QED
    BY <1>1, <2>1 DEF Call, Pending, Abstract!Next, Abstract!Call, Abstract!Pending
<1>2. ASSUME NEW c \in Calls, NEW r \in Regions, Goroutine(c, r)
      PROVE  Abstract!Next \/ UNCHANGED Abstract!vars
  <2>1. CASE Acquire(c, r) \/ Refuse(c, r) \/ Discover(c, r)
    BY <2>1 DEF Acquire, Refuse, Discover, Abstract!vars
  <2>2. CASE Send(c, r)
    BY <2>2 DEF Send, Abstract!Next, Abstract!Answer
  <2> QED
    BY <1>2, <2>1, <2>2 DEF Goroutine
<1>3. CASE Merge \/ Skip
  BY <1>3 DEF Merge, Skip, Receive, Abstract!vars
<1>4. CASE GiveUp \/ Finish
  BY <1>4, ReturnRefines DEF Abstract!Next
<1>5. CASE Cancel \/ UNCHANGED vars
  BY <1>5 DEF Cancel, vars, workerVars, Abstract!vars
<1> QED
  BY <1>1, <1>2, <1>3, <1>4, <1>5 DEF Next, Collect

\* The initial states are those of the abstract source.
LEMMA InitRefines == Init => Abstract!Init
<1> SUFFICES ASSUME Init PROVE Abstract!Init
  OBVIOUS
<1>1. ToSet(<<>>) = {}
  BY DEF ToSet
<1>2. /\ collecting = FALSE /\ answers = {}
      /\ returned.kind = "none" /\ returned.images = <<>>
  BY DEF Init, Pending
<1> QED
  BY <1>1, <1>2 DEF Abstract!Init, Abstract!Pending

\* Whatever the regions list and however their answers interleave, GlanceSource is
\* a source: a call returns once, the images that all its answers entail or an
\* error that one of them accounts for, and answers that come later change nothing.
THEOREM Refines == Spec => ImplementsSource
<1>1. Spec => [][Abstract!Next]_(Abstract!vars)
  BY Collecting, StepRefines, PTL DEF Spec
<1> QED
  BY <1>1, InitRefines, PTL DEF Spec, ImplementsSource, Abstract!Spec
=============================================================================
