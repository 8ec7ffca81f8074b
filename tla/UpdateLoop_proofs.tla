-------------------------- MODULE UpdateLoop_proofs --------------------------
(***************************************************************************)
(* What is proved once for the three schedulers that keep their timers in  *)
(* order (a tree, two heaps).  LoopStep is what such a scheduler may do to *)
(* the clock, the stack of Updates and the ledger; each of them is shown,  *)
(* in its own module, to take only steps of this form.                     *)
(***************************************************************************)
EXTENDS TimerBase_proofs

CallerStarts(duration) ==
  /\ Started(clock + duration)
  /\ UNCHANGED <<clock, frames, status>>

CallerStops(id) ==
  /\ Stopped(id)
  /\ UNCHANGED <<clock, frames, status>>

NewFrame(now) == [now |-> now, max_id |-> next_id, phase |-> "loop"]

CallerUpdates(now) ==
  /\ MayUpdate(now)
  /\ Reported(now)
  /\ frames' = frames \/ frames' = Push(NewFrame(now))
  /\ UNCHANGED <<clock, status>>

LoopFires(id) ==
  /\ InPhase("loop")
  /\ due[id] <= Top.now
  /\ CallsAction(id)

LoopReturns == InPhase("loop") /\ Returned

\* The steps in which the loop neither calls an action nor returns.
LoopQuiet ==
  \/ \E duration \in Durations : CallerStarts(duration)
  \/ \E id \in live : CallerStops(id)
  \/ \E lag \in Lags : CallerUpdates(clock - lag)
  \/ ActionReturns
  \/ Elapse
  \/ Discarded
  \/ UNCHANGED baseVars

LoopStep ==
  \/ LoopQuiet
  \/ \E id \in live : LoopFires(id)
  \/ LoopReturns

\* An active Update was told no later time than the latest one reported.
FramesReported ==
  \A i \in DOMAIN frames : frames[i].now <= reported

LoopInv ==
  /\ BaseTypeOK
  /\ status \in {"running", "destroyed"}
  /\ frames \in Seq(LoopFrame)
  /\ FramesReported

-----------------------------------------------------------------------------
\* The fields of the activations on the stack.
LEMMA FrameFields ==
  ASSUME LoopInv, NEW i \in DOMAIN frames
  PROVE  /\ frames[i] \in LoopFrame
         /\ frames[i].now \in Nat
         /\ frames[i].max_id \in Nat
<1>1. frames[i] \in LoopFrame
  BY Elements DEF LoopInv
<1> QED
  BY <1>1 DEF LoopFrame

\* The fields of the innermost one.
LEMMA TopFields ==
  ASSUME LoopInv, frames # <<>>
  PROVE  /\ Len(frames) \in DOMAIN frames
         /\ Top = frames[Len(frames)]
         /\ Top \in LoopFrame
         /\ Top.now \in Nat
         /\ Top.max_id \in Nat
         /\ Top.now <= reported
<1>1. Len(frames) \in DOMAIN frames
  BY TopPop DEF LoopInv
<1> QED
  BY <1>1, FrameFields DEF Top, LoopInv, FramesReported

LEMMA LoopInit == BaseInit => LoopInv /\ Service!Init
<1> SUFFICES ASSUME BaseInit PROVE LoopInv /\ Service!Init
  OBVIOUS
<1>1. frames = <<>> /\ frames \in Seq(LoopFrame) /\ FramesReported
  BY EmptySeq DEF BaseInit, FramesReported
<1> QED
  BY <1>1, BaseInitType DEF BaseInit, LoopInv

\* Setting the phase of the top frame leaves what it was told alone.
LEMMA PhaseKeepsTold ==
  ASSUME LoopInv, frames # <<>>, NEW p \in {"loop", "callback"},
         frames' = SetTop([Top EXCEPT !.phase = p])
  PROVE  /\ frames' \in Seq(LoopFrame)
         /\ Len(frames') = Len(frames)
         /\ \A i \in DOMAIN frames' :
              /\ i \in DOMAIN frames
              /\ frames'[i].now = frames[i].now
              /\ frames'[i].max_id = frames[i].max_id
<1> DEFINE f == [Top EXCEPT !.phase = p]
<1>1. f \in LoopFrame /\ f.now = Top.now /\ f.max_id = Top.max_id
  BY TopFields DEF LoopFrame
<1> HIDE DEF f
<1>2. /\ SetTop(f) \in Seq(LoopFrame)
      /\ Len(SetTop(f)) = Len(frames)
      /\ DOMAIN SetTop(f) = DOMAIN frames
      /\ \A i \in DOMAIN frames :
           SetTop(f)[i] = IF i = Len(frames) THEN f ELSE frames[i]
  BY <1>1, SetTopIs DEF LoopInv
<1>3. frames' = SetTop(f)
  BY DEF f
<1> QED
  BY <1>1, <1>2, <1>3 DEF Top

\* The new activation.
LEMMA NewFrameIs ==
  ASSUME LoopInv, NEW lag \in Lags, CallerUpdates(clock - lag)
  PROVE  LET f == NewFrame(clock - lag) IN
         /\ f \in LoopFrame
         /\ f.now = clock - lag
         /\ f.max_id = next_id
<1>1. clock - lag \in Nat /\ next_id \in Nat
  BY ToldTime DEF CallerUpdates, LoopInv, BaseTypeOK
<1> QED
  BY <1>1 DEF NewFrame, LoopFrame

LEMMA LoopInvStep ==
  ASSUME LoopInv, LoopStep
  PROVE  LoopInv'
<1>0. /\ BaseTypeOK /\ frames \in Seq(LoopFrame) /\ FramesReported
      /\ clock \in 1 .. Horizon /\ reported \in Nat
      /\ \A i \in DOMAIN frames : frames[i].now \in Nat
  BY FrameFields DEF LoopInv, BaseTypeOK
<1>1. ASSUME NEW duration \in Durations, CallerStarts(duration) PROVE LoopInv'
  <2> DEFINE deadline == clock + duration
  <2>1. deadline \in Nat
    BY <1>0, BaseAssumption
  <2>2. Started(deadline) /\ UNCHANGED <<clock, frames, status>> /\ reported' = reported
    BY <1>1 DEF CallerStarts, Started
  <2> HIDE DEF deadline
  <2>3. BaseTypeOK'
    BY <1>0, <2>1, <2>2, StartedType
  <2> QED BY <1>0, <2>2, <2>3 DEF LoopInv, FramesReported
<1>2. ASSUME NEW id \in live, CallerStops(id) PROVE LoopInv'
  <2>1. BaseTypeOK' /\ UNCHANGED <<clock, frames, status>> /\ reported' = reported
    BY <1>0, <1>2, LedgerType DEF CallerStops, Stopped
  <2> QED BY <1>0, <2>1 DEF LoopInv, FramesReported
<1>3. ASSUME NEW lag \in Lags, CallerUpdates(clock - lag) PROVE LoopInv'
  <2> DEFINE now == clock - lag
             f == NewFrame(now)
  <2>1. now \in Nat /\ f \in LoopFrame /\ f.now = now
    BY <1>0, <1>3, ToldTime, NewFrameIs DEF CallerUpdates
  <2>2. Reported(now) /\ UNCHANGED <<clock, status>>
    BY <1>3 DEF CallerUpdates
  <2>3. frames' = frames \/ frames' = Push(f)
    BY <1>3 DEF CallerUpdates
  <2> HIDE DEF now, f
  <2>4. BaseTypeOK' /\ reported' >= reported /\ reported' >= now /\ reported' \in Nat
    BY <1>0, <2>1, <2>2, LedgerType DEF BaseTypeOK
  <2>5. CASE frames' = frames
    BY <1>0, <2>2, <2>4, <2>5 DEF LoopInv, FramesReported
  <2>6. CASE frames' = Push(f)
    <3>1. /\ frames' \in Seq(LoopFrame)
          /\ DOMAIN frames' = DOMAIN frames \cup {Len(frames) + 1}
          /\ frames'[Len(frames) + 1] = f
          /\ \A i \in DOMAIN frames : frames'[i] = frames[i]
      BY <1>0, <2>1, <2>6, PushIs
    <3> QED BY <1>0, <2>1, <2>2, <2>4, <3>1 DEF LoopInv, FramesReported
  <2> QED BY <2>3, <2>5, <2>6
<1>4. ASSUME NEW id \in live, LoopFires(id) PROVE LoopInv'
  <2>1. /\ frames # <<>> /\ frames' = SetTop([Top EXCEPT !.phase = "callback"])
        /\ Fired(id) /\ UNCHANGED <<clock, status>> /\ reported' = reported
    BY <1>4 DEF LoopFires, InPhase, CallsAction, Fired
  <2>2. BaseTypeOK'
    BY <1>0, <2>1, LedgerType
  <2> QED BY <1>0, <2>1, <2>2, PhaseKeepsTold DEF LoopInv, FramesReported
<1>5. CASE LoopReturns
  <2>1. frames # <<>> /\ frames' = Pop /\ UNCHANGED <<clock, next_id, status, ledger>>
    BY <1>5 DEF LoopReturns, InPhase, Returned
  <2>2. frames' \in Seq(LoopFrame)
        /\ \A i \in DOMAIN frames' : i \in DOMAIN frames /\ frames'[i] = frames[i]
    BY <1>0, <2>1, TopPop
  <2>3. BaseTypeOK' /\ reported' = reported
    BY <1>0, <2>1, LedgerType DEF ledger
  <2> QED BY <1>0, <2>1, <2>2, <2>3 DEF LoopInv, FramesReported
<1>6. CASE ActionReturns
  <2>1. /\ frames # <<>> /\ frames' = SetTop([Top EXCEPT !.phase = "loop"])
        /\ UNCHANGED <<clock, next_id, status, ledger>>
    BY <1>6 DEF ActionReturns, InPhase
  <2>2. BaseTypeOK' /\ reported' = reported
    BY <1>0, <2>1, LedgerType DEF ledger
  <2> QED BY <1>0, <2>1, <2>2, PhaseKeepsTold DEF LoopInv, FramesReported
<1>7. CASE Elapse
  <2>1. clock' \in 1 .. Horizon /\ UNCHANGED <<next_id, frames, status, ledger>>
    BY <1>7 DEF Elapse
  <2>2. BaseTypeOK' /\ reported' = reported
    BY <1>0, <2>1, LedgerType DEF ledger
  <2> QED BY <1>0, <2>1, <2>2 DEF LoopInv, FramesReported
<1>8. CASE Discarded
  <2>1. BaseTypeOK' /\ status' = "destroyed" /\ UNCHANGED <<frames, reported>>
    BY <1>0, <1>8, LedgerType DEF Discarded
  <2> QED BY <1>0, <2>1 DEF LoopInv, FramesReported
<1>9. CASE UNCHANGED baseVars
  <2>1. BaseTypeOK' /\ UNCHANGED <<frames, status, reported>>
    BY <1>0, <1>9, LedgerType DEF baseVars, ledger
  <2> QED BY <1>0, <2>1 DEF LoopInv, FramesReported
<1> QED
  BY <1>1, <1>2, <1>3, <1>4, <1>5, <1>6, <1>7, <1>8, <1>9 DEF LoopStep, LoopQuiet

-----------------------------------------------------------------------------
\* Such a step is a step of the contract, or leaves it unchanged.
LEMMA LoopRefines ==
  LoopInv /\ LoopStep => [Service!Next]_(Service!vars)
<1> SUFFICES ASSUME LoopInv, LoopStep
             PROVE  Service!Next \/ UNCHANGED Service!vars
  OBVIOUS
<1>0. BaseTypeOK
  BY DEF LoopInv
<1>1. ASSUME NEW duration \in Durations, CallerStarts(duration) PROVE Service!Next
  BY <1>0, <1>1, ContractSteps DEF CallerStarts
<1>2. ASSUME NEW id \in live, CallerStops(id) PROVE Service!Next
  BY <1>0, <1>2, ContractSteps DEF CallerStops
<1>3. ASSUME NEW lag \in Lags, CallerUpdates(clock - lag) PROVE Service!Next
  BY <1>0, <1>3, ContractSteps DEF CallerUpdates
<1>4. ASSUME NEW id \in live, LoopFires(id) PROVE Service!Next
  <2>1. due[id] <= Top.now /\ Top.now <= reported /\ Top.now \in Nat
    BY <1>4, TopFields DEF LoopFires, InPhase
  <2>2. due[id] \in Nat /\ reported \in Nat
    BY <1>0, <1>4 DEF BaseTypeOK
  <2>3. due[id] <= reported
    BY <2>1, <2>2
  <2> QED BY <1>0, <1>4, <2>3, ContractSteps DEF LoopFires, CallsAction
<1>5. CASE Discarded
  BY <1>0, <1>5, ContractSteps
<1>6. CASE LoopReturns \/ ActionReturns \/ Elapse \/ UNCHANGED baseVars
  <2>1. UNCHANGED <<next_id, ledger>>
    BY <1>6 DEF LoopReturns, Returned, ActionReturns, Elapse, baseVars
  <2> QED BY <1>0, <2>1, ContractSteps
<1> QED
  BY <1>1, <1>2, <1>3, <1>4, <1>5, <1>6 DEF LoopStep, LoopQuiet

\* A quiet step calls no action, and takes no Update off the stack.
LEMMA QuietStep ==
  ASSUME LoopInv, LoopQuiet
  PROVE  ~FiringStep /\ ~(Len(frames') < Len(frames))
<1>0. BaseTypeOK /\ Len(frames) \in Nat /\ Len(fired) \in Nat
  BY Elements, LenProperties DEF LoopInv, BaseTypeOK
<1>1. fired' = fired
  BY DEF LoopQuiet, CallerStarts, Started, CallerStops, Stopped, CallerUpdates,
         Reported, ActionReturns, Elapse, Discarded, baseVars, ledger
<1>2. ASSUME NEW lag \in Lags, CallerUpdates(clock - lag)
      PROVE  ~(Len(frames') < Len(frames))
  <2>1. CASE frames' = frames
    BY <1>0, <2>1
  <2>2. CASE frames' = Push(NewFrame(clock - lag))
    <3>1. NewFrame(clock - lag) \in LoopFrame
      BY <1>2, NewFrameIs
    <3>2. Len(frames') = Len(frames) + 1
      BY <2>2, <3>1, PushIs DEF LoopInv
    <3> QED BY <1>0, <3>2
  <2> QED BY <1>2, <2>1, <2>2 DEF CallerUpdates
<1>3. ASSUME ActionReturns PROVE ~(Len(frames') < Len(frames))
  <2>1. frames # <<>> /\ frames' = SetTop([Top EXCEPT !.phase = "loop"])
    BY <1>3 DEF ActionReturns, InPhase
  <2>2. Len(frames') = Len(frames)
    BY <2>1, PhaseKeepsTold
  <2> QED BY <1>0, <2>2
<1>4. ASSUME UNCHANGED frames PROVE ~(Len(frames') < Len(frames))
  BY <1>0, <1>4
<1>5. ~(Len(frames') < Len(frames))
  BY <1>2, <1>3, <1>4
  DEF LoopQuiet, CallerStarts, CallerStops, Elapse, Discarded, baseVars
<1> QED
  BY <1>0, <1>1, <1>5 DEF FiringStep

\* The two other steps do one of these each.
LEMMA FiringOrReturning ==
  ASSUME LoopInv
  PROVE  /\ \A id \in live : LoopFires(id) =>
              FiringStep /\ FiredNow = id /\ ~(Len(frames') < Len(frames))
         /\ LoopReturns => ~FiringStep
<1>0. BaseTypeOK /\ Len(frames) \in Nat /\ Len(fired) \in Nat
  BY Elements, LenProperties DEF LoopInv, BaseTypeOK
<1>1. ASSUME NEW id \in live, LoopFires(id)
      PROVE  FiringStep /\ FiredNow = id /\ ~(Len(frames') < Len(frames))
  <2>1. frames # <<>> /\ frames' = SetTop([Top EXCEPT !.phase = "callback"]) /\ Fired(id)
    BY <1>1 DEF LoopFires, CallsAction, InPhase
  <2>2. Len(frames') = Len(frames)
    BY <2>1, PhaseKeepsTold
  <2> QED BY <1>0, <2>1, <2>2, FiringIs
<1>2. ASSUME LoopReturns PROVE ~FiringStep
  BY <1>0, <1>2 DEF LoopReturns, Returned, ledger, FiringStep
<1> QED
  BY <1>1, <1>2

-----------------------------------------------------------------------------
\* A step keeps the max_id of an activation that it leaves on the stack, and
\* gives out no id again.
LEMMA FramesKept ==
  ASSUME LoopInv, LoopStep, NEW k \in DOMAIN frames \cap DOMAIN frames'
  PROVE  /\ frames'[k].max_id = frames[k].max_id
         /\ frames[k].max_id \in Nat
         /\ next_id \in Nat /\ next_id' \in Nat /\ next_id' >= next_id
<1>0. next_id \in Nat /\ frames \in Seq(LoopFrame) /\ frames[k].max_id \in Nat
  BY FrameFields DEF LoopInv, BaseTypeOK
<1>1. ASSUME NEW lag \in Lags, CallerUpdates(clock - lag)
      PROVE  frames'[k] = frames[k] /\ next_id' = next_id
  <2>1. NewFrame(clock - lag) \in LoopFrame
    BY <1>1, NewFrameIs
  <2>2. frames' = frames \/ frames' = Push(NewFrame(clock - lag))
    BY <1>1 DEF CallerUpdates
  <2> QED BY <1>0, <1>1, <2>1, <2>2, PushIs DEF CallerUpdates, Reported
<1>2. ASSUME NEW p \in {"loop", "callback"}, frames # <<>>,
             frames' = SetTop([Top EXCEPT !.phase = p])
      PROVE  frames'[k].max_id = frames[k].max_id
  BY <1>2, PhaseKeepsTold
<1>3. CASE LoopReturns
  <2>1. frames # <<>> /\ frames' = Pop /\ next_id' = next_id
    BY <1>3 DEF LoopReturns, InPhase, Returned
  <2>2. frames'[k] = frames[k]
    BY <1>0, <2>1, TopPop
  <2> QED BY <1>0, <2>1, <2>2
<1>4. CASE ActionReturns
  <2>1. next_id' = next_id
    BY <1>4 DEF ActionReturns
  <2> QED BY <1>0, <1>2, <1>4, <2>1 DEF ActionReturns, InPhase
<1>5. ASSUME NEW id \in live, LoopFires(id)
      PROVE  frames'[k].max_id = frames[k].max_id /\ next_id' = next_id
  BY <1>2, <1>5 DEF LoopFires, InPhase, CallsAction, Fired
<1>6. ASSUME NEW duration \in Durations, CallerStarts(duration)
      PROVE  frames' = frames /\ next_id' = next_id + 1
  BY <1>6 DEF CallerStarts, Started
<1>7. CASE Elapse \/ Discarded \/ UNCHANGED baseVars \/ \E id \in live : CallerStops(id)
  <2>1. frames' = frames /\ next_id' = next_id
    BY <1>7 DEF Elapse, Discarded, baseVars, CallerStops, Stopped
  <2> QED BY <1>0, <2>1
<1> QED
  BY <1>0, <1>1, <1>3, <1>4, <1>5, <1>6, <1>7 DEF LoopStep, LoopQuiet

\* The Update that returns leaves the stack.
LEMMA TopReturns ==
  ASSUME LoopInv, LoopReturns
  PROVE  Len(frames) \notin DOMAIN frames'
<1>1. frames # <<>> /\ frames' = Pop /\ frames \in Seq(LoopFrame)
  BY DEF LoopReturns, InPhase, Returned, LoopInv
<1>2. DOMAIN frames' = 1 .. Len(frames) - 1 /\ Len(frames) \in Nat
  BY <1>1, TopPop, Elements
<1> QED
  BY <1>2

(***************************************************************************)
(* For a scheduler whose nodes are those of the live timers: no timer      *)
(* comes into the reach of an active Update, and the one that its loop     *)
(* fires leaves it.                                                        *)
(***************************************************************************)
LEMMA ReachShrinks ==
  ASSUME LoopInv, LoopStep, NEW k \in DOMAIN frames \cap DOMAIN frames'
  PROVE  InReach(k, live)' \subseteq InReach(k, live)
<1>1. /\ frames'[k].max_id = frames[k].max_id
      /\ next_id \in Nat /\ next_id' \in Nat /\ next_id' >= next_id
  BY FramesKept
<1>2. \A id \in live' : id \in live \/ id >= next_id
  <2>1. ASSUME NEW duration \in Durations, CallerStarts(duration)
        PROVE  live' = live \cup {next_id}
    BY <2>1 DEF CallerStarts, Started
  <2>2. ASSUME ~ \E duration \in Durations : CallerStarts(duration)
        PROVE  live' \subseteq live
    BY <2>2 DEF LoopStep, LoopQuiet, CallerStops, Stopped, CallerUpdates, Reported,
                ActionReturns, Elapse, Discarded, baseVars, ledger, LoopFires,
                CallsAction, Fired, LoopReturns, Returned
  <2> QED BY <1>1, <2>1, <2>2
<1> SUFFICES ASSUME NEW id \in InReach(k, live)' PROVE id \in InReach(k, live)
  OBVIOUS
<1>3. /\ id \in FirstId .. frames[k].max_id
      /\ id \in live' \/ id >= next_id'
  BY <1>1 DEF InReach
<1>4. id \in Int
  BY <1>3
<1> QED
  BY <1>1, <1>2, <1>3, <1>4 DEF InReach

LEMMA FiringLeavesReach ==
  ASSUME LoopInv, NEW id \in live, LoopFires(id), id <= Top.max_id
  PROVE  InReach(Len(frames), live)' # InReach(Len(frames), live)
<1> DEFINE k == Len(frames)
<1>1. frames # <<>> /\ frames' = SetTop([Top EXCEPT !.phase = "callback"])
      /\ live' = live \ {id} /\ next_id' = next_id
  BY DEF LoopFires, InPhase, CallsAction, Fired
<1>2. id \in Ids /\ next_id \in Nat
  BY DEF LoopInv, BaseTypeOK
<1>3. id \in FirstId .. next_id - 1
  BY <1>2 DEF Ids
<1>4. id \in InReach(k, live)
  BY <1>1, <1>3, TopFields DEF InReach, FirstId, Service!FirstId
<1>5. Len(frames') = k
  BY <1>1, PhaseKeepsTold
<1>6. id \notin InReach(k, live)'
  BY <1>1, <1>2, <1>3 DEF InReach
<1> QED
  BY <1>4, <1>6

-----------------------------------------------------------------------------
(***************************************************************************)
(* An Update breaks off at the first timer that is newer than itself.  No  *)
(* such timer is due before the time the Update was told: the clock had    *)
(* reached that time when the timer was started, and it has not been set   *)
(* back since.                                                             *)
(***************************************************************************)
NewAreLater(f, time, count, deadline) ==
  /\ f.now <= time
  /\ f.max_id <= count
  /\ \A id \in FirstId .. count - 1 : id >= f.max_id => deadline[id] >= f.now

ClockAhead == \A i \in DOMAIN frames : NewAreLater(frames[i], clock, next_id, due)

LEMMA ClockAheadInit == BaseInit => ClockAhead
BY EmptySeq DEF BaseInit, ClockAhead

\* It stays so when no timer is started, the clock is not set back, and no
\* Update is called.
LEMMA ClockAheadKept ==
  ASSUME LoopInv, ClockAhead,
         clock' \in Nat, clock' >= clock, next_id' = next_id, due' = due,
         \A i \in DOMAIN frames' :
           /\ i \in DOMAIN frames
           /\ frames'[i].now = frames[i].now
           /\ frames'[i].max_id = frames[i].max_id
  PROVE  ClockAhead'
<1>1. \A i \in DOMAIN frames : frames[i].now \in Nat
  BY FrameFields
<1>2. clock \in Nat
  BY DEF LoopInv, BaseTypeOK
<1> QED
  BY <1>1, <1>2 DEF ClockAhead, NewAreLater

LEMMA ClockAheadStart ==
  ASSUME LoopInv, ClockAhead, NEW duration \in Durations, CallerStarts(duration)
  PROVE  ClockAhead'
<1> DEFINE deadline == clock + duration
<1>1. deadline \in Nat /\ deadline >= clock /\ clock \in Nat /\ next_id \in Nat
  BY BaseAssumption DEF LoopInv, BaseTypeOK
<1>2. Started(deadline) /\ clock' = clock /\ frames' = frames
  BY DEF CallerStarts
<1> HIDE DEF deadline
<1>3. /\ next_id' = next_id + 1
      /\ due'[next_id] = deadline
      /\ \A id \in Ids : due'[id] = due[id]
  BY <1>1, <1>2, StartedType DEF LoopInv
<1> SUFFICES ASSUME NEW i \in DOMAIN frames
             PROVE  NewAreLater(frames[i], clock, next_id + 1, due')
  BY <1>2, <1>3 DEF ClockAhead
<1>4. /\ NewAreLater(frames[i], clock, next_id, due)
      /\ frames[i].now \in Nat
      /\ frames[i].max_id \in Nat
  BY FrameFields DEF ClockAhead
<1>5. ASSUME NEW id \in FirstId .. next_id + 1 - 1, id >= frames[i].max_id
      PROVE  due'[id] >= frames[i].now
  <2>1. CASE id = next_id
    BY <1>1, <1>3, <1>4, <2>1 DEF NewAreLater
  <2>2. CASE id # next_id
    <3>1. id \in FirstId .. next_id - 1 /\ id \in Ids
      BY <1>1, <2>2 DEF FirstId, Service!FirstId, Ids
    <3> QED BY <1>3, <1>4, <1>5, <3>1 DEF NewAreLater
  <2> QED BY <2>1, <2>2
<1> QED
  BY <1>1, <1>4, <1>5 DEF NewAreLater

LEMMA ClockAheadUpdate ==
  ASSUME LoopInv, ClockAhead, NEW lag \in Lags, CallerUpdates(clock - lag)
  PROVE  ClockAhead'
<1> DEFINE f == NewFrame(clock - lag)
<1>1. clock - lag \in Nat /\ clock - lag <= clock /\ clock \in Nat /\ next_id \in Nat
  BY ToldTime DEF CallerUpdates, LoopInv, BaseTypeOK
<1>2. f \in LoopFrame /\ NewAreLater(f, clock, next_id, due)
  BY <1>1, NewFrameIs DEF NewAreLater, FirstId, Service!FirstId
<1>3. UNCHANGED <<clock, next_id, due>> /\ (frames' = frames \/ frames' = Push(f))
  BY DEF CallerUpdates, Reported
<1> HIDE DEF f
<1>4. CASE frames' = frames
  BY <1>3, <1>4 DEF ClockAhead
<1>5. CASE frames' = Push(f)
  <2>1. /\ DOMAIN frames' = DOMAIN frames \cup {Len(frames) + 1}
        /\ frames'[Len(frames) + 1] = f
        /\ \A i \in DOMAIN frames : frames'[i] = frames[i]
    BY <1>2, <1>5, PushIs DEF LoopInv
  <2> QED BY <1>2, <1>3, <2>1 DEF ClockAhead
<1> QED
  BY <1>3, <1>4, <1>5

LEMMA ClockAheadStep ==
  ASSUME Steps \subseteq Nat, LoopInv, ClockAhead, LoopStep
  PROVE  ClockAhead'
<1>0. clock \in Nat
  BY DEF LoopInv, BaseTypeOK
<1>1. ASSUME NEW id \in live, CallerStops(id) PROVE ClockAhead'
  <2>1. UNCHANGED <<clock, next_id, due, frames>>
    BY <1>1 DEF CallerStops, Stopped
  <2> QED BY <1>0, <2>1, ClockAheadKept
<1>2. ASSUME NEW id \in live, LoopFires(id) PROVE ClockAhead'
  <2>1. /\ frames # <<>> /\ UNCHANGED <<clock, next_id, due>>
        /\ frames' = SetTop([Top EXCEPT !.phase = "callback"])
    BY <1>2 DEF LoopFires, CallsAction, Fired, InPhase
  <2>2. \A i \in DOMAIN frames' :
          /\ i \in DOMAIN frames
          /\ frames'[i].now = frames[i].now
          /\ frames'[i].max_id = frames[i].max_id
    BY <2>1, PhaseKeepsTold
  <2> QED BY <1>0, <2>1, <2>2, ClockAheadKept
<1>3. CASE LoopReturns
  <2>1. frames # <<>> /\ frames' = Pop /\ UNCHANGED <<clock, next_id, due>>
    BY <1>3 DEF LoopReturns, Returned, InPhase, ledger
  <2>2. \A i \in DOMAIN frames' : i \in DOMAIN frames /\ frames'[i] = frames[i]
    BY <2>1, TopPop DEF LoopInv
  <2> QED BY <1>0, <2>1, <2>2, ClockAheadKept
<1>4. CASE ActionReturns
  <2>1. /\ frames # <<>> /\ UNCHANGED <<clock, next_id, due>>
        /\ frames' = SetTop([Top EXCEPT !.phase = "loop"])
    BY <1>4 DEF ActionReturns, InPhase, ledger
  <2>2. \A i \in DOMAIN frames' :
          /\ i \in DOMAIN frames
          /\ frames'[i].now = frames[i].now
          /\ frames'[i].max_id = frames[i].max_id
    BY <2>1, PhaseKeepsTold
  <2> QED BY <1>0, <2>1, <2>2, ClockAheadKept
<1>5. CASE Elapse
  <2>1. UNCHANGED <<next_id, due, frames>> /\ clock' \in Nat /\ clock' >= clock
    BY <1>0, <1>5 DEF Elapse, ledger
  <2> QED BY <2>1, ClockAheadKept
<1>6. CASE Discarded \/ UNCHANGED baseVars
  <2>1. UNCHANGED <<clock, next_id, due, frames>>
    BY <1>6 DEF Discarded, baseVars, ledger
  <2> QED BY <1>0, <2>1, ClockAheadKept
<1> QED
  BY <1>1, <1>2, <1>3, <1>4, <1>5, <1>6, ClockAheadStart, ClockAheadUpdate DEF LoopStep, LoopQuiet

(***************************************************************************)
(* When the loop leaves off at a timer that is due no later than others,   *)
(* because it is not due or because it is newer than the loop, then none   *)
(* of them is due before the time the Update was told.                     *)
(***************************************************************************)
LEMMA LeavesOffWell ==
  ASSUME LoopInv, ClockAhead, frames # <<>>,
         NEW others \in SUBSET Ids,
         NEW first \in Ids, \A id \in others : due[first] <= due[id],
         ~(due[first] <= Top.now /\ first <= Top.max_id)
  PROVE  \A id \in others :
           /\ due[id] >= Top.now
           /\ next_id = Top.max_id => due[id] > Top.now
<1> SUFFICES ASSUME NEW id \in others
             PROVE  /\ due[id] >= Top.now
                    /\ next_id = Top.max_id => due[id] > Top.now
  OBVIOUS
<1>1. /\ next_id \in Nat /\ first \in Int /\ first < next_id
      /\ due[first] \in Nat /\ due[id] \in Nat /\ due[first] <= due[id]
  BY DEF LoopInv, BaseTypeOK, Ids, FirstId, Service!FirstId
<1>2. Top.now \in Nat /\ Top.max_id \in Nat /\ NewAreLater(Top, clock, next_id, due)
  BY TopFields DEF ClockAhead
<1>3. CASE due[first] > Top.now
  BY <1>1, <1>2, <1>3
<1>4. CASE first > Top.max_id
  <2>1. due[first] >= Top.now
    BY <1>1, <1>2, <1>4 DEF NewAreLater, Ids
  <2> QED BY <1>1, <1>2, <1>4, <2>1
<1> QED
  BY <1>1, <1>2, <1>3, <1>4
=============================================================================
