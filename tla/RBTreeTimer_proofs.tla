------------------------- MODULE RBTreeTimer_proofs -------------------------
(***************************************************************************)
(* Proofs about RBTreeTimer, for every value of its constants.  The        *)
(* inductive invariant has two parts, that of the loop (UpdateLoop_proofs) *)
(* and the agreement of the two maps with the ledger.                      *)
(***************************************************************************)
EXTENDS RBTreeTimer, UpdateLoop_proofs

IInv == LoopInv /\ TypeOK /\ MapsAgree

-----------------------------------------------------------------------------
\* The tree's keys, seen through the ledger.
LEMMA KeysOfLive ==
  ASSUME MapsAgree
  PROVE  /\ timers = {[id |-> id, deadline |-> due[id]] : id \in live}
         /\ \A k \in timers : k.id \in live /\ k.deadline = due[k.id]
  BY DEF MapsAgree

(***************************************************************************)
(* KeyLess orders the keys of the tree totally, and deadlines and ids are  *)
(* bounded: a tree that is not empty has a begin().                        *)
(***************************************************************************)
LEMMA FirstIsLeast ==
  ASSUME TypeOK, MapsAgree, timers # {}
  PROVE  /\ First \in timers
         /\ \A other \in timers \ {First} : KeyLess(First, other)
<1>1. timers \subseteq Key /\ \A k \in timers : k.id < next_id
  BY KeysOfLive DEF TypeOK, BaseTypeOK, Ids
<1>2. \A k, l \in timers : k.id = l.id => k = l
  BY DEF MapsAgree
<1>3. PICK d \in {k.deadline : k \in timers} :
        \A e \in {k.deadline : k \in timers} : d <= e
  <2>1. {k.deadline : k \in timers} \in SUBSET Nat
    BY <1>1 DEF Key
  <2>2. {k.deadline : k \in timers} # {}
    OBVIOUS
  <2> QED BY <2>1, <2>2, LeastNat
<1> DEFINE Earliest == {k \in timers : k.deadline = d}
           Ages     == {next_id - k.id : k \in Earliest}
<1>4. PICK a \in Ages : \A b \in Ages : a <= b
  <2>1. Ages \in SUBSET Nat
    BY <1>1 DEF Key, TypeOK, BaseTypeOK
  <2>2. Ages # {}
    BY <1>3
  <2> HIDE DEF Ages
  <2> QED BY <2>1, <2>2, LeastNat
<1>5. PICK k \in Earliest : a = next_id - k.id
  BY <1>4
<1>6. \A other \in timers \ {k} : KeyLess(k, other)
  <2> SUFFICES ASSUME NEW other \in timers \ {k} PROVE KeyLess(k, other)
    OBVIOUS
  <2>1. k.deadline <= other.deadline /\ k.deadline \in Nat /\ other.deadline \in Nat
    BY <1>1, <1>3 DEF Key
  <2>2. CASE k.deadline = other.deadline
    <3>1. other \in Earliest
      BY <2>2
    <3>2. next_id - k.id <= next_id - other.id
      BY <1>4, <1>5, <3>1
    <3>3. k.id # other.id /\ k.id \in Nat /\ other.id \in Nat /\ next_id \in Nat
      BY <1>1, <1>2 DEF Key, TypeOK, BaseTypeOK
    <3>4. k.id > other.id
      BY <3>2, <3>3
    <3> QED BY <2>2, <3>4 DEF KeyLess
  <2> QED BY <2>1, <2>2 DEF KeyLess
<1> QED
  BY <1>6 DEF First

\* Unlinking a live timer from both maps and from the ledger.
LEMMA UnlinkAgrees ==
  ASSUME TypeOK, MapsAgree, NEW id \in live, Unlink(id),
         live' = live \ {id}, due' = due
  PROVE  /\ MapsAgree'
         /\ timers' \in SUBSET Key
         /\ ref' \in [DOMAIN ref' -> Key]
<1>1. DOMAIN ref' = live \ {id} /\ \A x \in live \ {id} : ref'[x] = ref[x]
  BY DEF Unlink, MapsAgree, Restrict
<1>2. ref' \in [live \ {id} -> Key]
  <2>1. ref' = [x \in live \ {id} |-> ref[x]]
    BY DEF Unlink, MapsAgree, Restrict
  <2> QED BY <2>1 DEF MapsAgree, TypeOK
<1>3. timers' = {ref[x] : x \in live \ {id}}
  <2>1. timers = {ref[x] : x \in live} /\ timers' = timers \ {ref[id]}
    BY DEF Unlink, MapsAgree
  <2>2. \A x, y \in live : ref[x] = ref[y] => x = y
    BY DEF MapsAgree
  <2> QED BY <2>1, <2>2
<1>4. timers' \in SUBSET Key
  BY DEF Unlink, TypeOK
<1>5. ref' \in [DOMAIN ref' -> Key]
  BY <1>1, <1>2
<1>6. \A x \in live' : ref'[x] = [id |-> x, deadline |-> due'[x]]
  BY <1>1 DEF MapsAgree
<1>7. timers' = {ref'[x] : x \in DOMAIN ref'}
  BY <1>1, <1>3
<1> QED
  BY <1>1, <1>4, <1>5, <1>6, <1>7 DEF MapsAgree

-----------------------------------------------------------------------------
\* What FireFirst takes: the timer that KeyLess puts first, which is live.
LEMMA FirstIsLive ==
  ASSUME TypeOK, MapsAgree, timers # {}
  PROVE  /\ First.id \in live
         /\ First.deadline = due[First.id]
         /\ \A id \in live \ {First.id} :
              \/ due[First.id] < due[id]
              \/ due[First.id] = due[id] /\ First.id > id
<1>1. /\ First \in timers
      /\ \A other \in timers \ {First} : KeyLess(First, other)
  BY FirstIsLeast
<1>2. First.id \in live /\ First.deadline = due[First.id]
  BY <1>1, KeysOfLive
<1>3. ASSUME NEW id \in live \ {First.id}
      PROVE  \/ due[First.id] < due[id]
             \/ due[First.id] = due[id] /\ First.id > id
  <2> DEFINE other == [id |-> id, deadline |-> due[id]]
  <2>1. other \in timers \ {First}
    BY <1>3, KeysOfLive
  <2>2. KeyLess(First, other)
    BY <1>1, <2>1
  <2> QED BY <1>2, <2>2 DEF KeyLess
<1> QED
  BY <1>2, <1>3

\* To the clock, the stack and the ledger, a step is one of the loop's.
LEMMA StepIsLoopStep ==
  ASSUME IInv, [Next]_vars
  PROVE  \/ LoopQuiet
         \/ FireFirst /\ timers # {} /\ First.id \in live /\ LoopFires(First.id)
         \/ UpdateReturns /\ LoopReturns
<1> USE DEF IInv
<1>1. ASSUME NEW duration \in Durations, Start(duration) PROVE LoopQuiet
  BY <1>1 DEF Start, CallerStarts, LoopQuiet
<1>2. ASSUME NEW id \in DOMAIN ref, Cancel(id) PROVE LoopQuiet
  BY <1>2 DEF Cancel, CallerStops, LoopQuiet, MapsAgree
<1>3. ASSUME NEW lag \in Lags, Update(clock - lag) PROVE LoopQuiet
  BY <1>3 DEF Update, EntersLoop, CallerUpdates, NewFrame, LoopQuiet
<1>4. CASE FireFirst
  <2>1. /\ timers # {} /\ First.deadline <= Top.now
        /\ InPhase("loop") /\ CallsAction(First.id)
    BY <1>4 DEF FireFirst, Expired
  <2>2. First.id \in live /\ due[First.id] <= Top.now
    BY <2>1, FirstIsLive
  <2> QED BY <1>4, <2>1, <2>2 DEF LoopFires
<1>5. CASE UpdateReturns
  BY <1>5 DEF UpdateReturns, LoopReturns
<1>6. CASE ActionDone \/ TimePasses \/ Destroy \/ Ended \/ UNCHANGED vars
  BY <1>6 DEF ActionDone, TimePasses, Destroy, Ended, vars, LoopQuiet
<1> QED
  BY <1>1, <1>2, <1>3, <1>4, <1>5, <1>6 DEF Next

\* A new key enters both maps and the ledger.
LEMMA StartAgrees ==
  ASSUME IInv, NEW duration \in Durations, Start(duration)
  PROVE  MapsAgree' /\ timers' \in SUBSET Key /\ ref' \in [DOMAIN ref' -> Key]
<1> DEFINE deadline == clock + duration
           key == [id |-> next_id, deadline |-> deadline]
<1> USE DEF IInv
<1>1. deadline \in Nat /\ key \in Key
  BY BaseAssumption DEF TypeOK, BaseTypeOK, Key
<1>2. Started(deadline) /\ clock' = clock
  BY DEF Start
<1>3. /\ due'[next_id] = deadline
      /\ \A id \in Ids : due'[id] = due[id]
  <2> HIDE DEF deadline
  <2> QED BY <1>1, <1>2, StartedType DEF TypeOK
<1>4. live \subseteq Ids /\ next_id \notin live
  BY DEF TypeOK, BaseTypeOK, Ids
<1>5. ref' = Put(ref, next_id, key) /\ timers' = timers \cup {key}
      /\ live' = live \cup {next_id}
  BY DEF Start, Started
<1>6. /\ ref' \in [live \cup {next_id} -> Key]
      /\ ref'[next_id] = key
      /\ \A id \in live : ref'[id] = ref[id]
  <2>1. ref \in [live -> Key]
    BY DEF TypeOK, MapsAgree
  <2> HIDE DEF key
  <2> QED BY <1>1, <1>4, <1>5, <2>1 DEF Put, Service!Put
<1>7. DOMAIN ref' = live'
  BY <1>5, <1>6
<1>8. \A id \in live' : ref'[id] = [id |-> id, deadline |-> due'[id]]
  BY <1>3, <1>4, <1>5, <1>6 DEF MapsAgree
<1>9. timers' = {ref'[id] : id \in DOMAIN ref'}
  <2>1. timers = {ref[id] : id \in live}
    BY DEF MapsAgree
  <2> HIDE DEF key
  <2> QED BY <1>5, <1>6, <2>1
<1> QED
  BY <1>1, <1>5, <1>6, <1>7, <1>8, <1>9 DEF MapsAgree, TypeOK

LEMMA StepIInv == IInv /\ [Next]_vars => IInv'
<1> SUFFICES ASSUME IInv, [Next]_vars PROVE IInv'
  OBVIOUS
<1> USE DEF IInv
<1> DEFINE Kept == MapsAgree' /\ timers' \in SUBSET Key /\ ref' \in [DOMAIN ref' -> Key]
<1>1. ASSUME NEW duration \in Durations, Start(duration) PROVE Kept
  BY <1>1, StartAgrees
<1>2. ASSUME NEW id \in DOMAIN ref, Cancel(id) PROVE Kept
  <2>1. id \in live /\ Unlink(id) /\ live' = live \ {id} /\ due' = due
    BY <1>2 DEF Cancel, Stopped, MapsAgree
  <2> QED BY <2>1, UnlinkAgrees
<1>3. ASSUME FireFirst PROVE Kept
  <2>1. First.id \in live /\ Unlink(First.id) /\ live' = live \ {First.id} /\ due' = due
    BY <1>3, FirstIsLive DEF FireFirst, CallsAction, Fired
  <2> QED BY <2>1, UnlinkAgrees
<1>4. ASSUME Destroy PROVE Kept
  BY <1>4 DEF Destroy, Discarded, MapsAgree
<1>5. ASSUME UNCHANGED <<timers, ref, due, live>> PROVE Kept
  BY <1>5 DEF MapsAgree, TypeOK
<1>6. Kept
  BY <1>1, <1>2, <1>3, <1>4, <1>5
  DEF Next, Update, EntersLoop, Reported, UpdateReturns, Returned, ActionDone,
      ActionReturns, TimePasses, Elapse, Ended, vars, baseVars, ledger
<1>7. LoopInv'
  BY StepIsLoopStep, LoopInvStep DEF LoopStep
<1> QED
  BY <1>6, <1>7 DEF TypeOK, LoopInv

LEMMA Invariance == Spec => []IInv
<1>1. Init => IInv
  <2> SUFFICES ASSUME Init PROVE IInv
    OBVIOUS
  <2>1. LoopInv
    BY LoopInit DEF Init
  <2> QED BY <2>1 DEF IInv, TypeOK, LoopInv, MapsAgree, Init, BaseInit
<1> QED
  BY <1>1, StepIInv, PTL DEF Spec

\* The scheduler's state has its types.
THEOREM TypeCorrect == Spec => []TypeOK
<1>1. IInv => TypeOK
  BY DEF IInv
<1> QED
  BY Invariance, <1>1, PTL

(***************************************************************************)
(* Tree, hash map and ledger agree at every moment, between the iterations *)
(* of nested Updates and inside their actions too.                         *)
(***************************************************************************)
THEOREM MapsAlwaysAgree == Spec => []MapsAgree
<1>1. IInv => MapsAgree
  BY DEF IInv
<1> QED
  BY Invariance, <1>1, PTL

\* RBTreeTimer keeps the contract of the interface.
THEOREM Implements == Spec => ImplementsService
<1>1. Init => Service!Init
  BY LoopInit DEF Init
<1>2. ASSUME IInv, [Next]_vars PROVE [Service!Next]_(Service!vars)
  BY <1>2, StepIsLoopStep, LoopRefines DEF LoopStep, IInv
<1> QED
  BY <1>1, <1>2, Invariance, PTL DEF Spec, ImplementsService, Service!Spec

-----------------------------------------------------------------------------
(***************************************************************************)
(* The order in which timers fire, whatever the actions do and however     *)
(* Updates nest.                                                           *)
(***************************************************************************)
THEOREM FiresInOrder == Spec => EarliestFirst
<1> DEFINE Ordered ==
      FiringStep =>
        \A id \in live \ {FiredNow} :
          \/ due[FiredNow] < due[id]
          \/ due[FiredNow] = due[id] /\ FiredNow > id
<1>1. ASSUME IInv, [Next]_vars PROVE [Ordered]_vars
  <2>0. LoopInv /\ TypeOK /\ MapsAgree
    BY <1>1 DEF IInv
  <2>1. CASE LoopQuiet
    BY <2>0, <2>1, QuietStep
  <2>2. CASE timers # {} /\ First.id \in live /\ LoopFires(First.id)
    <3>1. FiredNow = First.id
      BY <2>0, <2>2, FiringOrReturning
    <3>2. \A id \in live \ {First.id} :
            \/ due[First.id] < due[id]
            \/ due[First.id] = due[id] /\ First.id > id
      BY <2>0, <2>2, FirstIsLive
    <3> QED BY <3>1, <3>2
  <2>3. CASE LoopReturns
    BY <2>0, <2>3, FiringOrReturning
  <2> QED BY <1>1, <2>1, <2>2, <2>3, StepIsLoopStep
<1> QED
  BY <1>1, Invariance, PTL DEF Spec, EarliestFirst

(***************************************************************************)
(* When the clock is never set back, an Update does not return before      *)
(* every live timer with an earlier deadline has fired.                    *)
(***************************************************************************)
THEOREM UpdateReachesDue ==
  ASSUME Steps \subseteq Nat
  PROVE  Spec => UpdateComplete
<1> DEFINE Complete ==
      Len(frames') < Len(frames) =>
        \A id \in live :
          /\ due[id] >= Top.now
          /\ next_id = Top.max_id => due[id] > Top.now
<1>1. ASSUME IInv, ClockAhead, [Next]_vars PROVE [Complete]_vars
  <2>0. LoopInv /\ TypeOK /\ MapsAgree
    BY <1>1 DEF IInv
  <2>1. CASE LoopQuiet
    BY <2>0, <2>1, QuietStep
  <2>2. CASE First.id \in live /\ LoopFires(First.id)
    BY <2>0, <2>2, FiringOrReturning
  <2>3. CASE UpdateReturns /\ LoopReturns
    <3>1. CASE timers = {}
      <4>1. live = {}
        BY <2>0, <3>1 DEF MapsAgree
      <4> QED BY <4>1
    <3>2. CASE timers # {}
      <4>1. /\ First.id \in live /\ First.deadline = due[First.id]
            /\ \A id \in live \ {First.id} :
                 \/ due[First.id] < due[id]
                 \/ due[First.id] = due[id] /\ First.id > id
        BY <2>0, <3>2, FirstIsLive
      <4>2. live \subseteq Ids /\ \A id \in live : due[id] \in Nat
        BY <2>0 DEF LoopInv, BaseTypeOK
      <4>3. \A id \in live : due[First.id] <= due[id]
        BY <4>1, <4>2
      <4>4. ~(due[First.id] <= Top.now /\ First.id <= Top.max_id) /\ frames # <<>>
        BY <2>3, <3>2, <4>1 DEF UpdateReturns, Expired, InRound, InPhase
      <4> QED BY <1>1, <2>0, <4>1, <4>2, <4>3, <4>4, LeavesOffWell
    <3> QED BY <3>1, <3>2
  <2> QED BY <1>1, <2>1, <2>2, <2>3, StepIsLoopStep
<1>2. Init => ClockAhead
  BY ClockAheadInit DEF Init
<1>3. ASSUME IInv, ClockAhead, [Next]_vars PROVE ClockAhead'
  BY <1>3, StepIsLoopStep, ClockAheadStep DEF LoopStep, IInv
<1> QED
  BY <1>1, <1>2, <1>3, Invariance, PTL DEF Spec, UpdateComplete
-----------------------------------------------------------------------------
\* Nothing but the loop moves while the loop is in control.
LEMMA LoopAlone ==
  ASSUME [Next]_vars, InPhase("loop")
  PROVE  FireFirst \/ UpdateReturns \/ UNCHANGED vars
BY DEF Next, InPhase, Start, MayStart, MayCall, Cancel, Update, EntersLoop, MayUpdate,
       ActionDone, ActionReturns, TimePasses, Elapse, Destroy, Discarded, Ended

(***************************************************************************)
(* Every Update ends: the finitely many ids in its reach only become       *)
(* fewer (ShrinkingEnds), and each iteration of its loop takes one away.   *)
(***************************************************************************)
THEOREM UpdatesEnd == Spec => UpdateEnds
<1> DEFINE Ends ==
      \A k \in DOMAIN frames \cap DOMAIN frames' :
        /\ InReach(k, live)' \subseteq InReach(k, live)
        /\ InPhase("loop") /\ k = Len(frames) => InReach(k, live)' # InReach(k, live)
<1>1. ASSUME IInv, [Next]_vars PROVE [Ends]_vars
  <2> SUFFICES ASSUME NEW k \in DOMAIN frames \cap DOMAIN frames', vars' # vars
               PROVE  /\ InReach(k, live)' \subseteq InReach(k, live)
                      /\ InPhase("loop") /\ k = Len(frames) =>
                           InReach(k, live)' # InReach(k, live)
    OBVIOUS
  <2>0. LoopInv /\ TypeOK /\ MapsAgree
    BY <1>1 DEF IInv
  <2>1. InReach(k, live)' \subseteq InReach(k, live)
    BY <1>1, <2>0, StepIsLoopStep, ReachShrinks DEF LoopStep
  <2>2. ASSUME InPhase("loop"), k = Len(frames)
        PROVE  InReach(k, live)' # InReach(k, live)
    <3>1. CASE FireFirst
      <4>1. timers # {} /\ First.deadline <= Top.now /\ First.id <= Top.max_id
            /\ InPhase("loop") /\ CallsAction(First.id)
        BY <3>1 DEF FireFirst, Expired, InRound
      <4>2. First.id \in live /\ LoopFires(First.id)
        BY <2>0, <4>1, FirstIsLive DEF LoopFires
      <4>3. InReach(Len(frames), live)' # InReach(Len(frames), live)
        BY <2>0, <4>1, <4>2, FiringLeavesReach
      <4>4. Len(frames') = Len(frames)
        BY <2>0, <4>2, PhaseKeepsTold DEF LoopFires, InPhase, CallsAction
      <4> QED BY <2>2, <4>3, <4>4 DEF InReach
    <3>2. CASE UpdateReturns
      BY <2>0, <2>2, <3>2, TopReturns DEF UpdateReturns, LoopReturns
    <3> QED BY <1>1, <2>2, <3>1, <3>2, LoopAlone
  <2> QED BY <2>1, <2>2
<1> QED
  BY <1>1, Invariance, PTL DEF Spec, UpdateEnds
=============================================================================
