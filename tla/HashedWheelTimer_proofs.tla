----------------------- MODULE HashedWheelTimer_proofs -----------------------
(***************************************************************************)
(* Proofs about HashedWheelTimer, for every value of its constants.  The   *)
(* inductive invariant adds to HeldOnce what is known of the ticks that    *)
(* are under way: a tick that is over has no expired timeout left, one in  *)
(* an action has the timeout of that action first on its list, and every   *)
(* timeout on a list was checked against the wheel's time.                 *)
(***************************************************************************)
EXTENDS HashedWheelTimer, TimerBase_proofs

TicksRight ==
  \A k \in DOMAIN frames :
    /\ frames[k].phase = "callback" => frames[k].expired # <<>>
    /\ frames[k].phase # "tick" => frames[k].left > 0
    /\ frames[k].phase = "tick" /\ frames[k].left = 0 => frames[k].expired = <<>>
    /\ \A i \in DOMAIN frames[k].expired : due[frames[k].expired[i]] <= WheelTime

IInv == TypeOK /\ HeldOnce /\ TicksRight

-----------------------------------------------------------------------------
(* HeldOnce in parts, said of single entries of the lists.                 *)

\* The tick of frame k has id at position i of its list of expired timeouts.
OnList(k, i, id) ==
  k \in DOMAIN frames /\ i \in DOMAIN frames[k].expired /\ frames[k].expired[i] = id

InAction(k) == k \in DOMAIN frames /\ frames[k].phase = "callback"

RefHolds ==
  /\ DOMAIN timeouts = live \cup Running
  /\ live \cap Running = {}

HeldSomewhere ==
  \A id \in DOMAIN timeouts :
    IF timeouts[id].bucket = None
    THEN \E k, i : OnList(k, i, id)
    ELSE LinkedIn(timeouts[id].bucket, id)

BucketRight(b) ==
  /\ Injective(wheel[b])
  /\ \A i \in DOMAIN wheel[b] :
       wheel[b][i] \in DOMAIN timeouts /\ timeouts[wheel[b][i]].bucket = b

ListsRight ==
  \A k, i, id : OnList(k, i, id) =>
    /\ id \in DOMAIN timeouts
    /\ timeouts[id].bucket = None
    /\ \A l, j : OnList(l, j, id) => k = l /\ i = j

LEMMA HeldOnceParts ==
  HeldOnce <=> RefHolds /\ HeldSomewhere /\ (\A b \in Buckets : BucketRight(b)) /\ ListsRight
<1>1. ListsRight <=>
        \A k \in DOMAIN frames : \A i \in DOMAIN frames[k].expired :
           /\ frames[k].expired[i] \in DOMAIN timeouts
           /\ timeouts[frames[k].expired[i]].bucket = None
           /\ \A l \in DOMAIN frames : \A j \in DOMAIN frames[l].expired :
                frames[k].expired[i] = frames[l].expired[j] => k = l /\ i = j
  BY DEF ListsRight, OnList
<1>2. \A id : Awaiting(id) <=> \E k, i : OnList(k, i, id)
  BY DEF Awaiting, OnList
<1> QED
  BY <1>1, <1>2 DEF HeldOnce, RefHolds, HeldSomewhere, BucketRight, Injective

-----------------------------------------------------------------------------
(* The stack.                                                              *)
LEMMA FrameFields ==
  ASSUME TypeOK, NEW k \in DOMAIN frames
  PROVE  /\ frames[k] \in Frame
         /\ frames[k].left \in Nat
         /\ frames[k].at \in Nat \ {0}
         /\ frames[k].expired \in Seq(Ids)
         /\ frames[k].phase \in {"tick", "loop", "callback"}
<1>1. frames[k] \in Frame
  BY Elements DEF TypeOK
<1> QED
  BY <1>1 DEF Frame

LEMMA TopFields ==
  ASSUME TypeOK, frames # <<>>
  PROVE  /\ Len(frames) \in DOMAIN frames
         /\ Top = frames[Len(frames)]
         /\ Top \in Frame
         /\ Top.left \in Nat
         /\ Top.at \in Nat \ {0}
         /\ Top.expired \in Seq(Ids)
         /\ Top.phase \in {"tick", "loop", "callback"}
<1>1. Len(frames) \in DOMAIN frames
  BY TopPop DEF TypeOK
<1> QED
  BY <1>1, FrameFields DEF Top

\* What replacing the top frame does to the lists.
LEMMA SetTopLists ==
  ASSUME TypeOK, frames # <<>>, NEW f \in Frame, frames' = SetTop(f)
  PROVE  /\ frames' \in Seq(Frame)
         /\ DOMAIN frames' = DOMAIN frames
         /\ Len(frames) \in DOMAIN frames
         /\ frames'[Len(frames)] = f
         /\ \A k \in DOMAIN frames : k # Len(frames) => frames'[k] = frames[k]
         /\ \A k, i, id : OnList(k, i, id)' <=>
              IF k = Len(frames)
              THEN i \in DOMAIN f.expired /\ f.expired[i] = id
              ELSE OnList(k, i, id)
<1>1. /\ frames' \in Seq(Frame) /\ DOMAIN frames' = DOMAIN frames
      /\ \A k \in DOMAIN frames : frames'[k] = IF k = Len(frames) THEN f ELSE frames[k]
  BY SetTopIs DEF TypeOK
<1>2. Len(frames) \in DOMAIN frames
  BY TopFields
<1> QED
  BY <1>1, <1>2 DEF OnList

\* Whose action is running.
LEMMA RunningIs ==
  ASSUME TypeOK, TicksRight
  PROVE  \A id : id \in Running <=> \E k : InAction(k) /\ OnList(k, 1, id)
<1>1. ASSUME NEW k \in DOMAIN frames, frames[k].phase = "callback"
      PROVE  1 \in DOMAIN frames[k].expired
  <2>1. frames[k].expired \in Seq(Ids) /\ frames[k].expired # <<>>
    BY <1>1, FrameFields DEF TicksRight
  <2> QED BY <2>1, Elements, EmptySeq
<1> QED
  BY <1>1 DEF Running, InAction, OnList

\* The same of the next state.
LEMMA Primed ==
  /\ RefHolds' /\ HeldSomewhere' /\ (\A b \in Buckets : BucketRight(b)') /\ ListsRight'
       => HeldOnce'
  /\ TypeOK' /\ TicksRight' =>
       \A id : id \in Running' <=> \E k : InAction(k)' /\ OnList(k, 1, id)'
<1>1. (HeldOnce <=> RefHolds /\ HeldSomewhere /\ (\A b \in Buckets : BucketRight(b)) /\ ListsRight)'
  BY HeldOnceParts, PTL
<1>2. (TypeOK /\ TicksRight => \A id : id \in Running <=> \E k : InAction(k) /\ OnList(k, 1, id))'
  BY RunningIs, PTL
<1> QED
  BY <1>1, <1>2 DEF Buckets

\* A step that links nothing and unlinks nothing, and neither calls an action
\* nor returns from one.
LEMMA HeldOnceKept ==
  ASSUME IInv, TypeOK', TicksRight',
         UNCHANGED <<wheel, live>>,
         DOMAIN timeouts' = DOMAIN timeouts,
         \A id \in DOMAIN timeouts : timeouts'[id].bucket = timeouts[id].bucket,
         \A k, i, id : OnList(k, i, id)' <=> OnList(k, i, id),
         \A k : InAction(k)' <=> InAction(k)
  PROVE  HeldOnce'
<1>1. Running' = Running
  <2>1. \A id : id \in Running' <=> \E k : InAction(k)' /\ OnList(k, 1, id)'
    BY Primed
  <2>2. \A id : id \in Running <=> \E k : InAction(k) /\ OnList(k, 1, id)
    BY RunningIs DEF IInv
  <2> QED BY <2>1, <2>2
<1>2. RefHolds /\ HeldSomewhere /\ (\A b \in Buckets : BucketRight(b)) /\ ListsRight
  BY HeldOnceParts DEF IInv
<1>3. RefHolds'
  BY <1>1, <1>2 DEF RefHolds
<1>4. HeldSomewhere'
  BY <1>2 DEF HeldSomewhere, LinkedIn
<1>5. \A b \in Buckets : BucketRight(b)'
  BY <1>2 DEF BucketRight
<1>6. ListsRight'
  BY <1>2 DEF ListsRight
<1> QED
  BY <1>3, <1>4, <1>5, <1>6, Primed

\* One that does not touch the stack.
LEMMA SameStack ==
  ASSUME UNCHANGED frames
  PROVE  /\ \A k, i, id : OnList(k, i, id)' <=> OnList(k, i, id)
         /\ \A k : InAction(k)' <=> InAction(k)
BY DEF OnList, InAction

-----------------------------------------------------------------------------
(* Types.                                                                  *)

LEMMA QuotientIs ==
  ASSUME NEW a \in Int, NEW b \in Nat \ {0}
  PROVE  Quotient(a, b) \in Int
BY DEF Quotient

LEMMA PlacedType ==
  ASSUME TypeOK, NEW deadline \in Nat
  PROVE  Placed(deadline) \in Timeout /\ Placed(deadline).bucket \in Buckets
<1> DEFINE calculated == Calculated(deadline)
           stop == IF calculated < ticks THEN ticks ELSE calculated
<1>1. AsInt(deadline - started_at) \in Int
  <2>1. deadline - started_at + INT_MAX + 1 \in Int /\ 2 * INT_MAX + 2 \in Nat \ {0}
    BY HashedWheelAssumption DEF TypeOK
  <2>2. (deadline - started_at + INT_MAX + 1) % (2 * INT_MAX + 2) \in Int
    BY <2>1
  <2> QED BY <2>2, HashedWheelAssumption DEF AsInt
<1>2. calculated \in Int
  BY <1>1, QuotientIs, HashedWheelAssumption DEF Calculated
<1> HIDE DEF calculated
<1>3. stop \in Int /\ ticks \in Nat
  BY <1>2 DEF TypeOK
<1> HIDE DEF stop
<1>4. stop % WHEEL_SIZE \in Buckets
  BY <1>3, HashedWheelAssumption DEF Buckets
<1>5. Quotient(calculated - ticks, WHEEL_SIZE) \in Int
  <2>1. calculated - ticks \in Int /\ WHEEL_SIZE \in Nat \ {0}
    BY <1>2, <1>3, HashedWheelAssumption
  <2> QED BY <2>1, QuotientIs
<1>6. Placed(deadline) =
        [bucket |-> stop % WHEEL_SIZE, rounds |-> Quotient(calculated - ticks, WHEEL_SIZE)]
  BY DEF Placed, stop, calculated
<1> QED
  BY <1>4, <1>5, <1>6 DEF Timeout

LEMMA BucketOrNone == None \notin Buckets
BY DEF None, Buckets

LEMMA WheelTimeIs ==
  ASSUME TypeOK
  PROVE  /\ WheelTime \in Int
         /\ ticks' = ticks + 1 /\ started_at' = started_at => WheelTime' >= WheelTime
         /\ UNCHANGED <<ticks, started_at>> => WheelTime' = WheelTime
<1>1. ticks \in Nat /\ started_at \in Nat /\ TICK_DURATION \in Nat
  BY HashedWheelAssumption DEF TypeOK
<1>2. TICK_DURATION * (ticks + 1) \in Int
  BY <1>1
<1>3. TICK_DURATION * (ticks + 1 + 1) = TICK_DURATION * (ticks + 1) + TICK_DURATION
  BY <1>1
<1> QED
  BY <1>1, <1>2, <1>3 DEF WheelTime

\* Adding an id keeps the types of the stack and the wheel.
LEMMA MoreIds ==
  ASSUME TypeOK, Ids \subseteq Ids'
  PROVE  /\ frames \in Seq(Frame')
         /\ wheel \in [Buckets -> Seq(Ids')]
<1>1. Seq(Ids) \subseteq Seq(Ids')
  BY SeqMonotonic
<1>2. Frame \subseteq Frame'
  BY <1>1 DEF Frame
<1> QED
  BY <1>1, <1>2, SeqMonotonic DEF TypeOK

\* What a step keeps that sets the top frame.
LEMMA TicksRightSetTop ==
  ASSUME TypeOK, TicksRight, frames # <<>>, NEW f \in Frame, frames' = SetTop(f),
         due' = due, WheelTime' \in Int, WheelTime' >= WheelTime,
         f.phase = "callback" => f.expired # <<>>,
         f.phase # "tick" => f.left > 0,
         f.phase = "tick" /\ f.left = 0 => f.expired = <<>>,
         \A i \in DOMAIN f.expired : due[f.expired[i]] <= WheelTime'
  PROVE  TicksRight'
<1>1. \A id \in Ids : due[id] \in Nat
  BY DEF TypeOK, BaseTypeOK
<1>2. \A k \in DOMAIN frames : \A i \in DOMAIN frames[k].expired :
        frames[k].expired[i] \in Ids
  BY FrameFields, Elements
<1>3. WheelTime \in Int
  BY WheelTimeIs
<1>4. ASSUME NEW k \in DOMAIN frames
      PROVE  \A i \in DOMAIN frames[k].expired : due[frames[k].expired[i]] <= WheelTime'
  BY <1>1, <1>2, <1>3 DEF TicksRight
<1>5. /\ DOMAIN frames' = DOMAIN frames
      /\ \A k \in DOMAIN frames : frames'[k] = f \/ frames'[k] = frames[k]
  BY SetTopLists
<1>6. ASSUME NEW k \in DOMAIN frames'
      PROVE  /\ frames'[k].phase = "callback" => frames'[k].expired # <<>>
             /\ frames'[k].phase # "tick" => frames'[k].left > 0
             /\ frames'[k].phase = "tick" /\ frames'[k].left = 0 => frames'[k].expired = <<>>
             /\ \A i \in DOMAIN frames'[k].expired : due'[frames'[k].expired[i]] <= WheelTime'
  <2>1. CASE frames'[k] = f
    BY <2>1
  <2>2. CASE frames'[k] = frames[k]
    <3>1. k \in DOMAIN frames
      BY <1>5
    <3> QED BY <1>4, <2>2, <3>1 DEF TicksRight
  <2> QED BY <1>5, <2>1, <2>2
<1> QED
  BY <1>6 DEF TicksRight

\* What one keeps that leaves the stack alone or takes its top away.
LEMMA TicksRightKept ==
  ASSUME TypeOK, TicksRight, UNCHANGED <<ticks, started_at>>,
         \A id \in Ids : due'[id] = due[id],
         \A k \in DOMAIN frames' : k \in DOMAIN frames /\ frames'[k] = frames[k]
  PROVE  TicksRight'
<1>1. \A k \in DOMAIN frames : \A i \in DOMAIN frames[k].expired :
        frames[k].expired[i] \in Ids
  BY FrameFields, Elements
<1>2. WheelTime' = WheelTime
  BY WheelTimeIs
<1> QED
  BY <1>1, <1>2 DEF TicksRight

-----------------------------------------------------------------------------
(* The actions that move a timeout.                                        *)

LEMMA StartIInv ==
  ASSUME IInv, NEW duration \in Durations, Start(duration)
  PROVE  IInv'
<1> USE DEF IInv
<1> DEFINE deadline == clock + duration
           timeout  == Placed(deadline)
<1>1. deadline \in Nat
  BY BaseAssumption DEF TypeOK, BaseTypeOK
<1>b. PICK b \in Buckets : b = timeout.bucket
  BY <1>1, PlacedType
<1>2. timeout \in Timeout /\ b # None
  BY <1>1, PlacedType, BucketOrNone
<1>3. /\ wheel' = [wheel EXCEPT ![b] = Append(@, next_id)]
      /\ timeouts' = Put(timeouts, next_id, timeout)
      /\ Started(deadline)
      /\ UNCHANGED <<ticks, last_time, started_at, clock, frames, status>>
  BY <1>b DEF Start
<1> HIDE DEF deadline
<1>4. /\ BaseTypeOK' /\ next_id \notin Ids /\ Ids' = Ids \cup {next_id}
      /\ \A id \in Ids : due'[id] = due[id]
  BY <1>1, <1>3, StartedType DEF TypeOK
<1>5. live' = live \cup {next_id}
  BY <1>3 DEF Started
<1> HIDE DEF timeout
<1>6. DOMAIN timeouts \subseteq Ids
  <2>1. ASSUME NEW id \in Running PROVE id \in Ids
    BY RunningIs, FrameFields, Elements DEF OnList
  <2> QED BY <2>1 DEF HeldOnce, TypeOK, BaseTypeOK
<1>7. /\ DOMAIN timeouts' = DOMAIN timeouts \cup {next_id}
      /\ timeouts'[next_id] = timeout
      /\ \A id \in DOMAIN timeouts : timeouts'[id] = timeouts[id]
      /\ timeouts' \in [DOMAIN timeouts' -> Timeout]
  BY <1>2, <1>3, <1>4, <1>6 DEF Put, Service!Put, TypeOK
<1>8. /\ frames \in Seq(Frame') /\ wheel \in [Buckets -> Seq(Ids')]
  BY <1>4, MoreIds
<1>9. /\ wheel' \in [Buckets -> Seq(Ids')]
      /\ \A c \in Buckets : c # b => wheel'[c] = wheel[c]
      /\ wheel'[b] = Append(wheel[b], next_id)
  BY <1>2, <1>3, <1>4, <1>8, AppendProperties
<1>10. TypeOK'
  BY <1>3, <1>4, <1>7, <1>8, <1>9 DEF TypeOK
<1>11. TicksRight'
  BY <1>3, <1>4, TicksRightKept
<1>12. /\ \A k, i, id : OnList(k, i, id)' <=> OnList(k, i, id)
       /\ \A k : InAction(k)' <=> InAction(k)
  BY <1>3, SameStack
<1>13. Running' = Running
  <2>1. \A id : id \in Running' <=> \E k : InAction(k)' /\ OnList(k, 1, id)'
    BY <1>10, <1>11, Primed
  <2> QED BY <1>12, <2>1, RunningIs
<1>14. RefHolds /\ HeldSomewhere /\ (\A c \in Buckets : BucketRight(c)) /\ ListsRight
  BY HeldOnceParts
<1>15. next_id \notin DOMAIN timeouts
  BY <1>4, <1>6
<1>16. /\ DOMAIN wheel'[b] = DOMAIN wheel[b] \cup {Len(wheel[b]) + 1}
       /\ wheel'[b][Len(wheel[b]) + 1] = next_id
       /\ \A i \in DOMAIN wheel[b] : wheel'[b][i] = wheel[b][i]
       /\ Len(wheel[b]) + 1 \notin DOMAIN wheel[b]
  <2>1. wheel[b] \in Seq(Ids')
    BY <1>2, <1>8
  <2>2. DOMAIN wheel[b] = 1 .. Len(wheel[b]) /\ Len(wheel[b]) \in Nat
    BY <2>1, Elements
  <2>3. /\ wheel'[b] \in Seq(Ids') /\ Len(wheel'[b]) = Len(wheel[b]) + 1
        /\ wheel'[b][Len(wheel[b]) + 1] = next_id
        /\ \A i \in 1 .. Len(wheel[b]) : wheel'[b][i] = wheel[b][i]
    BY <1>4, <1>9, <2>1, AppendProperties
  <2>4. DOMAIN wheel'[b] = 1 .. Len(wheel[b]) + 1
    BY <2>3, LenProperties
  <2> QED BY <2>2, <2>3, <2>4
<1>17. RefHolds'
  BY <1>5, <1>7, <1>13, <1>14, <1>15 DEF RefHolds
<1>18. HeldSomewhere'
  <2>1. ASSUME NEW id \in DOMAIN timeouts, NEW c, c = timeouts[id].bucket, c # None
        PROVE  LinkedIn(c, id)'
    <3>1. LinkedIn(c, id) /\ c \in Buckets
      BY <1>14, <2>1 DEF HeldSomewhere, TypeOK, Timeout
    <3> QED BY <1>9, <1>16, <3>1 DEF LinkedIn
  <2>2. \E i \in DOMAIN wheel'[b] : wheel'[b][i] = next_id
    BY <1>16
  <2>3. timeouts'[next_id].bucket = b
    BY <1>7, <1>b
  <2>4. ASSUME NEW id \in DOMAIN timeouts'
        PROVE  IF timeouts'[id].bucket = None
               THEN \E k, i : OnList(k, i, id)'
               ELSE \E i \in DOMAIN wheel'[timeouts'[id].bucket] :
                      wheel'[timeouts'[id].bucket][i] = id
    <3>1. CASE id = next_id
      BY <1>2, <2>2, <2>3, <3>1
    <3>2. CASE id \in DOMAIN timeouts
      BY <1>7, <1>12, <1>14, <2>1, <3>2 DEF HeldSomewhere, LinkedIn
    <3> QED BY <1>7, <3>1, <3>2
  <2> QED BY <2>4 DEF HeldSomewhere, LinkedIn
<1>19. ASSUME NEW c \in Buckets PROVE BucketRight(c)'
  <2>1. CASE c = b
    <3>1. timeouts'[next_id].bucket = b
      BY <1>7, <1>b
    <3> QED BY <1>2, <1>7, <1>14, <1>15, <1>16, <2>1, <3>1 DEF BucketRight, Injective
  <2>2. CASE c # b
    BY <1>7, <1>9, <1>14, <2>2 DEF BucketRight, Injective
  <2> QED BY <2>1, <2>2
<1>20. ListsRight'
  BY <1>7, <1>12, <1>14 DEF ListsRight
<1> QED
  BY <1>10, <1>11, <1>17, <1>18, <1>19, <1>20, Primed

\* bucket->Remove of a timeout that is linked.
LEMMA RemovedIs ==
  ASSUME IInv, NEW id \in DOMAIN timeouts, timeouts[id].bucket # None, wheel' = Removed(id)
  PROVE  /\ timeouts[id].bucket \in Buckets
         /\ wheel' \in [Buckets -> Seq(Ids)]
         /\ \A c \in Buckets :
              /\ Injective(wheel'[c])
              /\ \A i \in DOMAIN wheel'[c] :
                   /\ wheel'[c][i] # id
                   /\ \E j \in DOMAIN wheel[c] : wheel[c][j] = wheel'[c][i]
              /\ \A x : x # id /\ LinkedIn(c, x) => LinkedIn(c, x)'
<1> USE DEF IInv
<1> DEFINE b == timeouts[id].bucket
<1>1. b \in Buckets
  BY DEF TypeOK, Timeout
<1>2. (\A c \in Buckets : BucketRight(c)) /\ wheel \in [Buckets -> Seq(Ids)]
  BY HeldOnceParts DEF TypeOK
<1>3. wheel' = [wheel EXCEPT ![b] = Without(wheel[b], id)]
  BY <1>2 DEF Removed
<1> HIDE DEF b
<1>4. /\ Without(wheel[b], id) \in Seq(Ids)
      /\ Injective(Without(wheel[b], id))
      /\ \A m \in DOMAIN Without(wheel[b], id) :
           /\ Without(wheel[b], id)[m] # id
           /\ \E i \in DOMAIN wheel[b] : wheel[b][i] = Without(wheel[b], id)[m]
      /\ \A i \in DOMAIN wheel[b] : wheel[b][i] # id =>
           \E m \in DOMAIN Without(wheel[b], id) : Without(wheel[b], id)[m] = wheel[b][i]
  <2> DEFINE list == wheel[b]
  <2>1. list \in Seq(Ids) /\ Injective(list)
    BY <1>1, <1>2 DEF BucketRight
  <2> HIDE DEF list
  <2>2. /\ Without(list, id) \in Seq(Ids)
        /\ Injective(Without(list, id))
        /\ \A m \in DOMAIN Without(list, id) :
             /\ Without(list, id)[m] # id
             /\ \E i \in DOMAIN list : list[i] = Without(list, id)[m]
        /\ \A i \in DOMAIN list : list[i] # id =>
             \E m \in DOMAIN Without(list, id) : Without(list, id)[m] = list[i]
    BY <2>1, WithoutIs
  <2> QED BY <2>2 DEF list
<1>5. /\ wheel' \in [Buckets -> Seq(Ids)]
      /\ wheel'[b] = Without(wheel[b], id)
      /\ \A c \in Buckets : c # b => wheel'[c] = wheel[c]
  BY <1>1, <1>2, <1>3, <1>4
<1>6. ASSUME NEW c \in Buckets
      PROVE  /\ Injective(wheel'[c])
             /\ \A i \in DOMAIN wheel'[c] :
                  /\ wheel'[c][i] # id
                  /\ \E j \in DOMAIN wheel[c] : wheel[c][j] = wheel'[c][i]
             /\ \A x : x # id /\ LinkedIn(c, x) => LinkedIn(c, x)'
  <2>1. CASE c = b
    BY <1>4, <1>5, <2>1 DEF LinkedIn
  <2>2. CASE c # b
    <3>1. \A i \in DOMAIN wheel[c] : wheel[c][i] # id
      BY <1>2, <2>2 DEF BucketRight, b
    <3> QED BY <1>2, <1>5, <2>2, <3>1 DEF LinkedIn, BucketRight
  <2> QED BY <2>1, <2>2
<1> QED
  BY <1>1, <1>5, <1>6 DEF b

LEMMA CancelIInv ==
  ASSUME IInv, NEW id \in DOMAIN timeouts, Cancel(id)
  PROVE  IInv' /\ id \in live
<1> USE DEF IInv
<1>1. /\ timeouts[id].bucket # None /\ wheel' = Removed(id)
      /\ timeouts' = Restrict(timeouts, DOMAIN timeouts \ {id})
      /\ live' = live \ {id} /\ Stopped(id)
      /\ UNCHANGED <<ticks, last_time, started_at, clock, next_id, frames, status, due>>
  BY DEF Cancel, Stopped
<1>2. RefHolds /\ HeldSomewhere /\ (\A c \in Buckets : BucketRight(c)) /\ ListsRight
  BY HeldOnceParts
<1>3. id \in live /\ id \notin Running
  BY <1>1, <1>2, RunningIs DEF RefHolds, ListsRight
<1>4. /\ DOMAIN timeouts' = DOMAIN timeouts \ {id}
      /\ \A x \in DOMAIN timeouts' : timeouts'[x] = timeouts[x]
      /\ timeouts' \in [DOMAIN timeouts' -> Timeout]
  BY <1>1 DEF Restrict, TypeOK
<1>5. BaseTypeOK' /\ Ids' = Ids
  BY <1>1, <1>3, LedgerType DEF TypeOK, BaseTypeOK
<1>6. wheel' \in [Buckets -> Seq(Ids)]
  BY <1>1, RemovedIs
<1>7. Frame' = Frame
  BY <1>5 DEF Frame
<1>8. TypeOK'
  BY <1>1, <1>4, <1>5, <1>6, <1>7 DEF TypeOK
<1>9. TicksRight'
  BY <1>1, TicksRightKept
<1>10. /\ \A k, i, x : OnList(k, i, x)' <=> OnList(k, i, x)
       /\ \A k : InAction(k)' <=> InAction(k)
  BY <1>1, SameStack
<1>11. Running' = Running
  <2>1. \A x : x \in Running' <=> \E k : InAction(k)' /\ OnList(k, 1, x)'
    BY <1>8, <1>9, Primed
  <2> QED BY <1>10, <2>1, RunningIs
<1>12. RefHolds'
  BY <1>1, <1>2, <1>3, <1>4, <1>11 DEF RefHolds
<1>13. HeldSomewhere'
  <2>1. ASSUME NEW x \in DOMAIN timeouts', NEW c, c = timeouts[x].bucket, c # None
        PROVE  LinkedIn(c, x)'
    <3>1. LinkedIn(c, x) /\ c \in Buckets /\ x # id
      BY <1>2, <1>4, <2>1 DEF HeldSomewhere, TypeOK, Timeout
    <3> QED BY <1>1, <3>1, RemovedIs
  <2> QED BY <1>2, <1>4, <1>10, <2>1 DEF HeldSomewhere, LinkedIn
<1>14. ASSUME NEW c \in Buckets PROVE BucketRight(c)'
  <2>1. /\ Injective(wheel'[c])
        /\ \A i \in DOMAIN wheel'[c] :
             /\ wheel'[c][i] # id
             /\ \E j \in DOMAIN wheel[c] : wheel[c][j] = wheel'[c][i]
    BY <1>1, RemovedIs
  <2> QED BY <1>2, <1>4, <2>1 DEF BucketRight, Injective
<1>15. ListsRight'
  <2>1. \A k, i : ~OnList(k, i, id)
    BY <1>1, <1>2 DEF ListsRight
  <2>2. ASSUME NEW k, NEW i, NEW x, OnList(k, i, x)
        PROVE  /\ x \in DOMAIN timeouts' /\ timeouts'[x].bucket = None
               /\ \A l, j : OnList(l, j, x)' => k = l /\ i = j
    <3>1. x # id
      BY <2>1, <2>2
    <3>2. /\ x \in DOMAIN timeouts /\ timeouts[x].bucket = None
          /\ \A l, j : OnList(l, j, x) => k = l /\ i = j
      BY <1>2, <2>2 DEF ListsRight
    <3> QED BY <1>4, <1>10, <3>1, <3>2
  <2> QED BY <1>10, <2>2 DEF ListsRight
<1> QED
  BY <1>3, <1>8, <1>9, <1>12, <1>13, <1>14, <1>15, Primed

LEMMA ExpiresIInv ==
  ASSUME IInv, NEW id \in DOMAIN timeouts, Expires(id)
  PROVE  IInv'
<1> USE DEF IInv
<1>0. PICK n, m : n = Len(frames) /\ m = Len(Top.expired)
  OBVIOUS
<1> DEFINE f == [Top EXCEPT !.expired = Append(@, id)]
<1>1. /\ wheel' = Removed(id) /\ frames # <<>> /\ Top.phase = "tick" /\ Top.left > 0
      /\ due[id] <= WheelTime
      /\ timeouts' = [timeouts EXCEPT ![id].bucket = None]
      /\ frames' = SetTop(f)
      /\ UNCHANGED <<ticks, last_time, started_at, clock, next_id, status, ledger>>
      /\ Visited \in DOMAIN wheel
      /\ Top.at \in DOMAIN wheel[Visited] /\ wheel[Visited][Top.at] = id
  <2>1. Visited \in Buckets
    <3> DEFINE w == WHEEL_SIZE - 1
    <3>1. w \in Nat \ {0} /\ ticks \in Nat /\ Buckets = 0 .. w
      BY HashedWheelAssumption DEF TypeOK, Buckets
    <3>2. Visited = ticks % w
      BY DEF Visited
    <3> HIDE DEF w
    <3> QED BY <3>1, <3>2
  <2> QED
    BY <2>1, WheelTimeIs DEF Expires, Scanning, InPhase, WrongSlot, TypeOK, BaseTypeOK, ledger
<1>2. RefHolds /\ HeldSomewhere /\ (\A c \in Buckets : BucketRight(c)) /\ ListsRight
  BY HeldOnceParts
<1>3. timeouts[id].bucket # None
  <2>1. Visited \in Buckets
    BY <1>1 DEF TypeOK
  <2>2. timeouts[id].bucket = Visited
    BY <1>1, <1>2, <2>1 DEF BucketRight
  <2> QED BY <2>1, <2>2, BucketOrNone
<1>4. BaseTypeOK' /\ Ids' = Ids /\ due' = due /\ live' = live
  BY <1>1, LedgerType DEF TypeOK, BaseTypeOK, ledger
<1>5. id \in Ids
  BY <1>1, Elements DEF TypeOK
<1>6. /\ Top.expired \in Seq(Ids) /\ DOMAIN Top.expired = 1 .. m /\ m \in Nat
      /\ f.phase = "tick" /\ f.left = Top.left /\ f \in Frame
      /\ f.expired = Append(Top.expired, id)
  BY <1>0, <1>1, <1>5, TopFields, Elements, AppendProperties DEF Frame
<1> HIDE DEF f
<1>7. /\ DOMAIN f.expired = 1 .. m + 1 /\ f.expired[m + 1] = id
      /\ \A i \in 1 .. m : f.expired[i] = Top.expired[i]
  <2>1. /\ f.expired \in Seq(Ids) /\ Len(f.expired) = m + 1 /\ f.expired[m + 1] = id
        /\ \A i \in 1 .. m : f.expired[i] = Top.expired[i]
    BY <1>0, <1>5, <1>6, AppendProperties
  <2> QED BY <2>1, LenProperties
<1>8. /\ DOMAIN timeouts' = DOMAIN timeouts
      /\ timeouts'[id].bucket = None
      /\ \A x \in DOMAIN timeouts : x # id => timeouts'[x] = timeouts[x]
      /\ timeouts' \in [DOMAIN timeouts' -> Timeout]
  BY <1>1 DEF TypeOK, Timeout
<1>9. /\ frames' \in Seq(Frame) /\ n \in DOMAIN frames
      /\ \A k, i, x : OnList(k, i, x)' <=>
           IF k = n THEN i \in DOMAIN f.expired /\ f.expired[i] = x ELSE OnList(k, i, x)
      /\ DOMAIN frames' = DOMAIN frames /\ frames'[n] = f
      /\ \A k \in DOMAIN frames : k # n => frames'[k] = frames[k]
  BY <1>0, <1>1, <1>6, SetTopLists
<1>10. Frame' = Frame
  BY <1>4 DEF Frame
<1>11. wheel' \in [Buckets -> Seq(Ids)]
  BY <1>1, <1>3, RemovedIs
<1>12. TypeOK'
  BY <1>1, <1>4, <1>8, <1>9, <1>10, <1>11 DEF TypeOK
<1>13. TicksRight'
  <2>1. \A i \in DOMAIN f.expired : due[f.expired[i]] <= WheelTime
    <3>1. \A i \in 1 .. m : due[Top.expired[i]] <= WheelTime
      BY <1>0, <1>1, <1>6, TopFields DEF TicksRight
    <3> QED BY <1>1, <1>6, <1>7, <3>1
  <2>2. WheelTime' = WheelTime /\ WheelTime \in Int
    BY <1>1, WheelTimeIs
  <2>3. /\ TypeOK /\ TicksRight /\ frames # <<>> /\ f \in Frame /\ frames' = SetTop(f)
        /\ due' = due /\ WheelTime' \in Int /\ WheelTime' >= WheelTime
        /\ f.phase = "tick" /\ f.left > 0
        /\ \A i \in DOMAIN f.expired : due[f.expired[i]] <= WheelTime'
    BY <1>1, <1>4, <1>6, <2>1, <2>2
  <2>4. f.left # 0
    BY <2>3, <1>6, <1>1, TopFields
  <2> QED BY <2>3, <2>4, TicksRightSetTop
<1>14. \A k, i, x : OnList(k, i, x)' <=> OnList(k, i, x) \/ (k = n /\ i = m + 1 /\ x = id)
  <2>1. \A i, x : OnList(n, i, x) <=> i \in 1 .. m /\ Top.expired[i] = x
    BY <1>0, <1>1, <1>6, <1>9, TopFields DEF OnList
  <2> QED BY <1>6, <1>7, <1>9, <2>1
<1>15. \A k : InAction(k)' <=> InAction(k)
  BY <1>0, <1>1, <1>6, <1>9, TopFields DEF InAction
<1>16. Running' = Running
  <2>1. \A x : x \in Running' <=> \E k : InAction(k)' /\ OnList(k, 1, x)'
    BY <1>12, <1>13, Primed
  <2>2. ~InAction(n)
    BY <1>0, <1>1, TopFields DEF InAction
  <2> QED BY <1>14, <1>15, <2>1, <2>2, RunningIs
<1>17. \A k, i : ~OnList(k, i, id)
  BY <1>2, <1>3 DEF ListsRight
<1>18. RefHolds'
  BY <1>2, <1>4, <1>8, <1>16 DEF RefHolds
<1>19. HeldSomewhere'
  <2>1. ASSUME NEW x \in DOMAIN timeouts, x # id, NEW c, c = timeouts[x].bucket, c # None
        PROVE  LinkedIn(c, x)'
    <3>1. LinkedIn(c, x) /\ c \in Buckets
      BY <1>2, <2>1 DEF HeldSomewhere, TypeOK, Timeout
    <3> QED BY <1>1, <1>3, <2>1, <3>1, RemovedIs
  <2>2. OnList(n, m + 1, id)'
    BY <1>14
  <2>3. ASSUME NEW x \in DOMAIN timeouts, x # id
        PROVE  IF timeouts'[x].bucket = None
               THEN \E k, i : OnList(k, i, x)'
               ELSE \E i \in DOMAIN wheel'[timeouts'[x].bucket] :
                      wheel'[timeouts'[x].bucket][i] = x
    BY <1>2, <1>8, <1>14, <2>1, <2>3 DEF HeldSomewhere, LinkedIn
  <2>4. ASSUME NEW x \in DOMAIN timeouts'
        PROVE  IF timeouts'[x].bucket = None
               THEN \E k, i : OnList(k, i, x)'
               ELSE \E i \in DOMAIN wheel'[timeouts'[x].bucket] :
                      wheel'[timeouts'[x].bucket][i] = x
    BY <1>8, <2>2, <2>3
  <2> QED BY <2>4 DEF HeldSomewhere, LinkedIn
<1>20. ASSUME NEW c \in Buckets PROVE BucketRight(c)'
  <2>1. /\ Injective(wheel'[c])
        /\ \A i \in DOMAIN wheel'[c] :
             /\ wheel'[c][i] # id
             /\ \E j \in DOMAIN wheel[c] : wheel[c][j] = wheel'[c][i]
    BY <1>1, <1>3, RemovedIs
  <2> QED BY <1>2, <1>8, <2>1 DEF BucketRight, Injective
<1>21. ListsRight'
  BY <1>2, <1>8, <1>14, <1>17 DEF ListsRight
<1> QED
  BY <1>12, <1>13, <1>18, <1>19, <1>20, <1>21, Primed

LEMMA ExpireIInv ==
  ASSUME IInv, Expire
  PROVE  /\ IInv'
         /\ Head(Top.expired) \in live
         /\ due[Head(Top.expired)] <= WheelTime
<1> USE DEF IInv
<1>0. PICK n, id : n = Len(frames) /\ id = Head(Top.expired)
  OBVIOUS
<1> DEFINE f == [Top EXCEPT !.phase = "callback"]
<1>1. /\ frames # <<>> /\ Top.phase = "loop" /\ Top.expired # <<>>
      /\ Fired(id) /\ frames' = SetTop(f) /\ live' = live \ {id} /\ due' = due
      /\ UNCHANGED <<wheelVars, clock, next_id, status, reported>>
  BY <1>0 DEF Expire, InPhase, CallsAction, Fired
<1>2. RefHolds /\ HeldSomewhere /\ (\A c \in Buckets : BucketRight(c)) /\ ListsRight
  BY HeldOnceParts
<1>3. /\ f \in Frame /\ f.phase = "callback" /\ f.expired = Top.expired /\ f.left = Top.left
      /\ n \in DOMAIN frames /\ frames[n] = Top /\ Top.expired \in Seq(Ids)
  BY <1>0, <1>1, TopFields DEF Frame
<1>4. 1 \in DOMAIN Top.expired /\ Top.expired[1] = id
  BY <1>0, <1>1, <1>3, Elements, EmptySeq, HeadTailProperties
<1> HIDE DEF f
<1>5. OnList(n, 1, id)
  BY <1>3, <1>4 DEF OnList
<1>6. /\ frames' \in Seq(Frame) /\ DOMAIN frames' = DOMAIN frames /\ frames'[n] = f
      /\ \A k \in DOMAIN frames : k # n => frames'[k] = frames[k]
      /\ \A k, i, x : OnList(k, i, x)' <=>
           IF k = n THEN i \in DOMAIN f.expired /\ f.expired[i] = x ELSE OnList(k, i, x)
  BY <1>0, <1>1, <1>3, SetTopLists
<1>7. \A k, i, x : OnList(k, i, x)' <=> OnList(k, i, x)
  BY <1>3, <1>6 DEF OnList
<1>8. \A k : InAction(k)' <=> InAction(k) \/ k = n
  BY <1>3, <1>6 DEF InAction
<1>9. ~InAction(n)
  BY <1>1, <1>3 DEF InAction
<1>10. id \in live /\ id \notin Running
  BY <1>2, <1>5, <1>9, RunningIs DEF RefHolds, ListsRight
<1>11. BaseTypeOK' /\ Ids' = Ids
  BY <1>1, <1>10, LedgerType DEF TypeOK, BaseTypeOK
<1>12. TypeOK'
  <2>1. Frame' = Frame
    BY <1>11 DEF Frame
  <2> QED BY <1>1, <1>6, <1>11, <2>1 DEF TypeOK, wheelVars
<1>13. \A i \in DOMAIN Top.expired : due[Top.expired[i]] <= WheelTime
  BY <1>3 DEF TicksRight
<1>14. TicksRight'
  <2>1. WheelTime' = WheelTime /\ WheelTime \in Int
    BY <1>1, WheelTimeIs DEF wheelVars
  <2>2. Top.left > 0
    BY <1>1, <1>3 DEF TicksRight
  <2> QED BY <1>1, <1>3, <1>13, <2>1, <2>2, TicksRightSetTop
<1>15. Running' = Running \cup {id}
  <2>1. \A x : x \in Running' <=> \E k : InAction(k)' /\ OnList(k, 1, x)'
    BY <1>12, <1>14, Primed
  <2>2. \A x : OnList(n, 1, x) <=> x = id
    BY <1>3, <1>4 DEF OnList
  <2> QED BY <1>7, <1>8, <2>1, <2>2, RunningIs
<1>16. RefHolds'
  BY <1>1, <1>2, <1>10, <1>15 DEF RefHolds, wheelVars
<1>17. HeldSomewhere' /\ ListsRight' /\ \A c \in Buckets : BucketRight(c)'
  BY <1>1, <1>2, <1>7 DEF HeldSomewhere, LinkedIn, ListsRight, BucketRight, wheelVars
<1> QED
  BY <1>0, <1>4, <1>10, <1>12, <1>13, <1>14, <1>16, <1>17, Primed

LEMMA ActionDoneIInv ==
  ASSUME IInv, ActionDone
  PROVE  IInv'
<1> USE DEF IInv
<1>0. PICK n, m, id : n = Len(frames) /\ m = Len(Top.expired) /\ id = Head(Top.expired)
  OBVIOUS
<1> DEFINE f == [Top EXCEPT !.phase = "loop", !.expired = Tail(@)]
<1>1. /\ frames # <<>> /\ Top.phase = "callback" /\ frames' = SetTop(f)
      /\ timeouts' = Restrict(timeouts, DOMAIN timeouts \ {id})
      /\ UNCHANGED <<ticks, last_time, started_at, wheel, clock, next_id, status, ledger>>
  BY <1>0 DEF ActionDone, InPhase
<1>2. RefHolds /\ HeldSomewhere /\ (\A c \in Buckets : BucketRight(c)) /\ ListsRight
  BY HeldOnceParts
<1>3. /\ n \in DOMAIN frames /\ frames[n] = Top /\ Top \in Frame /\ Top.expired \in Seq(Ids)
      /\ Top.expired # <<>> /\ Top.left > 0
  BY <1>0, <1>1, TopFields DEF TicksRight
<1>4. /\ Tail(Top.expired) \in Seq(Ids) /\ Len(Tail(Top.expired)) = m - 1
      /\ \A i \in 1 .. m - 1 : Tail(Top.expired)[i] = Top.expired[i + 1]
      /\ DOMAIN Tail(Top.expired) = 1 .. m - 1
      /\ DOMAIN Top.expired = 1 .. m /\ m \in Nat /\ m >= 1 /\ Top.expired[1] = id
  BY <1>0, <1>3, Elements, EmptySeq, HeadTailProperties
<1>5. f \in Frame /\ f.phase = "loop" /\ f.left = Top.left /\ f.expired = Tail(Top.expired)
  BY <1>3, <1>4 DEF Frame
<1> HIDE DEF f
<1>6. /\ frames' \in Seq(Frame) /\ DOMAIN frames' = DOMAIN frames /\ frames'[n] = f
      /\ \A k \in DOMAIN frames : k # n => frames'[k] = frames[k]
      /\ \A k, i, x : OnList(k, i, x)' <=>
           IF k = n THEN i \in DOMAIN f.expired /\ f.expired[i] = x ELSE OnList(k, i, x)
  <2>1. TypeOK /\ frames # <<>> /\ f \in Frame /\ frames' = SetTop(f)
    BY <1>1, <1>5
  <2>2. /\ frames' \in Seq(Frame) /\ DOMAIN frames' = DOMAIN frames
        /\ frames'[Len(frames)] = f
        /\ \A k \in DOMAIN frames : k # Len(frames) => frames'[k] = frames[k]
        /\ \A k, i, x : OnList(k, i, x)' <=>
             IF k = Len(frames) THEN i \in DOMAIN f.expired /\ f.expired[i] = x
             ELSE OnList(k, i, x)
    BY <2>1, SetTopLists
  <2> QED BY <1>0, <2>2
<1>7. \A i, x : OnList(n, i, x) <=> i \in 1 .. m /\ Top.expired[i] = x
  BY <1>3, <1>4 DEF OnList
<1>8. \A i, x : OnList(n, i, x)' => i + 1 \in 1 .. m /\ i \in 1 .. m - 1 /\ OnList(n, i + 1, x)
  BY <1>4, <1>5, <1>6, <1>7
<1>9. \A k : InAction(k)' <=> InAction(k) /\ k # n
  BY <1>1, <1>3, <1>5, <1>6 DEF InAction
<1>10. OnList(n, 1, id) /\ InAction(n)
  BY <1>1, <1>3, <1>4, <1>7 DEF InAction
<1>11. id \in Running /\ id \notin live
  BY <1>2, <1>10, RunningIs DEF RefHolds
<1>12. BaseTypeOK' /\ Ids' = Ids /\ live' = live /\ due' = due
  BY <1>1, LedgerType DEF TypeOK, BaseTypeOK, ledger
<1>13. /\ DOMAIN timeouts' = DOMAIN timeouts \ {id}
       /\ \A x \in DOMAIN timeouts' : timeouts'[x] = timeouts[x]
       /\ timeouts' \in [DOMAIN timeouts' -> Timeout]
  BY <1>1 DEF Restrict, TypeOK
<1>14. TypeOK'
  <2>1. Frame' = Frame
    BY <1>12 DEF Frame
  <2> QED BY <1>1, <1>6, <1>12, <1>13, <2>1 DEF TypeOK
<1>15. TicksRight'
  <2>1. WheelTime' = WheelTime /\ WheelTime \in Int
    BY <1>1, WheelTimeIs
  <2>2. \A i \in DOMAIN f.expired : due[f.expired[i]] <= WheelTime
    <3>1. \A i \in 1 .. m : due[Top.expired[i]] <= WheelTime
      BY <1>3, <1>4 DEF TicksRight
    <3>2. \A i \in 1 .. m - 1 : i + 1 \in 1 .. m
      BY <1>4
    <3> QED BY <1>4, <1>5, <3>1, <3>2
  <2>3. /\ TypeOK /\ TicksRight /\ frames # <<>> /\ f \in Frame /\ frames' = SetTop(f)
        /\ due' = due /\ WheelTime' \in Int /\ WheelTime' >= WheelTime
        /\ f.phase = "loop" /\ f.left > 0
        /\ \A i \in DOMAIN f.expired : due[f.expired[i]] <= WheelTime'
    BY <1>1, <1>3, <1>5, <1>12, <2>1, <2>2
  <2> QED BY <2>3, TicksRightSetTop
<1>16. \A x : (\E k, i : OnList(k, i, x)') <=> x # id /\ \E k, i : OnList(k, i, x)
  <2>1. ASSUME NEW x, x # id, NEW i, OnList(n, i, x) PROVE OnList(n, i - 1, x)'
    <3>1. i \in 1 .. m /\ i # 1 /\ Top.expired[i] = x
      BY <1>4, <1>7, <2>1
    <3>2. i - 1 \in 1 .. m - 1 /\ (i - 1) + 1 = i
      BY <1>4, <3>1
    <3>3. f.expired[i - 1] = x
      BY <1>4, <1>5, <3>1, <3>2
    <3> QED BY <1>4, <1>5, <1>6, <3>2, <3>3
  <2>2. ASSUME NEW k, NEW i, OnList(k, i, id)' PROVE FALSE
    <3>1. CASE k = n
      <4>1. OnList(n, i + 1, id) /\ i + 1 # 1
        BY <1>4, <1>8, <2>2, <3>1
      <4> QED BY <1>2, <1>10, <4>1 DEF ListsRight
    <3>2. CASE k # n
      BY <1>2, <1>6, <1>10, <2>2, <3>2 DEF ListsRight
    <3> QED BY <3>1, <3>2
  <2> QED BY <1>6, <1>8, <2>1, <2>2
<1>17. Running' = Running \ {id}
  <2>1. \A x : x \in Running' <=> \E k : InAction(k)' /\ OnList(k, 1, x)'
    BY <1>14, <1>15, Primed
  <2>2. \A k, x : k # n => (OnList(k, 1, x)' <=> OnList(k, 1, x))
    BY <1>6
  <2>3. \A x : OnList(n, 1, x) <=> x = id
    BY <1>4, <1>7
  <2>4. \A k : k # n => ~OnList(k, 1, id)
    BY <1>2, <1>10 DEF ListsRight
  <2> QED BY <1>9, <1>10, <2>1, <2>2, <2>3, <2>4, RunningIs
<1>18. RefHolds'
  BY <1>2, <1>11, <1>12, <1>13, <1>17 DEF RefHolds
<1>19. timeouts[id].bucket = None
  BY <1>2, <1>10 DEF ListsRight
<1>20. HeldSomewhere'
  <2>1. ASSUME NEW x \in DOMAIN timeouts'
        PROVE  IF timeouts'[x].bucket = None
               THEN \E k, i : OnList(k, i, x)'
               ELSE \E i \in DOMAIN wheel'[timeouts'[x].bucket] :
                      wheel'[timeouts'[x].bucket][i] = x
    <3>1. x \in DOMAIN timeouts /\ x # id /\ timeouts'[x] = timeouts[x]
      BY <1>13
    <3> QED BY <1>1, <1>2, <1>16, <3>1 DEF HeldSomewhere, LinkedIn
  <2> QED BY <2>1 DEF HeldSomewhere, LinkedIn
<1>21. ASSUME NEW c \in Buckets PROVE BucketRight(c)'
  <2>1. \A i \in DOMAIN wheel[c] : wheel[c][i] # id
    BY <1>2, <1>19, BucketOrNone DEF BucketRight
  <2> QED BY <1>1, <1>2, <1>13, <2>1 DEF BucketRight
<1>22. ListsRight'
  <2>1. ASSUME NEW k, NEW i, NEW x, OnList(k, i, x)'
        PROVE  x \in DOMAIN timeouts' /\ timeouts'[x].bucket = None
    BY <1>2, <1>13, <1>16, <2>1 DEF ListsRight
  <2>2. ASSUME NEW k, NEW i, NEW x, OnList(k, i, x)', NEW l, NEW j, OnList(l, j, x)'
        PROVE  k = l /\ i = j
    <3>1. CASE k = n /\ l = n
      <4>1. i + 1 = j + 1 /\ i \in Nat /\ j \in Nat
        BY <1>2, <1>4, <1>8, <2>2, <3>1 DEF ListsRight
      <4> QED BY <3>1, <4>1
    <3>2. CASE k # n \/ l # n
      BY <1>2, <1>6, <1>8, <2>2, <3>2 DEF ListsRight
    <3> QED BY <3>1, <3>2
  <2> QED BY <2>1, <2>2 DEF ListsRight
<1> QED
  BY <1>14, <1>15, <1>18, <1>20, <1>21, <1>22, Primed

-----------------------------------------------------------------------------
(* The other actions.                                                      *)

\* A step that leaves the wheel, the stack and the live timers alone.
LEMMA StillIInv ==
  ASSUME IInv, BaseTypeOK', UNCHANGED <<wheelVars, frames, next_id, due, live>>,
         status' \in {"running", "destroyed", "aborted", "segfault"}
  PROVE  IInv'
<1> USE DEF IInv
<1>1. UNCHANGED <<ticks, last_time, started_at, wheel, timeouts, Ids, Frame>>
  BY DEF wheelVars, Ids, Frame
<1>2. TypeOK'
  BY <1>1 DEF TypeOK
<1>3. TicksRight'
  BY <1>1, TicksRightKept
<1>4. HeldOnce'
  BY <1>1, <1>2, <1>3, SameStack, HeldOnceKept
<1> QED
  BY <1>2, <1>3, <1>4

\* One that sets the top frame, of which no action is running, and keeps its
\* list.
LEMMA TopStepIInv ==
  ASSUME IInv, frames # <<>>, Top.phase # "callback",
         NEW f \in Frame, frames' = SetTop(f),
         f.expired = Top.expired, f.phase # "callback",
         f.phase # "tick" => f.left > 0,
         f.phase = "tick" /\ f.left = 0 => f.expired = <<>>,
         UNCHANGED <<last_time, started_at, wheel, clock, next_id, status, ledger>>,
         ticks' \in Nat, WheelTime' \in Int, WheelTime' >= WheelTime,
         timeouts' \in [DOMAIN timeouts -> Timeout],
         \A id \in DOMAIN timeouts : timeouts'[id].bucket = timeouts[id].bucket
  PROVE  IInv'
<1> USE DEF IInv
<1>0. PICK n : n = Len(frames)
  OBVIOUS
<1>1. BaseTypeOK' /\ Ids' = Ids /\ due' = due /\ live' = live
  BY LedgerType DEF TypeOK, BaseTypeOK, ledger
<1>2. /\ n \in DOMAIN frames /\ frames[n] = Top /\ Top.expired \in Seq(Ids)
  BY <1>0, TopFields
<1>3. /\ frames' \in Seq(Frame) /\ DOMAIN frames' = DOMAIN frames /\ frames'[n] = f
      /\ \A k \in DOMAIN frames : k # n => frames'[k] = frames[k]
      /\ \A k, i, x : OnList(k, i, x)' <=>
           IF k = n THEN i \in DOMAIN f.expired /\ f.expired[i] = x ELSE OnList(k, i, x)
  BY <1>0, SetTopLists
<1>4. TypeOK'
  <2>1. Frame' = Frame
    BY <1>1 DEF Frame
  <2> QED BY <1>1, <1>3, <2>1 DEF TypeOK
<1>5. TicksRight'
  <2>1. WheelTime \in Int /\ \A id \in Ids : due[id] \in Nat
    BY WheelTimeIs DEF TypeOK, BaseTypeOK
  <2>2. \A i \in DOMAIN Top.expired :
          Top.expired[i] \in Ids /\ due[Top.expired[i]] <= WheelTime
    BY <1>2, Elements DEF TicksRight
  <2>3. \A i \in DOMAIN f.expired : due[f.expired[i]] <= WheelTime'
    BY <2>1, <2>2
  <2> QED BY <1>1, <2>3, TicksRightSetTop
<1>6. \A k, i, x : OnList(k, i, x)' <=> OnList(k, i, x)
  BY <1>2, <1>3 DEF OnList
<1>7. \A k : InAction(k)' <=> InAction(k)
  BY <1>2, <1>3 DEF InAction
<1>8. HeldOnce'
  <2>1. DOMAIN timeouts' = DOMAIN timeouts
    OBVIOUS
  <2> QED BY <1>1, <1>4, <1>5, <1>6, <1>7, <2>1, HeldOnceKept
<1> QED
  BY <1>4, <1>5, <1>8

LEMMA WaitsOnIInv ==
  ASSUME IInv, NEW id \in DOMAIN timeouts, WaitsOn(id)
  PROVE  IInv'
<1> DEFINE f == [Top EXCEPT !.at = @ + 1]
<1>1. /\ frames # <<>> /\ Top.phase = "tick" /\ Top.left > 0 /\ frames' = SetTop(f)
      /\ timeouts' = [timeouts EXCEPT ![id].rounds = @ - 1]
      /\ UNCHANGED <<ticks, last_time, started_at, wheel, clock, next_id, status, ledger>>
  BY DEF WaitsOn, Scanning, InPhase
<1>2. Top \in Frame /\ Top.at \in Nat \ {0}
  BY <1>1, TopFields DEF IInv
<1>3. f \in Frame /\ f.phase = "tick" /\ f.left = Top.left /\ f.expired = Top.expired
  BY <1>1, <1>2 DEF Frame
<1>4. f.left # 0
  BY <1>1, <1>2, <1>3 DEF Frame
<1>5. /\ timeouts' \in [DOMAIN timeouts -> Timeout]
      /\ \A x \in DOMAIN timeouts : timeouts'[x].bucket = timeouts[x].bucket
  <2>1. timeouts \in [DOMAIN timeouts -> Timeout]
    BY DEF IInv, TypeOK
  <2> QED BY <1>1, <2>1 DEF Timeout
<1>6. ticks' \in Nat /\ WheelTime' \in Int /\ WheelTime' >= WheelTime
  BY <1>1, WheelTimeIs DEF IInv, TypeOK
<1> HIDE DEF f
<1> QED
  BY <1>1, <1>3, <1>4, <1>5, <1>6, TopStepIInv

LEMMA ScanEndsIInv ==
  ASSUME IInv, ScanEnds
  PROVE  IInv'
<1>0. PICK first \in Nat \ {0} : first = 1
  OBVIOUS
<1> DEFINE f == [Top EXCEPT !.at = first, !.phase = "loop"]
<1>1. /\ frames # <<>> /\ Top.phase = "tick" /\ Top.left > 0 /\ frames' = SetTop(f)
      /\ UNCHANGED <<wheelVars, clock, next_id, status, ledger>>
  BY <1>0 DEF ScanEnds, InPhase
<1>2. Top \in Frame /\ Top.left \in Nat
  BY <1>1, TopFields DEF IInv
<1>3. f \in Frame /\ f.phase = "loop" /\ f.left > 0 /\ f.expired = Top.expired
  <2>1. f \in Frame
    BY <1>2 DEF Frame
  <2>2. f.phase = "loop" /\ f.left = Top.left /\ f.expired = Top.expired
    BY <1>2 DEF Frame
  <2> QED BY <1>1, <2>1, <2>2
<1>4. /\ timeouts' \in [DOMAIN timeouts -> Timeout]
      /\ \A x \in DOMAIN timeouts : timeouts'[x].bucket = timeouts[x].bucket
  BY <1>1 DEF IInv, TypeOK, wheelVars
<1>5. ticks' \in Nat /\ WheelTime' \in Int /\ WheelTime' >= WheelTime
  BY <1>1, WheelTimeIs DEF IInv, TypeOK, wheelVars
<1> HIDE DEF f
<1> QED
  BY <1>1, <1>3, <1>4, <1>5, TopStepIInv DEF wheelVars

LEMMA TickEndsIInv ==
  ASSUME IInv, TickEnds
  PROVE  IInv'
<1> DEFINE f == [Top EXCEPT !.left = @ - 1, !.phase = "tick"]
<1>1. /\ frames # <<>> /\ Top.phase = "loop" /\ Top.expired = <<>> /\ frames' = SetTop(f)
      /\ ticks' = ticks + 1
      /\ UNCHANGED <<last_time, started_at, wheel, timeouts, clock, next_id, status, ledger>>
  BY DEF TickEnds, InPhase
<1>2. Top \in Frame /\ Top.left \in Nat /\ Top.left > 0
  BY <1>1, TopFields DEF IInv, TicksRight
<1>3. f \in Frame /\ f.phase = "tick" /\ f.expired = Top.expired
  <2>1. Top.left - 1 \in Nat
    BY <1>2
  <2>2. f \in Frame
    BY <1>2, <2>1 DEF Frame
  <2>3. f.phase = "tick" /\ f.expired = Top.expired
    BY <1>2 DEF Frame
  <2> QED BY <2>2, <2>3
<1>4. /\ timeouts' \in [DOMAIN timeouts -> Timeout]
      /\ \A x \in DOMAIN timeouts : timeouts'[x].bucket = timeouts[x].bucket
  BY <1>1 DEF IInv, TypeOK
<1>5. ticks' \in Nat /\ WheelTime' \in Int /\ WheelTime' >= WheelTime
  <2>1. ticks \in Nat /\ ticks' \in Nat /\ started_at' \in Nat /\ TICK_DURATION \in Nat
    BY <1>1, HashedWheelAssumption DEF IInv, TypeOK
  <2>2. TICK_DURATION * (ticks' + 1) \in Int
    BY <2>1
  <2> QED BY <1>1, <2>1, <2>2, WheelTimeIs DEF IInv, WheelTime
<1> HIDE DEF f
<1> QED
  BY <1>1, <1>3, <1>4, <1>5, TopStepIInv

LEMMA UpdateIInv ==
  ASSUME IInv, NEW lag \in Lags, Update(clock - lag)
  PROVE  IInv'
<1> USE DEF IInv
<1> DEFINE now == clock - lag
           f == [left |-> Quotient(now - last_time, TIME_UNIT), at |-> 1,
                 expired |-> <<>>, phase |-> "tick"]
<1>1. now \in Nat
  BY ToldTime DEF Update, TypeOK
<1>2. /\ Reported(now)
      /\ UNCHANGED <<ticks, started_at, wheel, timeouts, clock, status>>
      /\ last_time' \in {last_time, now}
      /\ frames' = frames \/ (frames' = Push(f) /\ f.left > 0)
  BY DEF Update
<1>3. BaseTypeOK' /\ Ids' = Ids /\ UNCHANGED <<next_id, due, live>>
  BY <1>1, <1>2, LedgerType DEF TypeOK, BaseTypeOK, Reported
<1>4. Frame' = Frame
  BY <1>3 DEF Frame
<1>5. Quotient(now - last_time, TIME_UNIT) \in Int
  <2>1. now - last_time \in Int
    BY <1>1 DEF TypeOK
  <2> QED BY <2>1, QuotientIs, HashedWheelAssumption
<1>6. f.left > 0 => f \in Frame
  BY <1>5, EmptySeq DEF Frame
<1>7. f.expired = <<>> /\ f.phase = "tick"
  OBVIOUS
<1>8. last_time' \in Nat
  BY <1>1, <1>2 DEF TypeOK
<1> HIDE DEF f, now
<1>9. CASE frames' = frames
  <2>1. TypeOK'
    BY <1>2, <1>3, <1>4, <1>8, <1>9 DEF TypeOK
  <2>2. TicksRight'
    BY <1>2, <1>3, <1>9, TicksRightKept
  <2>3. HeldOnce'
    BY <1>2, <1>3, <1>9, <2>1, <2>2, SameStack, HeldOnceKept
  <2> QED BY <2>1, <2>2, <2>3
<1>10. CASE frames' = Push(f) /\ f.left > 0
  <2>0. PICK n : n = Len(frames) + 1
    OBVIOUS
  <2>1. /\ frames' \in Seq(Frame)
        /\ DOMAIN frames' = DOMAIN frames \cup {n}
        /\ frames'[n] = f
        /\ \A i \in DOMAIN frames : frames'[i] = frames[i]
    BY <1>6, <1>10, <2>0, PushIs DEF TypeOK
  <2>2. n \notin DOMAIN frames
    BY <2>0, Elements DEF TypeOK
  <2>3. TypeOK'
    BY <1>2, <1>3, <1>4, <1>8, <2>1 DEF TypeOK
  <2>4. WheelTime' = WheelTime
    BY <1>2, WheelTimeIs
  <2>5. DOMAIN f.expired = {}
    <3>1. <<>> \in Seq(Ids) /\ Len(<<>>) = 0
      BY EmptySeq
    <3>2. DOMAIN <<>> = 1 .. 0
      BY <3>1, Elements
    <3> QED BY <1>7, <3>2
  <2>6. TicksRight'
    <3>1. ASSUME NEW k \in DOMAIN frames'
          PROVE  /\ frames'[k].phase = "callback" => frames'[k].expired # <<>>
                 /\ frames'[k].phase # "tick" => frames'[k].left > 0
                 /\ frames'[k].phase = "tick" /\ frames'[k].left = 0 => frames'[k].expired = <<>>
                 /\ \A i \in DOMAIN frames'[k].expired : due'[frames'[k].expired[i]] <= WheelTime'
      <4>1. CASE k = n
        BY <1>7, <1>10, <2>1, <2>5, <4>1
      <4>2. CASE k \in DOMAIN frames
        BY <1>3, <2>1, <2>4, <4>2 DEF TicksRight
      <4> QED BY <2>1, <4>1, <4>2
    <3> QED BY <3>1 DEF TicksRight
  <2>7. \A k, i, id : OnList(k, i, id)' <=> OnList(k, i, id)
    BY <2>1, <2>2, <2>5 DEF OnList
  <2>8. \A k : InAction(k)' <=> InAction(k)
    BY <1>7, <2>1, <2>2 DEF InAction
  <2>9. HeldOnce'
    BY <1>2, <1>3, <2>3, <2>6, <2>7, <2>8, HeldOnceKept
  <2> QED BY <2>3, <2>6, <2>9
<1> QED
  BY <1>2, <1>9, <1>10

LEMMA UpdateReturnsIInv ==
  ASSUME IInv, UpdateReturns
  PROVE  IInv'
<1> USE DEF IInv
<1>0. PICK n : n = Len(frames)
  OBVIOUS
<1>1. /\ frames # <<>> /\ Top.phase = "tick" /\ Top.left = 0 /\ frames' = Pop
      /\ UNCHANGED <<ticks, last_time, started_at, wheel, timeouts, clock, next_id, status, ledger>>
  BY DEF UpdateReturns, InPhase, Returned, wheelVars
<1>2. BaseTypeOK' /\ Ids' = Ids /\ due' = due /\ live' = live
  BY <1>1, LedgerType DEF TypeOK, BaseTypeOK, ledger
<1>3. /\ frames' \in Seq(Frame) /\ n \in DOMAIN frames
      /\ DOMAIN frames' = 1 .. n - 1 /\ DOMAIN frames = 1 .. n /\ n \in Nat
      /\ \A i \in DOMAIN frames' : i \in DOMAIN frames /\ frames'[i] = frames[i]
  BY <1>0, <1>1, TopPop, Elements DEF TypeOK
<1>4. frames[n].expired = <<>> /\ frames[n].phase = "tick"
  BY <1>0, <1>1, <1>3 DEF TicksRight, Top
<1>5. \A i : i \in DOMAIN frames <=> i \in DOMAIN frames' \/ i = n
  BY <1>3
<1>6. DOMAIN frames[n].expired = {}
  <2>1. <<>> \in Seq(Ids) /\ Len(<<>>) = 0
    BY EmptySeq
  <2>2. DOMAIN <<>> = 1 .. 0
    BY <2>1, Elements
  <2> QED BY <1>4, <2>2
<1>7. TypeOK'
  <2>1. Frame' = Frame
    BY <1>2 DEF Frame
  <2> QED BY <1>1, <1>2, <1>3, <2>1 DEF TypeOK
<1>8. TicksRight'
  BY <1>1, <1>2, <1>3, TicksRightKept
<1>9. \A k, i, id : OnList(k, i, id)' <=> OnList(k, i, id)
  BY <1>3, <1>5, <1>6 DEF OnList
<1>10. \A k : InAction(k)' <=> InAction(k)
  BY <1>3, <1>4, <1>5 DEF InAction
<1>11. HeldOnce'
  BY <1>1, <1>2, <1>7, <1>8, <1>9, <1>10, HeldOnceKept
<1> QED
  BY <1>7, <1>8, <1>11

\* Nothing is held by an empty wheel outside any Update.
LEMMA EmptyHolds ==
  ASSUME frames = <<>>, live = {}, timeouts = [x \in {} |-> 0],
         wheel = [b \in Buckets |-> <<>>]
  PROVE  HeldOnce /\ TicksRight
<1>1. DOMAIN frames = {} /\ DOMAIN timeouts = {} /\ Running = {}
  <2>1. <<>> \in Seq(Ids) /\ Len(<<>>) = 0
    BY EmptySeq
  <2>2. DOMAIN <<>> = 1 .. 0
    BY <2>1, Elements
  <2> QED BY <2>2 DEF Running
<1>2. \A b \in Buckets : DOMAIN wheel[b] = {}
  <2>1. <<>> \in Seq(Ids) /\ Len(<<>>) = 0
    BY EmptySeq
  <2>2. DOMAIN <<>> = 1 .. 0
    BY <2>1, Elements
  <2> QED BY <2>2
<1> QED
  BY <1>1, <1>2 DEF HeldOnce, TicksRight

LEMMA EmptyType ==
  /\ [b \in Buckets |-> <<>>] \in [Buckets -> Seq(Ids)]
  /\ [x \in {} |-> 0] \in [DOMAIN [x \in {} |-> 0] -> Timeout]
  /\ <<>> \in Seq(Frame)
BY EmptySeq

LEMMA DestroyIInv ==
  ASSUME IInv, Destroy
  PROVE  IInv'
<1>1. /\ frames' = <<>> /\ live' = {} /\ timeouts' = [x \in {} |-> 0]
      /\ wheel' = [b \in Buckets |-> <<>>] /\ status' = "destroyed"
      /\ UNCHANGED <<ticks, last_time, started_at, clock, next_id, due, fired, reported>>
  BY DEF Destroy, Discarded
<1>2. BaseTypeOK' /\ Ids' = Ids /\ Frame' = Frame
  <2>1. BaseTypeOK' /\ Ids' = Ids
    BY <1>1, LedgerType DEF IInv, TypeOK, BaseTypeOK
  <2> QED BY <2>1 DEF Frame
<1>3. TypeOK'
  BY <1>1, <1>2, EmptyType DEF IInv, TypeOK
<1>4. (frames = <<>> /\ live = {} /\ timeouts = [x \in {} |-> 0]
        /\ wheel = [b \in Buckets |-> <<>>] => HeldOnce /\ TicksRight)'
  BY EmptyHolds, PTL
<1> QED
  BY <1>1, <1>3, <1>4 DEF IInv, Buckets

LEMMA InitIInv == Init => IInv
<1> SUFFICES ASSUME Init PROVE IInv
  OBVIOUS
<1>1. BaseTypeOK /\ clock \in Nat
  BY BaseInitType DEF Init, BaseTypeOK
<1>2. TypeOK
  BY <1>1, EmptyType DEF Init, BaseInit, TypeOK
<1>3. HeldOnce /\ TicksRight
  BY EmptyHolds DEF Init, BaseInit
<1> QED
  BY <1>2, <1>3 DEF IInv

LEMMA StepIInv ==
  ASSUME IInv, [Next]_vars
  PROVE  IInv'
<1>1. ASSUME NEW duration \in Durations, Start(duration) PROVE IInv'
  BY <1>1, StartIInv
<1>2. ASSUME NEW id \in DOMAIN timeouts, Cancel(id) PROVE IInv'
  BY <1>2, CancelIInv
<1>3. ASSUME NEW id \in DOMAIN timeouts, Expires(id) PROVE IInv'
  BY <1>3, ExpiresIInv
<1>4. ASSUME NEW id \in DOMAIN timeouts, WaitsOn(id) PROVE IInv'
  BY <1>4, WaitsOnIInv
<1>5. ASSUME NEW lag \in Lags, Update(clock - lag) PROVE IInv'
  BY <1>5, UpdateIInv
<1>6. CASE \/ \E id \in DOMAIN timeouts : Aborts(id)
           \/ CancelCrashes \/ TimePasses \/ Ended \/ UNCHANGED vars
  <2>1. /\ UNCHANGED <<wheelVars, frames, next_id, ledger>>
        /\ status' \in {"running", "destroyed", "aborted", "segfault"}
        /\ clock' \in 1 .. Horizon
    BY <1>6 DEF Aborts, Fatal, CancelCrashes, TimePasses, Elapse, Ended, vars, baseVars,
                IInv, TypeOK, BaseTypeOK
  <2>2. BaseTypeOK' /\ UNCHANGED <<due, live>>
    BY <2>1, LedgerType DEF IInv, TypeOK, ledger
  <2> QED BY <1>6, <2>1, <2>2, StillIInv
<1> QED
  BY <1>1, <1>2, <1>3, <1>4, <1>5, <1>6, ScanEndsIInv, ExpireIInv, ActionDoneIInv,
     TickEndsIInv, UpdateReturnsIInv, DestroyIInv
  DEF Next

LEMMA Invariance == Spec => []IInv
<1> QED
  BY InitIInv, StepIInv, PTL DEF Spec

-----------------------------------------------------------------------------
\* Type correctness.
THEOREM TypeCorrect == Spec => []TypeOK
<1>1. IInv => TypeOK
  BY DEF IInv
<1> QED
  BY Invariance, <1>1, PTL

\* Every timeout is in one place: its bucket, or the list of one tick, however
\* Updates nest inside the actions of a tick.
THEOREM AlwaysHeldOnce == Spec => []HeldOnce
<1>1. IInv => HeldOnce
  BY DEF IInv
<1> QED
  BY Invariance, <1>1, PTL

-----------------------------------------------------------------------------
\* The steps that call no action.
LEMMA OnlyExpireFires ==
  ASSUME IInv, [Next]_vars
  PROVE  Expire \/ fired' = fired
<1>1. \A duration \in Durations : Start(duration) => fired' = fired
  BY DEF Start, Started
<1>2. \A id \in DOMAIN timeouts :
        Cancel(id) \/ Expires(id) \/ Aborts(id) \/ WaitsOn(id) => fired' = fired
  BY DEF Cancel, Stopped, Expires, Aborts, WaitsOn, ledger
<1>3. \A lag \in Lags : Update(clock - lag) => fired' = fired
  BY DEF Update, Reported
<1>4. CancelCrashes \/ ScanEnds \/ ActionDone \/ TickEnds \/ UpdateReturns \/ TimePasses
        => fired' = fired
  BY DEF CancelCrashes, ScanEnds, ActionDone, TickEnds, UpdateReturns, Returned, TimePasses,
         Elapse, ledger
<1>5. Destroy \/ Ended \/ UNCHANGED vars => fired' = fired
  BY DEF Destroy, Discarded, Ended, vars, baseVars, ledger
<1> QED
  BY <1>1, <1>2, <1>3, <1>4, <1>5 DEF Next

\* By its own count of ticks the wheel has come to a deadline when the action
\* is called, for every size of the wheel and whatever the clock does.
THEOREM FiresAtWheelTime == Spec => WheelTimeReached
<1> DEFINE Reached == FiringStep => due[FiredNow] <= WheelTime
<1>1. ASSUME IInv, [Next]_vars PROVE [Reached]_vars
  <2>0. BaseTypeOK
    BY <1>1 DEF IInv, TypeOK
  <2>1. CASE Expire
    <3>1. PICK id : id = Head(Top.expired)
      OBVIOUS
    <3>2. id \in live /\ due[id] <= WheelTime /\ Fired(id)
      BY <1>1, <2>1, <3>1, ExpireIInv DEF Expire, CallsAction
    <3>3. FiredNow = id
      BY <2>0, <3>2, FiringIs
    <3> QED BY <3>2, <3>3
  <2>2. CASE fired' = fired
    <3>1. ~FiringStep
      BY <2>2 DEF FiringStep, BaseTypeOK
    <3> QED BY <3>1
  <2> QED BY <1>1, <2>1, <2>2, OnlyExpireFires
<1> QED
  BY <1>1, Invariance, PTL DEF Spec, WheelTimeReached

-----------------------------------------------------------------------------
(* The contract without its deadlines.                                     *)

LEMMA UntimedSteps ==
  ASSUME BaseTypeOK
  PROVE  /\ \A duration \in Durations : Started(clock + duration) => Untimed!Next
         /\ \A id \in live : Stopped(id) => Untimed!Next
         /\ \A lag \in Lags :
              MayUpdate(clock - lag) /\ Reported(clock - lag) => Untimed!Next
         /\ \A id \in live : Fired(id) => Untimed!Next
         /\ Discarded => Untimed!Next
         /\ UNCHANGED <<next_id, ledger>> => UNCHANGED Untimed!vars
<1>1. ASSUME NEW duration \in Durations, Started(clock + duration) PROVE Untimed!Next
  <2>1. DOMAIN due' = DOMAIN due \cup {next_id}
    BY <1>1 DEF Started, Put, Service!Put
  <2>2. Untimed!Start(0)
    BY <1>1, <2>1 DEF Started, Untimed!Start, Untimed!Put
  <2> QED BY <2>2 DEF Untimed!Next
<1>2. ASSUME NEW id \in live, Stopped(id) PROVE Untimed!Next
  BY <1>2 DEF Stopped, Untimed!Cancel, Untimed!Next
<1>3. ASSUME NEW lag \in Lags, MayUpdate(clock - lag), Reported(clock - lag)
      PROVE  Untimed!Next
  <2>1. clock - lag \in 0 .. Horizon
    BY <1>3, ToldTime, BaseAssumption
  <2>2. Untimed!Update(clock - lag)
    BY <1>3 DEF Reported, Untimed!Update, Untimed!Later, Service!Later
  <2> QED BY <2>1, <2>2 DEF Untimed!Next
<1>4. ASSUME NEW id \in live, Fired(id) PROVE Untimed!Next
  <2>1. id \in DOMAIN due /\ 0 <= reported
    BY DEF BaseTypeOK
  <2> QED BY <1>4, <2>1 DEF Fired, Untimed!Fire, Untimed!Next
<1>5. ASSUME Discarded PROVE Untimed!Next
  BY <1>5 DEF Discarded, Untimed!Discard, Untimed!Next
<1>6. ASSUME UNCHANGED <<next_id, ledger>> PROVE UNCHANGED Untimed!vars
  BY <1>6 DEF ledger, Untimed!vars
<1> QED
  BY <1>1, <1>2, <1>3, <1>4, <1>5, <1>6

LEMMA StepIsUntimed ==
  ASSUME IInv, [Next]_vars
  PROVE  [Untimed!Next]_(Untimed!vars)
<1>0. BaseTypeOK
  BY DEF IInv, TypeOK
<1>1. ASSUME NEW duration \in Durations, Start(duration) PROVE Untimed!Next
  BY <1>0, <1>1, UntimedSteps DEF Start
<1>2. ASSUME NEW id \in DOMAIN timeouts, Cancel(id) PROVE Untimed!Next
  BY <1>0, <1>2, UntimedSteps, CancelIInv DEF Cancel
<1>3. ASSUME NEW lag \in Lags, Update(clock - lag) PROVE Untimed!Next
  BY <1>0, <1>3, UntimedSteps DEF Update
<1>4. CASE Expire
  BY <1>0, <1>4, UntimedSteps, ExpireIInv DEF Expire, CallsAction
<1>5. CASE Destroy
  BY <1>0, <1>5, UntimedSteps DEF Destroy
<1>6. CASE \/ \E id \in DOMAIN timeouts : Expires(id) \/ Aborts(id) \/ WaitsOn(id)
           \/ CancelCrashes \/ ScanEnds \/ ActionDone \/ TickEnds \/ UpdateReturns
           \/ TimePasses \/ Ended \/ UNCHANGED vars
  <2>1. UNCHANGED <<next_id, ledger>>
    BY <1>6 DEF Expires, Aborts, WaitsOn, CancelCrashes, ScanEnds, ActionDone, TickEnds,
                UpdateReturns, Returned, TimePasses, Elapse, Ended, vars, baseVars
  <2> QED BY <1>0, <2>1, UntimedSteps
<1> QED
  BY <1>1, <1>2, <1>3, <1>4, <1>5, <1>6 DEF Next

\* Each id is given out once and fires once at most, and never after a Cancel
\* that answered true.
THEOREM Implements == Spec => ImplementsUntimed
<1>1. Init => Untimed!Init
  <2> SUFFICES ASSUME Init PROVE Untimed!Init
    OBVIOUS
  <2>1. DOMAIN due = {}
    BY DEF Init, BaseInit
  <2> QED BY <2>1 DEF Init, BaseInit, Untimed!Init, FirstId, Service!FirstId, Untimed!FirstId
<1> QED
  BY <1>1, StepIsUntimed, Invariance, PTL DEF Spec, ImplementsUntimed, Untimed!Spec
-----------------------------------------------------------------------------
(* Every Update ends.                                                      *)

\* An Update below the top of the stack is inside an action.
Suspended == \A k \in DOMAIN frames : k # Len(frames) => frames[k].phase = "callback"

\* Replacing the top frame, by whatever it is.
LEMMA SetTopAny ==
  ASSUME TypeOK, frames # <<>>, NEW f, frames' = SetTop(f)
  PROVE  /\ DOMAIN frames' = DOMAIN frames
         /\ Len(frames') = Len(frames)
         /\ Len(frames) \in DOMAIN frames
         /\ frames'[Len(frames)] = f
         /\ \A k \in DOMAIN frames : k # Len(frames) => frames'[k] = frames[k]
<1>1. frames \in Seq(Frame \cup {f})
  BY SeqMonotonic DEF TypeOK
<1> QED
  BY <1>1, SetTopIs, TopFields

\* The steps that the Update on top of the stack makes before it returns.
TopMoves ==
  \/ \E id \in DOMAIN timeouts : Expires(id) \/ WaitsOn(id)
  \/ ScanEnds \/ Expire \/ TickEnds \/ ActionDone

\* What the steps do to the stack.
LEMMA StackMoves ==
  ASSUME [Next]_vars
  PROVE  \/ frames # <<>> /\ TopMoves /\ \E f : frames' = SetTop(f)
         \/ frames # <<>> /\ Top.phase = "tick" /\ UpdateReturns /\ frames' = Pop
         \/ MayCall /\ frames' = frames
         \/ MayCall /\ \E f : frames' = Push(f)
         \/ UNCHANGED <<frames, wheelVars>> /\ (status' # "running" \/ UNCHANGED vars)
<1>1. ASSUME NEW duration \in Durations, Start(duration)
      PROVE  MayCall /\ frames' = frames
  BY <1>1 DEF Start, MayStart
<1>2. ASSUME NEW id \in DOMAIN timeouts, Cancel(id)
      PROVE  MayCall /\ frames' = frames
  BY <1>2 DEF Cancel
<1>3. ASSUME NEW id \in DOMAIN timeouts, Expires(id) \/ WaitsOn(id)
      PROVE  frames # <<>> /\ TopMoves /\ \E f : frames' = SetTop(f)
  BY <1>3 DEF TopMoves, Expires, WaitsOn, Scanning, InPhase
<1>4. ASSUME NEW id \in DOMAIN timeouts, Aborts(id)
      PROVE  UNCHANGED <<frames, wheelVars>> /\ status' # "running"
  BY <1>4 DEF Aborts, Fatal
<1>5. ASSUME CancelCrashes
      PROVE  UNCHANGED <<frames, wheelVars>> /\ status' # "running"
  BY <1>5 DEF CancelCrashes
<1>6. ASSUME NEW lag \in Lags, Update(clock - lag)
      PROVE  \/ MayCall /\ frames' = frames
             \/ MayCall /\ \E f : frames' = Push(f)
  BY <1>6 DEF Update, MayUpdate
<1>7. ASSUME ScanEnds \/ Expire \/ ActionDone \/ TickEnds
      PROVE  frames # <<>> /\ TopMoves /\ \E f : frames' = SetTop(f)
  BY <1>7 DEF TopMoves, ScanEnds, Expire, CallsAction, ActionDone, TickEnds, InPhase
<1>8. ASSUME UpdateReturns PROVE frames # <<>> /\ Top.phase = "tick" /\ frames' = Pop
  BY <1>8 DEF UpdateReturns, Returned, InPhase
<1>9. ASSUME TimePasses PROVE MayCall /\ frames' = frames
  BY <1>9 DEF TimePasses, Elapse
<1>10. ASSUME Destroy PROVE MayCall /\ frames' = frames
  BY <1>10 DEF Destroy, Discarded, MayCall
<1>11. ASSUME Ended \/ UNCHANGED vars PROVE UNCHANGED <<frames, wheelVars>> /\ UNCHANGED vars
  BY <1>11 DEF Ended, vars, baseVars
<1> QED
  BY <1>1, <1>2, <1>3, <1>4, <1>5, <1>6, <1>7, <1>8, <1>9, <1>10, <1>11 DEF Next

LEMMA SuspendedStep ==
  ASSUME TypeOK, Suspended, [Next]_vars
  PROVE  Suspended'
<1>0. DOMAIN frames = 1 .. Len(frames) /\ Len(frames) \in Nat
  BY Elements DEF TypeOK
<1>1. CASE frames # <<>> /\ \E f : frames' = SetTop(f)
  BY <1>1, SetTopAny DEF Suspended
<1>2. CASE frames # <<>> /\ frames' = Pop
  <2>1. /\ Pop \in Seq(Frame) /\ DOMAIN Pop = 1 .. Len(frames) - 1
        /\ \A i \in DOMAIN Pop : i \in DOMAIN frames /\ Pop[i] = frames[i]
    BY <1>2, TopPop DEF TypeOK
  <2> QED BY <1>0, <1>2, <2>1 DEF Suspended
<1>3. CASE frames' = frames
  BY <1>3 DEF Suspended
<1>4. CASE MayCall /\ \E f : frames' = Push(f)
  <2>1. PICK f : frames' = Push(f)
    BY <1>4
  <2>2. frames \in Seq(Frame \cup {f}) /\ f \in Frame \cup {f}
    BY SeqMonotonic DEF TypeOK
  <2>3. /\ Len(frames') = Len(frames) + 1
        /\ DOMAIN frames' = DOMAIN frames \cup {Len(frames) + 1}
        /\ \A i \in DOMAIN frames : frames'[i] = frames[i]
    BY <2>1, <2>2, PushIs
  <2>4. \A i \in DOMAIN frames : frames[i].phase = "callback"
    BY <1>4, EmptySeq DEF MayCall, Suspended, Top
  <2> QED BY <2>3, <2>4 DEF Suspended
<1> QED
  BY <1>1, <1>2, <1>3, <1>4, StackMoves

\* The bucket that the tick is about.
LEMMA VisitedIs ==
  ASSUME TypeOK
  PROVE  /\ Visited \in Buckets
         /\ wheel[Visited] \in Seq(Ids)
         /\ DOMAIN wheel[Visited] = 1 .. Len(wheel[Visited])
         /\ Len(wheel[Visited]) \in Nat
<1> DEFINE w == WHEEL_SIZE - 1
<1>1. w \in Nat \ {0} /\ ticks \in Nat /\ Buckets = 0 .. w
  BY HashedWheelAssumption DEF TypeOK, Buckets
<1>2. Visited = ticks % w
  BY DEF Visited
<1> HIDE DEF w
<1>3. Visited \in Buckets
  BY <1>1, <1>2
<1>4. wheel[Visited] \in Seq(Ids)
  BY <1>3 DEF TypeOK
<1> QED
  BY <1>3, <1>4, Elements

\* What an Update has yet to do is never negative.
LEMMA ToDoIs ==
  ASSUME TypeOK, TicksRight, NEW k \in DOMAIN frames
  PROVE  ToDo(k) \in [1 .. 3 -> Nat]
<1> DEFINE f == frames[k]
<1>1. /\ f.left \in Nat /\ f.at \in Nat \ {0} /\ f.expired \in Seq(Ids)
      /\ f.phase \in {"tick", "loop", "callback"}
      /\ f.phase = "callback" => f.expired # <<>>
  BY FrameFields DEF TicksRight
<1>2. Len(f.expired) \in Nat /\ (f.phase = "callback" => Len(f.expired) - 1 \in Nat)
  BY <1>1, LenProperties, EmptySeq
<1> DEFINE rest == IF f.at \in DOMAIN wheel[Visited] THEN Len(wheel[Visited]) + 1 - f.at ELSE 0
<1>3. rest \in Nat
  BY <1>1, VisitedIs
<1>4. CASE f.phase = "tick"
  <2>1. ToDo(k) = <<f.left, 1, rest>>
    BY <1>4 DEF ToDo
  <2> HIDE DEF f, rest
  <2> QED BY <1>1, <1>3, <2>1, TripleIs
<1>5. CASE f.phase = "loop"
  <2>1. ToDo(k) = <<f.left, 0, Len(f.expired)>>
    BY <1>5 DEF ToDo
  <2> HIDE DEF f
  <2> QED BY <1>1, <1>2, <2>1, TripleIs
<1>6. CASE f.phase = "callback"
  <2>1. ToDo(k) = <<f.left, 0, Len(f.expired) - 1>>
    BY <1>6 DEF ToDo
  <2> HIDE DEF f
  <2> QED BY <1>1, <1>2, <1>6, <2>1, TripleIs
<1> QED
  BY <1>1, <1>4, <1>5, <1>6

LEMMA ToDoNext ==
  TypeOK' /\ TicksRight' => \A k \in DOMAIN frames' : ToDo(k)' \in [1 .. 3 -> Nat]
<1>1. TypeOK /\ TicksRight => \A k \in DOMAIN frames : ToDo(k) \in [1 .. 3 -> Nat]
  BY ToDoIs
<1>2. (TypeOK /\ TicksRight => \A k \in DOMAIN frames : ToDo(k) \in [1 .. 3 -> Nat])'
  BY <1>1, PTL
<1> QED
  BY <1>2

\* Each step of the loop leaves its Update less to do.
LEMMA ScanLowers ==
  ASSUME IInv, NEW id \in DOMAIN timeouts, Expires(id) \/ WaitsOn(id),
         NEW k, k = Len(frames)
  PROVE  Lower(ToDo(k)', ToDo(k))
<1> USE DEF IInv
<1> DEFINE list == wheel[Visited]
           at   == Top.at
<1>1. /\ frames # <<>> /\ Top.phase = "tick" /\ ticks' = ticks
      /\ at \in DOMAIN list /\ list[at] = id
  BY DEF Expires, WaitsOn, Scanning, InPhase
<1>2. /\ k \in DOMAIN frames /\ frames[k] = Top /\ Top \in Frame
      /\ Top.left \in Nat /\ at \in Nat /\ at # 0
  BY <1>1, TopFields
<1>3. /\ list \in Seq(Ids) /\ DOMAIN list = 1 .. Len(list) /\ Len(list) \in Nat
      /\ Visited \in Buckets /\ Visited' = Visited
  BY <1>1, VisitedIs DEF Visited
<1>4. ToDo(k) = <<Top.left, 1, Len(list) + 1 - at>>
  BY <1>1, <1>2 DEF ToDo
<1>7. at \in 1 .. Len(list) /\ Len(list) + 1 - at \in Nat
  BY <1>1, <1>2, <1>3
<1>5. ASSUME Expires(id) PROVE Lower(ToDo(k)', ToDo(k))
  <2>1. frames' = SetTop([Top EXCEPT !.expired = Append(@, id)]) /\ wheel' = Removed(id)
    BY <1>5 DEF Expires
  <2>2. /\ frames'[k].left = Top.left /\ frames'[k].at = at
        /\ frames'[k].phase = "tick"
    <3>1. frames'[k] = [Top EXCEPT !.expired = Append(@, id)]
      BY <1>1, <2>1, SetTopAny
    <3> QED BY <1>1, <1>2, <3>1 DEF Frame
  <2>3. timeouts[id].bucket = Visited
    BY <1>1, <1>3, HeldOnceParts DEF BucketRight
  <2>4. wheel'[Visited] = Without(list, id)
    BY <1>3, <2>1, <2>3 DEF Removed, TypeOK
  <2>5. Len(wheel'[Visited]) = Len(list) - 1
    BY <1>1, <1>3, <2>4, WithoutLength
  <2> DEFINE rest == IF at \in DOMAIN wheel'[Visited] THEN Len(wheel'[Visited]) + 1 - at ELSE 0
  <2>6. ToDo(k)' = <<Top.left, 1, rest>>
    BY <1>3, <2>2 DEF ToDo
  <2>7. rest \in Nat /\ rest < Len(list) + 1 - at /\ Len(list) + 1 - at \in Nat
    <3>1. Without(list, id) \in Seq(Ids)
      BY <1>3, HeldOnceParts, WithoutIs DEF BucketRight
    <3>2. DOMAIN wheel'[Visited] = 1 .. Len(list) - 1
      BY <2>4, <2>5, <3>1, LenProperties
    <3>3. rest = IF at \in 1 .. Len(list) - 1 THEN Len(list) - 1 + 1 - at ELSE 0
      BY <2>5, <3>2
    <3>4. PICK n \in Nat, i \in Nat : n = Len(list) /\ i = at /\ i \in 1 .. n
      BY <1>3, <1>7
    <3>5. rest = IF i \in 1 .. n - 1 THEN n - 1 + 1 - i ELSE 0
      BY <3>3, <3>4
    <3>6. rest \in Nat /\ rest < n + 1 - i /\ n + 1 - i \in Nat
      <4> HIDE DEF rest, list, at
      <4> QED BY <3>4, <3>5
    <3> QED BY <3>4, <3>6
  <2> HIDE DEF rest, list, at
  <2> QED BY <1>2, <1>4, <2>6, <2>7, LowerTriple
<1>6. ASSUME WaitsOn(id) PROVE Lower(ToDo(k)', ToDo(k))
  <2>1. frames' = SetTop([Top EXCEPT !.at = @ + 1]) /\ wheel' = wheel
    BY <1>6 DEF WaitsOn
  <2>2. /\ frames'[k].left = Top.left /\ frames'[k].at = at + 1
        /\ frames'[k].phase = "tick"
    <3>1. frames'[k] = [Top EXCEPT !.at = @ + 1]
      BY <1>1, <2>1, SetTopAny
    <3> QED BY <1>1, <1>2, <3>1 DEF Frame
  <2> DEFINE rest == IF at + 1 \in DOMAIN list THEN Len(list) + 1 - (at + 1) ELSE 0
  <2>3. ToDo(k)' = <<Top.left, 1, rest>>
    BY <1>3, <2>1, <2>2 DEF ToDo
  <2>4. rest \in Nat /\ rest < Len(list) + 1 - at /\ Len(list) + 1 - at \in Nat
    <3> HIDE DEF list, at
    <3> QED BY <1>3, <1>7
  <2> HIDE DEF rest, list, at
  <2> QED BY <1>2, <1>4, <2>3, <2>4, LowerTriple
<1> QED
  BY <1>5, <1>6

LEMMA TickLowers ==
  ASSUME IInv, ScanEnds \/ Expire \/ TickEnds, NEW k, k = Len(frames)
  PROVE  Lower(ToDo(k)', ToDo(k))
<1> USE DEF IInv
<1> DEFINE more == Len(Top.expired)
<1>1. /\ frames # <<>> /\ k \in DOMAIN frames /\ frames[k] = Top /\ Top \in Frame
      /\ Top.left \in Nat /\ more \in Nat
  BY TopFields, LenProperties DEF ScanEnds, Expire, TickEnds, InPhase
<1>2. ASSUME ScanEnds PROVE Lower(ToDo(k)', ToDo(k))
  <2>1. /\ Top.phase = "tick" /\ Top.at \notin DOMAIN wheel[Visited]
        /\ frames' = SetTop([Top EXCEPT !.at = 1, !.phase = "loop"])
    BY <1>2 DEF ScanEnds, InPhase
  <2>2. /\ frames'[k].left = Top.left /\ frames'[k].expired = Top.expired
        /\ frames'[k].phase = "loop"
    <3>1. frames'[k] = [Top EXCEPT !.at = 1, !.phase = "loop"]
      BY <1>1, <2>1, SetTopAny
    <3> QED BY <1>1, <3>1 DEF Frame
  <2>3. ToDo(k) = <<Top.left, 1, 0>> /\ ToDo(k)' = <<Top.left, 0, more>>
    BY <1>1, <2>1, <2>2 DEF ToDo
  <2> HIDE DEF more
  <2> QED BY <1>1, <2>3, LowerTriple
<1>3. ASSUME Expire PROVE Lower(ToDo(k)', ToDo(k))
  <2>1. /\ Top.phase = "loop" /\ Top.expired # <<>>
        /\ frames' = SetTop([Top EXCEPT !.phase = "callback"])
    BY <1>3 DEF Expire, InPhase, CallsAction
  <2>2. /\ frames'[k].left = Top.left /\ frames'[k].expired = Top.expired
        /\ frames'[k].phase = "callback"
    <3>1. frames'[k] = [Top EXCEPT !.phase = "callback"]
      BY <1>1, <2>1, SetTopAny
    <3> QED BY <1>1, <3>1 DEF Frame
  <2>3. ToDo(k) = <<Top.left, 0, more>> /\ ToDo(k)' = <<Top.left, 0, more - 1>>
    BY <1>1, <2>1, <2>2 DEF ToDo
  <2>4. more - 1 \in Nat
    BY <1>1, <2>1, TopFields, EmptySeq
  <2> HIDE DEF more
  <2> QED BY <1>1, <2>3, <2>4, LowerTriple
<1>4. ASSUME TickEnds PROVE Lower(ToDo(k)', ToDo(k))
  <2>1. /\ Top.phase = "loop" /\ ticks' = ticks + 1
        /\ frames' = SetTop([Top EXCEPT !.left = @ - 1, !.phase = "tick"])
    BY <1>4 DEF TickEnds, InPhase
  <2>2. frames'[k].left = Top.left - 1 /\ frames'[k].phase = "tick"
    <3>1. frames'[k] = [Top EXCEPT !.left = @ - 1, !.phase = "tick"]
      BY <1>1, <2>1, SetTopAny
    <3> QED BY <1>1, <3>1 DEF Frame
  <2>3. ToDo(k) = <<Top.left, 0, more>>
    BY <1>1, <2>1 DEF ToDo
  <2>4. k \in DOMAIN frames' /\ TypeOK' /\ TicksRight'
    BY <1>1, <1>4, <2>1, SetTopAny, TickEndsIInv
  <2>5. ToDo(k)' \in [1 .. 3 -> Nat]
    BY <2>4, ToDoNext
  <2>6. ToDo(k)'[1] = Top.left - 1
    BY <2>2 DEF ToDo
  <2>7. PICK b \in Nat, c \in Nat : ToDo(k)' = <<Top.left - 1, b, c>>
    BY <2>2, <2>5, <2>6 DEF ToDo
  <2>8. Top.left - 1 \in Nat
    BY <1>1, <2>1 DEF TicksRight
  <2> HIDE DEF more
  <2> QED BY <1>1, <2>3, <2>7, <2>8, LowerTriple
<1> QED
  BY <1>2, <1>3, <1>4

(***************************************************************************)
(* Every Update ends, or the process does: no step gives an active one     *)
(* more to do, although the actions of its ticks add to the buckets and    *)
(* their own Updates turn the wheel, and its own steps leave it less,      *)
(* which they cannot for ever (LoweringEnds).                              *)
(***************************************************************************)
THEOREM UpdatesEnd == Spec => UpdateEnds
<1> DEFINE Goes(k) ==
             \/ Lower(ToDo(k)', ToDo(k))
             \/ ToDo(k)' = ToDo(k) /\ (k < Len(frames) \/ MayCall \/ status' # "running")
           Ends == \A k \in DOMAIN frames \cap DOMAIN frames' : Goes(k)
<1>1. ASSUME IInv, Suspended, [Next]_vars PROVE [Ends]_vars
  <2> SUFFICES ASSUME vars' # vars, NEW k \in DOMAIN frames \cap DOMAIN frames'
               PROVE  Goes(k)
    OBVIOUS
  <2>0. TypeOK /\ TicksRight /\ DOMAIN frames = 1 .. Len(frames) /\ Len(frames) \in Nat
    BY <1>1, Elements DEF IInv, TypeOK
  <2>1. \/ k = Len(frames)
        \/ k < Len(frames) /\ frames[k].phase = "callback"
    BY <1>1, <2>0 DEF Suspended
  \* What an Update inside an action has to do is on its frame alone.
  <2>2. ASSUME frames[k].phase = "callback", frames'[k] = frames[k]
        PROVE  ToDo(k)' = ToDo(k)
    BY <2>2 DEF ToDo
  <2>3. ASSUME frames # <<>>, \E f : frames' = SetTop(f), k < Len(frames)
        PROVE  Goes(k)
    BY <2>0, <2>1, <2>2, <2>3, SetTopAny
  <2>4. ASSUME UpdateReturns, Top.phase = "tick", frames # <<>>, frames' = Pop
        PROVE  Goes(k)
    <3>1. /\ DOMAIN Pop = 1 .. Len(frames) - 1
          /\ \A i \in DOMAIN Pop : i \in DOMAIN frames /\ Pop[i] = frames[i]
      BY <2>0, <2>4, TopPop DEF TypeOK
    <3>2. k < Len(frames) /\ frames'[k] = frames[k]
      BY <2>0, <2>4, <3>1
    <3> QED BY <2>1, <2>2, <3>2
  <2>5. ASSUME MayCall, frames' = frames \/ \E f : frames' = Push(f)
        PROVE  Goes(k)
    <3>1. frames'[k] = frames[k]
      <4>1. ASSUME NEW f, frames' = Push(f) PROVE frames'[k] = frames[k]
        <5>1. frames \in Seq(Frame \cup {f}) /\ f \in Frame \cup {f}
          BY <2>0, SeqMonotonic DEF TypeOK
        <5> QED BY <4>1, <5>1, PushIs
      <4> QED BY <2>5, <4>1
    <3>2. frames[k].phase = "callback"
      BY <2>1, <2>5, <2>0, EmptySeq DEF MayCall, Top
    <3> QED BY <2>2, <2>5, <3>1, <3>2
  <2>6. ASSUME UNCHANGED <<frames, wheelVars>>, status' # "running"
        PROVE  Goes(k)
    BY <2>6 DEF wheelVars, ToDo, Visited
  <2>7. ASSUME frames # <<>>, TopMoves, k = Len(frames)
        PROVE  Goes(k)
    <3>1. CASE \E id \in DOMAIN timeouts : Expires(id) \/ WaitsOn(id)
      BY <1>1, <2>7, <3>1, ScanLowers
    <3>2. CASE ScanEnds \/ Expire \/ TickEnds
      BY <1>1, <2>7, <3>2, TickLowers
    <3>3. CASE ActionDone
      <4>1. /\ Top.phase = "callback" /\ status = "running"
            /\ frames' = SetTop([Top EXCEPT !.phase = "loop", !.expired = Tail(@)])
        BY <3>3 DEF ActionDone, InPhase
      <4>2. /\ frames[k] = Top /\ Top \in Frame /\ Top.expired \in Seq(Ids)
            /\ Top.expired # <<>>
        BY <2>0, <2>7, <4>1, TopFields DEF TicksRight
      <4>3. frames'[k] = [Top EXCEPT !.phase = "loop", !.expired = Tail(@)]
        BY <2>0, <2>7, <4>1, SetTopAny
      <4>4. /\ frames'[k].left = Top.left /\ frames'[k].phase = "loop"
            /\ frames'[k].expired = Tail(Top.expired)
        BY <4>2, <4>3 DEF Frame
      <4>5. Len(Tail(Top.expired)) = Len(Top.expired) - 1
        BY <4>2, HeadTailProperties
      <4>6. ToDo(k)' = ToDo(k)
        BY <4>1, <4>2, <4>4, <4>5 DEF ToDo
      <4> QED BY <4>1, <4>6 DEF MayCall
    <3> QED BY <2>7, <3>1, <3>2, <3>3 DEF TopMoves
  <2> QED BY <1>1, <2>1, <2>3, <2>4, <2>5, <2>6, <2>7, StackMoves
<1>2. Init => Suspended
  BY EmptySeq DEF Init, BaseInit, Suspended
<1>3. IInv /\ Suspended /\ [Next]_vars => Suspended'
  BY SuspendedStep DEF IInv
<1> HIDE DEF Ends
<1>4. IInv /\ Suspended /\ [Next]_vars => [Ends]_vars
  BY <1>1
<1>5. Spec => [][Ends]_vars
  BY <1>2, <1>3, <1>4, Invariance, PTL DEF Spec
<1> QED
  BY <1>5 DEF UpdateEnds, Ends
=============================================================================
