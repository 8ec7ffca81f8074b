------------------------- MODULE PriorityQueueTimer -------------------------
(***************************************************************************)
(* PriorityQueueTimer (src/PriorityQueueTimer.{h,cpp}): a binary heap of   *)
(* pointers to timer nodes, kept in a vector, a hash map from the ids to   *)
(* the nodes, and in every node the position at which it is in the heap.   *)
(*                                                                         *)
(* siftupTimer, and siftdownTimer when it chooses a child, compare the     *)
(* POINTERS; only siftdownTimer's other test compares deadlines.  Where    *)
(* the allocator puts a node is not determined by the program: a node's    *)
(* rank among the addresses is any that no other node has.  (Only nodes    *)
(* that exist together are compared, so an address used again makes no     *)
(* order that distinct ranks do not make.)                                 *)
(*                                                                         *)
(* The sift loops are steps of their own, with the loop variables in       *)
(* "sift".  Positions are 1-based, the code's index plus one.              *)
(***************************************************************************)
EXTENDS TimerBase

VARIABLES
  timers,   \* timers_: the heap, a sequence of ids
  index,    \* ref_, id -> node, with TimerNode::index of each node
  addr,     \* the rank of each node's address
  sift      \* the sift loop that is running, where it is and where it began

heapVars == <<timers, index, addr, sift>>
vars == <<heapVars, baseVars>>

Settled == [dir |-> "none", at |-> 0, from |-> 0]
SiftFrom(d, k) == [dir |-> d, at |-> k, from |-> k]

-----------------------------------------------------------------------------
Parent(k) == k \div 2

\* TimerNode::lessThan, of the nodes at two positions.
LessThan(j, k) ==
  LET a == timers[j]  b == timers[k]
  IN  due[a] < due[b] \/ (due[a] = due[b] /\ a > b)

\* timers[j] < timers[k], which compares two pointers.
PointerLess(j, k) == addr[timers[j]] < addr[timers[k]]

\* Mutated: the nodes keep the positions they had.
Swap_KeepsIndex(j, k) ==
  /\ timers' = Swapped(timers, j, k)
  /\ index' = index

\* Two nodes change places, and their indices follow.
Swap(j, k) ==
  /\ timers' = Swapped(timers, j, k)
  /\ index' = [index EXCEPT ![timers[j]] = k, ![timers[k]] = j]

\* removeTimer: the last node takes the place of the one at k, and is then
\* sifted.  The code drops the removed node from the vector afterwards; the
\* loops do not look at it, they are told the length without it.
RemoveTimer(k) ==
  LET last == Len(timers) IN
    /\ timers' = Refilled(timers, k)
    /\ index' = Restrict([index EXCEPT ![timers[last]] = k],
                         DOMAIN index \ {timers[k]})
    /\ sift' = IF k = last THEN Settled ELSE SiftFrom("down", k)

Init ==
  /\ BaseInit
  /\ timers = <<>>
  /\ index = [x \in {} |-> 0]
  /\ addr = [x \in {} |-> 0]
  /\ sift = Settled

Start(duration) ==
  /\ MayStart
  /\ sift = Settled
  /\ \E rank \in (1 .. MaxStarts) \ {addr[id] : id \in DOMAIN addr} :
       addr' = Put(addr, next_id, rank)
  /\ timers' = Append(timers, next_id)
  /\ index' = Put(index, next_id, Len(timers) + 1)
  /\ sift' = SiftFrom("up", Len(timers) + 1)
  /\ Started(clock + duration)
  /\ UNCHANGED <<clock, frames, status>>

\* The node's own index says where in the heap it is removed.
Cancel(id) ==
  /\ MayCall
  /\ sift = Settled
  /\ id \in DOMAIN index
  /\ RemoveTimer(index[id])
  /\ Stopped(id)
  /\ UNCHANGED <<addr, clock, frames, status>>

-----------------------------------------------------------------------------
(* The sift loops, one iteration at a time.                                *)

Rises == sift.at > 1 /\ PointerLess(sift.at, Parent(sift.at))

SiftUp ==
  /\ sift.dir = "up"
  /\ IF Rises
     THEN /\ Swap(sift.at, Parent(sift.at))
          /\ sift' = [sift EXCEPT !.at = Parent(sift.at)]
     ELSE /\ sift' = Settled
          /\ UNCHANGED <<timers, index>>
  /\ UNCHANGED <<addr, baseVars>>

\* The child of k that is compared with it.
Child(k) ==
  LET left == 2 * k
  IN  IF left < Len(timers) /\ ~PointerLess(left, left + 1)
      THEN left + 1
      ELSE left

Sinks ==
  /\ 2 * sift.at <= Len(timers)
  /\ LessThan(Child(sift.at), sift.at)

\* A node that did not sink is sifted up instead.
SiftDown ==
  /\ sift.dir = "down"
  /\ IF Sinks
     THEN /\ Swap(sift.at, Child(sift.at))
          /\ sift' = [sift EXCEPT !.at = Child(sift.at)]
     ELSE /\ sift' = IF sift.at = sift.from
                     THEN SiftFrom("up", sift.at)
                     ELSE Settled
          /\ UNCHANGED <<timers, index>>
  /\ UNCHANGED <<addr, baseVars>>

-----------------------------------------------------------------------------
(* Update(now).                                                            *)

Update(now) ==
  /\ sift = Settled
  /\ EntersLoop(now, timers = <<>>)
  /\ UNCHANGED heapVars

\* Mutated: a timer that is due one tick later is taken too.
RootDue_OneEarly ==
  timers # <<>> /\ due[timers[1]] <= Top.now + 1 /\ timers[1] <= Top.max_id

\* Mutated: one that is due exactly now is left.
RootDue_Strict ==
  timers # <<>> /\ due[timers[1]] < Top.now /\ timers[1] <= Top.max_id

\* Mutated: timers that the actions start are taken too.
RootDue_AnyId == timers # <<>> /\ due[timers[1]] <= Top.now

\* The loop's tests of the root: "no timer expired", "process newly added
\* timer at next tick".
RootDue ==
  /\ timers # <<>>
  /\ due[timers[1]] <= Top.now
  /\ timers[1] <= Top.max_id

FireRoot ==
  /\ InPhase("loop")
  /\ sift = Settled
  /\ RootDue
  /\ RemoveTimer(1)
  /\ CallsAction(timers[1])
  /\ UNCHANGED addr

UpdateReturns ==
  /\ InPhase("loop")
  /\ sift = Settled
  /\ ~RootDue
  /\ Returned
  /\ UNCHANGED heapVars

ActionDone ==
  /\ sift = Settled
  /\ ActionReturns
  /\ UNCHANGED heapVars

TimePasses ==
  /\ sift = Settled
  /\ Elapse
  /\ UNCHANGED heapVars

\* ~PriorityQueueTimer.
Destroy ==
  /\ sift = Settled
  /\ Discarded
  /\ timers' = <<>>
  /\ index' = [x \in {} |-> 0]
  /\ UNCHANGED <<addr, sift>>

Ended ==
  /\ status = "destroyed"
  /\ UNCHANGED vars

Next ==
  \/ \E duration \in Durations : Start(duration)
  \/ \E id \in DOMAIN index : Cancel(id)
  \/ SiftUp
  \/ SiftDown
  \/ \E lag \in Lags : Update(clock - lag)
  \/ FireRoot
  \/ UpdateReturns
  \/ ActionDone
  \/ TimePasses
  \/ Destroy
  \/ Ended

Spec == Init /\ [][Next]_vars

\* The loops run to their end, timeout actions return, time passes and the
\* owner keeps calling Update with the time it just read.
Fairness ==
  /\ WF_vars(SiftUp)
  /\ WF_vars(SiftDown)
  /\ WF_vars(FireRoot)
  /\ WF_vars(UpdateReturns)
  /\ SF_vars(ActionDone)
  /\ WF_vars(TimePasses)
  /\ WF_vars(frames = <<>> /\ Update(clock))

FairSpec == Spec /\ Fairness

-----------------------------------------------------------------------------

TypeOK ==
  /\ BaseTypeOK
  /\ status \in {"running", "destroyed"}
  /\ frames \in Seq(LoopFrame)
  /\ timers \in Seq(Ids)
  /\ index \in [DOMAIN index -> Nat]
  /\ addr \in [Ids -> 1 .. MaxStarts]
  /\ sift \in [dir : {"none", "up", "down"}, at : Nat, from : Nat]

(***************************************************************************)
(* Every node knows its place: at every moment, in the middle of the sift  *)
(* loops too, the hash map leads to exactly the live timers, the index in  *)
(* a node is its position in the heap, and the heap holds nothing else.    *)
(* A Cancel therefore removes the timer it was asked to remove.            *)
(***************************************************************************)
IndexAgrees ==
  /\ DOMAIN index = live
  /\ \A id \in live : index[id] \in DOMAIN timers /\ timers[index[id]] = id
  /\ \A k \in DOMAIN timers : timers[k] \in live /\ index[timers[k]] = k

\* At most how many iterations a sift loop has left.
Iterations ==
  CASE sift.dir = "none" -> 0
    [] sift.dir = "up"   -> sift.at
    [] sift.dir = "down" -> 2 * Len(timers) + 1 - sift.at

(***************************************************************************)
(* Every Update comes to its end, and so does every sift loop: no step, of *)
(* whatever activation, brings more timers into the reach of an active     *)
(* Update, an iteration of its loop takes one out for ever, and a sift     *)
(* loop, which may go down and then up, has less left with each iteration. *)
(***************************************************************************)
UpdateEnds ==
  [][/\ sift # Settled => Iterations' < Iterations
     /\ \A k \in DOMAIN frames \cap DOMAIN frames' :
          /\ InReach(k, live)' \subseteq InReach(k, live)
          /\ InPhase("loop") /\ sift = Settled /\ k = Len(frames) =>
               InReach(k, live)' # InReach(k, live)]_vars

\* The contract of the interface (TimerService).
ImplementsService == Service!Spec

(***************************************************************************)
(* The heap is not ordered by deadline, so that a due timer may wait       *)
(* behind one that is not.  But only behind such a one: once all the       *)
(* timers are due, they go, or a timer is started that is not yet due.     *)
(***************************************************************************)
AllDue == live # {} /\ \A id \in live : due[id] <= clock
DueTimersGo == AllDue ~> ~AllDue

(***************************************************************************)
(* PriorityQueueTimer.cpp:147 says "no timer expired" where Update leaves  *)
(* its loop: when it returns, every timer that it leaves behind has a      *)
(* deadline after the time it was told, or was started by its actions.     *)
(***************************************************************************)
NoTimerExpired ==
  [][Len(frames') < Len(frames) =>
       \A id \in live : due[id] > Top.now \/ id >= Top.max_id]_vars
=============================================================================
