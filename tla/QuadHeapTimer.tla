--------------------------- MODULE QuadHeapTimer ----------------------------
(***************************************************************************)
(* QuadHeapTimer (src/QuadHeapTimer.{h,cpp}): a heap of timer nodes in     *)
(* which every node has up to four children, kept in a vector, and a hash  *)
(* map of the nodes that are not canceled.  Cancel only marks a node; the  *)
(* mark is honoured when the node comes to the root.                       *)
(*                                                                         *)
(* The sift loops are steps of their own, with the loop variables in       *)
(* "sift".  The code carries the moving node in a local variable and       *)
(* stores it when the loop ends; here it is stored in every iteration.     *)
(* Positions are 1-based, the code's index plus one.                       *)
(***************************************************************************)
EXTENDS TimerBase

VARIABLES
  timers,   \* timers_: the heap, a sequence of ids
  ref,      \* ref_: the ids of the nodes that are not canceled
  deleted,  \* the nodes in memory that are marked deleted
  sift      \* the sift loop that is running, and the position it is at

heapVars == <<timers, ref, deleted, sift>>
vars == <<heapVars, baseVars>>

Settled == [dir |-> "none", at |-> 0]

-----------------------------------------------------------------------------
Parent(k) == (k - 2) \div 4 + 1
Children(k) == (4 * k - 2) .. (4 * k + 1)

When(k) == due[timers[k]]

\* Mutated: only the first two children are compared.
LeastChild_OfTwo(k) ==
  CHOOSE c \in Children(k) \cap (1 .. Len(timers)) :
    \A d \in {4 * k - 2, 4 * k - 1} \cap (1 .. Len(timers)) :
      When(c) < When(d) \/ (When(c) = When(d) /\ c <= d)

\* The child of k with the least deadline, the leftmost one of several.
LeastChild(k) ==
  CHOOSE c \in Children(k) \cap (1 .. Len(timers)) :
    \A d \in Children(k) \cap (1 .. Len(timers)) :
      When(c) < When(d) \/ (When(c) = When(d) /\ c <= d)

Init ==
  /\ BaseInit
  /\ timers = <<>>
  /\ ref = {}
  /\ deleted = {}
  /\ sift = Settled

\* The node is pushed at the end and sifted up.
Start(duration) ==
  /\ MayStart
  /\ sift = Settled
  /\ timers' = Append(timers, next_id)
  /\ sift' = [dir |-> "up", at |-> Len(timers) + 1]
  /\ ref' = ref \cup {next_id}
  /\ Started(clock + duration)
  /\ UNCHANGED <<deleted, clock, frames, status>>

\* Mutated: the node is not marked.
Cancel_Unmarked(id) ==
  /\ MayCall
  /\ sift = Settled
  /\ id \in ref
  /\ ref' = ref \ {id}
  /\ Stopped(id)
  /\ UNCHANGED <<deleted, timers, sift, clock, frames, status>>

Cancel(id) ==
  /\ MayCall
  /\ sift = Settled
  /\ id \in ref
  /\ deleted' = deleted \cup {id}
  /\ ref' = ref \ {id}
  /\ Stopped(id)
  /\ UNCHANGED <<timers, sift, clock, frames, status>>

-----------------------------------------------------------------------------
(* siftupTimer and siftdownTimer, one iteration at a time.                 *)

Rises == sift.at > 1 /\ When(sift.at) < When(Parent(sift.at))

SiftUp ==
  /\ sift.dir = "up"
  /\ IF Rises
     THEN /\ timers' = Swapped(timers, sift.at, Parent(sift.at))
          /\ sift' = [sift EXCEPT !.at = Parent(sift.at)]
     ELSE timers' = timers /\ sift' = Settled
  /\ UNCHANGED <<ref, deleted, baseVars>>

Sinks ==
  /\ Children(sift.at) \cap (1 .. Len(timers)) # {}
  /\ When(LeastChild(sift.at)) < When(sift.at)

SiftDown ==
  /\ sift.dir = "down"
  /\ IF Sinks
     THEN /\ timers' = Swapped(timers, sift.at, LeastChild(sift.at))
          /\ sift' = [sift EXCEPT !.at = LeastChild(sift.at)]
     ELSE timers' = timers /\ sift' = Settled
  /\ UNCHANGED <<ref, deleted, baseVars>>

-----------------------------------------------------------------------------
(* Update(now).                                                            *)

Update(now) ==
  /\ sift = Settled
  /\ EntersLoop(now, timers = <<>>)
  /\ UNCHANGED heapVars

\* Mutated: the node that takes the root's place is not sifted down.
DropRoot_Unsifted ==
  /\ timers' = Refilled(timers, 1)
  /\ sift' = Settled

\* deltimer0: the last node takes the root's place, and is sifted down.
DropRoot ==
  /\ timers' = Refilled(timers, 1)
  /\ sift' = IF Len(timers) = 1 THEN Settled ELSE [dir |-> "down", at |-> 1]

\* Mutated: a timer that is due one tick later is taken too.
RootDue_OneEarly ==
  timers # <<>> /\ When(1) <= Top.now + 1 /\ timers[1] <= Top.max_id

\* Mutated: one that is due exactly now is left.
RootDue_Strict ==
  timers # <<>> /\ When(1) < Top.now /\ timers[1] <= Top.max_id

\* Mutated: timers that the actions start are taken too.
RootDue_AnyId == timers # <<>> /\ When(1) <= Top.now

\* The loop's tests of the root: "no timer expired", "process newly added
\* timer at next tick".
RootDue ==
  /\ timers # <<>>
  /\ When(1) <= Top.now
  /\ timers[1] <= Top.max_id

PurgeRoot ==
  /\ InPhase("loop")
  /\ sift = Settled
  /\ RootDue
  /\ timers[1] \in deleted
  /\ DropRoot
  /\ ref' = ref \ {timers[1]}
  /\ deleted' = deleted \ {timers[1]}
  /\ UNCHANGED baseVars

\* The node leaves the heap, and once the heap is in order again its action
\* has control.
FireRoot ==
  /\ InPhase("loop")
  /\ sift = Settled
  /\ RootDue
  /\ timers[1] \notin deleted
  /\ DropRoot
  /\ ref' = ref \ {timers[1]}
  /\ CallsAction(timers[1])
  /\ UNCHANGED deleted

UpdateReturns ==
  /\ InPhase("loop")
  /\ sift = Settled
  /\ ~RootDue
  /\ Returned
  /\ UNCHANGED heapVars

ActionDone ==
  /\ sift = Settled
  /\ ActionReturns
  /\ UNCHANGED heapVars

TimePasses ==
  /\ sift = Settled
  /\ Elapse
  /\ UNCHANGED heapVars

\* ~QuadHeapTimer deletes the nodes that ref_ leads to; those that are marked
\* are not among them, and leak.
Destroy ==
  /\ sift = Settled
  /\ Discarded
  /\ timers' = <<>>
  /\ ref' = {}
  /\ UNCHANGED <<deleted, sift>>

Ended ==
  /\ status = "destroyed"
  /\ UNCHANGED vars

Next ==
  \/ \E duration \in Durations : Start(duration)
  \/ \E id \in ref : Cancel(id)
  \/ SiftUp
  \/ SiftDown
  \/ \E lag \in Lags : Update(clock - lag)
  \/ PurgeRoot
  \/ FireRoot
  \/ UpdateReturns
  \/ ActionDone
  \/ TimePasses
  \/ Destroy
  \/ Ended

Spec == Init /\ [][Next]_vars

\* The loops run to their end, timeout actions return, time passes and the
\* owner keeps calling Update with the time it just read.
Fairness ==
  /\ WF_vars(SiftUp)
  /\ WF_vars(SiftDown)
  /\ WF_vars(PurgeRoot)
  /\ WF_vars(FireRoot)
  /\ WF_vars(UpdateReturns)
  /\ SF_vars(ActionDone)
  /\ WF_vars(TimePasses)
  /\ WF_vars(frames = <<>> /\ Update(clock))

FairSpec == Spec /\ Fairness

-----------------------------------------------------------------------------

TypeOK ==
  /\ BaseTypeOK
  /\ status \in {"running", "destroyed"}
  /\ frames \in Seq(LoopFrame)
  /\ timers \in Seq(Ids)
  /\ ref \subseteq Ids
  /\ deleted \subseteq Ids
  /\ sift \in [dir : {"none", "up", "down"}, at : Nat]

(***************************************************************************)
(* The heap holds each node once: those that the caller can still cancel,  *)
(* which are the live timers, and those that are only marked.              *)
(***************************************************************************)
NodesAgree ==
  /\ \A i, j \in DOMAIN timers : timers[i] = timers[j] => i = j
  /\ {timers[i] : i \in DOMAIN timers}
       = ref \cup (IF status = "running" THEN deleted ELSE {})
  /\ ref \cap deleted = {}
  /\ ref = live

(***************************************************************************)
(* No node is due before its parent, but for the one place where a sift    *)
(* loop is at work; and there the node's children are in order with its    *)
(* parent, so that the loop's next swap cannot put them out of order.      *)
(***************************************************************************)
InOrder(k) == When(Parent(k)) <= When(k)

HeapOrder ==
  /\ sift # Settled => sift.at \in DOMAIN timers
  /\ \A k \in 2 .. Len(timers) :
       \/ InOrder(k)
       \/ sift.dir = "up" /\ k = sift.at
       \/ sift.dir = "down" /\ Parent(k) = sift.at
  /\ sift # Settled /\ sift.at > 1 =>
       \A k \in Children(sift.at) \cap (1 .. Len(timers)) :
         When(Parent(sift.at)) <= When(k)

\* The contract of the interface (TimerService).
ImplementsService == Service!Spec

(***************************************************************************)
(* Whatever its actions do, an Update fires the live timers in the order   *)
(* of their deadlines; README.md:36 promises no order among equal ones.    *)
(***************************************************************************)
EarliestFirst ==
  [][FiringStep => \A id \in live : due[FiredNow] <= due[id]]_vars

(***************************************************************************)
(* An Update does not return while a timer is live whose deadline lies     *)
(* before the time it was told, and if nothing was started meanwhile it    *)
(* also leaves none that is due exactly then.  (The clock is not set back.)*)
(***************************************************************************)
UpdateComplete ==
  [][Len(frames') < Len(frames) =>
       \A id \in live :
          /\ due[id] >= Top.now
          /\ next_id = Top.max_id => due[id] > Top.now]_vars

\* At most how many iterations a sift loop has left.
Iterations ==
  CASE sift.dir = "none" -> 0
    [] sift.dir = "up"   -> sift.at
    [] sift.dir = "down" -> Len(timers) + 1 - sift.at

(***************************************************************************)
(* Every Update comes to its end, and so does every sift loop: no step, of *)
(* whatever activation, brings more nodes into the reach of an active      *)
(* Update, an iteration of its loop takes one out, marked or not, and a    *)
(* sift loop has less left with each iteration.                            *)
(***************************************************************************)
UpdateEnds ==
  [][/\ sift # Settled => Iterations' < Iterations
     /\ \A k \in DOMAIN frames \cap DOMAIN frames' :
          /\ InReach(k, Range(timers))' \subseteq InReach(k, Range(timers))
          /\ InPhase("loop") /\ sift = Settled /\ k = Len(frames) =>
               InReach(k, Range(timers))' # InReach(k, Range(timers))]_vars

(***************************************************************************)
(* What the destructor leaks (QuadHeapTimer.cpp:32): of the timers that    *)
(* were canceled, only those whose deadline no Update has gone past.  The  *)
(* others were purged and freed, whatever was above them in the heap.      *)
(* (The clock is not set back.)                                            *)
(***************************************************************************)
LeakBound ==
  status = "destroyed" => \A id \in deleted : due[id] >= reported

(***************************************************************************)
(* Due nodes leave the heap: they fire, or, if they were canceled, they    *)
(* are purged, although nothing but an Update ever purges.  Again and      *)
(* again there is a moment at which none is left.                          *)
(***************************************************************************)
DueNodes == {i \in DOMAIN timers : When(i) <= clock}
DueNodesLeave == DueNodes # {} ~> DueNodes = {}
=============================================================================
