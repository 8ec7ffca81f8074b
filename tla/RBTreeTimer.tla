---------------------------- MODULE RBTreeTimer -----------------------------
(***************************************************************************)
(* RBTreeTimer (src/RBTreeTimer.{h,cpp}): a multimap of (deadline, id)     *)
(* keys, ordered by deadline and, among equal deadlines, by DESCENDING id, *)
(* and a hash map from the ids to their keys.  The red-black tree is       *)
(* std::multimap: a set of keys whose begin() is the least one.            *)
(***************************************************************************)
EXTENDS TimerBase

VARIABLES
  timers,   \* timers_: the keys in the tree
  ref       \* ref_: id -> key

vars == <<timers, ref, baseVars>>

-----------------------------------------------------------------------------
(* Mutated forms of the operators below, for mutation runs.                *)
KeyLess_ById(a, b) == a.id < b.id
KeyLess_OldestFirst(a, b) ==
  IF a.deadline = b.deadline THEN a.id < b.id ELSE a.deadline < b.deadline
Expired_OneEarly(key) == key.deadline <= Top.now + 1
Expired_Strict(key) == key.deadline < Top.now
InRound_Any(key) == TRUE
Unlink_KeepsRef(id) ==
  /\ timers' = timers \ {ref[id]}
  /\ ref' = ref

-----------------------------------------------------------------------------
\* NodeKey::operator<.
KeyLess(a, b) ==
  IF a.deadline = b.deadline THEN a.id > b.id ELSE a.deadline < b.deadline

\* timers_.begin()->first.
First == CHOOSE k \in timers : \A other \in timers \ {k} : KeyLess(k, other)

\* Erase the timer from both maps.
Unlink(id) ==
  /\ timers' = timers \ {ref[id]}
  /\ ref' = Restrict(ref, DOMAIN ref \ {id})

Init ==
  /\ BaseInit
  /\ timers = {}
  /\ ref = [x \in {} |-> 0]

Start(duration) ==
  /\ MayStart
  /\ LET key == [id |-> next_id, deadline |-> clock + duration] IN
       /\ timers' = timers \cup {key}
       /\ ref' = Put(ref, next_id, key)
       /\ Started(key.deadline)
  /\ UNCHANGED <<clock, frames, status>>

\* Cancel of an id that ref_ does not hold returns false and changes nothing.
Cancel(id) ==
  /\ MayCall
  /\ id \in DOMAIN ref
  /\ Unlink(id)
  /\ Stopped(id)
  /\ UNCHANGED <<clock, frames, status>>

-----------------------------------------------------------------------------
(* Update(now): the early return, and one action per way through the loop. *)

Update(now) ==
  /\ EntersLoop(now, timers = {})
  /\ UNCHANGED <<timers, ref>>

\* now < key.deadline is the loop's first reason to stop ...
Expired(key) == key.deadline <= Top.now

\* ... and key.id > max_id the second: "make sure we don't process newly
\* created timer in timeout event".
InRound(key) == key.id <= Top.max_id

FireFirst ==
  /\ InPhase("loop")
  /\ timers # {}
  /\ Expired(First)
  /\ InRound(First)
  /\ Unlink(First.id)
  /\ CallsAction(First.id)

UpdateReturns ==
  /\ InPhase("loop")
  /\ timers # {} => ~(Expired(First) /\ InRound(First))
  /\ Returned
  /\ UNCHANGED <<timers, ref>>

ActionDone ==
  /\ ActionReturns
  /\ UNCHANGED <<timers, ref>>

TimePasses ==
  /\ Elapse
  /\ UNCHANGED <<timers, ref>>

\* ~RBTreeTimer.
Destroy ==
  /\ Discarded
  /\ timers' = {}
  /\ ref' = [x \in {} |-> 0]

\* Nothing happens after the end, by design.
Ended ==
  /\ status = "destroyed"
  /\ UNCHANGED vars

Next ==
  \/ \E duration \in Durations : Start(duration)
  \/ \E id \in DOMAIN ref : Cancel(id)
  \/ \E lag \in Lags : Update(clock - lag)
  \/ FireFirst
  \/ UpdateReturns
  \/ ActionDone
  \/ TimePasses
  \/ Destroy
  \/ Ended

Spec == Init /\ [][Next]_vars

(***************************************************************************)
(* The loop runs to its end and every timeout action returns, however many *)
(* Updates it makes; time passes, and the owner keeps calling Update from  *)
(* outside with the time it just read, as test/TestTimer.cpp:99-102 does.  *)
(***************************************************************************)
Fairness ==
  /\ WF_vars(FireFirst)
  /\ WF_vars(UpdateReturns)
  /\ SF_vars(ActionDone)
  /\ WF_vars(TimePasses)
  /\ WF_vars(frames = <<>> /\ Update(clock))

FairSpec == Spec /\ Fairness

-----------------------------------------------------------------------------
Key == [id : Nat, deadline : Nat]

TypeOK ==
  /\ BaseTypeOK
  /\ status \in {"running", "destroyed"}
  /\ frames \in Seq(LoopFrame)
  /\ timers \in SUBSET Key
  /\ ref \in [DOMAIN ref -> Key]

(***************************************************************************)
(* The tree, the hash map and the caller's view agree at every moment at   *)
(* which the caller can look: Cancel answers true exactly for the timers   *)
(* that neither fired nor were canceled, Size counts exactly those, and    *)
(* each is in the tree under the deadline it was started with.             *)
(***************************************************************************)
MapsAgree ==
  /\ DOMAIN ref = live
  /\ \A id \in live : ref[id] = [id |-> id, deadline |-> due[id]]
  /\ timers = {ref[id] : id \in DOMAIN ref}

\* The contract of the interface (TimerService).
ImplementsService == Service!Spec

(***************************************************************************)
(* Whatever its timeout actions do, an Update fires the live timers in the *)
(* order of their deadlines, and equal deadlines newest first: README.md   *)
(* says of this scheduler that it is not FIFO.                             *)
(***************************************************************************)
EarliestFirst ==
  [][FiringStep =>
       \A id \in live \ {FiredNow} :
          \/ due[FiredNow] < due[id]
          \/ due[FiredNow] = due[id] /\ FiredNow > id]_vars

(***************************************************************************)
(* An Update does not return while a timer is live whose deadline lies     *)
(* before the time it was told, whatever its actions started or canceled   *)
(* and however they nested; and if nothing was started meanwhile it also   *)
(* leaves none that is due exactly then.  (The loop breaks off at the      *)
(* first new timer, RBTreeTimer.cpp:62; that this hides no older timer     *)
(* behind it needs a clock that is not set back.)                          *)
(***************************************************************************)
UpdateComplete ==
  [][Len(frames') < Len(frames) =>
       \A id \in live :
          /\ due[id] >= Top.now
          /\ next_id = Top.max_id => due[id] > Top.now]_vars

(***************************************************************************)
(* Every Update comes to its end, even if each of its actions starts a     *)
(* timer that is due at once: no step, of whatever activation, brings more *)
(* timers into the reach of an active Update, and an iteration of its loop *)
(* takes one out for ever.                                                 *)
(***************************************************************************)
UpdateEnds ==
  [][\A k \in DOMAIN frames \cap DOMAIN frames' :
       /\ InReach(k, live)' \subseteq InReach(k, live)
       /\ InPhase("loop") /\ k = Len(frames) => InReach(k, live)' # InReach(k, live)]_vars

\* Every timer that is due is eventually fired, canceled or discarded.
DueTimersEnd ==
  \A id \in FirstId .. FirstId + MaxStarts - 1 :
    (id \in live /\ due[id] <= clock) ~> id \notin live

(***************************************************************************)
(* RBTreeTimer.cpp:61 says "make sure we don't process newly created timer *)
(* in timeout event": an Update would fire only timers that existed when   *)
(* it began.  The test key.id > max_id lets the first new one through.     *)
(***************************************************************************)
NewTimersWait ==
  [][FiringStep => FiredNow < Top.max_id]_vars
=============================================================================
