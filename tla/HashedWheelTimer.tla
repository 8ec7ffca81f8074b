-------------------------- MODULE HashedWheelTimer --------------------------
(***************************************************************************)
(* HashedWheelTimer (src/HashedWheelTimer.{h,cpp}) and its buckets         *)
(* (src/HashedWheelBucket.{h,cpp}): a ring of lists of timeouts, and for   *)
(* each timeout the number of rounds the wheel has yet to turn past it.    *)
(*                                                                         *)
(* Two steps end the process: LOG(FATAL) for a timeout found in a wrong    *)
(* slot ("aborted"), and Cancel of a timeout that has been taken out of    *)
(* its bucket but not yet deleted, through its null bucket ("segfault").   *)
(***************************************************************************)
EXTENDS TimerBase

CONSTANTS
  WHEEL_SIZE,     \* 512 in the code
  TICK_DURATION,  \* milliseconds of a slot, 100 in the code
  TIME_UNIT,      \* milliseconds of a tick as Update counts them, 10
  INT_MAX         \* the greatest int, 2^31 - 1

ASSUME HashedWheelAssumption ==
  /\ WHEEL_SIZE \in Nat \ {0, 1} /\ \E k \in 1 .. WHEEL_SIZE : WHEEL_SIZE = 2 ^ k
  /\ TICK_DURATION \in Nat \ {0}
  /\ TIME_UNIT \in Nat \ {0}
  /\ INT_MAX \in Nat

VARIABLES
  ticks,       \* ticks_: the ticks the wheel has made
  last_time,   \* last_time_: the time told to the last Update that ticked
  started_at,  \* started_at_
  wheel,       \* wheel_: the ids in each bucket, in list order
  timeouts     \* ref_: the timeouts by id, with their bucket and rounds

wheelVars == <<ticks, last_time, started_at, wheel, timeouts>>
vars == <<wheelVars, baseVars>>

Buckets == 0 .. WHEEL_SIZE - 1
None == -1   \* the null bucket

-----------------------------------------------------------------------------
\* The value of x cast to an int.
AsInt(x) == ((x + INT_MAX + 1) % (2 * INT_MAX + 2)) - INT_MAX - 1

\* Integer division as in C++, which truncates.
Quotient(a, b) == IF a >= 0 THEN a \div b ELSE -((-a) \div b)

\* The tick that Start calculates for a deadline; the cast comes first.
Calculated(deadline) == Quotient(AsInt(deadline - started_at), TICK_DURATION)

\* The bucket and the rounds that Start gives to a deadline.
Placed(deadline) ==
  LET calculated == Calculated(deadline)
      stop == IF calculated < ticks THEN ticks ELSE calculated
  IN [bucket |-> stop % WHEEL_SIZE,
      rounds |-> Quotient(calculated - ticks, WHEEL_SIZE)]

\* Mutated: the timeout stays linked in its bucket.
Removed_Linked(id) == wheel

\* The buckets after bucket->Remove of a timeout.
Removed(id) == [wheel EXCEPT ![timeouts[id].bucket] = Without(@, id)]

Init ==
  /\ BaseInit
  /\ ticks = 0
  /\ last_time = clock
  /\ started_at = clock
  /\ wheel = [b \in Buckets |-> <<>>]
  /\ timeouts = [x \in {} |-> 0]

Start(duration) ==
  /\ MayStart
  /\ LET deadline == clock + duration
         timeout  == Placed(deadline)
     IN
       /\ wheel' = [wheel EXCEPT ![timeout.bucket] = Append(@, next_id)]
       /\ timeouts' = Put(timeouts, next_id, timeout)
       /\ Started(deadline)
  /\ UNCHANGED <<ticks, last_time, started_at, clock, frames, status>>

Cancel(id) ==
  /\ MayCall
  /\ id \in DOMAIN timeouts
  /\ timeouts[id].bucket # None
  /\ wheel' = Removed(id)
  /\ timeouts' = Restrict(timeouts, DOMAIN timeouts \ {id})
  /\ Stopped(id)
  /\ UNCHANGED <<ticks, last_time, started_at, clock, frames, status>>

\* An action cancels its own timer, or one that the same tick has taken out
\* of its bucket.
CancelCrashes ==
  /\ MayCall
  /\ \E id \in DOMAIN timeouts : timeouts[id].bucket = None
  /\ status' = "segfault"
  /\ UNCHANGED <<wheelVars, clock, next_id, frames, ledger>>

-----------------------------------------------------------------------------
(* Update(now): the early returns leave last_time_ alone.                  *)

Update(now) ==
  LET count == Quotient(now - last_time, TIME_UNIT)
      ticking == DOMAIN timeouts # {} /\ count > 0
  IN
    /\ MayUpdate(now)
    /\ Reported(now)
    /\ frames' = IF ticking
                 THEN Push([left |-> count, at |-> 1, expired |-> <<>>,
                            phase |-> "tick"])
                 ELSE frames
    /\ last_time' = IF ticking THEN now ELSE last_time
    /\ UNCHANGED <<ticks, started_at, wheel, timeouts, clock, status>>

\* The time that the wheel believes the tick after the current one begins at.
WheelTime == started_at + TICK_DURATION * (ticks + 1)

\* tick() turns by WHEEL_SIZE - 1 where Start counts by WHEEL_SIZE.
Visited == ticks % (WHEEL_SIZE - 1)

\* ExpireTimeouts has come to this timeout of the bucket.
Scanning(id) ==
  /\ InPhase("tick")
  /\ Top.left > 0
  /\ Top.at \in DOMAIN wheel[Visited]
  /\ wheel[Visited][Top.at] = id

RoundsOver(id) == timeouts[id].rounds <= 0

\* Mutated: the check for a wrong slot is not made.
WrongSlot_Unchecked(id) == FALSE

WrongSlot(id) == due[id] > WheelTime

\* A timeout whose rounds are over leaves the bucket, and the next one moves
\* up to its position.
Expires(id) ==
  /\ Scanning(id)
  /\ RoundsOver(id)
  /\ ~WrongSlot(id)
  /\ wheel' = Removed(id)
  /\ timeouts' = [timeouts EXCEPT ![id].bucket = None]
  /\ frames' = SetTop([Top EXCEPT !.expired = Append(@, id)])
  /\ UNCHANGED <<ticks, last_time, started_at, clock, next_id, status, ledger>>

\* LOG(FATAL): LogMessage::Finish calls abort.
Fatal == status' = "aborted"

\* "The timeout was placed into a wrong slot."
Aborts(id) ==
  /\ Scanning(id)
  /\ RoundsOver(id)
  /\ WrongSlot(id)
  /\ Fatal
  /\ UNCHANGED <<wheelVars, clock, next_id, frames, ledger>>

\* Any other has a round less to wait.
WaitsOn(id) ==
  /\ Scanning(id)
  /\ ~RoundsOver(id)
  /\ timeouts' = [timeouts EXCEPT ![id].rounds = @ - 1]
  /\ frames' = SetTop([Top EXCEPT !.at = @ + 1])
  /\ UNCHANGED <<ticks, last_time, started_at, wheel, clock, next_id, status, ledger>>

ScanEnds ==
  /\ InPhase("tick")
  /\ Top.left > 0
  /\ Top.at \notin DOMAIN wheel[Visited]
  /\ frames' = SetTop([Top EXCEPT !.at = 1, !.phase = "loop"])
  /\ UNCHANGED <<wheelVars, clock, next_id, status, ledger>>

\* The next action of the tick is called ...
Expire ==
  /\ InPhase("loop")
  /\ Top.expired # <<>>
  /\ CallsAction(Head(Top.expired))
  /\ UNCHANGED wheelVars

\* Mutated: the loop does not go on to the next timeout.
ActionDone_Repeats == ActionReturns /\ UNCHANGED wheelVars

\* ... and when it returns, the timeout is deleted and leaves ref_.
ActionDone ==
  /\ InPhase("callback")
  /\ timeouts' = Restrict(timeouts, DOMAIN timeouts \ {Head(Top.expired)})
  /\ frames' = SetTop([Top EXCEPT !.phase = "loop", !.expired = Tail(@)])
  /\ UNCHANGED <<ticks, last_time, started_at, wheel, clock, next_id, status, ledger>>

\* ++ticks_, after the actions of the tick.
TickEnds ==
  /\ InPhase("loop")
  /\ Top.expired = <<>>
  /\ ticks' = ticks + 1
  /\ frames' = SetTop([Top EXCEPT !.left = @ - 1, !.phase = "tick"])
  /\ UNCHANGED <<last_time, started_at, wheel, timeouts, clock, next_id, status, ledger>>

UpdateReturns ==
  /\ InPhase("tick")
  /\ Top.left = 0
  /\ Returned
  /\ UNCHANGED wheelVars

TimePasses ==
  /\ Elapse
  /\ UNCHANGED wheelVars

\* ~HashedWheelTimer: purge() deletes the timeouts of every bucket.
Destroy ==
  /\ Discarded
  /\ wheel' = [b \in Buckets |-> <<>>]
  /\ timeouts' = [x \in {} |-> 0]
  /\ UNCHANGED <<ticks, last_time, started_at>>

Ended ==
  /\ status \in {"destroyed", "aborted", "segfault"}
  /\ UNCHANGED vars

Next ==
  \/ \E duration \in Durations : Start(duration)
  \/ \E id \in DOMAIN timeouts : Cancel(id) \/ Expires(id) \/ Aborts(id) \/ WaitsOn(id)
  \/ CancelCrashes
  \/ \E lag \in Lags : Update(clock - lag)
  \/ ScanEnds
  \/ Expire
  \/ ActionDone
  \/ TickEnds
  \/ UpdateReturns
  \/ TimePasses
  \/ Destroy
  \/ Ended

Spec == Init /\ [][Next]_vars

-----------------------------------------------------------------------------
Frame == [left : Nat, at : Nat \ {0}, expired : Seq(Ids),
          phase : {"tick", "loop", "callback"}]
Timeout == [bucket : Buckets \cup {None}, rounds : Int]

TypeOK ==
  /\ BaseTypeOK
  /\ status \in {"running", "destroyed", "aborted", "segfault"}
  /\ frames \in Seq(Frame)
  /\ ticks \in Nat
  /\ last_time \in Nat
  /\ started_at \in Nat
  /\ wheel \in [Buckets -> Seq(Ids)]
  /\ timeouts \in [DOMAIN timeouts -> Timeout]

\* The timers whose action is running, in some active Update.
Running ==
  {frames[k].expired[1] : k \in {j \in DOMAIN frames : frames[j].phase = "callback"}}

\* The timer is linked in bucket b, or has been taken out of its bucket by a
\* tick and waits on that tick's list.
LinkedIn(b, id) == \E i \in DOMAIN wheel[b] : wheel[b][i] = id
Awaiting(id) ==
  \E k \in DOMAIN frames : \E i \in DOMAIN frames[k].expired : frames[k].expired[i] = id

(***************************************************************************)
(* ref_ holds the live timers and those whose action is running.  Each is  *)
(* linked once, in the bucket that its bucket pointer names, or, with a    *)
(* null pointer, is once on the list of expired timeouts of some tick; a   *)
(* deleted timeout is in neither.                                          *)
(***************************************************************************)
HeldOnce ==
  /\ DOMAIN timeouts = live \cup Running
  /\ live \cap Running = {}
  /\ \A id \in DOMAIN timeouts :
       IF timeouts[id].bucket = None
       THEN Awaiting(id)
       ELSE LinkedIn(timeouts[id].bucket, id)
  /\ \A b \in Buckets : \A i \in DOMAIN wheel[b] :
       /\ wheel[b][i] \in DOMAIN timeouts
       /\ timeouts[wheel[b][i]].bucket = b
       /\ \A j \in DOMAIN wheel[b] : wheel[b][i] = wheel[b][j] => i = j
  /\ \A k \in DOMAIN frames : \A i \in DOMAIN frames[k].expired :
       /\ frames[k].expired[i] \in DOMAIN timeouts
       /\ timeouts[frames[k].expired[i]].bucket = None
       /\ \A l \in DOMAIN frames : \A j \in DOMAIN frames[l].expired :
            frames[k].expired[i] = frames[l].expired[j] => k = l /\ i = j

\* The contract of the interface without its deadlines: fresh ids, one firing
\* at most for each timer, and none after Cancel answered true.
Untimed == INSTANCE TimerService WITH
  due <- [id \in DOMAIN due |-> 0], Deadlines <- {0}, Times <- 0 .. Horizon

ImplementsUntimed == Untimed!Spec

(***************************************************************************)
(* What stands in for "never early" here: an action is called only when    *)
(* the wheel, by its own count of ticks, has come to the deadline, also    *)
(* after nested Updates turned the wheel between the check and the call.   *)
(***************************************************************************)
WheelTimeReached == [][FiringStep => due[FiredNow] <= WheelTime]_vars

\* What activation k has yet to do: ticks, then the scan of the current one,
\* then its actions.
ToDo(k) ==
  LET f == frames[k] IN
    CASE f.phase = "tick" ->
           <<f.left, 1, IF f.at \in DOMAIN wheel[Visited]
                        THEN Len(wheel[Visited]) + 1 - f.at ELSE 0>>
      [] f.phase = "loop"     -> <<f.left, 0, Len(f.expired)>>
      [] f.phase = "callback" -> <<f.left, 0, Len(f.expired) - 1>>

(***************************************************************************)
(* Every Update comes to its end, unless the process ends before: nothing  *)
(* gives an active Update more to do, though its actions add to the        *)
(* buckets and turn the wheel, and its own steps leave it less.            *)
(***************************************************************************)
UpdateEnds ==
  [][\A k \in DOMAIN frames \cap DOMAIN frames' :
       \/ Lower(ToDo(k)', ToDo(k))
       \/ ToDo(k)' = ToDo(k) /\ (k < Len(frames) \/ MayCall \/ status' # "running")]_vars

(***************************************************************************)
(* TimerBase.h:45 says of Start "schedule a timer to run after specified   *)
(* time units(milliseconds)", and test/TestTimer.cpp:108 expects fired_at  *)
(* >= deadline: no action is called before the clock has come to its       *)
(* timer's deadline.  (To be checked with a clock that is not set back.)   *)
(***************************************************************************)
NeverEarly == \A i \in DOMAIN fired : due[fired[i]] <= clock

(***************************************************************************)
(* HashedWheelBucket.cpp:62 says of a timeout that was placed into a wrong *)
(* slot "This should never happen."                                        *)
(***************************************************************************)
NoWrongSlot == status # "aborted"

(***************************************************************************)
(* TimerBase.h:51 says of Cancel "cancel a timer by id; return true if     *)
(* successfully canceld": it answers, and does not end the process, for    *)
(* any id and also in an action.                                           *)
(***************************************************************************)
CancelAnswers == status # "segfault"
==============================================================================
