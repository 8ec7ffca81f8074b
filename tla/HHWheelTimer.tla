---------------------------- MODULE HHWheelTimer ----------------------------
(***************************************************************************)
(* HHWheelTimer (src/HHWheelTimer.{h,cpp}) over the hierarchical timing    *)
(* wheels of src/timer_list.{h,cpp}: five levels of slots, each slot a     *)
(* FIFO list of timers.  Level 1 has a slot per millisecond; the slots of  *)
(* level k + 1 are as wide as the whole of level k, and are emptied into   *)
(* the lower levels ("cascade") when the wheel's clock reaches them.       *)
(*                                                                         *)
(* cascade() skips the first timer of a non-empty list and links the list  *)
(* head, a local variable, in its place, under whatever expiry the stack   *)
(* holds.  The first timer is then "lost": still in ref_, on no list.  The *)
(* dead list head is the last entry of some slot, a member of "ghosts".    *)
(* Using either from then on is undefined behaviour, and ends the model's  *)
(* run in the status "undefined".                                          *)
(***************************************************************************)
EXTENDS TimerBase

CONSTANTS
  TVR_SIZE,  \* the slots of level 1 (256 in the code)
  TVN_SIZE   \* the slots of levels 2 to 5 each (64 in the code)

ASSUME WheelAssumption == TVR_SIZE \in Nat \ {0} /\ TVN_SIZE \in Nat \ {0, 1}

VARIABLES
  timer_clk,  \* base_.timer_clk: the next millisecond to run
  wheel,      \* base_.tv1 .. tv5: the ids in each slot, in list order
  ref,        \* ref_, and actions_: the ids that they hold
  lost,       \* timers that a cascade skipped
  ghosts      \* slots whose last entry is the dead list head of a cascade

wheelVars == <<timer_clk, wheel, ref, lost, ghosts>>
vars == <<wheelVars, baseVars>>

-----------------------------------------------------------------------------
(* The geometry of the wheels.                                             *)
Slots(level) == IF level = 1 THEN TVR_SIZE ELSE TVN_SIZE
Places == ({1} \X (0 .. TVR_SIZE - 1)) \cup ((2 .. 5) \X (0 .. TVN_SIZE - 1))

\* The time that one slot of a level stands for.
Width(level) ==
  <<1, TVR_SIZE,
    TVR_SIZE * TVN_SIZE,
    TVR_SIZE * TVN_SIZE * TVN_SIZE,
    TVR_SIZE * TVN_SIZE * TVN_SIZE * TVN_SIZE>>[level]

MAX_TVAL == Width(5) * TVN_SIZE - 1

\* The slot of a level that stands for time t.
SlotOf(level, t) ==
  <<level, (t \div Width(level)) % Slots(level)>>

\* The lowest level that reaches idx milliseconds ahead.
LevelOf(idx) ==
  CASE idx < Width(2) -> 1
    [] idx >= Width(2) /\ idx < Width(3) -> 2
    [] idx >= Width(3) /\ idx < Width(4) -> 3
    [] idx >= Width(4) /\ idx < Width(5) -> 4
    [] OTHER -> 5

\* Mutated forms of Place: a level too low, and the code's dead branch for
\* timers in the past taken for any timer.
Place_LevelTooLow(expires, clk) ==
  LET level == LevelOf(expires - clk) IN
    SlotOf(IF level = 2 THEN 1 ELSE level, expires)
Place_AtClock(expires, clk) == SlotOf(LevelOf(expires - clk), clk)

\* __internal_add_timer: where a timer goes when the wheel's clock shows clk.
\* The first test, idx < TVR_SIZE, is signed: it takes the timers in the past
\* too, and the branch "idx < 0" that is meant for them is dead.
Place(expires, clk) ==
  LET idx == expires - clk IN
    SlotOf(LevelOf(idx), IF idx > MAX_TVAL THEN clk + MAX_TVAL ELSE expires)

-----------------------------------------------------------------------------
\* Mutated: the timer is linked in front of the others.
Enqueued_Front(place, id) == [wheel EXCEPT ![place] = <<id>> \o @]

\* list_add_tail: "Timers are FIFO".
Enqueued(place, id) == [wheel EXCEPT ![place] = Append(@, id)]

\* Mutated: a timer on a work list is not unlinked.
Unlink_WheelOnly(id) ==
  /\ wheel' = [p \in Places |-> Without(wheel[p], id)]
  /\ frames' = frames

\* detach_timer: the timer leaves the list it is on, be it a slot or the work
\* list of an Update that is still active.
Unlink(id) ==
  /\ wheel' = [p \in Places |-> Without(wheel[p], id)]
  /\ frames' = [i \in DOMAIN frames |->
                  [frames[i] EXCEPT !.work = Without(frames[i].work, id)]]

\* The timer's list neighbour is a dead list head.
NextToGhost(id) ==
  \/ id \in lost
  \/ \E p \in ghosts : wheel[p] # <<>> /\ wheel[p][Len(wheel[p])] = id

Init ==
  /\ BaseInit
  /\ timer_clk = clock
  /\ wheel = [p \in Places |-> <<>>]
  /\ ref = {}
  /\ lost = {}
  /\ ghosts = {}

Start(duration) ==
  LET expires == clock + duration
      place   == Place(expires, timer_clk)
  IN
    /\ MayStart
    /\ place \notin ghosts
    /\ wheel' = Enqueued(place, next_id)
    /\ ref' = ref \cup {next_id}
    /\ Started(expires)
    /\ UNCHANGED <<timer_clk, lost, ghosts, clock, frames, status>>

Cancel(id) ==
  /\ MayCall
  /\ id \in ref
  /\ ~NextToGhost(id)
  /\ Unlink(id)
  /\ ref' = ref \ {id}
  /\ Stopped(id)
  /\ UNCHANGED <<timer_clk, lost, ghosts, clock, status>>

-----------------------------------------------------------------------------
(* Update(now): run_timers.                                                *)

Update(now) ==
  /\ MayUpdate(now)
  /\ frames' = Push([now |-> now, work |-> <<>>, level |-> 1, phase |-> "loop"])
  /\ Reported(now)
  /\ UNCHANGED <<wheelVars, clock, status>>

\* The slot of a level that the wheel's clock points at: the index of
\* run_timers for level 1, INDEX(level - 2) above.
Current(level) == SlotOf(level, timer_clk)

\* A new tick of the outer loop; every TVR_SIZE ticks the slots above cascade.
BeginTick ==
  /\ InPhase("loop")
  /\ Top.work = <<>>
  /\ timer_clk <= Top.now
  /\ frames' = SetTop(IF Current(1)[2] = 0
                      THEN [Top EXCEPT !.phase = "cascade", !.level = 2]
                      ELSE [Top EXCEPT !.phase = "take"])
  /\ UNCHANGED <<wheelVars, clock, next_id, status, ledger>>

\* Mutated: the cascade never goes on.
CascadeGoesOn_OneLevel == frames' = SetTop([Top EXCEPT !.phase = "take", !.level = 1])

\* Mutated: it goes on with the same level.
CascadeGoesOn_SameLevel ==
  frames' = SetTop(IF Current(Top.level)[2] = 0
                   THEN [Top EXCEPT !.phase = "cascade"]
                   ELSE [Top EXCEPT !.phase = "take", !.level = 1])

\* What happens after the cascade of a level: it goes on one level up if that
\* level's index was 0.
CascadeGoesOn ==
  frames' = SetTop(IF Current(Top.level)[2] = 0 /\ Top.level < 5
                   THEN [Top EXCEPT !.phase = "cascade", !.level = @ + 1]
                   ELSE [Top EXCEPT !.phase = "take", !.level = 1])

CascadeEmpty ==
  /\ InPhase("cascade")
  /\ wheel[Current(Top.level)] = <<>>
  /\ Current(Top.level) \notin ghosts
  /\ CascadeGoesOn
  /\ UNCHANGED <<wheelVars, clock, next_id, status, ledger>>

\* cascade() detaches the list, and its first timer is skipped ...
CascadeBegins ==
  LET from == Current(Top.level) IN
    /\ InPhase("cascade")
    /\ wheel[from] # <<>>
    /\ from \notin ghosts
    /\ frames' = SetTop([Top EXCEPT !.phase = "place", !.work = Tail(wheel[from])])
    /\ wheel' = [wheel EXCEPT ![from] = <<>>]
    /\ lost' = lost \cup {Head(wheel[from])}
    /\ UNCHANGED <<timer_clk, ref, ghosts, clock, next_id, status, ledger>>

\* ... the others are added again one by one ...
CascadePlaces ==
  LET id    == Head(Top.work)
      place == Place(due[id], timer_clk)
  IN
    /\ InPhase("place")
    /\ Top.work # <<>>
    /\ place \notin ghosts
    /\ wheel' = Enqueued(place, id)
    /\ frames' = SetTop([Top EXCEPT !.work = Tail(@)])
    /\ UNCHANGED <<timer_clk, ref, lost, ghosts, clock, next_id, status, ledger>>

\* ... and the list head itself is added last, to any slot.
CascadeEnds(head) ==
  /\ InPhase("place")
  /\ Top.work = <<>>
  /\ head \notin ghosts
  /\ ghosts' = ghosts \cup {head}
  /\ CascadeGoesOn
  /\ UNCHANGED <<timer_clk, wheel, ref, lost, clock, next_id, status, ledger>>

\* ++timer_clk, and the slot's list becomes the work list.
TakeSlot ==
  /\ InPhase("take")
  /\ Current(1) \notin ghosts
  /\ timer_clk' = timer_clk + 1
  /\ frames' = SetTop([Top EXCEPT !.phase = "loop", !.work = wheel[Current(1)]])
  /\ wheel' = [wheel EXCEPT ![Current(1)] = <<>>]
  /\ UNCHANGED <<ref, lost, ghosts, clock, next_id, status, ledger>>

\* handleTimerExpired: the timer is detached and forgotten, then its action
\* is called.
FireHead ==
  /\ InPhase("loop")
  /\ Top.work # <<>>
  /\ ref' = ref \ {Head(Top.work)}
  /\ Fired(Head(Top.work))
  /\ frames' = SetTop([Top EXCEPT !.phase = "callback", !.work = Tail(@)])
  /\ UNCHANGED <<timer_clk, wheel, lost, ghosts, clock, status>>

UpdateReturns ==
  /\ InPhase("loop")
  /\ Top.work = <<>>
  /\ Top.now < timer_clk
  /\ Returned
  /\ UNCHANGED wheelVars

\* The caller touches a lost timer or a dead list head.
CallerUsesDeadHead ==
  /\ \/ /\ MayStart
        /\ \E duration \in Durations : Place(clock + duration, timer_clk) \in ghosts
     \/ MayCall /\ \E id \in ref : NextToGhost(id)
  /\ status' = "undefined"
  /\ UNCHANGED <<wheelVars, clock, next_id, frames, ledger>>

\* The wheel meets a dead list head: in the slot of the tick, in a slot to be
\* cascaded, or in one to which a cascade adds a timer or its own list head.
WheelMeetsDeadHead ==
  /\ \/ InPhase("take") /\ Current(1) \in ghosts
     \/ InPhase("cascade") /\ Current(Top.level) \in ghosts
     \/ /\ InPhase("place")
        /\ IF Top.work = <<>> THEN ghosts # {}
           ELSE Place(due[Head(Top.work)], timer_clk) \in ghosts
  /\ status' = "undefined"
  /\ UNCHANGED <<wheelVars, clock, next_id, frames, ledger>>

ActionDone ==
  /\ ActionReturns
  /\ UNCHANGED wheelVars

TimePasses ==
  /\ Elapse
  /\ UNCHANGED wheelVars

\* ~HHWheelTimer: init_timers empties the slots and ref_ owns the timers.
Destroy ==
  /\ Discarded
  /\ timer_clk' = 0
  /\ wheel' = [p \in Places |-> <<>>]
  /\ ref' = {}
  /\ lost' = {}
  /\ ghosts' = {}

Ended ==
  /\ status \in {"destroyed", "undefined"}
  /\ UNCHANGED vars

Next ==
  \/ \E duration \in Durations : Start(duration)
  \/ \E id \in ref : Cancel(id)
  \/ \E lag \in Lags : Update(clock - lag)
  \/ BeginTick
  \/ CascadeEmpty
  \/ CascadeBegins
  \/ CascadePlaces
  \/ \E head \in Places : CascadeEnds(head)
  \/ TakeSlot
  \/ FireHead
  \/ UpdateReturns
  \/ CallerUsesDeadHead
  \/ WheelMeetsDeadHead
  \/ ActionDone
  \/ TimePasses
  \/ Destroy
  \/ Ended

Spec == Init /\ [][Next]_vars

\* The loops run to their end, timeout actions return, and the owner keeps calling
\* Update with the time it just read.  Time goes on, although Updates and the
\* setting back of the clock come in between: nothing that the process does stops
\* it, so the fairness is strong.
Fairness ==
  /\ WF_vars(BeginTick)
  /\ WF_vars(CascadeEmpty)
  /\ WF_vars(CascadeBegins)
  /\ WF_vars(CascadePlaces)
  /\ WF_vars(\E head \in Places : CascadeEnds(head))
  /\ WF_vars(TakeSlot)
  /\ WF_vars(FireHead)
  /\ WF_vars(UpdateReturns)
  /\ WF_vars(WheelMeetsDeadHead)
  /\ SF_vars(ActionDone)
  /\ SF_vars(TimePasses /\ clock' > clock)
  /\ WF_vars(frames = <<>> /\ Update(clock))

FairSpec == Spec /\ Fairness

-----------------------------------------------------------------------------
Frame == [now : Nat, work : Seq(Ids), level : 1 .. 5,
          phase : {"loop", "cascade", "place", "take", "callback"}]

TypeOK ==
  /\ BaseTypeOK
  /\ status \in {"running", "destroyed", "undefined"}
  /\ frames \in Seq(Frame)
  /\ timer_clk \in Nat
  /\ wheel \in [Places -> Seq(Ids)]
  /\ ref \subseteq Ids
  /\ lost \subseteq Ids
  /\ ghosts \subseteq Places

\* The lists: the slots and, as level 0, what active Updates have detached.
Lists == Places \cup ({0} \X DOMAIN frames)
List(x) == IF x[1] = 0 THEN frames[x[2]].work ELSE wheel[x]

(***************************************************************************)
(* A timer that the caller can still cancel is once on one list, a slot or *)
(* one detached by an active Update, unless a cascade lost it; a timer     *)
(* that fired or was canceled, whose memory is freed, is on none.          *)
(***************************************************************************)
LinkedOnce ==
  /\ ref = live
  /\ lost \subseteq ref
  /\ \A x \in Lists : \A i \in DOMAIN List(x) :
       /\ List(x)[i] \in ref \ lost
       /\ \A y \in Lists : \A j \in DOMAIN List(y) :
            List(x)[i] = List(y)[j] => x = y /\ i = j
  /\ \A id \in ref \ lost : \E x \in Lists : \E i \in DOMAIN List(x) : List(x)[i] = id

\* The tick t empties slot p, into the work list or by a cascade.
Empties(p, t) == t % Width(p[1]) = 0 /\ SlotOf(p[1], t) = p

(***************************************************************************)
(* A timer in a slot is reached in time: if the wheel's clock has not      *)
(* passed its expiry, the next tick that empties its slot is no later than *)
(* the expiry, on any level; and a slot of level 1, whose timers fire in   *)
(* that tick, is not emptied before it.                                    *)
(***************************************************************************)
OnSchedule ==
  \A p \in Places : \A i \in DOMAIN wheel[p] :
    LET expires == due[wheel[p][i]] IN
      timer_clk <= expires =>
        \E t \in timer_clk .. expires :
          /\ Empties(p, t)
          /\ \A earlier \in timer_clk .. t - 1 : ~Empties(p, earlier)
          /\ p[1] = 1 => t >= expires

(***************************************************************************)
(* timer_list.h:112 says "Timers with an ->expires field in the past will  *)
(* be executed in the next timer tick": they are in the slot that the next *)
(* tick empties.                                                           *)
(***************************************************************************)
PastRunsNext ==
  \A p \in Places : \A i \in DOMAIN wheel[p] :
    due[wheel[p][i]] < timer_clk => p = SlotOf(1, timer_clk)

\* A cascade is moving the timers of its work list to other slots.
Placing == frames # <<>> /\ Top.phase = "place"

\* a is to be reached before b: in front of it on a list, or in the slot to
\* which a cascade will move b.
Ahead(a, b) ==
  \E x \in Lists : \E i \in DOMAIN List(x) :
    /\ List(x)[i] = a
    /\ \/ \E j \in DOMAIN List(x) : j > i /\ List(x)[j] = b
       \/ /\ Placing
          /\ x = Place(due[b], timer_clk)
          /\ \E j \in DOMAIN Top.work : Top.work[j] = b

(***************************************************************************)
(* "Timers are FIFO" (timer_list.cpp:70), as far as they are: once a timer *)
(* is ahead of another that expires with it, it stays so through cascades  *)
(* and cancellations until it fires, is canceled or is lost, and the other *)
(* one does not fire before.                                               *)
(***************************************************************************)
FifoOnceAhead ==
  [][\A a, b \in live \ lost :
       due[a] = due[b] /\ Ahead(a, b) =>
         \/ Ahead(a, b)'
         \/ a \notin live' \ lost'
         \/ b \notin live' /\ fired' = fired]_vars

\* The contract of the interface, as long as no dead list head is used.
ImplementsService == Service!Spec

\* What activation k has yet to do: ticks, then the stages of the current one
\* (the actions of the tick before it, the cascade of each level and the
\* placing of that level's timers, the taking of the slot), then timers.
ToDo(k) ==
  LET f == frames[k] IN
    <<IF timer_clk <= f.now THEN f.now + 1 - timer_clk ELSE 0,
      CASE f.phase = "cascade" -> 12 - 2 * f.level
        [] f.phase = "place"   -> 11 - 2 * f.level
        [] f.phase = "take"    -> 0
        [] OTHER               -> 12,
      Len(f.work)>>

(***************************************************************************)
(* Every Update comes to its end, unless the process ends before: nothing  *)
(* gives an active Update more to do, though its actions add to the slots, *)
(* take from its work list, and turn the wheel under it, and each step of  *)
(* its own leaves it less.                                                 *)
(***************************************************************************)
UpdateEnds ==
  [][\A k \in DOMAIN frames \cap DOMAIN frames' :
       \/ Lower(ToDo(k)', ToDo(k))
       \/ ToDo(k)' = ToDo(k) /\ (k < Len(frames) \/ MayCall \/ status' # "running")]_vars

(***************************************************************************)
(* When the wheel's clock passes a timer's expiry, that very tick takes    *)
(* the timer to its work list, whatever actions and nested Updates did     *)
(* before, unless a cascade lost it.  (A timer that had expired when it    *)
(* was started is not passed: it waits for the next turn of level 1.)      *)
(***************************************************************************)
TickMissesNone ==
  [][\A id \in live \ lost :
       timer_clk <= due[id] /\ due[id] < timer_clk' =>
         \E i \in DOMAIN frames'[Len(frames')].work :
           frames'[Len(frames')].work[i] = id]_vars

\* Within the bound on the clock, the wheel can still make a turn of level 1.
TurnLeft == timer_clk + TVR_SIZE - 1 <= Horizon

(***************************************************************************)
(* What DueTimersEnd of the other schedulers comes to here: a timer ends   *)
(* once the clock is a turn of level 1 past its expiry, unless it is lost, *)
(* or the clock is set back again and again for ever.  That includes the   *)
(* timers which had expired by the wheel's clock when they were started.   *)
(***************************************************************************)
OverdueTimersEnd ==
  <>[][clock' >= clock]_clock =>
    \A id \in FirstId .. FirstId + MaxStarts - 1 :
      (id \in live /\ due[id] + TVR_SIZE <= clock /\ TurnLeft)
        ~> (id \notin live \/ id \in lost \/ status = "undefined")

(***************************************************************************)
(* timer_list.cpp:160 says of cascade() "cascade all the timers from tv up *)
(* one level": no timer that can be canceled is off every list.            *)
(***************************************************************************)
CascadeKeepsAll ==
  \A id \in ref : \E x \in Lists : \E i \in DOMAIN List(x) : List(x)[i] = id
=============================================================================
