----------------------------- MODULE TimerBase ------------------------------
(***************************************************************************)
(* What the five schedulers share: the id counter of TimerBase, the clock  *)
(* they read, the nesting of Update calls and of the timeout actions that  *)
(* they run, and a ledger of what their caller has been told.              *)
(*                                                                         *)
(* The program is single-threaded.  Its concurrency is reentrancy: Update  *)
(* is a loop that calls a timeout action in the middle of an iteration,    *)
(* and the action may Start, Cancel or Update the same scheduler and take  *)
(* any time.  An activation of Update is a frame of the stack "frames"; a  *)
(* caller may act when the stack is empty or when the top frame is inside  *)
(* an action ("callback"), and the top frame runs alone otherwise.         *)
(***************************************************************************)
EXTENDS Integers, Sequences, Functions

CONSTANTS
  Durations,  \* the durations passed to Start, in ticks of the clock
  Epochs,     \* values of the clock when the scheduler is created
  Steps,      \* by how much the clock may move at once
  Lags,       \* how old the time passed to Update may be
  MaxStarts,  \* bound: number of timers ever started
  Horizon,    \* bound: the last value of the clock
  MaxDepth    \* bound: depth of nested Update calls

ASSUME BaseAssumption ==
  /\ Durations \subseteq Nat
  /\ Epochs \subseteq 1 .. Horizon
  /\ Steps \subseteq Int
  /\ Lags \subseteq Nat
  /\ MaxStarts \in Nat
  /\ Horizon \in Nat
  /\ MaxDepth \in Nat

VARIABLES
  clock,     \* Clock::CurrentTimeMillis()
  next_id,   \* TimerBase::next_id_
  frames,    \* the active calls of Update, the innermost one last
  status,    \* "running" until the scheduler is destroyed or the process ends
  due,       \* ledger: the deadline of every timer ever started
  live,      \* ledger: the timers that neither fired nor were canceled
  fired,     \* ledger: the ids whose action was called, in order
  reported   \* ledger: the latest time passed to Update

ledger   == <<due, live, fired, reported>>
baseVars == <<clock, next_id, frames, status, ledger>>

\* The contract of the interface; next_id and the ledger are its variables.
Service == INSTANCE TimerService WITH
  Deadlines <- {t + d : t \in 1 .. Horizon, d \in Durations},
  Times     <- 0 .. Horizon

FirstId   == Service!FirstId
Put(f, k, v) == Service!Put(f, k, v)

-----------------------------------------------------------------------------
\* The stack of Update activations.
Top       == frames[Len(frames)]
Push(f)   == Append(frames, f)
Pop       == SubSeq(frames, 1, Len(frames) - 1)
SetTop(f) == [frames EXCEPT ![Len(frames)] = f]

\* The caller, or the timeout action that the top frame called, is in control.
MayCall ==
  /\ status = "running"
  /\ frames # <<>> => Top.phase = "callback"

\* The top frame is in control, in the given phase of its loop.
InPhase(p) ==
  /\ status = "running"
  /\ frames # <<>>
  /\ Top.phase = p

BaseInit ==
  /\ clock \in Epochs
  /\ next_id = FirstId
  /\ frames = <<>>
  /\ status = "running"
  /\ due = [x \in {} |-> 0]
  /\ live = {}
  /\ fired = <<>>
  /\ reported = 0

-----------------------------------------------------------------------------
(* The vectors and lists of ids that the schedulers keep.                  *)

\* Two entries of a vector change places.
Swapped(v, j, k) == [v EXCEPT ![j] = v[k], ![k] = v[j]]

\* The last entry of a vector takes the place of the one at k, and is popped.
Refilled(v, k) == SubSeq([v EXCEPT ![k] = v[Len(v)]], 1, Len(v) - 1)

\* A list without its entry at position i.
Unlinked(list, i) == SubSeq(list, 1, i - 1) \o SubSeq(list, i + 1, Len(list))

\* A list without id, whether or not it is on it.
Without(list, id) ==
  IF \E i \in DOMAIN list : list[i] = id
  THEN Unlinked(list, CHOOSE i \in DOMAIN list : list[i] = id)
  ELSE list

-----------------------------------------------------------------------------
(* Parts of the schedulers' actions: the id counter and the ledger.        *)

\* A mutated form of Started, for mutation runs: the counter stays.
Started_SameId(deadline) ==
  /\ next_id' = next_id
  /\ due' = Put(due, next_id, deadline)
  /\ live' = live \cup {next_id}
  /\ UNCHANGED <<fired, reported>>

\* nextId() gave out next_id for a timer with this deadline.
Started(deadline) ==
  /\ next_id' = next_id + 1
  /\ due' = Put(due, next_id, deadline)
  /\ live' = live \cup {next_id}
  /\ UNCHANGED <<fired, reported>>

\* Cancel(id) answered true.
Stopped(id) ==
  /\ live' = live \ {id}
  /\ UNCHANGED <<next_id, due, fired, reported>>

\* The action of timer id is called.
Fired(id) ==
  /\ live' = live \ {id}
  /\ fired' = Append(fired, id)
  /\ UNCHANGED <<next_id, due, reported>>

\* Update(now) is called.
Reported(now) ==
  /\ reported' = Service!Later(reported, now)
  /\ UNCHANGED <<next_id, due, live, fired>>

\* The owner destroys the scheduler, outside any Update; no timer fires.
Discarded ==
  /\ status = "running"
  /\ frames = <<>>
  /\ status' = "destroyed"
  /\ live' = {}
  /\ UNCHANGED <<clock, next_id, frames, due, fired, reported>>

\* A call of Start is possible within the bound on timers.
MayStart == MayCall /\ next_id < FirstId + MaxStarts

\* A call of Update is possible within the bound on nesting; the caller reads
\* the clock, and the call may begin a little later.
MayUpdate(now) ==
  /\ MayCall
  /\ Len(frames) < MaxDepth
  /\ \E lag \in Lags : now = clock - lag /\ now >= 0

-----------------------------------------------------------------------------
(* Actions common to the schedulers.                                       *)

\* Time passes, outside the scheduler or while a timeout action runs (the
\* loop of Update does not read the clock).  A negative step is a system
\* clock set back: CurrentTimeMillis is system_clock, not steady_clock.
Elapse ==
  /\ MayCall
  /\ \E s \in Steps :
       /\ clock + s \in 1 .. Horizon
       /\ clock' = clock + s
  /\ UNCHANGED <<next_id, frames, status, ledger>>

\* The timeout action returns to the loop of the Update that called it.
ActionReturns ==
  /\ InPhase("callback")
  /\ frames' = SetTop([Top EXCEPT !.phase = "loop"])
  /\ UNCHANGED <<clock, next_id, status, ledger>>

\* The Update on top of the stack returns to its caller.
Returned ==
  /\ frames' = Pop
  /\ UNCHANGED <<clock, next_id, status, ledger>>

-----------------------------------------------------------------------------
(* The loop of Update in the three schedulers that keep their timers in    *)
(* order (a tree, two heaps): it holds the time it was told and, in        *)
(* max_id, the next id at its beginning.                                   *)
LoopFrame == [now : Nat, max_id : Nat, phase : {"loop", "callback"}]

\* Update(now) is called; it returns at once when it finds no timer at all.
EntersLoop(now, idle) ==
  /\ MayUpdate(now)
  /\ Reported(now)
  /\ frames' = IF idle
               THEN frames
               ELSE Push([now |-> now, max_id |-> next_id, phase |-> "loop"])
  /\ UNCHANGED <<clock, status>>

\* The loop calls the action of timer id.
CallsAction(id) ==
  /\ Fired(id)
  /\ frames' = SetTop([Top EXCEPT !.phase = "callback"])
  /\ UNCHANGED <<clock, status>>

-----------------------------------------------------------------------------
\* The ids that Start has returned.
Ids == FirstId .. next_id - 1

BaseTypeOK ==
  /\ clock \in 1 .. Horizon
  /\ next_id \in Nat
  /\ next_id >= FirstId
  /\ due \in [Ids -> Nat]
  /\ live \subseteq Ids
  /\ fired \in Seq(Ids)
  /\ reported \in Nat

\* A step in which a timeout action is called, and the timer it belongs to.
FiringStep == Len(fired') > Len(fired)
FiredNow   == fired'[Len(fired')]

-----------------------------------------------------------------------------
(* That calls of Update end is stated as a measure of what each still has  *)
(* to do, which no step of any activation raises and which a step of its   *)
(* own loop lowers.                                                        *)

\* Of the timers in "held" and those not yet started, the ones that activation
\* k of a loop with a max_id may still come to.
InReach(k, held) == {id \in FirstId .. frames[k].max_id : id \in held \/ id >= next_id}

\* Two measures of several numbers, the most significant first.
Lower(m, n) ==
  \E i \in DOMAIN n :
    /\ m[i] < n[i]
    /\ \A j \in 1 .. i - 1 : m[j] = n[j]
=============================================================================
