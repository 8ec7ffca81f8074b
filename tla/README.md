# Timer schedulers: TLA+ models, model checking and proofs

The repository implements one interface, `TimerBase`, with five data structures
and benchmarks them. This directory holds TLA+ models of the five schedulers, an
abstract contract of the interface, TLC configurations that check the models on
small instances, and TLAPS proofs for all instances.

## 1. Inventory

| Part | State | Operations | What makes it correct |
|---|---|---|---|
| `TimerBase.{h,cpp}` | `next_id_` | `nextId`, the virtual `Start`, `Cancel`, `Update`, `Size`; `CreateTimer` | ids are fresh; a timer fires at most once, not before an `Update` was told its deadline, and never after `Cancel` answered true |
| `RBTreeTimer` | `timers_` (multimap of keys), `ref_` (id to key) | `Start`, `Cancel`, `Update` | both maps hold the same timers; timers fire in key order; `Update` leaves no due timer |
| `PriorityQueueTimer` | `timers_` (binary heap of node pointers), `ref_` (id to node), `index` in each node | `Start`, `Cancel` (removes from the middle), `Update` | every `index` is right, so that `Cancel` removes the right node; due timers drain |
| `QuadHeapTimer` | `timers_` (4-ary heap), `ref_`, `deleted` marks | `Start`, `Cancel` (marks), `Update` (fires and purges) | heap order; marked nodes neither fire nor stay for ever |
| `HashedWheelTimer`, `HashedWheelBucket` | `ticks_`, `last_time_`, `started_at_`, `wheel_`, `ref_`; bucket and rounds of each timeout | `Start`, `Cancel`, `Update`/`tick`, `ExpireTimeouts` | each timeout is linked once; it expires when the wheel has come to its deadline |
| `HHWheelTimer`, `timer_list`, `list_impl.h` | `timer_clk`, five levels of slots, `ref_`, `actions_` | `Start`, `Cancel`, `Update`/`run_timers`, `cascade` | each timer is on one list, in a slot that the clock reaches in time |
| `Clock` | `clock_offset_`, and the system clock | `CurrentTimeMillis`, `TimeFly`, `TimeReset` | none: it may be set back |
| `Logging` | handler, silencer count | `LogMessage::Finish` | only what `LOG(FATAL)` does to the process is modelled |
| `CmdFlag`, `Preprocessor.h` | flags, macros | | not modelled: no scheduler reads them |
| `test/` | | the callers | modelled as the environment |
| `3rd/` | | | vendored, not modelled |

**How they interact.** Everything runs in one thread. A caller calls `Start`,
`Cancel` and `Update`; `Update` calls timeout actions, and an action may call
any of the three on the same scheduler. So the concurrency of this program is
*reentrancy*: each action runs in the middle of a loop that holds a key, an
iterator, a node, `max_id`, a list of expired timeouts or a detached work list.
The schedulers read the clock, which moves between any two calls and during an
action, and can be set back.

**Hard behaviours.** Actions that cancel timers which the loop has already taken,
start timers that are due at once, or call `Update` again; intermediate states
of the sift loops and of the cascade; lazy deletion; arithmetic at the edges
(int cast, moduli, level boundaries, timers in the past); a clock set back; and
that a due timer ends at all. PROJECT.json lists each one with its line and the
properties that would show it going wrong.

## 2. Modules

| Module | Models |
|---|---|
| `TimerService` | the contract of the interface, abstract: `Start`, `Cancel`, `Update`, `Fire`, `Discard` |
| `TimerBase` | what the schedulers share: the clock, `next_id_`, the stack of `Update` activations, and a ledger of what the caller was told |
| `RBTreeTimer`, `PriorityQueueTimer`, `QuadHeapTimer`, `HashedWheelTimer`, `HHWheelTimer` | one scheduler each, on top of `TimerBase` |
| `MC<scheduler>` | constants of the finite instances |
| `TimerService_proofs`, `TimerBase_proofs` | theorems about the contract; lemmas about lists, vectors, the ledger and its mapping to the contract, and what cannot go down for ever |
| `UpdateLoop_proofs` | lemmas about the loop of `Update` that the three ordered schedulers (tree, heaps) share |
| `<scheduler>_proofs` | the theorems about one scheduler |

Every scheduler EXTENDS `TimerBase`, which instantiates `TimerService` under the
mapping that leaves `next_id` and the ledger as they are; `ImplementsService`,
`Service!Spec`, is then the refinement. `HashedWheelTimer` fires early and cannot
implement it: it implements the contract without deadlines, through a second
instance that maps every deadline to 0 (`ImplementsUntimed`).

**Steps.** A call from outside or from an action is one step, when it contains no
loop that calls back. `Update` is several: the entry with its early returns, one
step per way through an iteration, the return of an action, and the exit. The
variable `frames` is the call stack of active `Update`s: each frame holds the
loop's local variables (`now`, `max_id`, work or expired list, level) and its
phase. A caller acts when the stack is empty or the top frame is in an action.
The sift loops of the two heaps, the scan of a bucket and the re-insertion of a
cascaded list are steps too, one per iteration, so that the invariants say what
holds inside them; nothing else happens until they are done.

**Data left out.** Actions are known by their timer's id. Null actions (which the
red-black tree does not count), the number that `Update` returns, `Size` (its
value is a function of the state), capacities and wording of log messages are not
modelled. A `Cancel` of an unknown id changes nothing and is not a step.

**Correspondence worth knowing.**

- *RBTreeTimer.* The multimap is a set of keys, `First` its `begin()`. Ties are
  broken by descending id, as `NodeKey::operator<` does.
- *PriorityQueueTimer.* `siftupTimer`, and the choice of a child in
  `siftdownTimer`, compare pointers. Addresses are not determined by the program:
  each node gets a rank among the addresses, any that is free (`addr`).
  `removeTimer` pops the vector last; the loops are told a length without the
  removed node, so the model removes it first.
- *QuadHeapTimer.* The code carries the moving node in a local and stores it at
  the end; the model stores it in each iteration. `deltimer` is never called and
  not modelled. The `CHECK`s on `when > 0` hold as the clock is positive. The
  destructor deletes only the nodes in `ref_`: after `Destroy` the variable
  `deleted` holds the leaked nodes. The
  name `TimerNode` is defined differently in two files; each file is modelled with
  its own.
- *HashedWheelTimer.* `AsInt` is the cast of HashedWheelTimer.cpp:53, which comes
  before the division; `Quotient` truncates as C++ does. A frame's `at` is the
  position of the scan in its bucket. `ticks_` advances after
  the actions of the tick, so a nested `Update` visits the same bucket again. A
  fatal check and a call through a null bucket end the run (status `aborted`,
  `segfault`).
- *HHWheelTimer.* Lists are sequences in list order, with `Unlink` for
  `detach_timer`, which works on whatever list the timer is on. `cascade` moves on
  before it adds: the first timer is added nowhere (`lost`, in `CascadeBegins`), and the list head, a
  dead local, is added as if it were a timer, under an expiry that the stack
  happens to hold: to any slot (`ghosts`, in `CascadeEnds`). What the code does when it later
  touches either is undefined; such a step ends the run (status `undefined`), and
  the properties speak about everything before it.

## 3. Runs

Every passing run checks one type invariant per scheduler and the properties
below; each property is also shown to fail for a mutated operator of the model
(operators `X_Something` beside `X`).

| Run | Bounds | Shows |
|---|---|---|
| `rbtree` | 3 timers, durations 0, 1, 3, clock 1..4, Updates two deep | `MapsAgree`: tree, hash map and ledger agree at every step. `ImplementsService`. `EarliestFirst`: each firing is of the earliest live timer, newest of several. `UpdateComplete`: on return no live timer is due before `now`, nor exactly at `now` if nothing was started meanwhile (a new timer with the same deadline sorts before an older one and may end the loop in front of it). `UpdateEnds`: no action or nested `Update` gives a loop more timers to fire, and each iteration leaves fewer. `DueTimersEnd`: a due timer ends |
| `pq` | 4 timers (three heap levels), all orders of addresses, durations 0, 1, clock 1..2, two deep | `IndexAgrees`: in the middle of the sift loops too, `ref_`, `index` and the heap agree. `ImplementsService`. `UpdateEnds`, for the sift loops too. `DueTimersGo`: the heap, unordered as it is, drains when all its timers are due |
| `quad` | 5 timers (the root has up to four children, and up to three once a sift-down, which follows a pop, begins: the fourth of `siftdownTimer` is left to the proofs), durations 0, 3, two deep | `NodesAgree`: each node is in the heap once, live or marked. `HeapOrder`: in the sift loops too. `ImplementsService`, `EarliestFirst`, `UpdateComplete`. `LeakBound`: the destructor leaks no node older than the last `Update`. `UpdateEnds`, counting purges. `DueNodesLeave`: marked nodes are purged in the end |
| `hashed` | wheel of 4 buckets, ticks of 4 counted as 2, 6-bit int, 3 timers, durations 0, 9 (within a turn), 18 (a round more), 33 (overflows the int), clock that goes back, two deep | `HeldOnce`: each timeout is linked once in the bucket it points to, or waits once on the list of expired ones of one tick. `ImplementsUntimed`. `WheelTimeReached`: an action runs only when the wheel has counted to its deadline. `UpdateEnds`: ticks, scans and firings run out, though nested Updates advance `ticks_` |
| `hhwheel` | two slots a level, 3 timers, durations 1, 4 (levels 1 to 3), clock 1, 4, 7 that goes back, two deep | `LinkedOnce`, `OnSchedule`: until the wheel's clock passes an expiry, the next visit of the timer's slot is in time, and on level 1 not early. `ImplementsService`. `TickMissesNone`: the tick that passes an expiry takes the timer. `FifoOnceAhead`: of two timers with one expiry, the one ahead stays ahead through cascades, cancellations and nested Updates. `UpdateEnds`: ticks, cascades and work lists run out. `OverdueTimersEnd`: a timer, one from the past too, ends once the clock is a turn of level 1 past its expiry, if no cascade lost it |

*Why these bounds are enough.* All hazards are about the relation of a few timers:
one that fires, one that its action touches, one that must not be disturbed. The
instances hold three or more, let actions nest twice, and let the clock reach,
pass and (in the wheels) fall behind deadlines. Wheel sizes, tick lengths and the
int are scaled down with their ratios' direction kept (ticks longer than the unit
they are counted in, a wheel smaller than the longest duration, an int smaller
than that), so that every branch of the placement is taken, apart from levels 4
and 5, for which the proofs stand. `MaxStarts`, `Horizon` and `MaxDepth` bound the state space and appear in
the guards `MayStart`, `MayUpdate` and `Elapse`.

*Fairness.* Weak fairness for the steps of the loops: the code runs them without
waiting. Strong fairness for the return of actions: an action may call `Update`
any number of times, but returns. Weak fairness for time, and for an `Update` by
the owner, outside any other, with the time it just read: test/TestTimer.cpp:100-103
does exactly this. Nothing is assumed of `Start` and `Cancel`. In `hhwheel`, where
time may also be set back, it is time going *on* that is fair, and strongly: the
model lets no time pass inside a loop, but the clock itself stops for no `Update`.
`OverdueTimersEnd` has two premises of its own: the clock is not set back for ever
(`<>[][clock' >= clock]_clock`), and the bound on the clock leaves the wheel a turn
of level 1 to make (`TurnLeft`).

*Deadlock* is checked everywhere; the end of a run (destroyed, aborted) is the
explicit stuttering step `Ended`.

### Where the code departs from what it says

Each is a run that TLC must find violated; PROJECT.json quotes the lines.

| Run | What happens |
|---|---|
| `rbtree_new` | `key.id > max_id` compares with the *next* id: the first timer that an action starts fires in the same `Update` if it is due. The two heaps make the same test |
| `pq_expired` | pointers are compared for deadlines: an `Update` leaves due timers behind |
| `hashed_early` | the wheel makes a tick of 100 ms for every 10 ms: with that ratio, a timer started at 1 for 21 fires when the clock shows 5 |
| `hashed_slot` | `ticks_ % (WHEEL_SIZE - 1)` against `ticks & (WHEEL_SIZE - 1)`: a timer that has a round to wait is found too early and the process ends |
| `hashed_cancel` | an action that cancels its own timer, or one of the same tick that has not run yet, calls through a null bucket |
| `hhwheel_past` | a timer that has expired by the wheel's clock when it is started, as one of duration 0 right after an `Update` has, goes to the slot of its own expiry, up to a turn (255 ms) away, and not to the next tick: the branch meant for it comes after a test that is true for it |
| `hhwheel_cascade` | the first timer of a cascaded list is lost |

Differences that no run states, since a property above already takes them into
account: `QuadHeapTimer::Size` counts marked nodes (TimerBase.h:59 says pending
timers; see `NodesAgree`); bucket `WHEEL_SIZE - 1` of the hashed wheel is never
visited; of two timers with one deadline in the hierarchical wheels, one
that was put into the slot directly fires before an earlier one that a cascade
brings to the slot later, although README.md:39 answers "yes" to FIFO and
README.md:29 says what that means. `FifoOnceAhead` states what order the code
does keep.

## 4. Proofs

All proofs are checked by TLAPS, for every value of the constants: any number of
timers, any depth of nesting, any clock, any size of wheel.

| Module | Theorem | Says |
|---|---|---|
| `TimerService_proofs` | `ContractSafe` | the contract implies: each action is called at most once, never for a pending timer, never early |
| | `ContractCancel` | a canceled (or fired, or discarded) timer is never live and never fires again |
| `RBTreeTimer_proofs` | `TypeCorrect`, `MapsAlwaysAgree` | `TypeOK`, `MapsAgree` |
| | `Implements` | implements the contract, and with it has the two properties above |
| | `FiresInOrder` | `EarliestFirst`, also when the clock is set back |
| | `UpdateReachesDue` | `UpdateComplete`, with its exception for timers due exactly at `now`, if no step of the clock is negative |
| | `UpdatesEnd` | `UpdateEnds`: whatever actions start and nest, a loop of `Update` has ever fewer timers to come to |
| `QuadHeapTimer_proofs` | `TypeCorrect`, `NodesAlwaysAgree`, `AlwaysInOrder` | `TypeOK`, `NodesAgree`, `HeapOrder`, inside the sift loops too |
| | `Implements`, `FiresInOrder` | the contract, and `EarliestFirst` |
| | `UpdateReachesDue`, `LeaksLittle` | `UpdateComplete` (with the same exception) and `LeakBound`, if no step of the clock is negative |
| | `UpdatesEnd` | `UpdateEnds`, of the loop that fires and purges and of the sift loops |
| `PriorityQueueTimer_proofs` | `TypeCorrect`, `PlacesAlwaysKnown`, `Implements` | `TypeOK`, `IndexAgrees`, the contract, whatever the addresses |
| | `UpdatesEnd` | `UpdateEnds`, of both loops, whatever the addresses |
| `HashedWheelTimer_proofs` | `TypeCorrect`, `AlwaysHeldOnce`, `FiresAtWheelTime` | `TypeOK`, `HeldOnce`, `WheelTimeReached` |
| | `Implements` | the contract without deadlines, `ImplementsUntimed` |
| | `UpdatesEnd` | `UpdateEnds` |
| `HHWheelTimer_proofs` | `TypeCorrect`, `AlwaysLinkedOnce` | `TypeOK`, `LinkedOnce` |
| | `Implements` | the contract, so that no timer fires early, twice or after `Cancel` |
| | `AlwaysOnSchedule`, `TicksMissNone` | `OnSchedule`, `TickMissesNone`: slots are emptied in time, for wheels of any size |
| | `KeepsOrder` | `FifoOnceAhead` |
| | `UpdatesEnd` | `UpdateEnds`: ticks, cascades and work lists run out |

*Assumptions.* `BaseAssumption` (durations, lags and bounds are natural numbers,
epochs lie within the horizon, clock steps are integers), for the contract that
deadlines are integers and times naturals, `HashedWheelAssumption` (a wheel of at
least two buckets, positive durations of a tick and a unit) and `WheelAssumption`
(at least one slot on level 1 and two on the others). The theorems that need a
clock that is never set back assume `Steps \subseteq Nat` in their statement.

*The contract.* The inductive invariant is `TypeOK`, `FiresOnce` and `NeverEarly`
together.

*The three ordered schedulers.* `UpdateLoop_proofs` abstracts them: `LoopStep`
lists what a scheduler with `Update`'s loop may do to the clock, the stack and the
ledger, and `LoopQuiet` the steps among these that neither fire nor return. Its
invariant `LoopInv` says, beyond types, that no active `Update` was told a time
later than the latest one reported: the refinement needs this, because a firing
must not be earlier than any `Update` the contract has seen. Each scheduler
module proves that its own invariant is inductive, that each of its steps is a
`LoopStep`, and inherits the refinement. `UpdateComplete` needs more: the loop
stops at the first new timer, and what stands behind that is safe only because,
with a clock that never goes back, a new timer's deadline is not before the time
any active `Update` was told, and its id is larger than that of every older one.

*RBTreeTimer.* `MapsAgree` is what lets the first key of the tree stand for the
earliest live timer; that `First` is the least key comes from the lemma `LeastNat`.

*QuadHeapTimer.* `HeapOrder` is inductive with the type and `NodesAgree`: while a
node moves, every pair of parent and child is in order except those it belongs to,
and its own parent and children are in order across it. From it the root is the
least node, along the path from a node to the root, again by `LeastNat`.

*PriorityQueueTimer.* `IndexAgrees` is inductive with the type; order plays no part,
since there is none.

*HashedWheelTimer.* `HeldOnce` needs `TicksRight`: an active tick in an action has
that timer at the head of its list, a tick not yet scanned has an empty list or is
under way, and all timers on a list are due by the wheel's time. The last conjunct
is preserved by nested ticks, which only move the wheel's time on, and gives
`WheelTimeReached`.

*HHWheelTimer.* The refinement needs that a timer which fires has expired, though
`run_timers` never looks at expiries. The invariant says why. `SlotsRight`: a
timer in a slot of level 1 has expired by the next tick that empties that slot;
`Place` and every cascade establish it (`PlaceIs`, by `TurnApart`: two times that
share a slot are a turn apart), and the clock keeps it. `StackRight`: the timers
on the work list of an `Update` expired by the time it was told, and the wheel's
clock has not gone past that time before the tick is done.

That timers are reached *in time* needs `Right` beside it, three facts about the
slots and the cascade. `OnTime`: some tick empties the slot of each timer, no later
than its expiry or, for a timer from the past, than a turn of level 1 (`Limit`): the
proof needs a bound for these too, though `OnSchedule` speaks of the others only. `Place` establishes it (`PlaceTimely`: the slot
begins between the wheel's clock and the expiry, by `PlaceParts` at least a slot
and less than a turn ahead), and a tick that does not empty the slot keeps it,
because the one that `OnTime` promises is then still to come. That a tick does
empty every slot that begins with it is `TickRight`: before the tick takes its
slot of level 1, the slots above that begin with it (`Aligned`; by `AlignedNext`
those that `run_timers` finds by its tests for index 0) have been emptied, and
the cascade puts no timer back into them (`PlaceApart`). `WorkPast`: timers
detached by an outer `Update` expired before the wheel's clock, so a timer that
expires with the tick can only be in a slot.

*FifoOnceAhead.* With `IInv`, each step is followed through the lists: `Append`,
`Tail` and `Without` keep the order of what they leave, and a cascade places two
timers of one expiry in the same slot, the one ahead first. `Ahead` does
not ask that the process is still defined: a second cascade may meet a dead list
head with one of the two placed and the other not, which takes four timers, one
more than the checked instance has.

*UpdateEnds.* That `Update` terminates is not obvious: its loops test what the
actions change, and an action that starts a timer due at once gives the loop
another one to fire. The property gives every active `Update` a measure that no
step raises, of whatever activation, and that every step of its own loop lowers.

- The ordered schedulers: the timers in `InReach`, those held with an id up to
  `max_id`, and the ids up to `max_id` not yet given out (one at most: the test is
  `id > max_id` where `max_id` is the next id). A firing takes an id out for ever,
  because ids are not given out twice (`ReachShrinks`, `FiringLeavesReach` in
  `UpdateLoop_proofs`). The heaps' sift loops have a bound on their iterations
  beside it; in `PriorityQueueTimer` the one that goes up follows the one that goes
  down, so that this one counts twice.
- The wheels: triples, compared with `Lower`, the most significant number first.
  In `HashedWheelTimer` ticks left, whether the bucket is still to be scanned, and
  entries of it or timeouts left; in `HHWheelTimer` milliseconds left, stages of the
  tick left (each level's cascade and placing, by `Stage` in the proof), and
  timers left on the work list. The proof needs that an `Update` below the top of
  the stack is in an action (`Suspended` there, a part of `StackRight` here), where its
  measure depends on its own frame and, in `HHWheelTimer`, on a clock that only
  moves on; and that `Cancel`, which unlinks timers from the work lists of outer
  Updates, makes no list longer (`WithoutLength`).

The lemmas `LoweringEnds` and `ShrinkingEnds` (`TimerBase_proofs`) say that such a measure cannot go down for ever;
that it is one, a triple of naturals or a set within an interval, is `ToDoIs` and
the definition of `InReach`. Between two steps of its own an `Update` waits only for
an action, whose return is the caller's affair.

*Only model-checked:* the four liveness properties (`DueTimersEnd`, `DueTimersGo`,
`DueNodesLeave`, `OverdueTimersEnd`), since `ENABLED` and fairness are out of the
prover's reach. Their safety halves are proved: an `Update` that keeps running comes
to its end (`UpdateEnds`); in the tree and the 4-ary heap one that has ended left
no due timer behind, if the clock is not set back (`UpdateComplete`), and in the
hierarchical wheels slots are emptied in time (`OnSchedule`, `TickMissesNone`).
`PriorityQueueTimer` has only the first half: it leaves due timers behind, and that
it drains is seen by TLC alone.

## 5. Not modelled

- *Vendored code.* `src/3rd` (googletest, benchmark) is almost all of the
  repository's lines (over 95 %), and none of it is part of a scheduler: it is left
  aside as third-party code. Of `src/src`, the five schedulers, their lists and
  buckets, the interface and the clock they read are modelled.
- *In the schedulers:* overflow of `next_id_` after 2^31 timers, exceptions thrown
  by actions, null actions, destroying a scheduler from within one of its actions,
  functions that nothing calls (`deltimer`, `migrate_timer_list`,
  `mod_timer_pending`, `ClearTimeouts`, `pollTimeout`).
- *Liveness of `HashedWheelTimer`.* There is none to state: bucket
  `WHEEL_SIZE - 1` is never visited, and a nested `Update` advances `ticks_` under
  the outer loop, so that the bucket an unfinished tick was about to leave is
  counted twice and others are passed over until the next turn. That each `Update`
  ends is another matter, and proved (`UpdatesEnd`).
- *Output and options:* `CurrentTimeString`, `GetNowTickCount`, logging apart from
  `LOG(FATAL)`, flags, benchmarks.

## 6. Plan

Written, in this order: the contract; what the schedulers share; `RBTreeTimer` with
its proofs; the two wheels; the two heaps; the proofs of the four other schedulers;
the termination of `Update` in all five. What is left:

1. Reuse of ids after `next_id_` overflows.
