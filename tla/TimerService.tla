---------------------------- MODULE TimerService ----------------------------
(***************************************************************************)
(* What the interface TimerBase (src/TimerBase.h) promises its caller,     *)
(* whatever data structure stands behind it: Start hands out fresh         *)
(* ascending ids, a timer that was started is live until it fires or is    *)
(* canceled, it fires at most once and only after Update was told a time   *)
(* that reaches its deadline, and a canceled timer never fires.            *)
(*                                                                         *)
(* The schedulers are shown to implement this specification; nothing here  *)
(* says how they find the timers that are due.                             *)
(***************************************************************************)
EXTENDS Integers, Sequences, Functions

CONSTANTS
  Deadlines,  \* the deadlines, integers, that a timer may be started with
  Times       \* the times, natural numbers, that an Update may be told

VARIABLES
  next_id,   \* the id the next Start returns
  due,       \* deadline of every timer ever started, a function on its ids
  live,      \* started, and neither fired, canceled nor discarded
  fired,     \* ids in the order in which their actions were called
  reported   \* the latest time an Update was told

vars == <<next_id, due, live, fired, reported>>

\* The value of TimerBase::next_id_ in a new scheduler, "a magic number".
FirstId == 2020

\* f extended (or overridden) with the pair k -> v.
Put(f, k, v) == [x \in DOMAIN f \cup {k} |-> IF x = k THEN v ELSE f[x]]

Later(a, b) == IF a >= b THEN a ELSE b

-----------------------------------------------------------------------------
Init ==
  /\ next_id = FirstId
  /\ due = [x \in {} |-> 0]
  /\ live = {}
  /\ fired = <<>>
  /\ reported = 0

Start(deadline) ==
  /\ next_id' = next_id + 1
  /\ due' = Put(due, next_id, deadline)
  /\ live' = live \cup {next_id}
  /\ UNCHANGED <<fired, reported>>

Cancel(id) ==
  /\ id \in live
  /\ live' = live \ {id}
  /\ UNCHANGED <<next_id, due, fired, reported>>

\* Update is told a time; the firings that it causes are steps of their own.
Update(now) ==
  /\ reported' = Later(reported, now)
  /\ UNCHANGED <<next_id, due, live, fired>>

Fire(id) ==
  /\ id \in live
  /\ due[id] <= reported
  /\ live' = live \ {id}
  /\ fired' = Append(fired, id)
  /\ UNCHANGED <<next_id, due, reported>>

\* The scheduler is destroyed: its timers are dropped without firing.
Discard ==
  /\ live' = {}
  /\ UNCHANGED <<next_id, due, fired, reported>>

Next ==
  \/ \E deadline \in Deadlines : Start(deadline)
  \/ \E id \in live : Cancel(id) \/ Fire(id)
  \/ \E now \in Times : Update(now)
  \/ Discard

Spec == Init /\ [][Next]_vars

-----------------------------------------------------------------------------
TypeOK ==
  /\ next_id \in Nat
  /\ next_id >= FirstId
  /\ due \in [FirstId .. next_id - 1 -> Int]
  /\ live \subseteq FirstId .. next_id - 1
  /\ fired \in Seq(FirstId .. next_id - 1)
  /\ reported \in Nat

(***************************************************************************)
(* No action is called twice, and a timer whose action was called is no    *)
(* longer pending: a Cancel that answers true, after the action ran, is    *)
(* excluded too.                                                           *)
(***************************************************************************)
FiresOnce ==
  /\ \A i, j \in DOMAIN fired : fired[i] = fired[j] => i = j
  /\ \A i \in DOMAIN fired : fired[i] \notin live

\* No action is called before an Update has reached the timer's deadline.
NeverEarly == \A i \in DOMAIN fired : due[fired[i]] <= reported

\* A timer that was canceled (or discarded) is never live again and its
\* action is never called afterwards.
CancelIsFinal ==
  [][\A id \in DOMAIN due \ live :
        /\ id \notin live'
        /\ Len(fired') > Len(fired) => fired'[Len(fired')] # id]_vars
=============================================================================
