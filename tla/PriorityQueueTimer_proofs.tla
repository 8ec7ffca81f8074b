---------------------- MODULE PriorityQueueTimer_proofs ----------------------
(***************************************************************************)
(* Proofs about PriorityQueueTimer, for every value of its constants and   *)
(* every order of the addresses.  That the heap is in no order that        *)
(* matters does not touch the contract; what does is that every node knows *)
(* its place, and that a sift loop is at a place of the heap.              *)
(***************************************************************************)
EXTENDS PriorityQueueTimer, UpdateLoop_proofs

SiftInHeap == sift.dir # "none" => sift.at \in DOMAIN timers

IInv == LoopInv /\ TypeOK /\ IndexAgrees /\ SiftInHeap

\* What a step must keep besides the loop's invariant.
HeapKept ==
  /\ timers' \in Seq(Ids')
  /\ index' \in [DOMAIN index' -> Nat]
  /\ addr' \in [Ids' -> 1 .. MaxStarts]
  /\ sift' \in [dir : {"none", "up", "down"}, at : Nat, from : Nat]
  /\ IndexAgrees'
  /\ SiftInHeap'

-----------------------------------------------------------------------------
\* The entries of the heap are the live timers.
LEMMA Entries ==
  ASSUME IInv
  PROVE  /\ DOMAIN timers = 1 .. Len(timers)
         /\ Len(timers) \in Nat
         /\ \A k \in DOMAIN timers : timers[k] \in live /\ index[timers[k]] = k
         /\ live \subseteq Ids
         /\ timers # <<>> => 1 \in DOMAIN timers
BY Elements, EmptySeq DEF IInv, TypeOK, BaseTypeOK, IndexAgrees

\* Both places that a swap of siftupTimer touches are in the heap ...
LEMMA RisesIn ==
  ASSUME IInv, sift.dir = "up", Rises
  PROVE  sift.at \in DOMAIN timers /\ Parent(sift.at) \in DOMAIN timers
<1>1. sift.at \in 1 .. Len(timers) /\ sift.at > 1 /\ Len(timers) \in Nat
  BY Entries DEF Rises, IInv, SiftInHeap
<1>2. Parent(sift.at) \in 1 .. Len(timers)
  BY <1>1 DEF Parent
<1> QED
  BY <1>1, <1>2, Entries

\* ... and so are those of siftdownTimer.
LEMMA SinksIn ==
  ASSUME IInv, sift.dir = "down", Sinks
  PROVE  sift.at \in DOMAIN timers /\ Child(sift.at) \in DOMAIN timers
<1>1. sift.at \in 1 .. Len(timers) /\ 2 * sift.at <= Len(timers) /\ Len(timers) \in Nat
  BY Entries DEF Sinks, IInv, SiftInHeap
<1>2. Child(sift.at) \in 1 .. Len(timers)
  BY <1>1 DEF Child
<1> QED
  BY <1>1, <1>2, Entries

\* Two nodes that change places know their new ones.
LEMMA SwapAgrees ==
  ASSUME IInv, NEW j \in DOMAIN timers, NEW k \in DOMAIN timers,
         Swap(j, k), live' = live
  PROVE  /\ timers' \in Seq(Ids)
         /\ DOMAIN timers' = DOMAIN timers
         /\ index' \in [DOMAIN index' -> Nat]
         /\ IndexAgrees'
<1> USE DEF IInv
<1>1. /\ timers' \in Seq(Ids) /\ DOMAIN timers' = DOMAIN timers
      /\ \A i \in DOMAIN timers :
           timers'[i] = IF i = k THEN timers[j] ELSE IF i = j THEN timers[k] ELSE timers[i]
  BY SwappedIs DEF Swap, TypeOK
<1> DEFINE a == timers[j]
           b == timers[k]
<1>2. a \in live /\ b \in live /\ index[a] = j /\ index[b] = k
  BY Entries
<1>3. /\ DOMAIN index' = live
      /\ \A id \in live : index'[id] = IF id = b THEN j ELSE IF id = a THEN k ELSE index[id]
  BY <1>2 DEF Swap, IndexAgrees
<1> HIDE DEF a, b
<1>4. \A id \in live : index[id] \in DOMAIN timers /\ timers[index[id]] = id
  BY DEF IndexAgrees
<1>5. ASSUME NEW id \in live
      PROVE  index'[id] \in DOMAIN timers' /\ timers'[index'[id]] = id
  <2>1. CASE id = b
    BY <1>1, <1>2, <1>3, <2>1 DEF a, b
  <2>2. CASE id # b /\ id = a
    BY <1>1, <1>2, <1>3, <2>2 DEF a, b
  <2>3. CASE id # b /\ id # a
    <3>1. index'[id] = index[id] /\ index[id] # j /\ index[id] # k
      BY <1>3, <1>4, <2>3 DEF a, b
    <3> QED BY <1>1, <1>4, <3>1
  <2> QED BY <2>1, <2>2, <2>3
<1>6. ASSUME NEW i \in DOMAIN timers'
      PROVE  timers'[i] \in live /\ index'[timers'[i]] = i
  <2>1. \A m \in DOMAIN timers : timers[m] \in live /\ index[timers[m]] = m
    BY Entries
  <2>2. CASE i = k
    BY <1>1, <1>2, <1>3, <2>2 DEF a, b
  <2>3. CASE i # k /\ i = j
    BY <1>1, <1>2, <1>3, <2>3 DEF a, b
  <2>4. CASE i # k /\ i # j
    <3>1. timers'[i] = timers[i] /\ timers[i] # a /\ timers[i] # b
      BY <1>1, <1>2, <2>1, <2>4
    <3> QED BY <1>1, <1>3, <2>1, <3>1
  <2> QED BY <2>2, <2>3, <2>4
<1>7. index' \in [DOMAIN index' -> Nat]
  <2>1. \A id \in live : index'[id] \in Nat
    BY <1>1, <1>5, Entries
  <2>2. index' = [id \in DOMAIN index' |-> index'[id]]
    BY DEF Swap
  <2> QED BY <1>3, <2>1, <2>2
<1> QED
  BY <1>1, <1>3, <1>5, <1>6, <1>7 DEF IndexAgrees

\* The node that takes the place of a removed one knows it.
LEMMA RemoveAgrees ==
  ASSUME IInv, NEW k \in DOMAIN timers, RemoveTimer(k), live' = live \ {timers[k]}
  PROVE  /\ timers' \in Seq(Ids)
         /\ index' \in [DOMAIN index' -> Nat]
         /\ IndexAgrees'
         /\ sift' \in [dir : {"none", "up", "down"}, at : Nat, from : Nat]
         /\ SiftInHeap'
<1> USE DEF IInv
<1> DEFINE n == Len(timers)
           a == timers[k]
           b == timers[n]
<1>1. n \in Nat /\ DOMAIN timers = 1 .. n /\ k \in 1 .. n /\ n \in DOMAIN timers
  BY Entries
<1>2. /\ timers' \in Seq(Ids) /\ DOMAIN timers' = 1 .. n - 1
      /\ \A i \in 1 .. n - 1 : timers'[i] = IF i = k THEN b ELSE timers[i]
  BY RefilledIs DEF RemoveTimer, TypeOK
<1>3. a \in live /\ b \in live /\ index[a] = k /\ index[b] = n
  BY <1>1, Entries
<1>4. /\ DOMAIN index' = live'
      /\ \A id \in live' : index'[id] = IF id = b THEN k ELSE index[id]
  BY <1>3 DEF RemoveTimer, IndexAgrees, Restrict
<1>5. sift' = IF k = n THEN Settled ELSE SiftFrom("down", k)
  BY DEF RemoveTimer
<1>6. index' = [id \in DOMAIN index' |-> index'[id]]
  BY DEF RemoveTimer, Restrict
<1> HIDE DEF a, b, n
<1>7. \A id \in live : index[id] \in DOMAIN timers /\ timers[index[id]] = id
  BY DEF IndexAgrees
<1>8. live' = live \ {a}
  BY DEF a
<1>9. ASSUME NEW id \in live'
      PROVE  index'[id] \in DOMAIN timers' /\ timers'[index'[id]] = id
  <2>1. CASE id = b
    <3>1. k # n
      BY <1>3, <1>8, <2>1 DEF a, b
    <3>2. k \in 1 .. n - 1
      BY <1>1, <3>1
    <3> QED BY <1>2, <1>4, <2>1, <3>2
  <2>2. CASE id # b
    <3>1. index'[id] = index[id] /\ index[id] # n /\ index[id] # k
      BY <1>4, <1>7, <1>8, <2>2 DEF a, b
    <3>2. index[id] \in 1 .. n - 1
      BY <1>1, <1>7, <1>8, <3>1
    <3> QED BY <1>2, <1>7, <1>8, <3>1, <3>2
  <2> QED BY <2>1, <2>2
<1>10. ASSUME NEW i \in DOMAIN timers'
       PROVE  timers'[i] \in live' /\ index'[timers'[i]] = i
  <2>0. \A m \in DOMAIN timers : timers[m] \in live /\ index[timers[m]] = m
    BY Entries
  <2>1. i \in 1 .. n - 1 /\ i \in DOMAIN timers /\ i # n
    BY <1>1, <1>2
  <2>2. CASE i = k
    <3>1. timers'[i] = b /\ b # a
      BY <1>2, <1>3, <2>1, <2>2
    <3> QED BY <1>3, <1>4, <1>8, <2>2, <3>1
  <2>3. CASE i # k
    <3>1. timers'[i] = timers[i] /\ timers[i] # a /\ timers[i] # b
      BY <1>2, <1>3, <2>0, <2>1, <2>3
    <3> QED BY <1>4, <1>8, <2>0, <2>1, <3>1
  <2> QED BY <2>2, <2>3
<1>11. index' \in [DOMAIN index' -> Nat]
  <2>1. \A id \in live' : index'[id] \in Nat
    BY <1>2, <1>9
  <2> QED BY <1>4, <1>6, <2>1
<1>12. sift' \in [dir : {"none", "up", "down"}, at : Nat, from : Nat] /\ SiftInHeap'
  <2>1. CASE k = n
    BY <1>5, <2>1 DEF Settled, SiftInHeap
  <2>2. CASE k # n
    BY <1>1, <1>2, <1>5, <2>2 DEF SiftFrom, SiftInHeap
  <2> QED BY <2>1, <2>2
<1> QED
  BY <1>2, <1>4, <1>9, <1>10, <1>11, <1>12 DEF IndexAgrees

LEMMA StartKept ==
  ASSUME IInv, NEW duration \in Durations, Start(duration)
  PROVE  HeapKept
<1> USE DEF IInv
<1> DEFINE n == Len(timers)
<1>1. Ids' = Ids \cup {next_id} /\ next_id \notin Ids
  <2>1. clock + duration \in Nat
    BY BaseAssumption DEF TypeOK, BaseTypeOK
  <2> QED BY <2>1, StartedType DEF Start, TypeOK
<1>2. /\ timers' = Append(timers, next_id) /\ index' = Put(index, next_id, n + 1)
      /\ sift' = SiftFrom("up", n + 1) /\ live' = live \cup {next_id}
      /\ \E rank \in 1 .. MaxStarts : addr' = Put(addr, next_id, rank)
  BY DEF Start, Started
<1>3. n \in Nat /\ DOMAIN timers = 1 .. n /\ live \subseteq Ids /\ next_id \notin live
  BY <1>1, Entries
<1>4. /\ timers' \in Seq(Ids') /\ DOMAIN timers' = 1 .. n + 1
      /\ timers'[n + 1] = next_id
      /\ \A k \in 1 .. n : timers'[k] = timers[k]
  <2>1. timers \in Seq(Ids') /\ next_id \in Ids'
    <3>1. Ids \subseteq Ids'
      BY <1>1
    <3> QED BY <1>1, <3>1, SeqMonotonic DEF TypeOK
  <2>2. /\ timers' \in Seq(Ids') /\ Len(timers') = n + 1
        /\ timers'[n + 1] = next_id
        /\ \A k \in 1 .. n : timers'[k] = timers[k]
    BY <1>2, <2>1, AppendProperties
  <2> QED BY <2>2, LenProperties
<1>5. addr' \in [Ids' -> 1 .. MaxStarts]
  <2>1. addr \in [Ids -> 1 .. MaxStarts]
    BY DEF TypeOK
  <2> QED BY <1>1, <1>2, <2>1 DEF Put, Service!Put
<1>6. /\ DOMAIN index' = live' /\ index'[next_id] = n + 1
      /\ \A id \in live : index'[id] = index[id]
      /\ index' = [id \in DOMAIN index' |-> index'[id]]
  BY <1>2, <1>3 DEF Put, Service!Put, IndexAgrees
<1>7. sift' = [dir |-> "up", at |-> n + 1, from |-> n + 1]
  BY <1>2 DEF SiftFrom
<1> HIDE DEF n
<1>8. \A id \in live : index[id] \in 1 .. n /\ timers[index[id]] = id
  BY <1>3 DEF IndexAgrees
<1>9. \A id \in live' : index'[id] \in DOMAIN timers' /\ timers'[index'[id]] = id
  BY <1>2, <1>3, <1>4, <1>6, <1>8
<1>10. \A k \in DOMAIN timers' : timers'[k] \in live' /\ index'[timers'[k]] = k
  BY <1>2, <1>3, <1>4, <1>6, Entries
<1>11. index' \in [DOMAIN index' -> Nat]
  <2>1. \A id \in live' : index'[id] \in Nat
    BY <1>3, <1>4, <1>9
  <2> QED BY <1>6, <2>1
<1>12. sift' \in [dir : {"none", "up", "down"}, at : Nat, from : Nat] /\ SiftInHeap'
  BY <1>3, <1>4, <1>7 DEF SiftInHeap
<1> QED
  BY <1>4, <1>5, <1>6, <1>9, <1>10, <1>11, <1>12 DEF HeapKept, IndexAgrees

-----------------------------------------------------------------------------
\* To the clock, the stack and the ledger, a step is one of the loop's.
LEMMA StepIsLoopStep ==
  ASSUME IInv, [Next]_vars
  PROVE  LoopStep
<1> USE DEF IInv
<1>1. ASSUME NEW duration \in Durations, Start(duration) PROVE LoopStep
  BY <1>1 DEF Start, CallerStarts, LoopStep, LoopQuiet
<1>2. ASSUME NEW id \in DOMAIN index, Cancel(id) PROVE LoopStep
  BY <1>2 DEF Cancel, CallerStops, LoopStep, LoopQuiet, IndexAgrees
<1>3. ASSUME NEW lag \in Lags, Update(clock - lag) PROVE LoopStep
  BY <1>3 DEF Update, EntersLoop, CallerUpdates, NewFrame, LoopStep, LoopQuiet
<1>4. CASE FireRoot
  <2>1. /\ timers # <<>> /\ due[timers[1]] <= Top.now
        /\ InPhase("loop") /\ CallsAction(timers[1])
    BY <1>4 DEF FireRoot, RootDue
  <2>2. timers[1] \in live
    BY <2>1, Entries
  <2> QED BY <2>1, <2>2 DEF LoopFires, LoopStep
<1>5. CASE UpdateReturns
  BY <1>5 DEF UpdateReturns, LoopReturns, LoopStep
<1>6. CASE SiftUp \/ SiftDown \/ ActionDone \/ TimePasses \/ Destroy \/ Ended \/ UNCHANGED vars
  BY <1>6 DEF SiftUp, SiftDown, ActionDone, TimePasses, Destroy, Ended, vars,
              LoopStep, LoopQuiet
<1> QED
  BY <1>1, <1>2, <1>3, <1>4, <1>5, <1>6 DEF Next

LEMMA StepKept ==
  ASSUME IInv, [Next]_vars
  PROVE  HeapKept
<1> USE DEF IInv
<1>1. ASSUME NEW duration \in Durations, Start(duration) PROVE HeapKept
  BY <1>1, StartKept
<1>2. ASSUME NEW id \in DOMAIN index, Cancel(id) PROVE HeapKept
  <2>1. /\ RemoveTimer(index[id]) /\ live' = live \ {id}
        /\ addr' = addr /\ next_id' = next_id
    BY <1>2 DEF Cancel, Stopped
  <2>2. index[id] \in DOMAIN timers /\ timers[index[id]] = id
    BY <1>2 DEF IndexAgrees
  <2>3. Ids' = Ids
    BY <2>1 DEF Ids
  <2> QED BY <2>1, <2>2, <2>3, RemoveAgrees DEF HeapKept, TypeOK
<1>3. ASSUME FireRoot PROVE HeapKept
  <2>1. /\ RemoveTimer(1) /\ live' = live \ {timers[1]} /\ timers # <<>>
        /\ addr' = addr /\ next_id' = next_id
    BY <1>3 DEF FireRoot, RootDue, CallsAction, Fired
  <2>2. Ids' = Ids /\ 1 \in DOMAIN timers
    BY <2>1, Entries DEF Ids
  <2> QED BY <2>1, <2>2, RemoveAgrees DEF HeapKept, TypeOK
<1>4. ASSUME NEW j \in DOMAIN timers, NEW k \in DOMAIN timers, Swap(j, k),
             sift' = [sift EXCEPT !.at = k], UNCHANGED <<addr, baseVars>>
      PROVE  HeapKept
  <2>1. live' = live /\ Ids' = Ids /\ addr' = addr
    BY <1>4 DEF baseVars, ledger, Ids
  <2>2. k \in Nat
    BY Entries
  <2>3. sift' \in [dir : {"none", "up", "down"}, at : Nat, from : Nat] /\ sift'.at = k
    BY <1>4, <2>2 DEF TypeOK
  <2> QED BY <1>4, <2>1, <2>3, SwapAgrees DEF HeapKept, TypeOK, SiftInHeap
<1>5. ASSUME SiftUp PROVE HeapKept
  <2>1. CASE Rises
    BY <1>5, <2>1, <1>4, RisesIn DEF SiftUp
  <2>2. CASE ~Rises
    <3>1. UNCHANGED <<timers, index, addr, live>> /\ sift' = Settled /\ Ids' = Ids
      BY <1>5, <2>2 DEF SiftUp, baseVars, ledger, Ids
    <3> QED BY <3>1 DEF HeapKept, TypeOK, IndexAgrees, SiftInHeap, Settled
  <2> QED BY <2>1, <2>2
<1>6. ASSUME SiftDown PROVE HeapKept
  <2>1. CASE Sinks
    BY <1>6, <2>1, <1>4, SinksIn DEF SiftDown
  <2>2. CASE ~Sinks
    <3>1. /\ UNCHANGED <<timers, index, addr, live>> /\ Ids' = Ids
          /\ sift' = IF sift.at = sift.from THEN SiftFrom("up", sift.at) ELSE Settled
      BY <1>6, <2>2 DEF SiftDown, baseVars, ledger, Ids
    <3>2. sift.at \in DOMAIN timers /\ sift.at \in Nat
      BY <1>6, Entries DEF SiftDown, SiftInHeap
    <3>3. sift' \in [dir : {"none", "up", "down"}, at : Nat, from : Nat] /\ SiftInHeap'
      BY <3>1, <3>2 DEF SiftFrom, Settled, SiftInHeap
    <3> QED BY <3>1, <3>3 DEF HeapKept, TypeOK, IndexAgrees
  <2> QED BY <2>1, <2>2
<1>7. ASSUME Destroy PROVE HeapKept
  <2>1. /\ timers' = <<>> /\ DOMAIN index' = {} /\ index' \in [DOMAIN index' -> Nat]
        /\ live' = {} /\ UNCHANGED <<addr, sift, next_id>> /\ sift = Settled
    BY <1>7 DEF Destroy, Discarded
  <2>2. timers' \in Seq(Ids) /\ DOMAIN timers' = {} /\ Ids' = Ids
    BY <2>1, EmptySeq DEF Ids
  <2> QED BY <2>1, <2>2 DEF HeapKept, TypeOK, IndexAgrees, SiftInHeap, Settled
<1>8. ASSUME UNCHANGED <<heapVars, live, next_id>> PROVE HeapKept
  <2>1. Ids' = Ids
    BY <1>8 DEF Ids
  <2> QED BY <1>8, <2>1 DEF HeapKept, TypeOK, IndexAgrees, SiftInHeap, heapVars
<1> QED
  BY <1>1, <1>2, <1>3, <1>5, <1>6, <1>7, <1>8
  DEF Next, Update, EntersLoop, Reported, UpdateReturns, Returned, ActionDone,
      ActionReturns, TimePasses, Elapse, Ended, vars, baseVars, ledger

LEMMA StepIInv == IInv /\ [Next]_vars => IInv'
<1> SUFFICES ASSUME IInv, [Next]_vars PROVE IInv'
  OBVIOUS
<1>1. LoopInv' /\ HeapKept
  BY StepIsLoopStep, LoopInvStep, StepKept DEF IInv
<1>2. TypeOK'
  BY <1>1 DEF LoopInv, HeapKept, TypeOK
<1> QED
  BY <1>1, <1>2 DEF IInv, HeapKept

LEMMA Invariance == Spec => []IInv
<1>1. Init => IInv
  <2> SUFFICES ASSUME Init PROVE IInv
    OBVIOUS
  <2>1. LoopInv
    BY LoopInit DEF Init
  <2>2. timers = <<>> /\ timers \in Seq(Ids) /\ DOMAIN timers = {}
    BY EmptySeq DEF Init
  <2>3. next_id = FirstId /\ addr = [x \in {} |-> 0] /\ live = {} /\ sift = Settled
        /\ index = [x \in {} |-> 0]
    BY DEF Init, BaseInit
  <2>4. Ids = {}
    BY <2>3 DEF Ids, FirstId, Service!FirstId
  <2>5. addr \in [Ids -> 1 .. MaxStarts]
    BY <2>3, <2>4
  <2> QED BY <2>1, <2>2, <2>3, <2>5
       DEF IInv, TypeOK, LoopInv, IndexAgrees, SiftInHeap, Settled
<1> QED
  BY <1>1, StepIInv, PTL DEF Spec

\* The scheduler's state has its types.
THEOREM TypeCorrect == Spec => []TypeOK
<1>1. IInv => TypeOK
  BY DEF IInv
<1> QED
  BY Invariance, <1>1, PTL

\* Every node knows its place at every moment, in the sift loops too.
THEOREM PlacesAlwaysKnown == Spec => []IndexAgrees
<1>1. IInv => IndexAgrees
  BY DEF IInv
<1> QED
  BY Invariance, <1>1, PTL

\* PriorityQueueTimer keeps the contract of the interface, however the
\* allocator places its nodes.
THEOREM Implements == Spec => ImplementsService
<1>1. Init => Service!Init
  BY LoopInit DEF Init
<1>2. ASSUME IInv, [Next]_vars PROVE [Service!Next]_(Service!vars)
  BY <1>2, StepIsLoopStep, LoopRefines DEF IInv
<1> QED
  BY <1>1, <1>2, Invariance, PTL DEF Spec, ImplementsService, Service!Spec
-----------------------------------------------------------------------------
\* While a sift loop runs nothing else does, and otherwise nothing but the
\* loop moves while the loop is in control.
LEMMA LoopsAlone ==
  ASSUME [Next]_vars
  PROVE  /\ sift # Settled => SiftUp \/ SiftDown \/ UNCHANGED vars
         /\ InPhase("loop") /\ sift = Settled => FireRoot \/ UpdateReturns \/ UNCHANGED vars
<1>1. ASSUME sift # Settled PROVE SiftUp \/ SiftDown \/ UNCHANGED vars
  BY <1>1 DEF Next, Start, Cancel, Update, FireRoot, UpdateReturns, ActionDone,
              TimePasses, Destroy, Ended
<1>2. ASSUME InPhase("loop"), sift = Settled
      PROVE  FireRoot \/ UpdateReturns \/ UNCHANGED vars
  BY <1>2 DEF Next, InPhase, Start, MayStart, MayCall, Cancel, Update, EntersLoop,
              MayUpdate, ActionDone, ActionReturns, TimePasses, Elapse, Destroy,
              Discarded, Ended, SiftUp, SiftDown, Settled
<1> QED
  BY <1>1, <1>2

\* siftupTimer comes nearer to the root, siftdownTimer to the end of the
\* heap; and it may go over to siftupTimer, which begins where it was.
LEMMA SiftsEnd ==
  ASSUME IInv, SiftUp \/ SiftDown
  PROVE  Iterations' < Iterations
<1> USE DEF IInv
<1> DEFINE n == Len(timers)
           at == sift.at
<1>1. sift.dir # "none" /\ at \in 1 .. n /\ n \in Nat /\ at \in Nat
  BY Entries DEF SiftUp, SiftDown, SiftInHeap
<1>2. sift \in [dir : {"none", "up", "down"}, at : Nat, from : Nat]
  BY DEF TypeOK
<1>3. CASE SiftUp /\ Rises
  <2>1. sift.dir = "up" /\ sift' = [sift EXCEPT !.at = Parent(at)] /\ at > 1
    BY <1>3 DEF SiftUp, Rises
  <2>2. Parent(at) < at /\ Parent(at) \in Nat
    BY <1>1, <2>1 DEF Parent
  <2>3. sift'.dir = "up" /\ sift'.at = Parent(at)
    BY <1>2, <2>1
  <2> QED BY <2>1, <2>2, <2>3 DEF Iterations
<1>4. CASE SiftUp /\ ~Rises
  <2>1. sift.dir = "up" /\ sift' = Settled
    BY <1>4 DEF SiftUp
  <2> QED BY <1>1, <2>1 DEF Iterations, Settled
<1>5. CASE SiftDown /\ Sinks
  <2>1. /\ sift.dir = "down" /\ sift' = [sift EXCEPT !.at = Child(at)]
        /\ timers' = Swapped(timers, at, Child(at))
    BY <1>5 DEF SiftDown, Swap
  <2>2. Child(at) > at /\ Child(at) \in 1 .. n
    BY <1>1, <1>5 DEF Child, Sinks
  <2>3. sift'.dir = "down" /\ sift'.at = Child(at)
    BY <1>2, <2>1
  <2>4. at \in DOMAIN timers /\ Child(at) \in DOMAIN timers
    BY <1>5, SinksIn DEF SiftDown
  <2>5. timers' \in Seq(Ids) /\ DOMAIN timers' = DOMAIN timers
    BY <2>1, <2>4, SwappedIs DEF TypeOK
  <2>6. Len(timers') = n
    BY <1>1, <2>5, Elements, Entries
  <2> QED BY <1>1, <2>1, <2>2, <2>3, <2>6 DEF Iterations
<1>6. CASE SiftDown /\ ~Sinks
  <2>1. /\ sift.dir = "down" /\ timers' = timers
        /\ sift' = SiftFrom("up", at) \/ sift' = Settled
    BY <1>6 DEF SiftDown
  <2>2. Iterations' = at \/ Iterations' = 0
    BY <2>1 DEF Iterations, SiftFrom, Settled
  <2>3. Iterations = 2 * n + 1 - at
    BY <2>1 DEF Iterations
  <2> QED BY <1>1, <2>2, <2>3
<1> QED
  BY <1>3, <1>4, <1>5, <1>6

(***************************************************************************)
(* Every Update ends, and so does every sift loop: the finitely many ids   *)
(* in the reach of an Update only become fewer (ShrinkingEnds), and each   *)
(* iteration takes one away, whatever the order in the heap is.            *)
(***************************************************************************)
THEOREM UpdatesEnd == Spec => UpdateEnds
<1> DEFINE Ends ==
      /\ sift # Settled => Iterations' < Iterations
      /\ \A k \in DOMAIN frames \cap DOMAIN frames' :
           /\ InReach(k, live)' \subseteq InReach(k, live)
           /\ InPhase("loop") /\ sift = Settled /\ k = Len(frames) =>
                InReach(k, live)' # InReach(k, live)
<1>1. ASSUME IInv, [Next]_vars PROVE [Ends]_vars
  <2> SUFFICES ASSUME vars' # vars PROVE Ends
    OBVIOUS
  <2>0. LoopInv /\ TypeOK /\ LoopStep
    BY <1>1, StepIsLoopStep DEF IInv
  <2>1. ASSUME sift # Settled PROVE Iterations' < Iterations
    BY <1>1, <2>1, LoopsAlone, SiftsEnd
  <2>2. ASSUME NEW k \in DOMAIN frames \cap DOMAIN frames'
        PROVE  InReach(k, live)' \subseteq InReach(k, live)
    BY <2>0, ReachShrinks
  <2>3. ASSUME NEW k \in DOMAIN frames \cap DOMAIN frames',
               InPhase("loop"), sift = Settled, k = Len(frames)
        PROVE  InReach(k, live)' # InReach(k, live)
    <3>1. CASE FireRoot
      <4>1. /\ timers # <<>> /\ due[timers[1]] <= Top.now /\ timers[1] <= Top.max_id
            /\ CallsAction(timers[1])
        BY <3>1 DEF FireRoot, RootDue
      <4>2. timers[1] \in live /\ LoopFires(timers[1])
        BY <1>1, <2>3, <4>1, Entries DEF LoopFires
      <4>3. InReach(Len(frames), live)' # InReach(Len(frames), live)
        BY <2>0, <4>1, <4>2, FiringLeavesReach
      <4>4. Len(frames') = Len(frames)
        BY <2>0, <4>2, PhaseKeepsTold DEF LoopFires, InPhase, CallsAction
      <4> QED BY <2>3, <4>3, <4>4 DEF InReach
    <3>2. CASE UpdateReturns
      BY <2>0, <2>3, <3>2, TopReturns DEF UpdateReturns, LoopReturns
    <3> QED BY <1>1, <2>3, <3>1, <3>2, LoopsAlone
  <2> QED BY <2>1, <2>2, <2>3
<1> QED
  BY <1>1, Invariance, PTL DEF Spec, UpdateEnds
=============================================================================
