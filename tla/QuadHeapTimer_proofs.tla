------------------------ MODULE QuadHeapTimer_proofs -------------------------
(***************************************************************************)
(* Proofs about QuadHeapTimer, for every value of its constants.  The      *)
(* inductive invariant joins that of the loop (UpdateLoop_proofs), the     *)
(* agreement of heap, hash map and ledger, and the order of the heap with  *)
(* the one exception that a running sift loop makes.                       *)
(***************************************************************************)
EXTENDS QuadHeapTimer, UpdateLoop_proofs

IInv == LoopInv /\ TypeOK /\ NodesAgree /\ HeapOrder

-----------------------------------------------------------------------------
(* The shape of the heap.                                                  *)

LEMMA ParentIs ==
  ASSUME NEW k \in Nat, k >= 2
  PROVE  /\ Parent(k) \in Nat
         /\ 1 <= Parent(k) /\ Parent(k) < k
         /\ k \in Children(Parent(k))
BY DEF Parent, Children

LEMMA ChildIs ==
  ASSUME NEW j \in Nat, j >= 1, NEW c \in Children(j)
  PROVE  /\ c \in Nat
         /\ c >= 2 /\ c > j
         /\ Parent(c) = j
BY DEF Parent, Children

\* The entries of the heap.
LEMMA Entries ==
  ASSUME TypeOK
  PROVE  /\ DOMAIN timers = 1 .. Len(timers)
         /\ Len(timers) \in Nat
         /\ \A k \in DOMAIN timers : timers[k] \in Ids /\ When(k) \in Nat
<1>1. /\ DOMAIN timers = 1 .. Len(timers) /\ Len(timers) \in Nat
      /\ \A k \in DOMAIN timers : timers[k] \in Ids
  BY Elements DEF TypeOK
<1> QED
  BY <1>1 DEF TypeOK, BaseTypeOK, When

\* The least child is a child in the heap, and none is due before it.
LEMMA LeastChildIs ==
  ASSUME TypeOK, NEW j \in Nat, j >= 1, Children(j) \cap (1 .. Len(timers)) # {}
  PROVE  /\ LeastChild(j) \in Children(j) \cap (1 .. Len(timers))
         /\ \A c \in Children(j) \cap (1 .. Len(timers)) :
              When(LeastChild(j)) <= When(c)
<1> DEFINE C == Children(j) \cap (1 .. Len(timers))
<1>1. C # {} /\ \A c \in C : c \in Nat /\ When(c) \in Nat
  BY Entries, ChildIs
<1> HIDE DEF C
<1>2. PICK d \in {When(c) : c \in C} : \A e \in {When(c) : c \in C} : d <= e
  <2>1. {When(c) : c \in C} \in SUBSET Nat /\ {When(c) : c \in C} # {}
    BY <1>1
  <2> QED BY <2>1, LeastNat
<1>3. PICK b \in {c \in C : When(c) = d} : \A c \in {x \in C : When(x) = d} : b <= c
  <2>1. {c \in C : When(c) = d} \in SUBSET Nat /\ {c \in C : When(c) = d} # {}
    BY <1>1, <1>2
  <2> QED BY <2>1, LeastNat
<1>4. ASSUME NEW c \in C PROVE When(b) < When(c) \/ (When(b) = When(c) /\ b <= c)
  <2>1. When(b) = d /\ d <= When(c) /\ d \in Nat /\ When(c) \in Nat
    BY <1>1, <1>2, <1>3
  <2>2. When(c) = d => b <= c
    BY <1>3
  <2> QED BY <2>1, <2>2
<1>5. LeastChild(j) = CHOOSE b0 \in C : \A c \in C : When(b0) < When(c) \/ (When(b0) = When(c) /\ b0 <= c)
  BY DEF LeastChild, C
<1>6. LeastChild(j) \in C
      /\ \A c \in C : \/ When(LeastChild(j)) < When(c)
                      \/ When(LeastChild(j)) = When(c) /\ LeastChild(j) <= c
  BY <1>3, <1>4, <1>5
<1>7. \A c \in C : When(LeastChild(j)) <= When(c)
  BY <1>1, <1>6
<1> QED
  BY <1>6, <1>7 DEF C

\* In a settled heap every node is in order, and none is due before the root:
\* of the nodes that were, the first would have its parent among them.
LEMMA RootIsLeast ==
  ASSUME TypeOK, HeapOrder, sift = Settled
  PROVE  \A k \in DOMAIN timers : When(1) <= When(k)
<1>1. \A k \in 2 .. Len(timers) : When(Parent(k)) <= When(k)
  BY DEF HeapOrder, InOrder, Settled
<1> DEFINE Wrong == {k \in DOMAIN timers : When(k) < When(1)}
<1>2. ASSUME Wrong # {} PROVE FALSE
  <2>1. Wrong \in SUBSET Nat
    BY Entries
  <2>2. PICK k \in Wrong : \A y \in Wrong : k <= y
    <3> HIDE DEF Wrong
    <3> QED BY <1>2, <2>1, LeastNat
  <2>3. /\ k \in 2 .. Len(timers) /\ 1 \in DOMAIN timers
        /\ When(k) < When(1) /\ When(k) \in Nat /\ When(1) \in Nat
    BY Entries
  <2>4. Parent(k) \in DOMAIN timers /\ Parent(k) < k /\ When(Parent(k)) \in Nat
    BY <2>3, Entries, ParentIs
  <2>5. Parent(k) \in Wrong
    BY <1>1, <2>3, <2>4
  <2> QED BY <2>2, <2>3, <2>4, <2>5
<1>3. CASE Wrong = {}
  <2> SUFFICES ASSUME NEW k \in DOMAIN timers PROVE When(1) <= When(k)
    OBVIOUS
  <2>1. ~(When(k) < When(1))
    BY <1>3
  <2>2. 1 \in DOMAIN timers /\ When(k) \in Nat /\ When(1) \in Nat
    BY Entries
  <2> QED BY <2>1, <2>2
<1> QED
  BY <1>2, <1>3

\* While the scheduler runs, its nodes are the live and the marked ones.
LEMMA NodesAre ==
  ASSUME NodesAgree, status = "running"
  PROVE  /\ {timers[i] : i \in DOMAIN timers} = live \cup deleted
         /\ live \cap deleted = {}
         /\ ref = live
  BY DEF NodesAgree

-----------------------------------------------------------------------------
\* To the clock, the stack and the ledger, a step is one of the loop's.
LEMMA StepIsLoopStep ==
  ASSUME IInv, [Next]_vars
  PROVE  \/ LoopQuiet
         \/ /\ FireRoot
            /\ timers # <<>>
            /\ timers[1] \in live
            /\ LoopFires(timers[1])
         \/ UpdateReturns /\ LoopReturns
<1> USE DEF IInv
<1>1. ASSUME NEW duration \in Durations, Start(duration) PROVE LoopQuiet
  BY <1>1 DEF Start, CallerStarts, LoopQuiet
<1>2. ASSUME NEW id \in ref, Cancel(id) PROVE LoopQuiet
  BY <1>2 DEF Cancel, CallerStops, LoopQuiet, NodesAgree
<1>3. ASSUME NEW lag \in Lags, Update(clock - lag) PROVE LoopQuiet
  BY <1>3 DEF Update, EntersLoop, CallerUpdates, NewFrame, LoopQuiet
<1>4. CASE FireRoot
  <2>1. /\ timers # <<>> /\ due[timers[1]] <= Top.now /\ timers[1] \notin deleted
        /\ InPhase("loop") /\ CallsAction(timers[1]) /\ status = "running"
    BY <1>4 DEF FireRoot, RootDue, When, InPhase
  <2>2. 1 \in DOMAIN timers
    BY <2>1, Entries, EmptySeq DEF TypeOK
  <2>3. timers[1] \in live
    BY <2>1, <2>2, NodesAre
  <2> QED BY <1>4, <2>1, <2>3 DEF LoopFires
<1>5. CASE UpdateReturns
  BY <1>5 DEF UpdateReturns, LoopReturns
<1>6. CASE \/ SiftUp \/ SiftDown \/ PurgeRoot \/ ActionDone \/ TimePasses
           \/ Destroy \/ Ended \/ UNCHANGED vars
  BY <1>6 DEF SiftUp, SiftDown, PurgeRoot, ActionDone, TimePasses, Destroy, Ended,
              vars, LoopQuiet
<1> QED
  BY <1>1, <1>2, <1>3, <1>4, <1>5, <1>6 DEF Next

-----------------------------------------------------------------------------
(* The nodes.                                                              *)

\* What a step must keep of the types and the agreement.
NodesKept ==
  /\ timers' \in Seq(Ids')
  /\ ref' \subseteq Ids'
  /\ deleted' \subseteq Ids'
  /\ sift' \in [dir : {"none", "up", "down"}, at : Nat]
  /\ NodesAgree'

LEMMA StartNodes ==
  ASSUME IInv, NEW duration \in Durations, Start(duration)
  PROVE  NodesKept
<1> USE DEF IInv
<1>1. /\ Ids' = Ids \cup {next_id} /\ next_id \notin Ids
  <2>1. clock + duration \in Nat
    BY BaseAssumption DEF TypeOK, BaseTypeOK
  <2> QED BY <2>1, StartedType DEF Start, TypeOK
<1>2. /\ timers' = Append(timers, next_id) /\ ref' = ref \cup {next_id}
      /\ live' = live \cup {next_id} /\ status = "running"
      /\ sift' = [dir |-> "up", at |-> Len(timers) + 1]
      /\ UNCHANGED <<deleted, status>>
  BY DEF Start, Started, MayStart, MayCall
<1>3. /\ timers' \in Seq(Ids') /\ DOMAIN timers' = DOMAIN timers \cup {Len(timers) + 1}
      /\ timers'[Len(timers) + 1] = next_id
      /\ \A k \in DOMAIN timers : timers'[k] = timers[k]
  <2>1. timers \in Seq(Ids') /\ next_id \in Ids'
    <3>1. Ids \subseteq Ids'
      BY <1>1
    <3> QED BY <1>1, <3>1, SeqMonotonic DEF TypeOK
  <2>2. /\ timers' \in Seq(Ids') /\ Len(timers') = Len(timers) + 1
        /\ timers'[Len(timers) + 1] = next_id
        /\ \A k \in 1 .. Len(timers) : timers'[k] = timers[k]
    BY <1>2, <2>1, AppendProperties
  <2>3. DOMAIN timers' = 1 .. Len(timers) + 1
    BY <2>2, LenProperties
  <2> QED BY <2>2, <2>3, Entries
<1>4. NodesAgree'
  <2>1. \A k \in DOMAIN timers : timers[k] \in Ids
    BY Entries
  <2>2. \A i, j \in DOMAIN timers' : timers'[i] = timers'[j] => i = j
    BY <1>1, <1>3, <2>1 DEF NodesAgree
  <2>3. {timers'[i] : i \in DOMAIN timers'} = {timers[i] : i \in DOMAIN timers} \cup {next_id}
    BY <1>3
  <2>4. {timers'[i] : i \in DOMAIN timers'} = ref' \cup (IF status' = "running" THEN deleted' ELSE {})
    BY <1>2, <2>3 DEF NodesAgree
  <2>5. ref' \cap deleted' = {} /\ ref' = live'
    BY <1>1, <1>2 DEF NodesAgree, TypeOK
  <2> QED BY <2>2, <2>4, <2>5 DEF NodesAgree
<1> QED
  BY <1>1, <1>2, <1>3, <1>4, Entries DEF NodesKept, TypeOK

LEMMA SwapNodes ==
  ASSUME IInv, NEW j \in DOMAIN timers, NEW k \in DOMAIN timers,
         timers' = Swapped(timers, j, k), sift' = [sift EXCEPT !.at = k],
         UNCHANGED <<ref, deleted, baseVars>>
  PROVE  NodesKept
<1> USE DEF IInv
<1>1. /\ timers' \in Seq(Ids) /\ DOMAIN timers' = DOMAIN timers
      /\ \A i \in DOMAIN timers :
           timers'[i] = IF i = k THEN timers[j] ELSE IF i = j THEN timers[k] ELSE timers[i]
  BY SwappedIs DEF TypeOK
<1>2. Ids' = Ids /\ UNCHANGED <<status, live>>
  BY DEF Ids, baseVars, ledger
<1>3. sift' \in [dir : {"none", "up", "down"}, at : Nat]
  BY Entries DEF TypeOK
<1>4. \A x, y \in DOMAIN timers' : timers'[x] = timers'[y] => x = y
  BY <1>1 DEF NodesAgree
<1>5. {timers'[i] : i \in DOMAIN timers'} = {timers[i] : i \in DOMAIN timers}
  <2>1. ASSUME NEW i \in DOMAIN timers PROVE \E x \in DOMAIN timers' : timers'[x] = timers[i]
    <3>1. CASE i = j
      BY <1>1, <3>1
    <3>2. CASE i = k
      BY <1>1, <3>2
    <3>3. CASE i # j /\ i # k
      BY <1>1, <3>3
    <3> QED BY <3>1, <3>2, <3>3
  <2>2. ASSUME NEW x \in DOMAIN timers' PROVE \E i \in DOMAIN timers : timers'[x] = timers[i]
    BY <1>1
  <2> QED BY <2>1, <2>2
<1> QED
  BY <1>1, <1>2, <1>3, <1>4, <1>5 DEF NodesKept, NodesAgree, TypeOK

\* The nodes but for the root.
LEMMA DropRootNodes ==
  ASSUME IInv, timers # <<>>, DropRoot
  PROVE  /\ timers' \in Seq(Ids)
         /\ DOMAIN timers' = 1 .. Len(timers) - 1
         /\ \A i \in 1 .. Len(timers) - 1 :
              timers'[i] = IF i = 1 THEN timers[Len(timers)] ELSE timers[i]
         /\ \A i, j \in DOMAIN timers' : timers'[i] = timers'[j] => i = j
         /\ {timers'[i] : i \in DOMAIN timers'}
              = {timers[i] : i \in DOMAIN timers} \ {timers[1]}
         /\ sift' \in [dir : {"none", "up", "down"}, at : Nat]
<1> USE DEF IInv
<1>1. /\ 1 \in DOMAIN timers /\ DOMAIN timers = 1 .. Len(timers) /\ Len(timers) \in Nat
      /\ Len(timers) >= 1
  BY Entries, EmptySeq DEF TypeOK
<1>2. /\ timers' \in Seq(Ids) /\ DOMAIN timers' = 1 .. Len(timers) - 1
      /\ \A i \in 1 .. Len(timers) - 1 :
           timers'[i] = IF i = 1 THEN timers[Len(timers)] ELSE timers[i]
  BY <1>1, RefilledIs DEF DropRoot, TypeOK
<1>3. \A i, j \in DOMAIN timers : timers[i] = timers[j] => i = j
  BY DEF NodesAgree
<1>4. \A i, j \in DOMAIN timers' : timers'[i] = timers'[j] => i = j
  BY <1>1, <1>2, <1>3
<1>5. {timers'[i] : i \in DOMAIN timers'} = {timers[i] : i \in DOMAIN timers} \ {timers[1]}
  <2>1. ASSUME NEW x \in DOMAIN timers'
        PROVE  \E i \in DOMAIN timers : timers'[x] = timers[i] /\ i # 1
    BY <1>1, <1>2
  <2>2. ASSUME NEW i \in DOMAIN timers, i # 1
        PROVE  \E x \in DOMAIN timers' : timers'[x] = timers[i]
    <3>1. CASE i = Len(timers)
      <4>1. 1 \in DOMAIN timers'
        BY <1>1, <1>2, <2>2, <3>1
      <4> QED BY <1>2, <3>1, <4>1
    <3>2. CASE i # Len(timers)
      <4>1. i \in DOMAIN timers'
        BY <1>1, <1>2, <2>2, <3>2
      <4> QED BY <1>2, <2>2, <4>1
    <3> QED BY <3>1, <3>2
  <2>3. \A i \in DOMAIN timers : timers[i] # timers[1] <=> i # 1
    BY <1>1, <1>3
  <2> QED BY <2>1, <2>2, <2>3
<1> QED
  BY <1>2, <1>4, <1>5 DEF DropRoot, Settled

LEMMA StepNodes ==
  ASSUME IInv, [Next]_vars
  PROVE  NodesKept
<1> USE DEF IInv
<1>1. ASSUME NEW duration \in Durations, Start(duration) PROVE NodesKept
  BY <1>1, StartNodes
<1>2. ASSUME NEW id \in ref, Cancel(id) PROVE NodesKept
  <2>1. /\ UNCHANGED <<timers, sift, status, next_id>> /\ status = "running"
        /\ deleted' = deleted \cup {id} /\ ref' = ref \ {id} /\ live' = live \ {id}
    BY <1>2 DEF Cancel, Stopped, MayCall
  <2>2. Ids' = Ids
    BY <2>1 DEF Ids
  <2>3. ref' \cup deleted' = ref \cup deleted /\ ref' \cap deleted' = {} /\ ref' = live'
    BY <1>2, <2>1 DEF NodesAgree
  <2> QED BY <1>2, <2>1, <2>2, <2>3 DEF NodesKept, NodesAgree, TypeOK
<1>3. ASSUME SiftUp PROVE NodesKept
  <2>1. CASE Rises
    <3>1. sift.at \in DOMAIN timers /\ sift.at \in Nat /\ sift.at >= 2
      BY <1>3, <2>1, Entries DEF SiftUp, HeapOrder, Settled, Rises, TypeOK
    <3>2. Parent(sift.at) \in DOMAIN timers
      BY <3>1, Entries, ParentIs
    <3> QED BY <1>3, <2>1, <3>1, <3>2, SwapNodes DEF SiftUp
  <2>2. CASE ~Rises
    <3>1. UNCHANGED <<timers, ref, deleted, status, live>> /\ sift' = Settled /\ Ids' = Ids
      BY <1>3, <2>2 DEF SiftUp, baseVars, ledger, Ids
    <3> QED BY <3>1 DEF NodesKept, NodesAgree, TypeOK, Settled
  <2> QED BY <2>1, <2>2
<1>4. ASSUME SiftDown PROVE NodesKept
  <2>1. CASE Sinks
    <3>1. sift.at \in DOMAIN timers /\ sift.at \in Nat /\ sift.at >= 1
      BY <1>4, Entries DEF SiftDown, HeapOrder, Settled
    <3>2. LeastChild(sift.at) \in DOMAIN timers
      BY <2>1, <3>1, Entries, LeastChildIs DEF Sinks
    <3> QED BY <1>4, <2>1, <3>1, <3>2, SwapNodes DEF SiftDown
  <2>2. CASE ~Sinks
    <3>1. UNCHANGED <<timers, ref, deleted, status, live>> /\ sift' = Settled /\ Ids' = Ids
      BY <1>4, <2>2 DEF SiftDown, baseVars, ledger, Ids
    <3> QED BY <3>1 DEF NodesKept, NodesAgree, TypeOK, Settled
  <2> QED BY <2>1, <2>2
<1>5. ASSUME PurgeRoot PROVE NodesKept
  <2>1. /\ timers # <<>> /\ DropRoot /\ timers[1] \in deleted /\ status = "running"
        /\ ref' = ref \ {timers[1]} /\ deleted' = deleted \ {timers[1]}
        /\ UNCHANGED <<live, status, next_id>>
    BY <1>5 DEF PurgeRoot, RootDue, InPhase, baseVars, ledger
  <2>2. Ids' = Ids
    BY <2>1 DEF Ids
  <2>3. ref' = live' /\ ref' \cap deleted' = {}
        /\ ref' \cup deleted' = (live \cup deleted) \ {timers[1]}
    BY <2>1 DEF NodesAgree
  <2>4. {timers'[i] : i \in DOMAIN timers'} = ref' \cup deleted'
    BY <2>1, <2>3, DropRootNodes, NodesAre
  <2> QED BY <2>1, <2>2, <2>3, <2>4, DropRootNodes DEF NodesKept, NodesAgree, TypeOK
<1>6. ASSUME FireRoot PROVE NodesKept
  <2>1. /\ timers # <<>> /\ DropRoot /\ timers[1] \notin deleted /\ status = "running"
        /\ ref' = ref \ {timers[1]} /\ live' = live \ {timers[1]}
        /\ UNCHANGED <<deleted, status, next_id>>
    BY <1>6 DEF FireRoot, RootDue, InPhase, CallsAction, Fired
  <2>2. Ids' = Ids
    BY <2>1 DEF Ids
  <2>3. ref' = live' /\ ref' \cap deleted' = {}
        /\ ref' \cup deleted' = (live \cup deleted) \ {timers[1]}
    BY <2>1 DEF NodesAgree
  <2>4. {timers'[i] : i \in DOMAIN timers'} = ref' \cup deleted'
    BY <2>1, <2>3, DropRootNodes, NodesAre
  <2> QED BY <2>1, <2>2, <2>3, <2>4, DropRootNodes DEF NodesKept, NodesAgree, TypeOK
<1>7. ASSUME Destroy PROVE NodesKept
  <2>1. /\ timers' = <<>> /\ ref' = {} /\ live' = {} /\ status' = "destroyed"
        /\ UNCHANGED <<deleted, sift, next_id>>
    BY <1>7 DEF Destroy, Discarded
  <2>2. timers' \in Seq(Ids) /\ DOMAIN timers' = {}
    BY <2>1, EmptySeq
  <2>3. Ids' = Ids
    BY <2>1 DEF Ids
  <2> QED BY <2>1, <2>2, <2>3 DEF NodesKept, NodesAgree, TypeOK
<1>8. ASSUME UNCHANGED <<heapVars, status, live, next_id>> PROVE NodesKept
  <2>1. Ids' = Ids
    BY <1>8 DEF Ids
  <2> QED BY <1>8, <2>1 DEF NodesKept, NodesAgree, TypeOK, heapVars
<1> QED
  BY <1>1, <1>2, <1>3, <1>4, <1>5, <1>6, <1>7, <1>8
  DEF Next, Update, EntersLoop, Reported, UpdateReturns, Returned, ActionDone,
      ActionReturns, TimePasses, Elapse, Ended, vars, baseVars, ledger

-----------------------------------------------------------------------------
(* The order of the heap.                                                  *)

LEMMA StartOrder ==
  ASSUME IInv, NEW duration \in Durations, Start(duration)
  PROVE  HeapOrder'
<1> USE DEF IInv
<1> DEFINE n == Len(timers)
<1>1. \A id \in Ids : due'[id] = due[id]
  <2>1. clock + duration \in Nat
    BY BaseAssumption DEF TypeOK, BaseTypeOK
  <2> QED BY <2>1, StartedType DEF Start, TypeOK
<1>2. /\ Len(timers') = n + 1 /\ DOMAIN timers' = 1 .. n + 1
      /\ \A k \in 1 .. n : timers'[k] = timers[k]
  <2>1. timers \in Seq(Ids \cup {next_id})
    BY SeqMonotonic DEF TypeOK
  <2>2. timers' = Append(timers, next_id)
    BY DEF Start
  <2>3. /\ timers' \in Seq(Ids \cup {next_id}) /\ Len(timers') = n + 1
        /\ \A k \in 1 .. n : timers'[k] = timers[k]
    BY <2>1, <2>2, AppendProperties
  <2> QED BY <2>3, LenProperties
<1>3. n \in Nat /\ \A k \in 1 .. n : timers[k] \in Ids
  BY Entries
<1>4. \A k \in 1 .. n : When(k)' = When(k)
  BY <1>1, <1>2, <1>3 DEF When
<1>5. sift' = [dir |-> "up", at |-> n + 1] /\ sift = Settled
  BY DEF Start
<1> HIDE DEF n
<1>6. ASSUME NEW k \in 2 .. n + 1, k # n + 1 PROVE InOrder(k)'
  <2>1. k \in 2 .. n /\ Parent(k) \in 1 .. n
    BY <1>3, <1>6, ParentIs
  <2>2. When(Parent(k)) <= When(k)
    BY <1>5, <2>1 DEF HeapOrder, InOrder, Settled, n
  <2> QED BY <1>4, <2>1, <2>2 DEF InOrder
<1>7. Children(n + 1) \cap (1 .. n + 1) = {}
  <2>1. \A c \in Children(n + 1) : c > n + 1
    BY <1>3, ChildIs
  <2> QED BY <1>3, <2>1
<1> QED
  BY <1>2, <1>3, <1>5, <1>6, <1>7 DEF HeapOrder

\* The deadlines by position after a swap; positions are left as they were.
LEMMA SwapWhen ==
  ASSUME IInv, NEW j \in DOMAIN timers, NEW k \in DOMAIN timers,
         timers' = Swapped(timers, j, k), due' = due
  PROVE  /\ DOMAIN timers' = DOMAIN timers
         /\ Len(timers') = Len(timers)
         /\ \A i \in DOMAIN timers :
              When(i)' = IF i = k THEN When(j) ELSE IF i = j THEN When(k) ELSE When(i)
<1>1. /\ DOMAIN timers' = DOMAIN timers /\ Len(timers') = Len(timers)
      /\ \A i \in DOMAIN timers :
           timers'[i] = IF i = k THEN timers[j] ELSE IF i = j THEN timers[k] ELSE timers[i]
  BY SwappedIs DEF IInv, TypeOK
<1> QED
  BY <1>1 DEF When

\* One swap of siftupTimer.
LEMMA RiseOrder ==
  ASSUME IInv, SiftUp, Rises
  PROVE  HeapOrder'
<1> USE DEF IInv
<1> DEFINE at == sift.at
           up == Parent(at)
           n  == Len(timers)
<1>1. /\ at \in 2 .. n /\ n \in Nat /\ DOMAIN timers = 1 .. n
      /\ sift.dir = "up" /\ sift # Settled
  BY Entries DEF SiftUp, Rises, HeapOrder, Settled, TypeOK
<1>2. up \in 1 .. n /\ up < at /\ at \in Children(up)
  BY <1>1, ParentIs
<1>3. sift' = [sift EXCEPT !.at = up] /\ timers' = Swapped(timers, at, up) /\ due' = due
  BY DEF SiftUp, baseVars, ledger
<1>4. When(at) < When(up)
  BY DEF Rises
<1>5. \A k \in 2 .. n : k # at => When(Parent(k)) <= When(k)
  BY <1>1 DEF HeapOrder, InOrder
<1>6. \A k \in Children(at) \cap (1 .. n) : When(up) <= When(k)
  BY <1>1 DEF HeapOrder
<1>7. \A k \in 1 .. n : When(k) \in Nat
  BY <1>1, Entries
<1> HIDE DEF at, up, n
<1>8. /\ Len(timers') = n /\ DOMAIN timers' = 1 .. n
      /\ \A k \in 1 .. n :
           When(k)' = IF k = up THEN When(at) ELSE IF k = at THEN When(up) ELSE When(k)
  BY <1>1, <1>2, <1>3, SwapWhen DEF n
<1>9. sift'.dir = "up" /\ sift'.at = up
  BY <1>1, <1>3 DEF TypeOK
<1>10. \A k \in 2 .. n :
         /\ Parent(k) \in 1 .. n /\ Parent(k) < k /\ k \in Children(Parent(k))
  BY <1>1, ParentIs
<1>11. ASSUME NEW k \in 2 .. n, k # up PROVE When(Parent(k))' <= When(k)'
  <2>1. CASE k = at
    <3>1. Parent(k) = up
      BY <2>1 DEF up
    <3> QED BY <1>2, <1>4, <1>7, <1>8, <1>1, <2>1, <3>1
  <2>2. CASE k # at /\ Parent(k) = at
    <3>1. When(up) <= When(k)
      BY <1>6, <1>10, <1>1, <2>2
    <3> QED BY <1>1, <1>2, <1>8, <1>11, <2>2, <3>1
  <2>3. CASE k # at /\ Parent(k) = up
    <3>1. When(up) <= When(k)
      BY <1>5, <2>3
    <3> QED BY <1>1, <1>2, <1>4, <1>7, <1>8, <1>11, <2>3, <3>1
  <2>4. CASE k # at /\ Parent(k) # at /\ Parent(k) # up
    BY <1>1, <1>5, <1>8, <1>10, <1>11, <2>4
  <2> QED BY <2>1, <2>2, <2>3, <2>4
<1>12. ASSUME NEW q, q = Parent(up), up > 1, NEW k \in Children(up) \cap (1 .. n)
       PROVE  When(q)' <= When(k)'
  <2>1. up \in 2 .. n /\ up # at
    BY <1>1, <1>2, <1>12
  <2>2. q \in 1 .. n /\ q # up /\ q # at /\ When(q) <= When(up)
    BY <1>1, <1>2, <1>5, <1>10, <1>12, <2>1
  <2>3. k \in 2 .. n /\ Parent(k) = up /\ k # up
    BY <1>2, <1>1, <1>12, ChildIs
  <2>4. When(up) <= When(k)' /\ When(k)' \in Nat
    <3>1. CASE k = at
      <4>1. When(k)' = When(up)
        BY <1>2, <1>8, <2>1, <2>3, <3>1
      <4> QED BY <1>2, <1>7, <4>1
    <3>2. CASE k # at
      <4>1. When(k)' = When(k) /\ When(up) <= When(k) /\ k \in 1 .. n
        BY <1>5, <1>8, <1>1, <2>3, <3>2
      <4> QED BY <1>7, <4>1
    <3> QED BY <3>1, <3>2
  <2>5. When(q)' = When(q)
    BY <1>8, <2>2
  <2> QED BY <1>2, <1>7, <2>2, <2>4, <2>5
<1>13. Len(timers') = n /\ sift'.at = up /\ up \in DOMAIN timers'
  BY <1>2, <1>8, <1>9
<1>14. sift'.at > 1 => \A k \in Children(sift'.at) \cap (1 .. Len(timers')) :
          due'[timers'[Parent(sift'.at)]] <= due'[timers'[k]]
  BY <1>12, <1>13 DEF When
<1>15. \A k \in 2 .. Len(timers') : k = sift'.at \/ due'[timers'[Parent(k)]] <= due'[timers'[k]]
  BY <1>11, <1>13 DEF When
<1> QED
  BY <1>9, <1>13, <1>14, <1>15 DEF HeapOrder, InOrder, When

\* One swap of siftdownTimer.
LEMMA SinkOrder ==
  ASSUME IInv, SiftDown, Sinks
  PROVE  HeapOrder'
<1> USE DEF IInv
<1> DEFINE at == sift.at
           c  == LeastChild(at)
           n  == Len(timers)
<1>1. /\ at \in 1 .. n /\ n \in Nat /\ DOMAIN timers = 1 .. n
      /\ sift.dir = "down" /\ sift # Settled
  BY Entries DEF SiftDown, HeapOrder, Settled
<1>2. /\ c \in Children(at) \cap (1 .. n)
      /\ \A k \in Children(at) \cap (1 .. n) : When(c) <= When(k)
  BY <1>1, LeastChildIs DEF Sinks
<1>3. c \in 2 .. n /\ c > at /\ Parent(c) = at
  BY <1>1, <1>2, ChildIs
<1>4. sift' = [sift EXCEPT !.at = c] /\ timers' = Swapped(timers, at, c) /\ due' = due
  BY DEF SiftDown, baseVars, ledger
<1>5. When(c) < When(at)
  BY DEF Sinks
<1>6. \A k \in 2 .. n : Parent(k) # at => When(Parent(k)) <= When(k)
  BY <1>1 DEF HeapOrder, InOrder
<1>7. at > 1 => When(Parent(at)) <= When(c)
  BY <1>1, <1>2 DEF HeapOrder
<1>8. \A k \in 1 .. n : When(k) \in Nat
  BY <1>1, Entries
<1> HIDE DEF at, c, n
<1>9. /\ Len(timers') = n /\ DOMAIN timers' = 1 .. n
      /\ \A k \in 1 .. n :
           When(k)' = IF k = c THEN When(at) ELSE IF k = at THEN When(c) ELSE When(k)
  BY <1>1, <1>3, <1>4, SwapWhen DEF n
<1>10. sift'.dir = "down" /\ sift'.at = c
  BY <1>1, <1>4 DEF TypeOK
<1>11. \A k \in 2 .. n : Parent(k) \in 1 .. n /\ Parent(k) < k /\ k \in Children(Parent(k))
  BY <1>1, ParentIs
<1>12. ASSUME NEW k \in 2 .. n, Parent(k) # c PROVE When(Parent(k))' <= When(k)'
  <2>1. CASE k = at
    <3>1. Parent(k) # at /\ k # c /\ at > 1
      BY <1>1, <1>3, <1>11, <2>1
    <3> QED BY <1>7, <1>9, <1>11, <1>12, <1>1, <2>1, <3>1
  <2>2. CASE k = c
    <3>1. Parent(k) = at /\ at # c
      BY <1>1, <1>3, <2>2
    <3> QED BY <1>1, <1>5, <1>8, <1>9, <2>2, <3>1
  <2>3. CASE k # at /\ k # c /\ Parent(k) = at
    <3>1. When(c) <= When(k)
      BY <1>2, <1>11, <1>1, <2>3
    <3> QED BY <1>1, <1>3, <1>9, <1>12, <2>3, <3>1
  <2>4. CASE k # at /\ k # c /\ Parent(k) # at
    BY <1>1, <1>6, <1>9, <1>11, <1>12, <2>4
  <2> QED BY <2>1, <2>2, <2>3, <2>4
<1>13. ASSUME NEW q, q = Parent(c), NEW k \in Children(c) \cap (1 .. n)
       PROVE  When(q)' <= When(k)'
  <2>1. k \in 2 .. n /\ Parent(k) = c /\ k > c
    BY <1>3, <1>1, <1>13, ChildIs
  <2>2. When(c) <= When(k) /\ k # at /\ k # c /\ q = at /\ q # c
    BY <1>1, <1>3, <1>6, <1>13, <2>1
  <2> QED BY <1>1, <1>3, <1>9, <2>1, <2>2
<1>14. Len(timers') = n /\ sift'.at = c /\ c \in DOMAIN timers'
  BY <1>3, <1>9, <1>10
<1>15. \A k \in Children(sift'.at) \cap (1 .. Len(timers')) :
          due'[timers'[Parent(sift'.at)]] <= due'[timers'[k]]
  BY <1>13, <1>14 DEF When
<1>16. \A k \in 2 .. Len(timers') :
         Parent(k) = sift'.at \/ due'[timers'[Parent(k)]] <= due'[timers'[k]]
  BY <1>12, <1>14 DEF When
<1> QED
  BY <1>10, <1>14, <1>15, <1>16 DEF HeapOrder, InOrder, When

LEMMA DropRootOrder ==
  ASSUME IInv, sift = Settled, timers # <<>>, DropRoot, due' = due
  PROVE  HeapOrder'
<1> USE DEF IInv
<1> DEFINE n == Len(timers)
<1>1. n \in Nat /\ n >= 1 /\ DOMAIN timers = 1 .. n
  BY Entries, EmptySeq DEF TypeOK
<1>2. /\ timers' \in Seq(Ids) /\ DOMAIN timers' = 1 .. n - 1
      /\ \A i \in 1 .. n - 1 : timers'[i] = IF i = 1 THEN timers[n] ELSE timers[i]
  BY DropRootNodes
<1>3. Len(timers') = n - 1
  <2>1. timers' = Refilled(timers, 1) /\ timers \in Seq(Ids) /\ 1 \in DOMAIN timers
    BY <1>1 DEF DropRoot, TypeOK
  <2> QED BY <2>1, RefilledIs
<1>4. \A k \in 2 .. n : When(Parent(k)) <= When(k)
  BY DEF HeapOrder, InOrder, Settled
<1>5. sift' = IF n = 1 THEN Settled ELSE [dir |-> "down", at |-> 1]
  BY DEF DropRoot
<1> HIDE DEF n
<1>6. \A k \in 2 .. n - 1 : When(k)' = When(k)
  BY <1>1, <1>2 DEF When
<1>7. ASSUME NEW k \in 2 .. n - 1, Parent(k) # 1 PROVE When(Parent(k))' <= When(k)'
  <2>1. Parent(k) \in 2 .. n - 1
    BY <1>1, <1>7, ParentIs
  <2> QED BY <1>1, <1>4, <1>6, <2>1
<1>8. CASE n = 1
  <2>1. sift' = Settled /\ 2 .. Len(timers') = {}
    BY <1>3, <1>5, <1>8
  <2> QED BY <2>1 DEF HeapOrder, Settled
<1>9. CASE n # 1
  <2>1. sift'.dir = "down" /\ sift'.at = 1 /\ 1 \in DOMAIN timers'
    BY <1>1, <1>2, <1>5, <1>9
  <2> QED BY <1>3, <1>7, <2>1 DEF HeapOrder, InOrder
<1> QED
  BY <1>8, <1>9

LEMMA StepOrder ==
  ASSUME IInv, [Next]_vars
  PROVE  HeapOrder'
<1> USE DEF IInv
<1>1. ASSUME NEW duration \in Durations, Start(duration) PROVE HeapOrder'
  BY <1>1, StartOrder
<1>2. CASE SiftUp
  <2>1. CASE Rises
    BY <1>2, <2>1, RiseOrder
  <2>2. CASE ~Rises
    <3>1. /\ UNCHANGED <<timers, due>> /\ sift' = Settled /\ sift.dir = "up"
      BY <1>2, <2>2 DEF SiftUp, baseVars, ledger
    <3>2. sift.at \in DOMAIN timers /\ sift.at \in Nat
      BY <3>1, Entries DEF HeapOrder, Settled
    <3>3. sift.at \in 2 .. Len(timers) => InOrder(sift.at)
      <4>1. ASSUME sift.at \in 2 .. Len(timers) PROVE InOrder(sift.at)
        <5>1. Parent(sift.at) \in DOMAIN timers
          BY <4>1, Entries, ParentIs
        <5> QED BY <2>2, <4>1, <5>1, <3>2, Entries DEF Rises, InOrder
      <4> QED BY <4>1
    <3>4. \A k \in 2 .. Len(timers) : InOrder(k)
      BY <3>1, <3>3 DEF HeapOrder
    <3> QED BY <3>1, <3>4 DEF HeapOrder, InOrder, When
  <2> QED BY <2>1, <2>2
<1>3. CASE SiftDown
  <2>1. CASE Sinks
    BY <1>3, <2>1, SinkOrder
  <2>2. CASE ~Sinks
    <3>1. UNCHANGED <<timers, due>> /\ sift' = Settled /\ sift.dir = "down"
      BY <1>3, <2>2 DEF SiftDown, baseVars, ledger
    <3>2. sift.at \in DOMAIN timers /\ sift.at \in Nat /\ sift.at >= 1
      BY <3>1, Entries DEF HeapOrder, Settled
    <3>3. ASSUME NEW k \in 2 .. Len(timers), Parent(k) = sift.at PROVE InOrder(k)
      <4>1. k \in Children(sift.at) \cap (1 .. Len(timers))
        BY <3>3, ParentIs
      <4>2. /\ LeastChild(sift.at) \in DOMAIN timers
            /\ When(LeastChild(sift.at)) <= When(k)
        BY <3>2, <4>1, LeastChildIs, Entries
      <4>3. ~(When(LeastChild(sift.at)) < When(sift.at))
        BY <2>2, <4>1 DEF Sinks
      <4>4. When(LeastChild(sift.at)) \in Nat /\ When(sift.at) \in Nat /\ When(k) \in Nat
        BY <3>2, <4>1, <4>2, Entries
      <4>5. When(sift.at) <= When(k)
        BY <4>2, <4>3, <4>4
      <4> QED BY <3>3, <4>5 DEF InOrder
    <3>4. \A k \in 2 .. Len(timers) : InOrder(k)
      BY <3>1, <3>3 DEF HeapOrder
    <3> QED BY <3>1, <3>4 DEF HeapOrder, InOrder, When
  <2> QED BY <2>1, <2>2
<1>4. CASE PurgeRoot \/ FireRoot
  <2>1. sift = Settled /\ timers # <<>> /\ DropRoot /\ due' = due
    BY <1>4 DEF PurgeRoot, FireRoot, RootDue, CallsAction, Fired, baseVars, ledger
  <2> QED BY <2>1, DropRootOrder
<1>5. CASE Destroy
  <2>1. timers' = <<>> /\ sift' = Settled
    BY <1>5 DEF Destroy
  <2>2. 2 .. Len(timers') = {}
    BY <2>1, EmptySeq
  <2> QED BY <2>1, <2>2 DEF HeapOrder
<1>6. CASE UNCHANGED <<timers, sift, due>>
  BY <1>6 DEF HeapOrder, InOrder, When
<1> QED
  BY <1>1, <1>2, <1>3, <1>4, <1>5, <1>6
  DEF Next, Cancel, Stopped, Update, EntersLoop, Reported, UpdateReturns, Returned,
      ActionDone, ActionReturns, TimePasses, Elapse, Ended, vars, heapVars,
      baseVars, ledger

-----------------------------------------------------------------------------
LEMMA StepIInv == IInv /\ [Next]_vars => IInv'
<1> SUFFICES ASSUME IInv, [Next]_vars PROVE IInv'
  OBVIOUS
<1>1. LoopInv'
  BY StepIsLoopStep, LoopInvStep DEF LoopStep, IInv
<1>2. NodesKept
  BY StepNodes
<1>3. HeapOrder'
  BY StepOrder
<1>4. TypeOK'
  BY <1>1, <1>2 DEF LoopInv, NodesKept, TypeOK
<1> QED
  BY <1>1, <1>2, <1>3, <1>4 DEF IInv, NodesKept

LEMMA Invariance == Spec => []IInv
<1>1. Init => IInv
  <2> SUFFICES ASSUME Init PROVE IInv
    OBVIOUS
  <2>1. LoopInv
    BY LoopInit DEF Init
  <2>2. timers = <<>> /\ timers \in Seq(Ids) /\ DOMAIN timers = {} /\ 2 .. Len(timers) = {}
    BY EmptySeq DEF Init
  <2> QED BY <2>1, <2>2
       DEF IInv, TypeOK, LoopInv, NodesAgree, HeapOrder, Init, BaseInit, Settled
<1> QED
  BY <1>1, StepIInv, PTL DEF Spec

\* The scheduler's state has its types.
THEOREM TypeCorrect == Spec => []TypeOK
<1>1. IInv => TypeOK
  BY DEF IInv
<1> QED
  BY Invariance, <1>1, PTL

\* Heap, hash map, marks and ledger agree at every moment, in the middle of
\* the sift loops too.
THEOREM NodesAlwaysAgree == Spec => []NodesAgree
<1>1. IInv => NodesAgree
  BY DEF IInv
<1> QED
  BY Invariance, <1>1, PTL

\* The heap is in order at every moment, but for the place of a sift loop.
THEOREM AlwaysInOrder == Spec => []HeapOrder
<1>1. IInv => HeapOrder
  BY DEF IInv
<1> QED
  BY Invariance, <1>1, PTL

\* QuadHeapTimer keeps the contract of the interface.
THEOREM Implements == Spec => ImplementsService
<1>1. Init => Service!Init
  BY LoopInit DEF Init
<1>2. ASSUME IInv, [Next]_vars PROVE [Service!Next]_(Service!vars)
  BY <1>2, StepIsLoopStep, LoopRefines DEF LoopStep, IInv
<1> QED
  BY <1>1, <1>2, Invariance, PTL DEF Spec, ImplementsService, Service!Spec

-----------------------------------------------------------------------------
\* The root of a settled heap is due no later than any node.
LEMMA RootBeforeNodes ==
  ASSUME IInv, sift = Settled, status = "running"
  PROVE  /\ \A id \in live \cup deleted : due[timers[1]] <= due[id]
         /\ live \cup deleted # {} => timers # <<>>
<1>1. \A id \in live \cup deleted : \E k \in DOMAIN timers : timers[k] = id
  BY NodesAre DEF IInv
<1>2. \A k \in DOMAIN timers : due[timers[1]] <= due[timers[k]]
  BY RootIsLeast DEF IInv, When
<1>3. timers = <<>> => DOMAIN timers = {}
  BY EmptySeq
<1> QED
  BY <1>1, <1>2, <1>3

\* Timers fire in the order of their deadlines, whatever the actions do and
\* however Updates nest.
THEOREM FiresInOrder == Spec => EarliestFirst
<1> DEFINE Ordered == FiringStep => \A id \in live : due[FiredNow] <= due[id]
<1>1. ASSUME IInv, [Next]_vars PROVE [Ordered]_vars
  <2>0. LoopInv
    BY <1>1 DEF IInv
  <2>1. CASE LoopQuiet
    BY <2>0, <2>1, QuietStep
  <2>2. CASE FireRoot /\ timers[1] \in live /\ LoopFires(timers[1])
    <3>1. FiredNow = timers[1]
      BY <2>0, <2>2, FiringOrReturning
    <3>2. \A id \in live : due[timers[1]] <= due[id]
      BY <1>1, <2>2, RootBeforeNodes DEF FireRoot, InPhase
    <3> QED BY <3>1, <3>2
  <2>3. CASE LoopReturns
    BY <2>0, <2>3, FiringOrReturning
  <2> QED BY <1>1, <2>1, <2>2, <2>3, StepIsLoopStep
<1> QED
  BY <1>1, Invariance, PTL DEF Spec, EarliestFirst

\* What an Update that returns leaves in the heap, canceled nodes included.
LEMMA LeftBehind ==
  ASSUME IInv, ClockAhead, UpdateReturns
  PROVE  \A id \in live \cup deleted :
           /\ due[id] >= Top.now
           /\ next_id = Top.max_id => due[id] > Top.now
<1>1. sift = Settled /\ status = "running" /\ frames # <<>> /\ ~RootDue
  BY DEF UpdateReturns, InPhase
<1>2. CASE live \cup deleted = {}
  BY <1>2
<1>3. CASE live \cup deleted # {}
  <2>1. timers # <<>> /\ \A id \in live \cup deleted : due[timers[1]] <= due[id]
    BY <1>1, <1>3, RootBeforeNodes
  <2>2. timers[1] \in Ids
    BY <2>1, Entries, EmptySeq DEF IInv, TypeOK
  <2>3. live \cup deleted \in SUBSET Ids
    BY DEF IInv, TypeOK, BaseTypeOK
  <2>4. ~(due[timers[1]] <= Top.now /\ timers[1] <= Top.max_id)
    BY <1>1, <2>1 DEF RootDue, When
  <2> QED BY <1>1, <2>1, <2>2, <2>3, <2>4, LeavesOffWell DEF IInv
<1> QED
  BY <1>2, <1>3

(***************************************************************************)
(* When the clock is never set back, an Update does not return before      *)
(* every live timer with an earlier deadline has fired.                    *)
(***************************************************************************)
THEOREM UpdateReachesDue ==
  ASSUME Steps \subseteq Nat
  PROVE  Spec => UpdateComplete
<1> DEFINE Complete ==
      Len(frames') < Len(frames) =>
        \A id \in live :
          /\ due[id] >= Top.now
          /\ next_id = Top.max_id => due[id] > Top.now
<1>1. ASSUME IInv, ClockAhead, [Next]_vars PROVE [Complete]_vars
  <2>0. LoopInv
    BY <1>1 DEF IInv
  <2>1. CASE LoopQuiet
    BY <2>0, <2>1, QuietStep
  <2>2. CASE timers[1] \in live /\ LoopFires(timers[1])
    BY <2>0, <2>2, FiringOrReturning
  <2>3. CASE UpdateReturns
    BY <1>1, <2>3, LeftBehind
  <2> QED BY <1>1, <2>1, <2>2, <2>3, StepIsLoopStep
<1>2. Init => ClockAhead
  BY ClockAheadInit DEF Init
<1>3. ASSUME IInv, ClockAhead, [Next]_vars PROVE ClockAhead'
  BY <1>3, StepIsLoopStep, ClockAheadStep DEF LoopStep, IInv
<1> QED
  BY <1>1, <1>2, <1>3, Invariance, PTL DEF Spec, UpdateComplete

-----------------------------------------------------------------------------
(***************************************************************************)
(* What the destructor leaks.  A node that is due before the latest time   *)
(* told is one that an active Update has yet to reach; outside any Update  *)
(* there is none, and the destructor runs only there.                      *)
(***************************************************************************)
YetToReach(id) == \E i \in DOMAIN frames : frames[i].now > due[id]

LeakInv ==
  /\ clock >= reported
  /\ LeakBound
  /\ status = "running" =>
       \A id \in live \cup deleted : due[id] >= reported \/ YetToReach(id)

LEMMA LeakKept ==
  ASSUME IInv, LeakInv, status' = status, due' = due, reported' = reported,
         clock' \in Nat, clock' >= clock,
         live' \cup deleted' \subseteq live \cup deleted,
         status = "destroyed" => deleted' = deleted,
         \A i \in DOMAIN frames :
           i \in DOMAIN frames' /\ frames'[i].now = frames[i].now
  PROVE  LeakInv'
<1>1. clock \in Nat /\ reported \in Nat
  BY DEF IInv, LoopInv, BaseTypeOK
<1>2. \A id \in live \cup deleted : YetToReach(id) => YetToReach(id)'
  BY DEF YetToReach
<1> QED
  BY <1>1, <1>2 DEF LeakInv, LeakBound

LEMMA LeakStep ==
  ASSUME Steps \subseteq Nat, IInv, ClockAhead, LeakInv, [Next]_vars
  PROVE  LeakInv'
<1>0. /\ LoopInv /\ clock \in Nat /\ reported \in Nat
      /\ live \cup deleted \subseteq Ids
      /\ \A id \in Ids : due[id] \in Nat
  BY DEF IInv, TypeOK, LoopInv, BaseTypeOK
<1>1. ASSUME NEW duration \in Durations, Start(duration) PROVE LeakInv'
  <2>1. clock + duration \in Nat /\ clock + duration >= reported
    BY <1>0, BaseAssumption DEF LeakInv
  <2>2. /\ due'[next_id] = clock + duration
        /\ \A id \in Ids : due'[id] = due[id]
    BY <1>1, <2>1, StartedType DEF Start, IInv, TypeOK
  <2>3. /\ UNCHANGED <<deleted, clock, frames, status, reported>> /\ status = "running"
        /\ live' = live \cup {next_id}
    BY <1>1 DEF Start, Started, MayStart, MayCall
  <2>4. ASSUME NEW id \in live' \cup deleted'
        PROVE  due'[id] >= reported' \/ YetToReach(id)'
    <3>1. CASE id = next_id
      BY <2>1, <2>2, <2>3, <3>1
    <3>2. CASE id \in live \cup deleted
      <4>1. due[id] >= reported \/ YetToReach(id)
        BY <2>3, <3>2 DEF LeakInv
      <4> QED BY <1>0, <2>2, <2>3, <3>2, <4>1 DEF YetToReach
    <3> QED BY <2>3, <2>4, <3>1, <3>2
  <2> QED BY <2>3, <2>4 DEF LeakInv, LeakBound
<1>2. ASSUME NEW id \in ref, Cancel(id) PROVE LeakInv'
  <2>1. /\ UNCHANGED <<clock, frames, status, due, reported>> /\ status = "running"
        /\ live' = live \ {id} /\ deleted' = deleted \cup {id} /\ id \in live
    BY <1>2 DEF Cancel, Stopped, MayCall, IInv, NodesAgree
  <2> QED BY <1>0, <2>1, LeakKept
<1>3. ASSUME NEW lag \in Lags, Update(clock - lag) PROVE LeakInv'
  <2> DEFINE now == clock - lag
             f == NewFrame(now)
  <2>1. now \in Nat /\ now <= clock
    BY <1>0, <1>3, ToldTime DEF Update, EntersLoop, LoopInv
  <2>2. /\ UNCHANGED <<clock, status, due, live, deleted>> /\ status = "running"
        /\ reported' = IF reported >= now THEN reported ELSE now
        /\ frames' = IF timers = <<>> THEN frames ELSE Push(f)
    BY <1>3 DEF Update, EntersLoop, Reported, Service!Later, MayUpdate, MayCall,
                heapVars, NewFrame
  <2>3. f \in LoopFrame /\ f.now = now
    BY <1>0, <2>1 DEF NewFrame, LoopFrame, LoopInv, BaseTypeOK
  <2> HIDE DEF now, f
  <2>4. clock' >= reported'
    BY <1>0, <2>1, <2>2 DEF LeakInv
  <2>5. CASE timers = <<>>
    <3>1. DOMAIN timers = {}
      BY <2>5, EmptySeq
    <3>2. live \cup deleted = {}
      BY <2>2, <3>1, NodesAre DEF IInv
    <3> QED BY <2>2, <2>4, <3>2 DEF LeakInv, LeakBound
  <2>6. CASE timers # <<>>
    <3>1. /\ DOMAIN frames' = DOMAIN frames \cup {Len(frames) + 1}
          /\ frames'[Len(frames) + 1] = f
          /\ \A i \in DOMAIN frames : frames'[i] = frames[i]
      BY <1>0, <2>2, <2>3, <2>6, PushIs DEF LoopInv
    <3>2. ASSUME NEW id \in live \cup deleted
          PROVE  due'[id] >= reported' \/ YetToReach(id)'
      <4>1. due[id] \in Nat /\ due'[id] = due[id]
        BY <1>0, <2>2
      <4>2. CASE YetToReach(id)
        BY <3>1, <4>1, <4>2 DEF YetToReach
      <4>3. CASE due[id] >= reported /\ due[id] < now
        BY <2>3, <3>1, <4>1, <4>3 DEF YetToReach
      <4>4. CASE due[id] >= reported /\ ~(due[id] < now)
        BY <1>0, <2>1, <2>2, <4>1, <4>4
      <4> QED BY <2>2, <4>2, <4>3, <4>4 DEF LeakInv
    <3> QED BY <2>2, <2>4, <3>2 DEF LeakInv, LeakBound
  <2> QED BY <2>5, <2>6
<1>4. CASE UpdateReturns
  <2>1. /\ UNCHANGED <<clock, status, due, live, deleted, reported>> /\ status = "running"
        /\ frames # <<>> /\ frames' = Pop
    BY <1>4 DEF UpdateReturns, Returned, InPhase, heapVars, ledger
  <2>2. \A id \in live \cup deleted : due[id] >= Top.now
    BY <1>4, LeftBehind
  <2>3. /\ DOMAIN frames' = 1 .. Len(frames) - 1
        /\ \A i \in DOMAIN frames' : frames'[i] = frames[i]
        /\ DOMAIN frames = 1 .. Len(frames) /\ Len(frames) \in Nat
    BY <1>0, <2>1, TopPop, Elements DEF LoopInv
  <2>4. ASSUME NEW id \in live \cup deleted, YetToReach(id)
        PROVE  YetToReach(id)'
    <3>1. PICK i \in DOMAIN frames : frames[i].now > due[id]
      BY <2>4 DEF YetToReach
    <3>2. i # Len(frames)
      <4>1. Top.now \in Nat /\ due[id] \in Nat /\ due[id] >= Top.now
        BY <1>0, <2>1, <2>2, TopFields
      <4> QED BY <3>1, <4>1 DEF Top
    <3>3. i \in DOMAIN frames'
      BY <2>3, <3>2
    <3> QED BY <2>1, <2>3, <3>1, <3>3 DEF YetToReach
  <2> QED BY <2>1, <2>4 DEF LeakInv, LeakBound
<1>5. CASE FireRoot \/ ActionDone
  <2>1. /\ frames # <<>>
        /\ \E p \in {"loop", "callback"} : frames' = SetTop([Top EXCEPT !.phase = p])
        /\ UNCHANGED <<clock, status, due, deleted, reported>> /\ live' \subseteq live
    BY <1>5 DEF FireRoot, CallsAction, Fired, ActionDone, ActionReturns, InPhase,
                heapVars, ledger
  <2>2. /\ frames' \in Seq(LoopFrame) /\ Len(frames') = Len(frames)
        /\ \A i \in DOMAIN frames' : frames'[i].now = frames[i].now
    BY <1>0, <2>1, PhaseKeepsTold
  <2>3. DOMAIN frames' = DOMAIN frames
    BY <1>0, <2>2, Elements DEF LoopInv
  <2> QED BY <1>0, <2>1, <2>2, <2>3, LeakKept
<1>6. CASE PurgeRoot
  <2>1. UNCHANGED <<clock, frames, status, due, live, reported>> /\ status = "running"
        /\ deleted' \subseteq deleted
    BY <1>6 DEF PurgeRoot, InPhase, baseVars, ledger
  <2> QED BY <1>0, <2>1, LeakKept
<1>7. CASE TimePasses
  <2>1. UNCHANGED <<frames, status, due, live, deleted, reported>>
        /\ clock' \in Nat /\ clock' >= clock
    BY <1>0, <1>7 DEF TimePasses, Elapse, heapVars, ledger
  <2> QED BY <1>0, <2>1, LeakKept
<1>8. CASE Destroy
  <2>1. /\ UNCHANGED <<clock, frames, due, reported, deleted>> /\ frames = <<>>
        /\ status = "running" /\ status' = "destroyed"
    BY <1>8 DEF Destroy, Discarded
  <2>2. \A id \in deleted : ~YetToReach(id)
    BY <2>1, EmptySeq DEF YetToReach
  <2> QED BY <2>1, <2>2 DEF LeakInv, LeakBound
<1>9. CASE UNCHANGED <<deleted, baseVars>>
  <2>1. UNCHANGED <<clock, frames, status, due, live, deleted, reported>>
    BY <1>9 DEF baseVars, ledger
  <2> QED BY <1>0, <2>1, LeakKept
<1> QED
  BY <1>1, <1>2, <1>3, <1>4, <1>5, <1>6, <1>7, <1>8, <1>9
  DEF Next, SiftUp, SiftDown, Ended, vars, heapVars

\* When the clock is never set back, what the destructor leaks are canceled
\* timers that no Update has gone past.
THEOREM LeaksLittle ==
  ASSUME Steps \subseteq Nat
  PROVE  Spec => []LeakBound
<1>1. Init => ClockAhead /\ LeakInv
  <2> SUFFICES ASSUME Init PROVE ClockAhead /\ LeakInv
    OBVIOUS
  <2>1. clock \in Nat /\ clock >= 0
    BY BaseAssumption DEF Init, BaseInit
  <2> QED BY <2>1, ClockAheadInit DEF Init, BaseInit, LeakInv, LeakBound
<1>2. ASSUME IInv, ClockAhead, LeakInv, [Next]_vars PROVE ClockAhead' /\ LeakInv'
  BY <1>2, StepIsLoopStep, ClockAheadStep, LeakStep DEF LoopStep, IInv
<1>3. LeakInv => LeakBound
  BY DEF LeakInv
<1> QED
  BY <1>1, <1>2, <1>3, Invariance, PTL DEF Spec
-----------------------------------------------------------------------------
\* While a sift loop runs nothing else does, and otherwise nothing but the
\* loop moves while the loop is in control.
LEMMA LoopsAlone ==
  ASSUME [Next]_vars
  PROVE  /\ sift # Settled => SiftUp \/ SiftDown \/ UNCHANGED vars
         /\ InPhase("loop") /\ sift = Settled =>
              FireRoot \/ PurgeRoot \/ UpdateReturns \/ UNCHANGED vars
<1>1. ASSUME sift # Settled PROVE SiftUp \/ SiftDown \/ UNCHANGED vars
  BY <1>1 DEF Next, Start, Cancel, Update, FireRoot, PurgeRoot, UpdateReturns,
              ActionDone, TimePasses, Destroy, Ended
<1>2. ASSUME InPhase("loop"), sift = Settled
      PROVE  FireRoot \/ PurgeRoot \/ UpdateReturns \/ UNCHANGED vars
  BY <1>2 DEF Next, InPhase, Start, MayStart, MayCall, Cancel, Update, EntersLoop,
              MayUpdate, ActionDone, ActionReturns, TimePasses, Elapse, Destroy,
              Discarded, Ended, SiftUp, SiftDown, Settled
<1> QED
  BY <1>1, <1>2

\* siftupTimer comes nearer to the root, siftdownTimer to the end of the heap.
LEMMA SiftsEnd ==
  ASSUME IInv, SiftUp \/ SiftDown
  PROVE  Iterations' < Iterations
<1> USE DEF IInv
<1> DEFINE n == Len(timers)
           at == sift.at
<1>1. at \in 1 .. n /\ n \in Nat /\ at \in Nat
  BY Entries DEF SiftUp, SiftDown, HeapOrder, Settled
<1>2. sift \in [dir : {"none", "up", "down"}, at : Nat]
  BY DEF TypeOK
<1>3. CASE SiftUp /\ Rises
  <2>1. sift.dir = "up" /\ sift' = [sift EXCEPT !.at = Parent(at)] /\ at >= 2
    BY <1>1, <1>3 DEF SiftUp, Rises
  <2>2. Parent(at) < at /\ Parent(at) \in Nat
    BY <1>1, <2>1, ParentIs
  <2>3. sift'.dir = "up" /\ sift'.at = Parent(at)
    BY <1>2, <2>1
  <2> QED BY <2>1, <2>2, <2>3 DEF Iterations
<1>4. CASE SiftUp /\ ~Rises
  <2>1. sift.dir = "up" /\ sift' = Settled
    BY <1>4 DEF SiftUp
  <2> QED BY <1>1, <2>1 DEF Iterations, Settled
<1>5. CASE SiftDown /\ Sinks
  <2>1. /\ sift.dir = "down" /\ sift' = [sift EXCEPT !.at = LeastChild(at)]
        /\ timers' = Swapped(timers, at, LeastChild(at))
    BY <1>5 DEF SiftDown
  <2>2. LeastChild(at) \in Children(at) \cap (1 .. n)
    BY <1>1, <1>5, LeastChildIs DEF Sinks
  <2>3. LeastChild(at) > at /\ LeastChild(at) \in 1 .. n
    BY <1>1, <2>2, ChildIs
  <2>4. sift'.dir = "down" /\ sift'.at = LeastChild(at)
    BY <1>2, <2>1
  <2>5. at \in DOMAIN timers /\ LeastChild(at) \in DOMAIN timers
    BY <1>1, <2>3, Entries
  <2>6. Len(timers') = n
    BY <2>1, <2>5, SwappedIs DEF TypeOK
  <2> QED BY <1>1, <2>1, <2>3, <2>4, <2>6 DEF Iterations
<1>6. CASE SiftDown /\ ~Sinks
  <2>1. sift.dir = "down" /\ sift' = Settled
    BY <1>6 DEF SiftDown
  <2> QED BY <1>1, <2>1 DEF Iterations, Settled
<1> QED
  BY <1>3, <1>4, <1>5, <1>6

\* The only node that ever comes into the heap is the one that Start makes.
LEMMA NoOldNodes ==
  ASSUME IInv, [Next]_vars
  PROVE  /\ Range(timers) \subseteq Ids
         /\ \A id \in Range(timers)' : id \in Range(timers) \/ id = next_id
<1> DEFINE Nodes == ref \cup (IF status = "running" THEN deleted ELSE {})
<1>1. Range(timers) = Nodes /\ Range(timers) \subseteq Ids
  BY DEF IInv, NodesAgree, TypeOK, Range
<1>2. Range(timers)' = Nodes'
  BY StepNodes DEF NodesKept, NodesAgree, Range
<1>3. ASSUME NEW duration \in Durations, Start(duration)
      PROVE  Nodes' \subseteq Nodes \cup {next_id}
  BY <1>3 DEF Start
<1>4. ASSUME NEW id \in ref, Cancel(id) PROVE Nodes' \subseteq Nodes
  BY <1>4 DEF Cancel, MayCall
<1>5. ASSUME PurgeRoot \/ FireRoot PROVE Nodes' \subseteq Nodes
  BY <1>5 DEF PurgeRoot, FireRoot, InPhase, CallsAction, baseVars
<1>6. ASSUME Destroy PROVE Nodes' \subseteq Nodes
  BY <1>6 DEF Destroy, Discarded
<1>7. ASSUME UNCHANGED <<ref, deleted, status>> PROVE Nodes' \subseteq Nodes
  BY <1>7
<1>8. Nodes' \subseteq Nodes \cup {next_id}
  BY <1>3, <1>4, <1>5, <1>6, <1>7
  DEF Next, SiftUp, SiftDown, Update, EntersLoop, UpdateReturns, Returned, ActionDone,
      ActionReturns, TimePasses, Elapse, Ended, vars, heapVars, baseVars
<1> QED
  BY <1>1, <1>2, <1>8

\* An iteration of the loop takes the root, marked or not, out of the heap.
LEMMA RootLeavesReach ==
  ASSUME IInv, [Next]_vars, InPhase("loop"), PurgeRoot \/ FireRoot
  PROVE  InReach(Len(frames), Range(timers))' # InReach(Len(frames), Range(timers))
<1> USE DEF IInv
<1> DEFINE k == Len(frames)
<1>1. timers # <<>> /\ timers[1] <= Top.max_id /\ DropRoot /\ next_id' = next_id
  BY DEF PurgeRoot, FireRoot, RootDue, CallsAction, Fired, baseVars
<1>2. timers[1] \in Range(timers) /\ timers[1] \notin Range(timers)'
  <2>1. 1 \in DOMAIN timers
    BY <1>1, Entries, EmptySeq DEF TypeOK
  <2>2. {timers'[i] : i \in DOMAIN timers'} = {timers[i] : i \in DOMAIN timers} \ {timers[1]}
    BY <1>1, DropRootNodes
  <2> QED BY <2>1, <2>2 DEF Range
<1>3. timers[1] \in FirstId .. next_id - 1
  BY <1>2, NoOldNodes DEF Ids
<1>4. Top.max_id \in Nat /\ next_id \in Nat /\ FirstId \in Nat
  BY TopFields DEF InPhase, LoopInv, BaseTypeOK, FirstId, Service!FirstId
<1>5. timers[1] \in InReach(k, Range(timers))
  BY <1>1, <1>2, <1>3, <1>4 DEF InReach, Top
<1>6. ~(timers[1] >= next_id')
  BY <1>1, <1>3, <1>4
<1>7. timers[1] \notin InReach(k, Range(timers))'
  BY <1>2, <1>6 DEF InReach
<1> QED
  BY <1>5, <1>7

(***************************************************************************)
(* Every Update ends, and so does every sift loop: the finitely many ids   *)
(* in the reach of an Update only become fewer (ShrinkingEnds), and each   *)
(* iteration takes one away, which it purges or fires.                     *)
(***************************************************************************)
THEOREM UpdatesEnd == Spec => UpdateEnds
<1> DEFINE Reach(k) == InReach(k, Range(timers))
           Ends ==
             /\ sift # Settled => Iterations' < Iterations
             /\ \A k \in DOMAIN frames \cap DOMAIN frames' :
                  /\ Reach(k)' \subseteq Reach(k)
                  /\ InPhase("loop") /\ sift = Settled /\ k = Len(frames) =>
                       Reach(k)' # Reach(k)
<1>1. ASSUME IInv, [Next]_vars PROVE [Ends]_vars
  <2> SUFFICES ASSUME vars' # vars PROVE Ends
    OBVIOUS
  <2>0. LoopInv /\ TypeOK /\ LoopStep
    BY <1>1, StepIsLoopStep DEF IInv, LoopStep
  <2>1. ASSUME sift # Settled PROVE Iterations' < Iterations
    BY <1>1, <2>1, LoopsAlone, SiftsEnd
  <2>2. ASSUME NEW k \in DOMAIN frames \cap DOMAIN frames'
        PROVE  Reach(k)' \subseteq Reach(k)
    <3>1. /\ frames'[k].max_id = frames[k].max_id
          /\ next_id \in Nat /\ next_id' \in Nat /\ next_id' >= next_id
      BY <2>0, FramesKept DEF LoopInv, BaseTypeOK
    <3>2. \A id \in Range(timers)' : id \in Range(timers) \/ id = next_id
      BY <1>1, NoOldNodes
    <3> QED BY <3>1, <3>2 DEF InReach, FirstId, Service!FirstId
  <2>3. ASSUME NEW k \in DOMAIN frames \cap DOMAIN frames',
               InPhase("loop"), sift = Settled, k = Len(frames)
        PROVE  Reach(k)' # Reach(k)
    <3>1. CASE FireRoot \/ PurgeRoot
      <4>1. InReach(Len(frames), Range(timers))' # InReach(Len(frames), Range(timers))
        BY <1>1, <2>3, <3>1, RootLeavesReach
      <4>2. Len(frames') = Len(frames)
        BY <2>0, <3>1, PhaseKeepsTold DEF PurgeRoot, FireRoot, CallsAction, InPhase, baseVars
      <4> QED BY <2>3, <4>1, <4>2 DEF InReach
    <3>2. CASE UpdateReturns
      BY <2>0, <2>3, <3>2, TopReturns DEF UpdateReturns, LoopReturns
    <3> QED BY <1>1, <2>3, <3>1, <3>2, LoopsAlone
  <2> QED BY <2>1, <2>2, <2>3
<1> QED
  BY <1>1, Invariance, PTL DEF Spec, UpdateEnds
=============================================================================
