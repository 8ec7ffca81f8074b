------------------------ MODULE TimerService_proofs -------------------------
(* What the contract of the schedulers implies, proved for every set of    *)
(* deadlines and times.                                                    *)
EXTENDS TimerService, SequenceTheorems, TLAPS

\* What the elements of a sequence are.
LEMMA Elements ==
  ASSUME NEW S, NEW s \in Seq(S)
  PROVE  /\ DOMAIN s = 1 .. Len(s)
         /\ Len(s) \in Nat
         /\ \A i \in DOMAIN s : s[i] \in S
  BY ElementOfSeq, LenProperties

\* The variables keep their types in a Start.
LEMMA StartType ==
  ASSUME Deadlines \subseteq Int, TypeOK,
         NEW deadline \in Deadlines, Start(deadline)
  PROVE  /\ TypeOK'
         /\ \A id \in FirstId .. next_id - 1 : due'[id] = due[id]
<1> DEFINE Ids == FirstId .. next_id - 1
<1>1. Ids \cup {next_id} = FirstId .. next_id' - 1
  BY DEF TypeOK, Start, FirstId
<1>2. due \in [Ids -> Int] /\ deadline \in Int /\ next_id \notin Ids
  BY DEF TypeOK
<1>3. due' = Put(due, next_id, deadline)
  BY DEF Start
<1>4. /\ due' \in [Ids \cup {next_id} -> Int]
      /\ \A id \in Ids \ {next_id} : due'[id] = due[id]
  <2> HIDE DEF Ids
  <2> QED BY <1>2, <1>3 DEF Put
<1>5. due' \in [FirstId .. next_id' - 1 -> Int]
  BY <1>1, <1>4
<1>6. Ids \subseteq FirstId .. next_id' - 1
  BY <1>1
<1>7. fired' \in Seq(FirstId .. next_id' - 1)
  <2>1. fired \in Seq(Ids) /\ fired' = fired
    BY DEF TypeOK, Start
  <2> QED BY <1>6, <2>1, SeqMonotonic
<1>8. live' \subseteq FirstId .. next_id' - 1
  BY <1>1 DEF TypeOK, Start
<1>9. next_id' \in Nat /\ next_id' >= FirstId /\ reported' \in Nat
  BY DEF TypeOK, Start, FirstId
<1> QED
  BY <1>2, <1>4, <1>5, <1>7, <1>8, <1>9 DEF TypeOK

\* The strengthening of the two invariants that a step preserves.
IInv == TypeOK /\ FiresOnce /\ NeverEarly

LEMMA InitIInv == Init => IInv
  BY DEF Init, IInv, TypeOK, FiresOnce, NeverEarly, FirstId

LEMMA StepIInv ==
  ASSUME Deadlines \subseteq Int, Times \subseteq Nat
  PROVE  IInv /\ [Next]_vars => IInv'
<1> SUFFICES ASSUME IInv, [Next]_vars PROVE IInv'
  OBVIOUS
<1> USE DEF IInv
<1>1. ASSUME NEW deadline \in Deadlines, Start(deadline) PROVE IInv'
  <2>1. /\ TypeOK'
        /\ \A id \in FirstId .. next_id - 1 : due'[id] = due[id]
    BY <1>1, StartType
  <2>2. \A i \in DOMAIN fired : fired[i] \in FirstId .. next_id - 1
    BY Elements DEF TypeOK
  <2>3. fired' = fired /\ reported' = reported
    BY <1>1 DEF Start
  <2>4. FiresOnce'
    BY <1>1, <2>2, <2>3 DEF FiresOnce, Start, TypeOK
  <2>5. NeverEarly'
    BY <2>1, <2>2, <2>3 DEF NeverEarly
  <2> QED BY <2>1, <2>4, <2>5
<1>2. ASSUME NEW id \in live, Cancel(id) PROVE IInv'
  BY <1>2 DEF Cancel, TypeOK, FiresOnce, NeverEarly
<1>3. ASSUME NEW id \in live, Fire(id) PROVE IInv'
  <2>1. TypeOK'
    BY <1>3 DEF Fire, TypeOK
  <2>2. /\ DOMAIN fired = 1 .. Len(fired)
        /\ DOMAIN fired' = 1 .. Len(fired) + 1
        /\ \A i \in 1 .. Len(fired) : fired'[i] = fired[i]
        /\ fired'[Len(fired) + 1] = id
        /\ Len(fired) \in Nat
    BY <1>3 DEF Fire, TypeOK
  <2>3. FiresOnce'
    BY <1>3, <2>2 DEF FiresOnce, Fire
  <2>4. NeverEarly'
    BY <1>3, <2>2 DEF NeverEarly, Fire
  <2> QED BY <2>1, <2>3, <2>4
<1>4. ASSUME NEW now \in Times, Update(now) PROVE IInv'
  <2>1. reported' \in Nat /\ reported' >= reported
    BY <1>4 DEF Update, Later, TypeOK
  <2>2. \A i \in DOMAIN fired : due[fired[i]] \in Int
    BY Elements DEF TypeOK
  <2> QED
    BY <1>4, <2>1, <2>2 DEF Update, TypeOK, FiresOnce, NeverEarly
<1>5. CASE Discard
  BY <1>5 DEF Discard, TypeOK, FiresOnce, NeverEarly
<1>6. CASE UNCHANGED vars
  BY <1>6 DEF vars, TypeOK, FiresOnce, NeverEarly
<1> QED
  BY <1>1, <1>2, <1>3, <1>4, <1>5, <1>6 DEF Next

(***************************************************************************)
(* Every scheduler that implements the contract calls each timeout action  *)
(* at most once, never for a pending timer, and never before an Update was *)
(* told a time that reaches the deadline.                                  *)
(***************************************************************************)
THEOREM ContractSafe ==
  ASSUME Deadlines \subseteq Int, Times \subseteq Nat
  PROVE  Spec => [](TypeOK /\ FiresOnce /\ NeverEarly)
<1>1. IInv => TypeOK /\ FiresOnce /\ NeverEarly
  BY DEF IInv
<1> QED
  BY InitIInv, StepIInv, <1>1, PTL DEF Spec

(***************************************************************************)
(* A timer whose Cancel answered true, or whose action was called, is      *)
(* never pending again and its action is not called again.                 *)
(***************************************************************************)
THEOREM ContractCancel ==
  ASSUME Deadlines \subseteq Int, Times \subseteq Nat
  PROVE  Spec => CancelIsFinal
<1> DEFINE Final ==
      \A id \in DOMAIN due \ live :
        /\ id \notin live'
        /\ Len(fired') > Len(fired) => fired'[Len(fired')] # id
<1>1. ASSUME IInv, [Next]_vars PROVE [Final]_vars
  <2>1. ASSUME NEW deadline \in Deadlines, Start(deadline) PROVE Final
    BY <1>1, <2>1 DEF Start, IInv, TypeOK
  <2>2. ASSUME NEW id \in live, Cancel(id) PROVE Final
    BY <1>1, <2>2 DEF Cancel, IInv, TypeOK
  <2>3. ASSUME NEW id \in live, Fire(id) PROVE Final
    BY <1>1, <2>3 DEF Fire, IInv, TypeOK
  <2>4. ASSUME NEW now \in Times, Update(now) PROVE Final
    BY <1>1, <2>4 DEF Update, IInv, TypeOK
  <2>5. CASE Discard
    BY <1>1, <2>5 DEF Discard, IInv, TypeOK
  <2> QED
    BY <1>1, <2>1, <2>2, <2>3, <2>4, <2>5 DEF Next
<1> QED
  BY <1>1, InitIInv, StepIInv, PTL DEF Spec, CancelIsFinal
=============================================================================
