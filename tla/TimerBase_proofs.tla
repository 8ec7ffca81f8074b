-------------------------- MODULE TimerBase_proofs --------------------------
(* Lemmas on what the schedulers share, for their own proofs.              *)
EXTENDS TimerBase, SequenceTheorems, FiniteSetTheorems, WellFoundedInduction, TLAPS

\* What the elements of a sequence are.
LEMMA Elements ==
  ASSUME NEW S, NEW s \in Seq(S)
  PROVE  /\ DOMAIN s = 1 .. Len(s)
         /\ Len(s) \in Nat
         /\ \A i \in DOMAIN s : s[i] \in S
  BY ElementOfSeq, LenProperties

\* The top of the stack of Update activations, and the stack without it.
LEMMA TopPop ==
  ASSUME NEW S, frames \in Seq(S), frames # <<>>
  PROVE  /\ Top \in S
         /\ Len(frames) \in DOMAIN frames
         /\ Pop \in Seq(S)
         /\ DOMAIN Pop = 1 .. Len(frames) - 1
         /\ \A i \in DOMAIN Pop : i \in DOMAIN frames /\ Pop[i] = frames[i]
<1>1. Len(frames) \in Nat /\ DOMAIN frames = 1 .. Len(frames) /\ Len(frames) # 0
  BY Elements, EmptySeq
<1>2. \A i \in 1 .. Len(frames) - 1 : frames[i] \in S
  BY <1>1, ElementOfSeq
<1>3. /\ SubSeq(frames, 1, Len(frames) - 1) \in Seq(S)
      /\ Len(SubSeq(frames, 1, Len(frames) - 1)) = Len(frames) - 1
      /\ \A i \in 1 .. Len(frames) - 1 :
           SubSeq(frames, 1, Len(frames) - 1)[i] = frames[i]
  BY <1>1, <1>2, SubSeqProperties
<1>4. DOMAIN Pop = 1 .. Len(frames) - 1
  BY <1>3, LenProperties DEF Pop
<1> QED
  BY <1>1, <1>3, <1>4, ElementOfSeq DEF Top, Pop

\* Replacing the top of the stack.
LEMMA SetTopIs ==
  ASSUME NEW S, frames \in Seq(S), frames # <<>>, NEW f \in S
  PROVE  /\ SetTop(f) \in Seq(S)
         /\ Len(SetTop(f)) = Len(frames)
         /\ DOMAIN SetTop(f) = DOMAIN frames
         /\ \A i \in DOMAIN frames :
              SetTop(f)[i] = IF i = Len(frames) THEN f ELSE frames[i]
<1>1. Len(frames) \in 1 .. Len(frames) /\ DOMAIN frames = 1 .. Len(frames)
  BY Elements, EmptySeq
<1> QED
  BY <1>1, ExceptSeq, LenProperties DEF SetTop

\* Pushing an activation.
LEMMA PushIs ==
  ASSUME NEW S, frames \in Seq(S), NEW f \in S
  PROVE  /\ Push(f) \in Seq(S)
         /\ Len(Push(f)) = Len(frames) + 1
         /\ DOMAIN Push(f) = DOMAIN frames \cup {Len(frames) + 1}
         /\ Push(f)[Len(frames) + 1] = f
         /\ \A i \in DOMAIN frames : Push(f)[i] = frames[i]
<1>1. Len(frames) \in Nat /\ DOMAIN frames = 1 .. Len(frames)
  BY Elements
<1>2. DOMAIN Push(f) = 1 .. Len(frames) + 1
  BY AppendProperties, LenProperties DEF Push
<1> QED
  BY <1>1, <1>2, AppendProperties DEF Push

\* A non-empty set of naturals has a least element.
LEMMA LeastNat ==
  ASSUME NEW T \in SUBSET Nat, T # {}
  PROVE  \E x \in T : \A y \in T : x <= y
<1> DEFINE R == OpToRel(<, Nat)
<1>1. IsWellFoundedOn(R, Nat)
  BY NatLessThanWellFounded
<1>2. PICK x \in T : \A y \in T : ~ (<<y, x>> \in R)
  <2> HIDE DEF R
  <2> QED BY <1>1, WFMin
<1>3. \A y \in T : ~ (y < x)
  BY <1>2 DEF OpToRel
<1> QED
  BY <1>3

-----------------------------------------------------------------------------
(* The operators on vectors and lists, entry by entry.                     *)

LEMMA SwappedIs ==
  ASSUME NEW S, NEW v \in Seq(S), NEW j \in DOMAIN v, NEW k \in DOMAIN v
  PROVE  /\ Swapped(v, j, k) \in Seq(S)
         /\ Len(Swapped(v, j, k)) = Len(v)
         /\ DOMAIN Swapped(v, j, k) = DOMAIN v
         /\ \A i \in DOMAIN v :
              Swapped(v, j, k)[i] = IF i = k THEN v[j] ELSE IF i = j THEN v[k] ELSE v[i]
<1>1. DOMAIN v = 1 .. Len(v) /\ v[j] \in S /\ v[k] \in S
  BY Elements
<1> DEFINE w == [v EXCEPT ![j] = v[k]]
<1>2. w \in Seq(S) /\ Len(w) = Len(v) /\ \A i \in 1 .. Len(v) : w[i] = IF i = j THEN v[k] ELSE v[i]
  BY <1>1, ExceptSeq
<1>3. Swapped(v, j, k) = [w EXCEPT ![k] = v[j]]
  BY DEF Swapped
<1> HIDE DEF w
<1>4. /\ Swapped(v, j, k) \in Seq(S) /\ Len(Swapped(v, j, k)) = Len(w)
      /\ \A i \in 1 .. Len(w) : Swapped(v, j, k)[i] = IF i = k THEN v[j] ELSE w[i]
  BY <1>1, <1>2, <1>3, ExceptSeq
<1>5. DOMAIN Swapped(v, j, k) = 1 .. Len(v)
  BY <1>2, <1>4, Elements
<1> QED
  BY <1>1, <1>2, <1>4, <1>5

LEMMA RefilledIs ==
  ASSUME NEW S, NEW v \in Seq(S), NEW k \in DOMAIN v
  PROVE  /\ Refilled(v, k) \in Seq(S)
         /\ Len(Refilled(v, k)) = Len(v) - 1
         /\ DOMAIN Refilled(v, k) = 1 .. Len(v) - 1
         /\ \A i \in 1 .. Len(v) - 1 :
              Refilled(v, k)[i] = IF i = k THEN v[Len(v)] ELSE v[i]
<1>1. /\ DOMAIN v = 1 .. Len(v) /\ Len(v) \in Nat /\ Len(v) \in DOMAIN v
      /\ v[Len(v)] \in S
  BY Elements
<1> DEFINE w == [v EXCEPT ![k] = v[Len(v)]]
<1>2. /\ w \in Seq(S) /\ Len(w) = Len(v)
      /\ \A i \in 1 .. Len(v) : w[i] = IF i = k THEN v[Len(v)] ELSE v[i]
  BY <1>1, ExceptSeq
<1>3. Refilled(v, k) = SubSeq(w, 1, Len(v) - 1)
  BY DEF Refilled
<1> HIDE DEF w
<1>4. \A i \in 1 .. Len(v) - 1 : w[i] \in S
  BY <1>1, <1>2, Elements
<1>5. /\ Refilled(v, k) \in Seq(S)
      /\ Len(Refilled(v, k)) = Len(v) - 1
      /\ \A i \in 1 .. Len(v) - 1 : Refilled(v, k)[i] = w[i]
  BY <1>1, <1>3, <1>4, SubSeqProperties
<1>6. DOMAIN Refilled(v, k) = 1 .. Len(v) - 1
  BY <1>5, Elements
<1> QED
  BY <1>1, <1>2, <1>5, <1>6

LEMMA UnlinkedIs ==
  ASSUME NEW S, NEW list \in Seq(S), NEW i \in DOMAIN list
  PROVE  /\ Unlinked(list, i) \in Seq(S)
         /\ DOMAIN Unlinked(list, i) = 1 .. Len(list) - 1
         /\ \A m \in 1 .. Len(list) - 1 :
              Unlinked(list, i)[m] = IF m < i THEN list[m] ELSE list[m + 1]
<1>1. /\ DOMAIN list = 1 .. Len(list) /\ Len(list) \in Nat /\ i \in 1 .. Len(list)
      /\ \A m \in 1 .. Len(list) : list[m] \in S
  BY Elements
<1> DEFINE a == SubSeq(list, 1, i - 1)
           b == SubSeq(list, i + 1, Len(list))
<1>2. a \in Seq(S) /\ Len(a) = i - 1 /\ \A m \in 1 .. i - 1 : a[m] = list[m]
  <2>1. \A m \in 1 .. i - 1 : list[m] \in S
    BY <1>1
  <2> QED BY <1>1, <2>1, SubSeqProperties
<1>3. /\ b \in Seq(S) /\ Len(b) = Len(list) - i
      /\ \A m \in 1 .. Len(list) - i : b[m] = list[i + m]
  <2>1. \A m \in i + 1 .. Len(list) : list[m] \in S
    BY <1>1
  <2>2. i + 1 \in Int /\ Len(list) \in Int /\ i <= Len(list) /\ (i + 1) - 1 <= Len(list)
    BY <1>1
  <2>3. /\ b \in Seq(S)
        /\ Len(b) = IF i + 1 <= Len(list) THEN Len(list) - (i + 1) + 1 ELSE 0
        /\ \A m \in 1 .. Len(list) - (i + 1) + 1 : b[m] = list[i + 1 + m - 1]
    BY <2>1, <2>2, SubSeqProperties
  <2> HIDE DEF b
  <2>4. Len(b) = Len(list) - i
    BY <1>1, <2>3
  <2>5. ASSUME NEW m \in 1 .. Len(list) - i PROVE b[m] = list[i + m]
    <3>1. i + 1 + m - 1 = i + m /\ m \in 1 .. Len(list) - (i + 1) + 1
      BY <1>1
    <3> QED BY <2>3, <3>1
  <2> QED BY <2>3, <2>4, <2>5
<1>4. Unlinked(list, i) = a \o b
  BY DEF Unlinked
<1> HIDE DEF a, b
<1>5. /\ a \o b \in Seq(S) /\ Len(a \o b) = Len(a) + Len(b)
      /\ \A m \in 1 .. Len(a) + Len(b) :
           (a \o b)[m] = IF m <= Len(a) THEN a[m] ELSE b[m - Len(a)]
  BY <1>2, <1>3, ConcatProperties
<1>6. DOMAIN (a \o b) = 1 .. Len(list) - 1
  <2>1. DOMAIN (a \o b) = 1 .. Len(a \o b)
    BY <1>5, LenProperties
  <2>2. Len(a \o b) = Len(list) - 1
    BY <1>1, <1>2, <1>3, <1>5
  <2> QED BY <2>1, <2>2
<1>7. ASSUME NEW m \in 1 .. Len(list) - 1
      PROVE  (a \o b)[m] = IF m < i THEN list[m] ELSE list[m + 1]
  <2>1. m \in 1 .. Len(a) + Len(b)
    BY <1>1, <1>2, <1>3
  <2>2. CASE m < i
    BY <1>1, <1>2, <1>5, <2>1, <2>2
  <2>3. CASE ~(m < i)
    <3>1. ~(m <= Len(a)) /\ m - Len(a) \in 1 .. Len(list) - i /\ i + (m - Len(a)) = m + 1
      BY <1>1, <1>2, <2>3
    <3>2. b[m - Len(a)] = list[i + (m - Len(a))]
      BY <1>3, <3>1
    <3>3. (a \o b)[m] = b[m - Len(a)]
      BY <1>5, <2>1, <3>1
    <3> QED BY <2>3, <3>1, <3>2, <3>3
  <2> QED BY <2>2, <2>3
<1> QED
  BY <1>4, <1>5, <1>6, <1>7

\* Without removes one id from a list that holds each id once, and no other.
Injective(list) == \A i, j \in DOMAIN list : list[i] = list[j] => i = j

LEMMA WithoutIs ==
  ASSUME NEW S, NEW list \in Seq(S), Injective(list), NEW id
  PROVE  /\ Without(list, id) \in Seq(S)
         /\ Injective(Without(list, id))
         /\ \A m \in DOMAIN Without(list, id) :
              /\ Without(list, id)[m] # id
              /\ \E i \in DOMAIN list : list[i] = Without(list, id)[m]
         /\ \A i \in DOMAIN list : list[i] # id =>
              \E m \in DOMAIN Without(list, id) : Without(list, id)[m] = list[i]
<1>1. CASE \A i \in DOMAIN list : list[i] # id
  BY <1>1 DEF Without
<1>2. CASE \E i \in DOMAIN list : list[i] = id
  <2> DEFINE k == CHOOSE i \in DOMAIN list : list[i] = id
             w == Unlinked(list, k)
  <2>1. k \in DOMAIN list /\ list[k] = id
    BY <1>2
  <2>2. Without(list, id) = w
    BY <1>2 DEF Without
  <2> HIDE DEF k
  <2>3. /\ w \in Seq(S) /\ DOMAIN w = 1 .. Len(list) - 1
        /\ \A m \in 1 .. Len(list) - 1 : w[m] = IF m < k THEN list[m] ELSE list[m + 1]
    BY <2>1, UnlinkedIs
  <2> HIDE DEF w
  <2>4. DOMAIN list = 1 .. Len(list) /\ Len(list) \in Nat /\ k \in Nat
    BY <2>1, Elements
  <2>5. ASSUME NEW m \in DOMAIN w
        PROVE  \E i \in DOMAIN list \ {k} : w[m] = list[i] /\ i = IF m < k THEN m ELSE m + 1
    BY <2>1, <2>3, <2>4
  <2>6. ASSUME NEW i \in DOMAIN list, list[i] # id
        PROVE  \E m \in DOMAIN w : w[m] = list[i]
    <3>1. i # k
      BY <2>1, <2>6
    <3>2. CASE i < k
      <4>1. i \in DOMAIN w
        BY <2>1, <2>3, <2>4, <3>2
      <4> QED BY <2>3, <3>2, <4>1
    <3>3. CASE i > k
      <4>1. i - 1 \in DOMAIN w /\ ~(i - 1 < k) /\ (i - 1) + 1 = i
        BY <2>1, <2>3, <2>4, <3>3
      <4>2. w[i - 1] = list[i]
        BY <2>3, <4>1
      <4> QED BY <4>1, <4>2
    <3> QED BY <2>4, <3>1, <3>2, <3>3
  <2>7. \A m \in DOMAIN w : w[m] # id /\ \E i \in DOMAIN list : list[i] = w[m]
    BY <2>1, <2>5 DEF Injective
  <2>8. ASSUME NEW m \in DOMAIN w, NEW n \in DOMAIN w, w[m] = w[n]
        PROVE  m = n
    <3>1. m \in Nat /\ n \in Nat
      BY <2>3
    <3> QED BY <2>4, <2>5, <2>8, <3>1 DEF Injective
  <2> QED BY <2>2, <2>3, <2>6, <2>7, <2>8 DEF Injective
<1> QED
  BY <1>1, <1>2

\* It makes the list shorter by one if the id is on it, and never longer.
LEMMA WithoutLength ==
  ASSUME NEW S, NEW list \in Seq(S), NEW id
  PROVE  /\ Len(list) \in Nat /\ Len(Without(list, id)) \in Nat
         /\ Len(Without(list, id)) <= Len(list)
         /\ (\E i \in DOMAIN list : list[i] = id) =>
              Len(Without(list, id)) = Len(list) - 1
<1>0. Len(list) \in Nat
  BY LenProperties
<1>1. CASE \A i \in DOMAIN list : list[i] # id
  BY <1>0, <1>1 DEF Without
<1>2. CASE \E i \in DOMAIN list : list[i] = id
  <2>1. PICK k \in DOMAIN list : Without(list, id) = Unlinked(list, k)
    BY <1>2 DEF Without
  <2>2. /\ Unlinked(list, k) \in Seq(S)
        /\ DOMAIN Unlinked(list, k) = 1 .. Len(list) - 1
    BY UnlinkedIs
  <2>3. /\ Len(Unlinked(list, k)) \in Nat
        /\ DOMAIN Unlinked(list, k) = 1 .. Len(Unlinked(list, k))
    BY <2>2, Elements
  <2>4. Len(list) >= 1
    BY <1>0, Elements
  <2>5. Len(Unlinked(list, k)) = Len(list) - 1
    BY <1>0, <2>2, <2>3, <2>4
  <2> QED BY <1>0, <2>1, <2>4, <2>5
<1> QED
  BY <1>1, <1>2

-----------------------------------------------------------------------------
(* The ledger's part of the type invariant.                                *)

\* A Start with a natural deadline keeps it, and forgets no deadline.
LEMMA StartedType ==
  ASSUME BaseTypeOK, NEW deadline \in Nat, Started(deadline), clock' = clock
  PROVE  /\ BaseTypeOK'
         /\ next_id' = next_id + 1
         /\ next_id \notin Ids
         /\ Ids' = Ids \cup {next_id}
         /\ due'[next_id] = deadline
         /\ \A id \in Ids : due'[id] = due[id]
<1>1. Ids \cup {next_id} = Ids'
  BY DEF BaseTypeOK, Started, Ids, FirstId, Service!FirstId
<1>2. due \in [Ids -> Nat] /\ next_id \notin Ids
  BY DEF BaseTypeOK, Ids, FirstId, Service!FirstId
<1>3. due' = Put(due, next_id, deadline)
  BY DEF Started
<1>4. /\ due' \in [Ids \cup {next_id} -> Nat]
      /\ due'[next_id] = deadline
      /\ \A id \in Ids : due'[id] = due[id]
  BY <1>2, <1>3 DEF Put, Service!Put
<1>5. fired' \in Seq(Ids')
  <2>1. fired \in Seq(Ids) /\ fired' = fired /\ Ids \subseteq Ids'
    BY <1>1 DEF BaseTypeOK, Started
  <2> QED BY <2>1, SeqMonotonic
<1>6. live' \subseteq Ids'
  BY <1>1 DEF BaseTypeOK, Started
<1>7. next_id' = next_id + 1 /\ next_id' \in Nat /\ next_id' >= FirstId
      /\ reported' \in Nat
  BY DEF BaseTypeOK, Started, FirstId, Service!FirstId
<1> QED
  BY <1>1, <1>2, <1>4, <1>5, <1>6, <1>7 DEF BaseTypeOK

\* So do the other steps of the ledger.
LEMMA LedgerType ==
  ASSUME BaseTypeOK, clock' \in 1 .. Horizon
  PROVE  /\ \A id \in live : Stopped(id) => BaseTypeOK' /\ Ids' = Ids
         /\ \A id \in live : Fired(id) => BaseTypeOK' /\ Ids' = Ids
         /\ \A now \in Nat : Reported(now) =>
              BaseTypeOK' /\ Ids' = Ids /\ reported' >= reported /\ reported' >= now
         /\ UNCHANGED <<next_id, ledger>> => BaseTypeOK' /\ Ids' = Ids
         /\ live' = {} /\ UNCHANGED <<next_id, due, fired, reported>> =>
              BaseTypeOK' /\ Ids' = Ids
<1>1. ASSUME NEW id \in live, Fired(id) PROVE BaseTypeOK' /\ Ids' = Ids
  BY <1>1, AppendProperties DEF BaseTypeOK, Fired, Ids
<1>2. ASSUME NEW id \in live, Stopped(id) PROVE BaseTypeOK' /\ Ids' = Ids
  BY <1>2 DEF BaseTypeOK, Stopped, Ids
<1>3. ASSUME NEW now \in Nat, Reported(now)
      PROVE  BaseTypeOK' /\ Ids' = Ids /\ reported' >= reported /\ reported' >= now
  BY <1>3 DEF BaseTypeOK, Reported, Service!Later, Ids
<1>4. ASSUME UNCHANGED <<next_id, ledger>> PROVE BaseTypeOK' /\ Ids' = Ids
  BY <1>4 DEF BaseTypeOK, ledger, Ids
<1>5. ASSUME live' = {}, UNCHANGED <<next_id, due, fired, reported>>
      PROVE  BaseTypeOK' /\ Ids' = Ids
  BY <1>5 DEF BaseTypeOK, Ids
<1> QED
  BY <1>1, <1>2, <1>3, <1>4, <1>5

\* The time that an Update is told is a natural number, and the clock's or an
\* earlier one.
LEMMA ToldTime ==
  ASSUME BaseTypeOK, NEW lag \in Lags, MayUpdate(clock - lag)
  PROVE  clock - lag \in Nat /\ clock - lag <= clock /\ clock - lag <= Horizon
BY BaseAssumption DEF BaseTypeOK, MayUpdate

LEMMA BaseInitType == BaseInit => BaseTypeOK /\ Service!Init
<1> SUFFICES ASSUME BaseInit PROVE BaseTypeOK /\ Service!Init
  OBVIOUS
<1>1. BaseTypeOK
  BY BaseAssumption, EmptySeq DEF BaseInit, BaseTypeOK, Ids, FirstId, Service!FirstId
<1> QED
  BY <1>1 DEF BaseInit, Service!Init, FirstId

-----------------------------------------------------------------------------
(* The steps of the ledger are steps of the contract.                      *)
LEMMA ContractSteps ==
  ASSUME BaseTypeOK
  PROVE  /\ \A duration \in Durations : Started(clock + duration) => Service!Next
         /\ \A id \in live : Stopped(id) => Service!Next
         /\ \A lag \in Lags :
              MayUpdate(clock - lag) /\ Reported(clock - lag) => Service!Next
         /\ \A id \in live : due[id] <= reported /\ Fired(id) => Service!Next
         /\ Discarded => Service!Next
         /\ UNCHANGED <<next_id, ledger>> => UNCHANGED Service!vars
<1>1. ASSUME NEW duration \in Durations, Started(clock + duration) PROVE Service!Next
  <2>1. clock + duration \in {t + d : t \in 1 .. Horizon, d \in Durations}
    BY DEF BaseTypeOK
  <2>2. Service!Start(clock + duration)
    BY <1>1 DEF Started, Service!Start, Put
  <2> QED BY <2>1, <2>2 DEF Service!Next
<1>2. ASSUME NEW id \in live, Stopped(id) PROVE Service!Next
  BY <1>2 DEF Stopped, Service!Cancel, Service!Next
<1>3. ASSUME NEW lag \in Lags, MayUpdate(clock - lag), Reported(clock - lag)
      PROVE  Service!Next
  <2>1. clock - lag \in 0 .. Horizon
    BY <1>3, ToldTime, BaseAssumption
  <2>2. Service!Update(clock - lag)
    BY <1>3 DEF Reported, Service!Update
  <2> QED BY <2>1, <2>2 DEF Service!Next
<1>4. ASSUME NEW id \in live, due[id] <= reported, Fired(id) PROVE Service!Next
  BY <1>4 DEF Fired, Service!Fire, Service!Next
<1>5. ASSUME Discarded PROVE Service!Next
  BY <1>5 DEF Discarded, Service!Discard, Service!Next
<1>6. ASSUME UNCHANGED <<next_id, ledger>> PROVE UNCHANGED Service!vars
  BY <1>6 DEF ledger, Service!vars
<1> QED
  BY <1>1, <1>2, <1>3, <1>4, <1>5, <1>6

\* What a step that calls an action does to the list of calls.
LEMMA FiringIs ==
  ASSUME BaseTypeOK, NEW id \in live
  PROVE  /\ Fired(id) => FiringStep /\ FiredNow = id
         /\ fired' = fired => ~FiringStep
<1>1. id \in Ids /\ fired \in Seq(Ids)
  BY DEF BaseTypeOK
<1>2. Len(fired) \in Nat
  BY <1>1, LenProperties
<1> QED
  BY <1>1, <1>2, AppendProperties DEF Fired, FiringStep, FiredNow

-----------------------------------------------------------------------------
(***************************************************************************)
(* What ends.  A measure of three numbers is not lowered for ever: an      *)
(* Update whose every iteration lowers it makes only so many.              *)
(***************************************************************************)
LEMMA LoweringEnds ==
  ~ \E m \in [Nat -> [1 .. 3 -> Nat]] : \A n \in Nat : Lower(m[n + 1], m[n])
<1> DEFINE R == OpToRel(<, Nat)
           L == LexProductOrdering(R, Nat, 3)
<1>1. IsWellFoundedOn(R, Nat)
  BY NatLessThanWellFounded
<1>2. IsWellFoundedOn(L, [1 .. 3 -> Nat])
  <2> HIDE DEF R
  <2> QED BY <1>1, WFLexProductOrdering
<1>3. ASSUME NEW a \in [1 .. 3 -> Nat], NEW b \in [1 .. 3 -> Nat], Lower(a, b)
      PROVE  <<a, b>> \in L
  <2>1. PICK i \in 1 .. 3 : a[i] < b[i] /\ \A j \in 1 .. i - 1 : a[j] = b[j]
    BY <1>3 DEF Lower
  <2>2. <<a[i], b[i]>> \in R
    BY <2>1 DEF OpToRel
  <2> HIDE DEF R
  <2> QED BY <2>1, <2>2 DEF LexProductOrdering
<1> SUFFICES ASSUME NEW m \in [Nat -> [1 .. 3 -> Nat]],
                    \A n \in Nat : Lower(m[n + 1], m[n])
             PROVE  FALSE
  OBVIOUS
<1>4. \A n \in Nat : <<m[n + 1], m[n]>> \in L
  <2> HIDE DEF L
  <2> QED BY <1>3
<1> HIDE DEF L
<1> QED
  BY <1>2, <1>4 DEF IsWellFoundedOn

LEMMA TripleIs ==
  ASSUME NEW a \in Nat, NEW b \in Nat, NEW c \in Nat
  PROVE  <<a, b, c>> \in [1 .. 3 -> Nat]
OBVIOUS

LEMMA LowerTriple ==
  ASSUME NEW a \in Nat, NEW b \in Nat, NEW c \in Nat,
         NEW d \in Nat, NEW e \in Nat, NEW f \in Nat,
         a < d \/ (a = d /\ (b < e \/ (b = e /\ c < f)))
  PROVE  Lower(<<a, b, c>>, <<d, e, f>>)
<1> DEFINE m == <<a, b, c>>
           n == <<d, e, f>>
<1>1. /\ m[1] = a /\ m[2] = b /\ m[3] = c
      /\ n[1] = d /\ n[2] = e /\ n[3] = f
      /\ DOMAIN n = 1 .. 3
  OBVIOUS
<1> HIDE DEF m, n
<1>2. \E i \in 1 .. 3 : m[i] < n[i] /\ \A j \in 1 .. i - 1 : m[j] = n[j]
  <2>1. CASE a < d
    BY <1>1, <2>1
  <2>2. CASE a = d /\ b < e
    BY <1>1, <2>2
  <2>3. CASE a = d /\ b = e /\ c < f
    BY <1>1, <2>3
  <2> QED BY <2>1, <2>2, <2>3
<1>3. Lower(m, n)
  BY <1>1, <1>2 DEF Lower
<1> QED
  BY <1>3 DEF m, n

\* Nor does a set within finite bounds shrink for ever: what is in the reach
\* of an Update runs out.
LEMMA ShrinkingEnds ==
  ASSUME NEW a \in Int, NEW b \in Int
  PROVE  ~ \E s \in [Nat -> SUBSET (a .. b)] :
             \A n \in Nat : s[n + 1] \subseteq s[n] /\ s[n + 1] # s[n]
<1> SUFFICES ASSUME NEW s \in [Nat -> SUBSET (a .. b)],
                    \A n \in Nat : s[n + 1] \subseteq s[n] /\ s[n + 1] # s[n]
             PROVE  FALSE
  OBVIOUS
<1>1. IsFiniteSet(a .. b)
  BY FS_Interval
<1>2. \A n \in Nat : IsFiniteSet(s[n]) /\ Cardinality(s[n]) \in Nat
  BY <1>1, FS_Subset, FS_CardinalityType
<1> DEFINE Sizes == {Cardinality(s[n]) : n \in Nat}
<1>3. PICK c \in Sizes : \A d \in Sizes : c <= d
  <2>1. Sizes \in SUBSET Nat /\ Sizes # {}
    BY <1>2
  <2> HIDE DEF Sizes
  <2> QED BY <2>1, LeastNat
<1>4. PICK n \in Nat : c = Cardinality(s[n])
  BY <1>3
<1>5. Cardinality(s[n + 1]) < Cardinality(s[n])
  <2> DEFINE more == s[n]
             less == s[n + 1]
  <2>1. less \in SUBSET more /\ less # more /\ n + 1 \in Nat
    OBVIOUS
  <2>2. IsFiniteSet(more) /\ Cardinality(more) \in Nat /\ Cardinality(less) \in Nat
    BY <1>2, <2>1
  <2> HIDE DEF more, less
  <2>3. Cardinality(less) <= Cardinality(more) /\ Cardinality(more) # Cardinality(less)
    BY <2>1, <2>2, FS_Subset
  <2>4. Cardinality(less) < Cardinality(more)
    BY <2>2, <2>3
  <2> QED BY <2>4 DEF more, less
<1>6. n + 1 \in Nat /\ Cardinality(s[n + 1]) \in Sizes
  OBVIOUS
<1> HIDE DEF Sizes
<1> QED
  BY <1>2, <1>3, <1>4, <1>5, <1>6
=============================================================================
