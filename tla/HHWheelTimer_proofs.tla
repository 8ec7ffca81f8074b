------------------------- MODULE HHWheelTimer_proofs -------------------------
(***************************************************************************)
(* Proofs about HHWheelTimer, for every value of its constants.            *)
(***************************************************************************)
EXTENDS HHWheelTimer, TimerBase_proofs

-----------------------------------------------------------------------------
(* The geometry.                                                           *)
LEMMA ProductIs ==
  ASSUME NEW a \in Nat \ {0}, NEW b \in Nat \ {0}
  PROVE  a * b \in Nat \ {0} /\ a * b >= a
<1>1. a * b \in Nat
  OBVIOUS
<1>2. b = 1 + (b - 1) /\ b - 1 \in Nat
  OBVIOUS
<1>3. a * b = a + a * (b - 1) /\ a * (b - 1) \in Nat
  BY <1>2
<1> QED
  BY <1>1, <1>3

LEMMA WidthIs ==
  /\ \A level \in 1 .. 5 : Width(level) \in Nat \ {0} /\ Slots(level) \in Nat \ {0}
  /\ Width(1) = 1 /\ Width(2) = TVR_SIZE
  /\ MAX_TVAL \in Nat /\ Width(2) <= MAX_TVAL + 1
<1> DEFINE w3 == TVR_SIZE * TVN_SIZE
           w4 == w3 * TVN_SIZE
           w5 == w4 * TVN_SIZE
           w6 == w5 * TVN_SIZE
<1>1. w3 \in Nat \ {0} /\ w3 >= TVR_SIZE
  BY ProductIs, WheelAssumption
<1>2. w4 \in Nat \ {0} /\ w4 >= w3
  <2> HIDE DEF w3
  <2> QED BY <1>1, ProductIs, WheelAssumption
<1>3. w5 \in Nat \ {0} /\ w5 >= w4
  <2> HIDE DEF w4
  <2> QED BY <1>2, ProductIs, WheelAssumption
<1>4. w6 \in Nat \ {0} /\ w6 >= w5
  <2> HIDE DEF w5
  <2> QED BY <1>3, ProductIs, WheelAssumption
<1>5. /\ Width(1) = 1 /\ Width(2) = TVR_SIZE /\ Width(3) = w3 /\ Width(4) = w4
      /\ Width(5) = w5 /\ MAX_TVAL = w6 - 1
  BY DEF Width, MAX_TVAL
<1> HIDE DEF w3, w4, w5, w6
<1>6. ASSUME NEW level \in 1 .. 5
      PROVE  Width(level) \in Nat \ {0} /\ Slots(level) \in Nat \ {0}
  <2>1. level \in {1, 2, 3, 4, 5}
    OBVIOUS
  <2>2. Width(level) \in Nat \ {0}
    BY <1>1, <1>2, <1>3, <1>5, <2>1, WheelAssumption
  <2> QED BY <2>2, WheelAssumption DEF Slots
<1> QED
  BY <1>1, <1>2, <1>3, <1>4, <1>5, <1>6, WheelAssumption

LEMMA SlotType ==
  ASSUME NEW level \in 1 .. 5, NEW t \in Nat
  PROVE  SlotOf(level, t) \in Places
<1> DEFINE w == Width(level)
           s == Slots(level)
           q == t \div w
<1>1. w \in Nat \ {0} /\ s \in Nat \ {0}
  BY WidthIs
<1>2. SlotOf(level, t) = <<level, q % s>>
  BY DEF SlotOf
<1>3. q \in Nat
  <2> HIDE DEF w
  <2> QED BY <1>1
<1>4. q % s \in 0 .. s - 1
  <2> HIDE DEF q, s
  <2> QED BY <1>1, <1>3
<1>5. s = IF level = 1 THEN TVR_SIZE ELSE TVN_SIZE
  BY DEF Slots
<1> HIDE DEF q, s
<1> QED
  BY <1>2, <1>4, <1>5 DEF Places

LEMMA LevelType ==
  ASSUME NEW idx \in Int
  PROVE  /\ LevelOf(idx) \in 1 .. 5
         /\ LevelOf(idx) = 1 => idx < TVR_SIZE
<1>1. Width(2) = TVR_SIZE
  BY WidthIs
<1> QED
  BY <1>1 DEF LevelOf

LEMMA DivMod ==
  ASSUME NEW R \in Nat, R > 0, NEW a \in Int
  PROVE  /\ a % R = a - R * (a \div R)
         /\ a \div R \in Int /\ a % R \in 0 .. R - 1
BY Z3

\* Two times that share a slot of level 1 are a turn apart.
LEMMA TurnApart ==
  ASSUME NEW R \in Nat \ {0}, NEW a \in Nat, NEW b \in Nat, a % R = b % R, a < b
  PROVE  b - a >= R
<1>1. PICK p \in Int : p = a \div R /\ a % R = a - R * p
  BY DivMod
<1>2. PICK q \in Int : q = b \div R /\ b % R = b - R * q
  BY DivMod
<1>3. b - a = R * (q - p)
  <2>1. a - R * p = b - R * q
    BY <1>1, <1>2
  <2>2. R * (q - p) = R * q - R * p /\ R * q \in Int /\ R * p \in Int
    OBVIOUS
  <2> QED BY <2>1, <2>2
<1>4. q - p >= 1
  <2> SUFFICES ASSUME q - p <= 0 PROVE FALSE
    OBVIOUS
  <2>1. R * (q - p) <= 0
    OBVIOUS
  <2> QED BY <1>3, <2>1
<1>5. R * (q - p) >= R
  BY <1>4
<1> QED
  BY <1>3, <1>5

\* A slot of level 1 where a timer is put is not emptied before it expires.
NotEarly(p, expires, clk) ==
  p[1] = 1 => \A t \in Nat : t >= clk /\ t % TVR_SIZE = p[2] => t >= expires

LEMMA PlaceIs ==
  ASSUME NEW expires \in Nat, NEW clk \in Nat
  PROVE  /\ Place(expires, clk) \in Places
         /\ NotEarly(Place(expires, clk), expires, clk)
<1> DEFINE idx == expires - clk
           level == LevelOf(idx)
           t == IF idx > MAX_TVAL THEN clk + MAX_TVAL ELSE expires
<1>1. idx \in Int /\ level \in 1 .. 5 /\ (level = 1 => idx < TVR_SIZE)
  BY LevelType
<1>2. t \in Nat
  BY WidthIs
<1>3. Place(expires, clk) = SlotOf(level, t)
  BY DEF Place
<1>4. level = 1 => t = expires
  <2> HIDE DEF level
  <2> QED BY <1>1, WidthIs, WheelAssumption
<1> HIDE DEF level, t
<1>5. Place(expires, clk) \in Places
  BY <1>1, <1>2, <1>3, SlotType
<1>6. CASE level # 1
  <2>1. Place(expires, clk)[1] = level
    BY <1>3 DEF SlotOf
  <2> QED BY <1>5, <1>6, <2>1 DEF NotEarly
<1>7. CASE level = 1
  <2>1. Place(expires, clk) = <<1, expires % TVR_SIZE>>
    <3>1. expires \div 1 = expires
      OBVIOUS
    <3> QED BY <1>3, <1>4, <1>7, <3>1, WidthIs DEF SlotOf, Slots
  <2>2. ASSUME NEW u \in Nat, u >= clk, u % TVR_SIZE = expires % TVR_SIZE
        PROVE  u >= expires
    <3> SUFFICES ASSUME u < expires PROVE FALSE
      OBVIOUS
    <3>1. expires - u >= TVR_SIZE
      BY <2>2, TurnApart, WheelAssumption
    <3> QED BY <1>1, <1>7, <2>2, <3>1, WheelAssumption
  <2> QED BY <1>5, <2>1, <2>2 DEF NotEarly
<1> QED
  BY <1>6, <1>7

-----------------------------------------------------------------------------
(* What the lists hold.                                                    *)
Has(list, id) == \E i \in DOMAIN list : list[i] = id

LEMMA EmptyHas == DOMAIN <<>> = {} /\ Injective(<<>>) /\ \A id : ~Has(<<>>, id)
<1>1. <<>> \in Seq({}) /\ Len(<<>>) = 0
  BY EmptySeq
<1>2. DOMAIN <<>> = 1 .. 0
  BY <1>1, Elements
<1> QED
  BY <1>2 DEF Injective, Has

LEMMA AppendHas ==
  ASSUME NEW S, NEW list \in Seq(S), Injective(list), NEW id \in S, ~Has(list, id)
  PROVE  /\ Append(list, id) \in Seq(S)
         /\ Injective(Append(list, id))
         /\ \A x : Has(Append(list, id), x) <=> Has(list, x) \/ x = id
<1> DEFINE n == Len(list)
           new == Append(list, id)
<1>1. n \in Nat /\ DOMAIN list = 1 .. n
  BY Elements
<1>2. /\ new \in Seq(S) /\ Len(new) = n + 1 /\ new[n + 1] = id
      /\ \A i \in 1 .. n : new[i] = list[i]
  BY AppendProperties
<1>3. DOMAIN new = 1 .. n + 1
  BY <1>2, LenProperties
<1> HIDE DEF new, n
<1>4. \A i : i \in DOMAIN new <=> i \in DOMAIN list \/ i = n + 1
  BY <1>1, <1>3
<1>5. \A x : Has(new, x) <=> Has(list, x) \/ x = id
  BY <1>1, <1>2, <1>4 DEF Has
<1>6. Injective(new)
  BY <1>1, <1>2, <1>4 DEF Injective, Has
<1> QED
  BY <1>2, <1>5, <1>6 DEF new

LEMMA TailHas ==
  ASSUME NEW S, NEW list \in Seq(S), Injective(list), list # <<>>
  PROVE  /\ Tail(list) \in Seq(S) /\ Head(list) \in S
         /\ Injective(Tail(list))
         /\ Has(list, Head(list))
         /\ \A x : Has(Tail(list), x) <=> Has(list, x) /\ x # Head(list)
<1> DEFINE n == Len(list)
           new == Tail(list)
<1>1. n \in Nat /\ DOMAIN list = 1 .. n /\ n # 0
  BY Elements, EmptySeq
<1>2. /\ new \in Seq(S) /\ Len(new) = n - 1 /\ Head(list) = list[1] /\ Head(list) \in S
      /\ \A i \in 1 .. n - 1 : new[i] = list[i + 1]
  BY <1>1, HeadTailProperties, Elements
<1>3. DOMAIN new = 1 .. n - 1
  BY <1>2, LenProperties
<1>4. 1 \in DOMAIN list
  BY <1>1
<1> HIDE DEF new, n
<1>5. ASSUME NEW i \in DOMAIN new
      PROVE  i + 1 \in DOMAIN list /\ i + 1 # 1 /\ new[i] = list[i + 1] /\ i \in Int
  BY <1>1, <1>2, <1>3
<1>6. ASSUME NEW i \in DOMAIN list, i # 1
      PROVE  i - 1 \in DOMAIN new /\ new[i - 1] = list[i]
  <2>1. i - 1 \in 1 .. n - 1 /\ (i - 1) + 1 = i
    BY <1>1, <1>6
  <2> QED BY <1>2, <1>3, <2>1
<1>7. ASSUME NEW x, Has(new, x) PROVE Has(list, x) /\ x # Head(list)
  <2>1. PICK i \in DOMAIN new : new[i] = x
    BY <1>7 DEF Has
  <2> QED BY <1>2, <1>4, <1>5, <2>1 DEF Has, Injective
<1>8. ASSUME NEW x, Has(list, x), x # Head(list) PROVE Has(new, x)
  <2>1. PICK i \in DOMAIN list : list[i] = x
    BY <1>8 DEF Has
  <2>2. i # 1
    BY <1>2, <1>8, <2>1
  <2> QED BY <1>6, <2>1, <2>2 DEF Has
<1>9. ASSUME NEW i \in DOMAIN new, NEW j \in DOMAIN new, new[i] = new[j] PROVE i = j
  <2>1. i + 1 = j + 1 /\ i \in Int /\ j \in Int
    BY <1>5, <1>9 DEF Injective
  <2> QED BY <2>1
<1>10. Has(list, Head(list))
  BY <1>2, <1>4 DEF Has
<1>11. Injective(new)
  BY <1>9 DEF Injective
<1> QED
  BY <1>2, <1>7, <1>8, <1>10, <1>11 DEF new

LEMMA WithoutHas ==
  ASSUME NEW S, NEW list \in Seq(S), Injective(list), NEW id
  PROVE  /\ Without(list, id) \in Seq(S)
         /\ Injective(Without(list, id))
         /\ \A x : Has(Without(list, id), x) <=> Has(list, x) /\ x # id
<1> DEFINE new == Without(list, id)
<1>1. /\ new \in Seq(S)
      /\ Injective(new)
      /\ \A m \in DOMAIN new : new[m] # id /\ \E i \in DOMAIN list : list[i] = new[m]
      /\ \A i \in DOMAIN list : list[i] # id => \E m \in DOMAIN new : new[m] = list[i]
  BY WithoutIs
<1> HIDE DEF new
<1>2. \A x : Has(new, x) <=> Has(list, x) /\ x # id
  BY <1>1 DEF Has
<1> QED
  BY <1>1, <1>2 DEF new

-----------------------------------------------------------------------------
(* LinkedOnce in parts, said of what the slots and the work lists hold.    *)

InSlot(p, id) == p \in Places /\ Has(wheel[p], id)
InWork(k, id) == k \in DOMAIN frames /\ Has(frames[k].work, id)

ListsInjective ==
  /\ \A p \in Places : Injective(wheel[p])
  /\ \A k \in DOMAIN frames : Injective(frames[k].work)

HeldApart ==
  /\ \A p, q, id : InSlot(p, id) /\ InSlot(q, id) => p = q
  /\ \A k, l, id : InWork(k, id) /\ InWork(l, id) => k = l
  /\ \A p, k, id : ~(InSlot(p, id) /\ InWork(k, id))

HeldAreRef ==
  \A id : id \in ref \ lost <=> (\E p : InSlot(p, id)) \/ (\E k : InWork(k, id))

RefIsLive == ref = live /\ lost \subseteq ref

Linked == RefIsLive /\ ListsInjective /\ HeldApart /\ HeldAreRef

LEMMA LinkedOnceParts == Linked => LinkedOnce
<1> SUFFICES ASSUME Linked PROVE LinkedOnce
  OBVIOUS
<1>1. ASSUME NEW x \in Lists
      PROVE  \/ x \in Places /\ List(x) = wheel[x]
             \/ \E k \in DOMAIN frames : x = <<0, k>> /\ List(x) = frames[k].work
  <2>1. CASE x \in Places
    <3>1. x[1] # 0
      BY <2>1 DEF Places
    <3> QED BY <2>1, <3>1 DEF List
  <2>2. CASE x \in {0} \X DOMAIN frames
    <3>1. PICK k \in DOMAIN frames : x = <<0, k>>
      BY <2>2
    <3>2. List(x) = frames[k].work
      BY <3>1 DEF List
    <3> QED BY <3>1, <3>2
  <2> QED BY <2>1, <2>2 DEF Lists
<1>2. ASSUME NEW x \in Lists, NEW id, Has(List(x), id)
      PROVE  \/ InSlot(x, id)
             \/ \E k : x = <<0, k>> /\ InWork(k, id)
  BY <1>1, <1>2 DEF InSlot, InWork
<1>3. \A x \in Lists : Injective(List(x))
  BY <1>1 DEF Linked, ListsInjective
<1>4. ASSUME NEW x \in Lists, NEW y \in Lists, NEW id, Has(List(x), id), Has(List(y), id)
      PROVE  x = y
  BY <1>2, <1>4 DEF Linked, HeldApart
<1>5. ASSUME NEW x \in Lists, NEW id, Has(List(x), id) PROVE id \in ref \ lost
  BY <1>2, <1>5 DEF Linked, HeldAreRef
<1>6. ASSUME NEW id \in ref \ lost PROVE \E x \in Lists : Has(List(x), id)
  <2>1. CASE \E p : InSlot(p, id)
    <3>1. PICK p \in Places : Has(wheel[p], id)
      BY <2>1 DEF InSlot
    <3>2. p \in Lists /\ p[1] # 0
      BY DEF Lists, Places
    <3>3. List(p) = wheel[p]
      BY <3>2 DEF List
    <3> QED BY <3>1, <3>2, <3>3
  <2>2. CASE \E k : InWork(k, id)
    <3>1. PICK k \in DOMAIN frames : Has(frames[k].work, id)
      BY <2>2 DEF InWork
    <3>2. <<0, k>> \in Lists /\ List(<<0, k>>) = frames[k].work
      BY DEF Lists, List
    <3> QED BY <3>1, <3>2
  <2> QED BY <1>6, <2>1, <2>2 DEF Linked, HeldAreRef
<1>7. \A x \in Lists : \A i \in DOMAIN List(x) : Has(List(x), List(x)[i])
  BY DEF Has
<1>8. ASSUME NEW x \in Lists, NEW i \in DOMAIN List(x),
             NEW y \in Lists, NEW j \in DOMAIN List(y), List(x)[i] = List(y)[j]
      PROVE  x = y /\ i = j
  <2>1. x = y
    BY <1>4, <1>7, <1>8
  <2> QED BY <1>3, <1>8, <2>1 DEF Injective
<1> QED
  BY <1>5, <1>6, <1>7, <1>8 DEF LinkedOnce, Linked, RefIsLive, Has

-----------------------------------------------------------------------------
(* The inductive invariant.  Only the top frame is outside an action; the  *)
(* wheel's clock has not passed the time told while a tick is under way;   *)
(* the timers of a tick that fires have expired, because those in the      *)
(* slots of level 1 expire before the tick that takes them.                *)

StackRight ==
  \A k \in DOMAIN frames :
    /\ k # Len(frames) => frames[k].phase = "callback"
    /\ frames[k].now <= reported
    /\ frames[k].phase \in {"cascade", "take"} => frames[k].work = <<>>
    /\ frames[k].phase \in {"cascade", "place", "take"} => timer_clk <= frames[k].now
    /\ frames[k].phase \in {"loop", "callback"} =>
         \A id \in Ids : Has(frames[k].work, id) => due[id] <= frames[k].now

SlotsRight ==
  \A p \in Places : \A id \in Ids :
    Has(wheel[p], id) => NotEarly(p, due[id], timer_clk)

IInv == TypeOK /\ Linked /\ StackRight /\ SlotsRight

LEMMA FrameFields ==
  ASSUME TypeOK, NEW k \in DOMAIN frames
  PROVE  /\ frames[k] \in Frame
         /\ frames[k].now \in Nat
         /\ frames[k].work \in Seq(Ids)
         /\ frames[k].level \in 1 .. 5
         /\ frames[k].phase \in {"loop", "cascade", "place", "take", "callback"}
<1>1. frames[k] \in Frame
  BY Elements DEF TypeOK
<1> QED
  BY <1>1 DEF Frame

LEMMA TopFields ==
  ASSUME TypeOK, frames # <<>>
  PROVE  /\ Len(frames) \in DOMAIN frames
         /\ Top = frames[Len(frames)]
         /\ Top \in Frame
         /\ Top.now \in Nat
         /\ Top.work \in Seq(Ids)
         /\ Top.level \in 1 .. 5
         /\ Top.phase \in {"loop", "cascade", "place", "take", "callback"}
<1>1. Len(frames) \in DOMAIN frames
  BY TopPop DEF TypeOK
<1> QED
  BY <1>1, FrameFields DEF Top

LEMMA HasIds ==
  ASSUME NEW S, NEW list \in Seq(S), NEW id, Has(list, id)
  PROVE  id \in S
BY Elements DEF Has

\* What replacing the top frame does to the work lists.
LEMMA SetTopHas ==
  ASSUME TypeOK, ListsInjective, frames # <<>>, NEW f \in Frame, frames' = SetTop(f),
         Injective(f.work)
  PROVE  /\ frames' \in Seq(Frame)
         /\ DOMAIN frames' = DOMAIN frames /\ Len(frames') = Len(frames)
         /\ Len(frames) \in DOMAIN frames
         /\ frames'[Len(frames)] = f
         /\ \A k \in DOMAIN frames : k # Len(frames) => frames'[k] = frames[k]
         /\ \A k \in DOMAIN frames' : Injective(frames'[k].work)
         /\ \A k, id : InWork(k, id)' <=>
              IF k = Len(frames) THEN Has(f.work, id) ELSE InWork(k, id)
<1>1. /\ frames' \in Seq(Frame) /\ DOMAIN frames' = DOMAIN frames
      /\ Len(frames') = Len(frames)
      /\ \A k \in DOMAIN frames : frames'[k] = IF k = Len(frames) THEN f ELSE frames[k]
  BY SetTopIs DEF TypeOK
<1>2. Len(frames) \in DOMAIN frames
  BY TopFields
<1>3. \A k, id : InWork(k, id)' <=> k \in DOMAIN frames' /\ Has(frames'[k].work, id)
  BY DEF InWork, Has
<1> QED
  BY <1>1, <1>2, <1>3 DEF InWork, ListsInjective

\* What it does to the stack.
LEMMA StackSetTop ==
  ASSUME TypeOK, ListsInjective, StackRight, frames # <<>>,
         NEW f \in Frame, frames' = SetTop(f), Injective(f.work), f.now = Top.now,
         UNCHANGED <<due, reported, next_id>>,
         f.phase \in {"cascade", "take"} => f.work = <<>>,
         f.phase \in {"cascade", "place", "take"} => timer_clk' <= f.now,
         f.phase \in {"loop", "callback"} =>
           \A id \in Ids : Has(f.work, id) => due[id] <= f.now
  PROVE  StackRight'
<1>1. /\ DOMAIN frames' = DOMAIN frames /\ Len(frames') = Len(frames)
      /\ Len(frames) \in DOMAIN frames
      /\ frames'[Len(frames)] = f
      /\ \A k \in DOMAIN frames : k # Len(frames) => frames'[k] = frames[k]
  BY SetTopHas
<1>2. Ids' = Ids
  BY DEF Ids
<1>3. ASSUME NEW k \in DOMAIN frames'
      PROVE  /\ k # Len(frames') => frames'[k].phase = "callback"
             /\ frames'[k].now <= reported'
             /\ frames'[k].phase \in {"cascade", "take"} => frames'[k].work = <<>>
             /\ frames'[k].phase \in {"cascade", "place", "take"} =>
                  timer_clk' <= frames'[k].now
             /\ frames'[k].phase \in {"loop", "callback"} =>
                  \A id \in Ids' : Has(frames'[k].work, id) => due'[id] <= frames'[k].now
  <2>1. CASE k = Len(frames)
    <3>1. Top.now <= reported
      BY <1>1 DEF StackRight, Top
    <3> QED BY <1>1, <1>2, <2>1, <3>1
  <2>2. CASE k # Len(frames)
    BY <1>1, <1>2, <2>2 DEF StackRight
  <2> QED BY <2>1, <2>2
<1> QED
  BY <1>3 DEF StackRight, Has

\* The same of the next state.
LEMMA Primed ==
  ASSUME RefIsLive', \A p \in Places : Injective(wheel'[p]),
         \A k \in DOMAIN frames' : Injective(frames'[k].work),
         \A p, q, id : InSlot(p, id)' /\ InSlot(q, id)' => p = q,
         \A k, l, id : InWork(k, id)' /\ InWork(l, id)' => k = l,
         \A p, k, id : ~(InSlot(p, id)' /\ InWork(k, id)'),
         \A id : id \in ref' \ lost' <=> (\E p : InSlot(p, id)') \/ (\E k : InWork(k, id)')
  PROVE  Linked'
<1>1. ListsInjective'
  BY DEF ListsInjective, Places, Injective
<1>2. HeldApart' /\ HeldAreRef'
  BY DEF HeldApart, HeldAreRef
<1> QED
  BY <1>1, <1>2 DEF Linked

LEMMA LinkedKept ==
  ASSUME Linked, UNCHANGED <<wheel, ref, lost, live>>,
         \A k \in DOMAIN frames' : Injective(frames'[k].work),
         \A k, id : InWork(k, id)' <=> InWork(k, id)
  PROVE  Linked'
<1>1. \A p, id : InSlot(p, id)' <=> InSlot(p, id)
  BY DEF InSlot, Has, Places
<1>2. RefIsLive'
  BY DEF Linked, RefIsLive
<1> QED
  BY <1>1, <1>2, Primed DEF Linked, HeldApart, HeldAreRef, ListsInjective

\* The slots when only timer_clk moves, forward, and when nothing does.
LEMMA SlotsKept ==
  ASSUME TypeOK, SlotsRight, UNCHANGED <<due, next_id, wheel>>, timer_clk' \in Nat,
         timer_clk' >= timer_clk
  PROVE  SlotsRight'
<1>1. timer_clk \in Nat
  BY DEF TypeOK
<1> QED
  BY <1>1 DEF SlotsRight, NotEarly, Ids, Has, Places

-----------------------------------------------------------------------------
(* Steps that leave the lists as they are.                                 *)

LEMMA StillIInv ==
  ASSUME IInv, BaseTypeOK', UNCHANGED <<wheelVars, frames, next_id, due, live, reported>>,
         status' \in {"running", "destroyed", "undefined"}
  PROVE  IInv'
<1> USE DEF IInv
<1>1. UNCHANGED <<timer_clk, wheel, ref, lost, ghosts, Ids, Frame>>
  BY DEF wheelVars, Ids, Frame
<1>2. TypeOK'
  BY <1>1 DEF TypeOK
<1>3. Linked'
  <2>1. \A k, id : InWork(k, id)' <=> InWork(k, id)
    BY DEF InWork, Has
  <2>2. \A k \in DOMAIN frames' : Injective(frames'[k].work)
    BY DEF Linked, ListsInjective
  <2> QED BY <1>1, <2>1, <2>2, LinkedKept
<1>4. StackRight'
  BY <1>1 DEF StackRight, Has
<1>5. SlotsRight'
  BY <1>1, SlotsKept DEF TypeOK
<1> QED
  BY <1>2, <1>3, <1>4, <1>5

LEMMA TopStepIInv ==
  ASSUME IInv, frames # <<>>, NEW f \in Frame, frames' = SetTop(f),
         f.work = Top.work, f.now = Top.now, ghosts' \subseteq Places,
         UNCHANGED <<timer_clk, wheel, ref, lost, clock, next_id, status, ledger>>,
         f.phase \in {"cascade", "take"} => Top.work = <<>>,
         f.phase \in {"cascade", "place", "take"} => timer_clk <= Top.now,
         f.phase \in {"loop", "callback"} =>
           Top.phase \in {"loop", "callback"} \/ Top.work = <<>>
  PROVE  IInv'
<1> USE DEF IInv
<1>0. PICK n : n = Len(frames)
  OBVIOUS
<1>1. BaseTypeOK' /\ Ids' = Ids /\ UNCHANGED <<due, live, reported>>
  BY LedgerType DEF TypeOK, BaseTypeOK, ledger
<1>2. n \in DOMAIN frames /\ frames[n] = Top
  BY <1>0, TopFields
<1>3. ListsInjective /\ Injective(f.work)
  BY <1>2 DEF Linked, ListsInjective
<1>4. /\ frames' \in Seq(Frame) /\ DOMAIN frames' = DOMAIN frames
      /\ \A k \in DOMAIN frames' : Injective(frames'[k].work)
      /\ \A k, id : InWork(k, id)' <=> IF k = n THEN Has(f.work, id) ELSE InWork(k, id)
  BY <1>0, <1>3, SetTopHas
<1>5. TypeOK'
  <2>1. Frame' = Frame
    BY <1>1 DEF Frame
  <2> QED BY <1>1, <1>4, <2>1 DEF TypeOK
<1>6. Linked'
  <2>1. \A k, id : InWork(k, id)' <=> InWork(k, id)
    BY <1>2, <1>4 DEF InWork
  <2> QED BY <1>1, <1>4, <2>1, LinkedKept
<1>7. StackRight'
  <2>1. f.phase \in {"loop", "callback"} =>
          \A id \in Ids : Has(f.work, id) => due[id] <= f.now
    BY <1>2, EmptyHas DEF StackRight
  <2> QED BY <1>1, <1>3, <2>1, StackSetTop
<1>8. SlotsRight'
  BY <1>1, SlotsKept DEF TypeOK
<1> QED
  BY <1>5, <1>6, <1>7, <1>8

LEMMA BeginTickIInv ==
  ASSUME IInv, BeginTick
  PROVE  IInv'
<1>0. PICK two \in 1 .. 5 : two = 2
  OBVIOUS
<1> DEFINE c == [Top EXCEPT !.phase = "cascade", !.level = two]
           t == [Top EXCEPT !.phase = "take"]
<1>1. /\ frames # <<>> /\ Top.phase = "loop" /\ Top.work = <<>> /\ timer_clk <= Top.now
      /\ frames' = SetTop(c) \/ frames' = SetTop(t)
      /\ UNCHANGED <<wheelVars, clock, next_id, status, ledger>>
  BY <1>0 DEF BeginTick, InPhase
<1>2. Top \in Frame /\ ghosts \subseteq Places
  BY <1>1, TopFields DEF IInv, TypeOK
<1>3. c \in Frame /\ c.work = Top.work /\ c.now = Top.now /\ c.phase = "cascade"
  BY <1>2 DEF Frame
<1>4. t \in Frame /\ t.work = Top.work /\ t.now = Top.now /\ t.phase = "take"
  BY <1>2 DEF Frame
<1> HIDE DEF c, t
<1>5. CASE frames' = SetTop(c)
  BY <1>1, <1>2, <1>3, <1>5, TopStepIInv DEF wheelVars
<1>6. CASE frames' = SetTop(t)
  BY <1>1, <1>2, <1>4, <1>6, TopStepIInv DEF wheelVars
<1> QED
  BY <1>1, <1>5, <1>6

\* The next level, or the slot of the tick.
LEMMA GoesOnIInv ==
  ASSUME IInv, frames # <<>>, Top.phase \in {"cascade", "place"}, Top.work = <<>>,
         CascadeGoesOn, ghosts' \subseteq Places,
         UNCHANGED <<timer_clk, wheel, ref, lost, clock, next_id, status, ledger>>
  PROVE  IInv'
<1>0. PICK next, one \in 1 .. 5 : one = 1 /\ (Top.level < 5 => next = Top.level + 1)
  <2>1. Top.level \in 1 .. 5
    BY TopFields DEF IInv
  <2>2. Top.level < 5 => Top.level + 1 \in 1 .. 5
    BY <2>1
  <2> QED BY <2>2
<1> DEFINE c == [Top EXCEPT !.phase = "cascade", !.level = next]
           t == [Top EXCEPT !.phase = "take", !.level = one]
<1>1. Top \in Frame /\ Top.level \in 1 .. 5
  BY TopFields DEF IInv
<1>2. \/ frames' = SetTop(c) /\ Top.level < 5
      \/ frames' = SetTop(t)
  BY <1>0 DEF CascadeGoesOn
<1>3. c \in Frame
  BY <1>1 DEF Frame
<1>4. c.work = Top.work /\ c.now = Top.now /\ c.phase = "cascade"
  BY <1>1 DEF Frame
<1>5. t \in Frame /\ t.work = Top.work /\ t.now = Top.now /\ t.phase = "take"
  BY <1>1 DEF Frame
<1>6. timer_clk <= Top.now
  BY TopFields DEF IInv, StackRight
<1> HIDE DEF c, t
<1>7. CASE frames' = SetTop(c) /\ Top.level < 5
  BY <1>3, <1>4, <1>6, <1>7, TopStepIInv
<1>8. CASE frames' = SetTop(t)
  BY <1>5, <1>6, <1>8, TopStepIInv
<1> QED
  BY <1>2, <1>7, <1>8

LEMMA CascadeEmptyIInv ==
  ASSUME IInv, CascadeEmpty
  PROVE  IInv'
<1>1. /\ frames # <<>> /\ Top.phase = "cascade" /\ CascadeGoesOn
      /\ UNCHANGED <<wheelVars, clock, next_id, status, ledger>>
  BY DEF CascadeEmpty, InPhase
<1>2. Top.work = <<>>
  BY <1>1, TopFields DEF IInv, StackRight
<1> QED
  BY <1>1, <1>2, GoesOnIInv DEF wheelVars, IInv, TypeOK

LEMMA CascadeEndsIInv ==
  ASSUME IInv, NEW head \in Places, CascadeEnds(head)
  PROVE  IInv'
<1>1. /\ frames # <<>> /\ Top.phase = "place" /\ Top.work = <<>> /\ CascadeGoesOn
      /\ ghosts' = ghosts \cup {head}
      /\ UNCHANGED <<timer_clk, wheel, ref, lost, clock, next_id, status, ledger>>
  BY DEF CascadeEnds, InPhase
<1>2. ghosts' \subseteq Places
  BY <1>1 DEF IInv, TypeOK
<1> QED
  BY <1>1, <1>2, GoesOnIInv

LEMMA ActionDoneIInv ==
  ASSUME IInv, ActionDone
  PROVE  IInv'
<1> DEFINE f == [Top EXCEPT !.phase = "loop"]
<1>1. /\ frames # <<>> /\ Top.phase = "callback" /\ frames' = SetTop(f)
      /\ UNCHANGED <<wheelVars, clock, next_id, status, ledger>>
  BY DEF ActionDone, ActionReturns, InPhase
<1>2. Top \in Frame /\ ghosts \subseteq Places
  BY <1>1, TopFields DEF IInv, TypeOK
<1>3. f \in Frame /\ f.work = Top.work /\ f.now = Top.now /\ f.phase = "loop"
  BY <1>2 DEF Frame
<1> HIDE DEF f
<1> QED
  BY <1>1, <1>2, <1>3, TopStepIInv DEF wheelVars

-----------------------------------------------------------------------------
(* Steps that move a timer.                                                *)

LEMMA EnqueuedIs ==
  ASSUME NEW S, wheel \in [Places -> Seq(S)], \A q \in Places : Injective(wheel[q]),
         NEW p \in Places, NEW id \in S, \A q : ~InSlot(q, id),
         wheel' = Enqueued(p, id)
  PROVE  /\ wheel' \in [Places -> Seq(S)]
         /\ \A q \in Places : Injective(wheel'[q])
         /\ \A q, x : InSlot(q, x)' <=> InSlot(q, x) \/ (q = p /\ x = id)
<1>1. wheel' = [wheel EXCEPT ![p] = Append(wheel[p], id)]
  BY DEF Enqueued
<1> DEFINE list == wheel[p]
<1>2. list \in Seq(S) /\ Injective(list) /\ ~Has(list, id)
  BY DEF InSlot
<1> HIDE DEF list
<1>3. /\ Append(list, id) \in Seq(S)
      /\ Injective(Append(list, id))
      /\ \A x : Has(Append(list, id), x) <=> Has(list, x) \/ x = id
  BY <1>2, AppendHas
<1>4. /\ wheel' \in [Places -> Seq(S)]
      /\ wheel'[p] = Append(list, id)
      /\ \A q \in Places : q # p => wheel'[q] = wheel[q]
  BY <1>1, <1>3 DEF list
<1>5. \A q, x : InSlot(q, x)' <=> q \in Places /\ Has(wheel'[q], x)
  BY DEF InSlot, Has, Places
<1>6. \A q \in Places : Injective(wheel'[q])
  BY <1>3, <1>4
<1>7. ASSUME NEW q, NEW x
      PROVE  InSlot(q, x)' <=> InSlot(q, x) \/ (q = p /\ x = id)
  <2>1. CASE q = p
    BY <1>3, <1>4, <1>5, <2>1 DEF InSlot, list
  <2>2. CASE q # p
    BY <1>4, <1>5, <2>2 DEF InSlot
  <2> QED BY <2>1, <2>2
<1> QED
  BY <1>4, <1>6, <1>7

LEMMA ClearedIs ==
  ASSUME NEW S, wheel \in [Places -> Seq(S)], \A q \in Places : Injective(wheel[q]),
         NEW p \in Places, wheel' = [wheel EXCEPT ![p] = <<>>]
  PROVE  /\ wheel' \in [Places -> Seq(S)]
         /\ \A q \in Places : Injective(wheel'[q])
         /\ \A q, x : InSlot(q, x)' <=> InSlot(q, x) /\ q # p
<1>1. <<>> \in Seq(S)
  BY EmptySeq
<1>2. /\ wheel' \in [Places -> Seq(S)]
      /\ wheel'[p] = <<>>
      /\ \A q \in Places : q # p => wheel'[q] = wheel[q]
  BY <1>1
<1>3. \A q, x : InSlot(q, x)' <=> q \in Places /\ Has(wheel'[q], x)
  BY DEF InSlot, Has, Places
<1> QED
  BY <1>2, <1>3, EmptyHas DEF InSlot

\* Everything that is held has an id that was given out.
LEMMA HeldIds ==
  ASSUME TypeOK
  PROVE  /\ \A p, id : InSlot(p, id) => id \in Ids
         /\ \A k, id : InWork(k, id) => id \in Ids
<1>1. ASSUME NEW p, NEW id, InSlot(p, id) PROVE id \in Ids
  <2>1. wheel[p] \in Seq(Ids) /\ Has(wheel[p], id)
    BY <1>1 DEF InSlot, TypeOK
  <2> QED BY <2>1, HasIds
<1>2. ASSUME NEW k, NEW id, InWork(k, id) PROVE id \in Ids
  <2>1. frames[k].work \in Seq(Ids) /\ Has(frames[k].work, id)
    BY <1>2, FrameFields DEF InWork
  <2> QED BY <2>1, HasIds
<1> QED
  BY <1>1, <1>2

LEMMA StartIInv ==
  ASSUME IInv, NEW duration \in Durations, Start(duration)
  PROVE  IInv'
<1> USE DEF IInv
<1>0. PICK expires \in Nat : expires = clock + duration
  BY BaseAssumption DEF TypeOK, BaseTypeOK
<1>1. PICK place, id : place = Place(expires, timer_clk) /\ id = next_id
  OBVIOUS
<1>2. place \in Places /\ NotEarly(place, expires, timer_clk) /\ timer_clk \in Nat
  BY <1>1, PlaceIs DEF TypeOK
<1>3. /\ wheel' = Enqueued(place, id) /\ ref' = ref \cup {id} /\ Started(expires)
      /\ UNCHANGED <<timer_clk, lost, ghosts, clock, frames, status>>
  BY <1>0, <1>1 DEF Start
<1>4. /\ BaseTypeOK' /\ id \notin Ids /\ Ids' = Ids \cup {id} /\ due'[id] = expires
      /\ \A x \in Ids : due'[x] = due[x]
  BY <1>1, <1>3, StartedType DEF TypeOK
<1>5. live' = live \cup {id} /\ reported' = reported
  BY <1>1, <1>3 DEF Started
<1>6. Seq(Ids) \subseteq Seq(Ids') /\ Frame \subseteq Frame'
  <2>1. Seq(Ids) \subseteq Seq(Ids')
    BY <1>4, SeqMonotonic
  <2> QED BY <2>1 DEF Frame
<1>7. (\A p : ~InSlot(p, id)) /\ (\A k : ~InWork(k, id))
  BY <1>4, HeldIds
<1>8. /\ wheel' \in [Places -> Seq(Ids')]
      /\ \A q \in Places : Injective(wheel'[q])
      /\ \A q, x : InSlot(q, x)' <=> InSlot(q, x) \/ (q = place /\ x = id)
  <2>1. wheel \in [Places -> Seq(Ids')] /\ id \in Ids' /\ \A q \in Places : Injective(wheel[q])
    BY <1>4, <1>6 DEF TypeOK, Linked, ListsInjective
  <2> QED BY <1>2, <1>3, <1>7, <2>1, EnqueuedIs
<1>9. TypeOK'
  <2>1. frames' \in Seq(Frame')
    BY <1>3, <1>6, SeqMonotonic DEF TypeOK
  <2> QED BY <1>3, <1>4, <1>8, <2>1 DEF TypeOK, Places
<1>10. \A k, x : InWork(k, x)' <=> InWork(k, x)
  BY <1>3 DEF InWork, Has
<1>11. Linked'
  <2>1. id \notin ref
    BY <1>4 DEF TypeOK
  <2>2. RefIsLive'
    BY <1>3, <1>5 DEF Linked, RefIsLive
  <2>3. \A k \in DOMAIN frames' : Injective(frames'[k].work)
    BY <1>3 DEF Linked, ListsInjective
  <2>4. \A p, q, x : InSlot(p, x)' /\ InSlot(q, x)' => p = q
    BY <1>7, <1>8 DEF Linked, HeldApart
  <2>5. \A k, l, x : InWork(k, x)' /\ InWork(l, x)' => k = l
    BY <1>10 DEF Linked, HeldApart
  <2>6. \A p, k, x : ~(InSlot(p, x)' /\ InWork(k, x)')
    BY <1>7, <1>8, <1>10 DEF Linked, HeldApart
  <2>7. id \notin lost
    BY <1>4 DEF TypeOK
  <2>8. \A x : x \in ref' \ lost' <=> (\E p : InSlot(p, x)') \/ (\E k : InWork(k, x)')
    BY <1>3, <1>8, <1>10, <2>7 DEF Linked, HeldAreRef
  <2> QED BY <1>8, <2>2, <2>3, <2>4, <2>5, <2>6, <2>8, Primed
<1>12. StackRight'
  <2>1. \A k \in DOMAIN frames : frames[k].work \in Seq(Ids)
    BY FrameFields
  <2>2. \A k \in DOMAIN frames : \A x : Has(frames[k].work, x) => x \in Ids
    BY <2>1, HasIds
  <2> QED BY <1>3, <1>4, <1>5, <2>2 DEF StackRight, Has
<1>13. SlotsRight'
  <2>1. ASSUME NEW p \in Places, NEW x, InSlot(p, x)'
        PROVE  NotEarly(p, due'[x], timer_clk)
    <3>1. CASE x = id /\ p = place
      BY <1>2, <1>4, <3>1
    <3>2. CASE InSlot(p, x)
      <4>1. x \in Ids /\ Has(wheel[p], x)
        BY <3>2, HeldIds DEF InSlot
      <4> QED BY <1>4, <4>1 DEF SlotsRight
    <3> QED BY <1>8, <2>1, <3>1, <3>2
  <2> QED BY <1>3, <2>1 DEF SlotsRight, InSlot, NotEarly, Has, Places
<1> QED
  BY <1>9, <1>11, <1>12, <1>13

LEMMA CancelIInv ==
  ASSUME IInv, NEW id \in ref, Cancel(id)
  PROVE  IInv' /\ id \in live
<1> USE DEF IInv
<1>1. /\ id \notin lost /\ ref' = ref \ {id} /\ Stopped(id) /\ live' = live \ {id}
      /\ wheel' = [p \in Places |-> Without(wheel[p], id)]
      /\ frames' = [k \in DOMAIN frames |->
                      [frames[k] EXCEPT !.work = Without(frames[k].work, id)]]
      /\ UNCHANGED <<timer_clk, lost, ghosts, clock, next_id, status, due, reported>>
  BY DEF Cancel, NextToGhost, Unlink, Stopped
<1>2. id \in live
  BY DEF Linked, RefIsLive
<1>3. BaseTypeOK' /\ Ids' = Ids /\ Frame' = Frame
  <2>1. BaseTypeOK' /\ Ids' = Ids
    BY <1>1, <1>2, LedgerType DEF TypeOK, BaseTypeOK
  <2> QED BY <2>1 DEF Frame
<1>4. ASSUME NEW p \in Places
      PROVE  /\ wheel'[p] \in Seq(Ids) /\ Injective(wheel'[p])
             /\ \A x : Has(wheel'[p], x) <=> Has(wheel[p], x) /\ x # id
  <2> DEFINE list == wheel[p]
  <2>1. list \in Seq(Ids) /\ Injective(list) /\ wheel'[p] = Without(list, id)
    BY <1>1 DEF TypeOK, Linked, ListsInjective
  <2> HIDE DEF list
  <2>2. /\ Without(list, id) \in Seq(Ids) /\ Injective(Without(list, id))
        /\ \A x : Has(Without(list, id), x) <=> Has(list, x) /\ x # id
    BY <2>1, WithoutHas
  <2> QED BY <2>1, <2>2 DEF list
<1>5. ASSUME NEW k \in DOMAIN frames
      PROVE  /\ frames'[k] \in Frame /\ Injective(frames'[k].work)
             /\ frames'[k].now = frames[k].now /\ frames'[k].phase = frames[k].phase
             /\ frames[k].work = <<>> => frames'[k].work = <<>>
             /\ \A x : Has(frames'[k].work, x) <=> Has(frames[k].work, x) /\ x # id
  <2> DEFINE list == frames[k].work
             new  == Without(list, id)
  <2>1. list \in Seq(Ids) /\ Injective(list) /\ frames[k] \in Frame
    BY FrameFields DEF Linked, ListsInjective
  <2>2. frames'[k] = [frames[k] EXCEPT !.work = new]
    BY <1>1
  <2> HIDE DEF list
  <2>3. /\ new \in Seq(Ids) /\ Injective(new)
        /\ \A x : Has(new, x) <=> Has(list, x) /\ x # id
    BY <2>1, WithoutHas
  <2>4. list = <<>> => new = <<>>
    BY EmptyHas DEF Without
  <2> HIDE DEF new
  <2>5. /\ frames'[k] \in Frame /\ frames'[k].work = new
        /\ frames'[k].now = frames[k].now /\ frames'[k].phase = frames[k].phase
    BY <2>1, <2>2, <2>3 DEF Frame
  <2> QED BY <2>3, <2>4, <2>5 DEF list
<1>6. /\ frames' \in Seq(Frame) /\ DOMAIN frames' = DOMAIN frames /\ Len(frames') = Len(frames)
  <2>1. DOMAIN frames = 1 .. Len(frames) /\ Len(frames) \in Nat
    BY Elements DEF TypeOK
  <2>2. frames' = [k \in 1 .. Len(frames) |-> frames'[k]]
    BY <1>1, <2>1
  <2>3. \A k \in 1 .. Len(frames) : frames'[k] \in Frame
    BY <1>5, <2>1
  <2>4. frames' \in Seq(Frame)
    BY <2>1, <2>2, <2>3, IsASeq
  <2>5. DOMAIN frames' = DOMAIN frames
    BY <1>1
  <2> QED BY <2>1, <2>4, <2>5, Elements, LenProperties
<1>7. TypeOK'
  <2>1. wheel' \in [Places -> Seq(Ids)]
    BY <1>1, <1>4
  <2> QED BY <1>1, <1>3, <1>6, <2>1 DEF TypeOK, Places
<1>8. /\ \A p, x : InSlot(p, x)' <=> InSlot(p, x) /\ x # id
      /\ \A k, x : InWork(k, x)' <=> InWork(k, x) /\ x # id
  <2>1. \A p, x : InSlot(p, x)' <=> p \in Places /\ Has(wheel'[p], x)
    BY DEF InSlot, Has, Places
  <2>2. \A k, x : InWork(k, x)' <=> k \in DOMAIN frames' /\ Has(frames'[k].work, x)
    BY DEF InWork, Has
  <2> QED BY <1>4, <1>5, <1>6, <2>1, <2>2 DEF InSlot, InWork
<1>9. Linked'
  <2>1. RefIsLive'
    BY <1>1 DEF Linked, RefIsLive
  <2>2. \A x : x \in ref' \ lost' <=> (\E p : InSlot(p, x)') \/ (\E k : InWork(k, x)')
    BY <1>1, <1>8 DEF Linked, HeldAreRef
  <2>3. /\ \A p, q, x : InSlot(p, x)' /\ InSlot(q, x)' => p = q
        /\ \A k, l, x : InWork(k, x)' /\ InWork(l, x)' => k = l
        /\ \A p, k, x : ~(InSlot(p, x)' /\ InWork(k, x)')
    BY <1>8 DEF Linked, HeldApart
  <2> QED BY <1>4, <1>5, <1>6, <2>1, <2>2, <2>3, Primed
<1>10. StackRight'
  <2>1. ASSUME NEW k \in DOMAIN frames'
        PROVE  /\ k # Len(frames') => frames'[k].phase = "callback"
               /\ frames'[k].now <= reported'
               /\ frames'[k].phase \in {"cascade", "take"} => frames'[k].work = <<>>
               /\ frames'[k].phase \in {"cascade", "place", "take"} =>
                    timer_clk' <= frames'[k].now
               /\ frames'[k].phase \in {"loop", "callback"} =>
                    \A x \in Ids : Has(frames'[k].work, x) => due'[x] <= frames'[k].now
    BY <1>1, <1>5, <1>6 DEF StackRight
  <2> QED BY <1>3, <2>1 DEF StackRight, Has
<1>11. SlotsRight'
  <2>1. ASSUME NEW p \in Places, NEW x \in Ids, Has(wheel'[p], x)
        PROVE  NotEarly(p, due'[x], timer_clk')
    BY <1>1, <1>4, <2>1 DEF SlotsRight
  <2>2. Places' = Places
    BY DEF Places
  <2> QED BY <1>3, <2>1, <2>2 DEF SlotsRight, NotEarly, Has
<1> QED
  BY <1>2, <1>7, <1>9, <1>10, <1>11

LEMMA UpdateIInv ==
  ASSUME IInv, NEW lag \in Lags, Update(clock - lag)
  PROVE  IInv'
<1> USE DEF IInv
<1>0. PICK now \in Nat : now = clock - lag
  BY ToldTime DEF Update, TypeOK
<1>1. PICK n : n = Len(frames) + 1
  OBVIOUS
<1> DEFINE f == [now |-> now, work |-> <<>>, level |-> 1, phase |-> "loop"]
<1>2. /\ frames' = Push(f) /\ Reported(now)
      /\ frames # <<>> => Top.phase = "callback"
      /\ UNCHANGED <<timer_clk, wheel, ref, lost, ghosts, clock, status>>
  BY <1>0 DEF Update, MayUpdate, MayCall, wheelVars
<1>3. BaseTypeOK' /\ Ids' = Ids /\ Frame' = Frame /\ reported' >= reported /\ reported' >= now
  <2>1. BaseTypeOK' /\ Ids' = Ids /\ reported' >= reported /\ reported' >= now
    BY <1>2, LedgerType DEF TypeOK, BaseTypeOK
  <2> QED BY <2>1 DEF Frame
<1>4. UNCHANGED <<next_id, due, live>>
  BY <1>2 DEF Reported
<1>5. f \in Frame /\ f.now = now /\ f.work = <<>> /\ f.phase = "loop"
  BY EmptySeq DEF Frame
<1> HIDE DEF f
<1>6. /\ frames' \in Seq(Frame) /\ Len(frames') = n
      /\ DOMAIN frames' = DOMAIN frames \cup {n}
      /\ frames'[n] = f
      /\ \A k \in DOMAIN frames : frames'[k] = frames[k]
  BY <1>1, <1>2, <1>5, PushIs DEF TypeOK
<1>7. n \notin DOMAIN frames
  BY <1>1, Elements DEF TypeOK
<1>8. TypeOK'
  BY <1>2, <1>3, <1>4, <1>6 DEF TypeOK
<1>9. \A k \in DOMAIN frames' : Injective(frames'[k].work)
  BY <1>5, <1>6, EmptyHas DEF Linked, ListsInjective
<1>10. \A k, id : InWork(k, id)' <=> InWork(k, id)
  <2>1. \A k, id : InWork(k, id)' <=> k \in DOMAIN frames' /\ Has(frames'[k].work, id)
    BY DEF InWork, Has
  <2> QED BY <1>5, <1>6, <1>7, <2>1, EmptyHas DEF InWork
<1>11. Linked'
  BY <1>2, <1>4, <1>9, <1>10, LinkedKept
<1>12. StackRight'
  <2>1. \A k \in DOMAIN frames : frames[k].phase = "callback"
    <3>1. ASSUME NEW k \in DOMAIN frames PROVE frames[k].phase = "callback"
      <4>1. CASE k = Len(frames)
        <5>1. frames # <<>>
          BY EmptySeq
        <5> QED BY <1>2, <4>1, <5>1 DEF Top
      <4>2. CASE k # Len(frames)
        BY <4>2 DEF StackRight
      <4> QED BY <4>1, <4>2
    <3> QED BY <3>1
  <2>2. ASSUME NEW k \in DOMAIN frames'
        PROVE  /\ k # Len(frames') => frames'[k].phase = "callback"
               /\ frames'[k].now <= reported'
               /\ frames'[k].phase \in {"cascade", "take"} => frames'[k].work = <<>>
               /\ frames'[k].phase \in {"cascade", "place", "take"} =>
                    timer_clk' <= frames'[k].now
               /\ frames'[k].phase \in {"loop", "callback"} =>
                    \A id \in Ids : Has(frames'[k].work, id) => due'[id] <= frames'[k].now
    <3>1. CASE k = n
      BY <1>3, <1>5, <1>6, <3>1, EmptyHas
    <3>2. CASE k \in DOMAIN frames
      <4>1. frames[k].now \in Nat /\ frames[k].now <= reported /\ reported \in Nat
        BY <3>2, FrameFields DEF StackRight, TypeOK, BaseTypeOK
      <4>2. reported' \in Nat
        BY <1>3 DEF BaseTypeOK
      <4> QED BY <1>3, <1>4, <1>6, <2>1, <3>2, <4>1, <4>2 DEF StackRight
    <3> QED BY <1>6, <3>1, <3>2
  <2> QED BY <1>3, <2>2 DEF StackRight, Has
<1>13. SlotsRight'
  BY <1>2, <1>4, SlotsKept DEF TypeOK
<1> QED
  BY <1>8, <1>11, <1>12, <1>13

LEMMA UpdateReturnsIInv ==
  ASSUME IInv, UpdateReturns
  PROVE  IInv'
<1> USE DEF IInv
<1>0. PICK n : n = Len(frames)
  OBVIOUS
<1>1. /\ frames # <<>> /\ Top.phase = "loop" /\ Top.work = <<>> /\ frames' = Pop
      /\ UNCHANGED <<timer_clk, wheel, ref, lost, ghosts, clock, next_id, status, ledger>>
  BY DEF UpdateReturns, InPhase, Returned, wheelVars
<1>2. BaseTypeOK' /\ Ids' = Ids /\ Frame' = Frame /\ UNCHANGED <<due, live, reported>>
  <2>1. BaseTypeOK' /\ Ids' = Ids
    BY <1>1, LedgerType DEF TypeOK, BaseTypeOK, ledger
  <2> QED BY <1>1, <2>1 DEF Frame, ledger
<1>3. /\ frames' \in Seq(Frame) /\ n \in DOMAIN frames
      /\ DOMAIN frames' = 1 .. n - 1 /\ DOMAIN frames = 1 .. n /\ n \in Nat
      /\ \A k \in DOMAIN frames' : k \in DOMAIN frames /\ frames'[k] = frames[k]
  BY <1>0, <1>1, TopPop, Elements DEF TypeOK
<1>4. \A k : k \in DOMAIN frames <=> k \in DOMAIN frames' \/ k = n
  BY <1>3
<1>5. TypeOK'
  BY <1>1, <1>2, <1>3 DEF TypeOK
<1>6. \A k \in DOMAIN frames' : Injective(frames'[k].work)
  BY <1>3 DEF Linked, ListsInjective
<1>7. \A k, id : InWork(k, id)' <=> InWork(k, id)
  <2>1. \A k, id : InWork(k, id)' <=> k \in DOMAIN frames' /\ Has(frames'[k].work, id)
    BY DEF InWork, Has
  <2>2. frames[n].work = <<>>
    BY <1>0, <1>1 DEF Top
  <2> QED BY <1>3, <1>4, <2>1, <2>2, EmptyHas DEF InWork
<1>8. Linked'
  BY <1>1, <1>2, <1>6, <1>7, LinkedKept
<1>9. StackRight'
  <2>1. \A k \in DOMAIN frames' : k # n
    BY <1>3
  <2>2. ASSUME NEW k \in DOMAIN frames'
        PROVE  /\ frames'[k].phase = "callback"
               /\ frames'[k].now <= reported'
               /\ \A id \in Ids : Has(frames'[k].work, id) => due'[id] <= frames'[k].now
    BY <1>0, <1>1, <1>2, <1>3, <2>1 DEF StackRight
  <2> QED BY <1>2, <2>2 DEF StackRight, Has
<1>10. SlotsRight'
  BY <1>1, <1>2, SlotsKept DEF TypeOK
<1> QED
  BY <1>5, <1>8, <1>9, <1>10

LEMMA CascadeBeginsIInv ==
  ASSUME IInv, CascadeBegins
  PROVE  IInv'
<1> USE DEF IInv
<1>0. PICK n, from, first : n = Len(frames) /\ from = Current(Top.level)
                            /\ first = Head(wheel[from])
  OBVIOUS
<1>1. PICK rest : rest = Tail(wheel[from])
  OBVIOUS
<1> DEFINE f == [Top EXCEPT !.phase = "place", !.work = rest]
<1>2. /\ frames # <<>> /\ Top.phase = "cascade" /\ wheel[from] # <<>>
      /\ frames' = SetTop(f)
      /\ wheel' = [wheel EXCEPT ![from] = <<>>]
      /\ lost' = lost \cup {first}
      /\ UNCHANGED <<timer_clk, ref, ghosts, clock, next_id, status, ledger>>
  BY <1>0, <1>1 DEF CascadeBegins, InPhase
<1>3. BaseTypeOK' /\ Ids' = Ids /\ Frame' = Frame /\ UNCHANGED <<due, live, reported>>
  <2>1. BaseTypeOK' /\ Ids' = Ids
    BY <1>2, LedgerType DEF TypeOK, BaseTypeOK, ledger
  <2> QED BY <1>2, <2>1 DEF Frame, ledger
<1>4. from \in Places
  BY <1>0, <1>2, TopFields, SlotType DEF Current, TypeOK
<1>5. /\ rest \in Seq(Ids) /\ first \in Ids /\ Injective(rest) /\ Has(wheel[from], first)
      /\ \A x : Has(rest, x) <=> Has(wheel[from], x) /\ x # first
  <2> DEFINE list == wheel[from]
  <2>1. list \in Seq(Ids) /\ Injective(list) /\ list # <<>>
    BY <1>2, <1>4 DEF TypeOK, Linked, ListsInjective
  <2>2. rest = Tail(list) /\ first = Head(list)
    BY <1>0, <1>1
  <2> HIDE DEF list
  <2>3. /\ rest \in Seq(Ids) /\ first \in Ids /\ Injective(rest) /\ Has(list, first)
        /\ \A x : Has(rest, x) <=> Has(list, x) /\ x # first
    BY <2>1, <2>2, TailHas
  <2> QED BY <2>3 DEF list
<1>6. Top \in Frame /\ n \in DOMAIN frames /\ frames[n] = Top
  BY <1>0, <1>2, TopFields
<1>7. Top.work = <<>> /\ timer_clk <= Top.now
  BY <1>2, <1>6 DEF StackRight
<1>8. f \in Frame /\ f.work = rest /\ f.now = Top.now /\ f.phase = "place"
  BY <1>5, <1>6 DEF Frame
<1> HIDE DEF f
<1>9. ListsInjective /\ Injective(f.work)
  BY <1>5, <1>8 DEF Linked
<1>10. /\ frames' \in Seq(Frame)
       /\ \A k \in DOMAIN frames' : Injective(frames'[k].work)
       /\ \A k, x : InWork(k, x)' <=> IF k = n THEN Has(rest, x) ELSE InWork(k, x)
  BY <1>0, <1>2, <1>8, <1>9, SetTopHas
<1>11. /\ wheel' \in [Places -> Seq(Ids)]
       /\ \A q \in Places : Injective(wheel'[q])
       /\ \A q, x : InSlot(q, x)' <=> InSlot(q, x) /\ q # from
  BY <1>2, <1>4, <1>9, ClearedIs DEF TypeOK, ListsInjective
<1>12. TypeOK'
  BY <1>2, <1>3, <1>5, <1>10, <1>11 DEF TypeOK, Places
<1>13. \A x : ~InWork(n, x)
  BY <1>6, <1>7, EmptyHas DEF InWork
<1>14. \A x : InSlot(from, x) <=> Has(rest, x) \/ x = first
  BY <1>4, <1>5 DEF InSlot
<1>15. Linked'
  <2>1. InSlot(from, first)
    BY <1>14
  <2>2. first \in ref
    BY <2>1 DEF Linked, HeldAreRef
  <2>3. RefIsLive'
    BY <1>2, <1>3, <2>2 DEF Linked, RefIsLive
  <2>4. HeldApart /\ HeldAreRef
    BY DEF Linked
  <2>5. \A p, q, x : InSlot(p, x)' /\ InSlot(q, x)' => p = q
    BY <1>11, <2>4 DEF HeldApart
  <2>6. \A x : Has(rest, x) => InSlot(from, x) /\ \A k : ~InWork(k, x)
    BY <1>14, <2>4 DEF HeldApart
  <2>7. \A k, l, x : InWork(k, x)' /\ InWork(l, x)' => k = l
    BY <1>10, <2>4, <2>6 DEF HeldApart
  <2>8. \A p, k, x : ~(InSlot(p, x)' /\ InWork(k, x)')
    BY <1>10, <1>11, <2>4, <2>6 DEF HeldApart
  <2>9. \A x : x \in ref' \ lost' => (\E p : InSlot(p, x)') \/ (\E k : InWork(k, x)')
    <3>1. ASSUME NEW x, x \in ref' \ lost'
          PROVE  (\E p : InSlot(p, x)') \/ (\E k : InWork(k, x)')
      <4>1. x \in ref \ lost /\ x # first
        BY <1>2, <3>1
      <4>2. (\E p : InSlot(p, x)) \/ (\E k : InWork(k, x))
        BY <2>4, <4>1 DEF HeldAreRef
      <4> QED BY <1>10, <1>11, <1>13, <1>14, <4>1, <4>2
    <3> QED BY <3>1
  <2>10. \A x : (\E p : InSlot(p, x)') \/ (\E k : InWork(k, x)') => x \in ref' \ lost'
    <3>1. ASSUME NEW x, (\E p : InSlot(p, x)') \/ (\E k : InWork(k, x)')
          PROVE  x \in ref' \ lost'
      <4>1. (\E p : InSlot(p, x)) \/ (\E k : InWork(k, x))
        BY <1>10, <1>11, <2>6, <3>1
      <4>2. x # first
        BY <1>5, <1>10, <1>11, <2>1, <2>4, <3>1 DEF HeldApart
      <4> QED BY <1>2, <2>4, <4>1, <4>2 DEF HeldAreRef
    <3> QED BY <3>1
  <2> QED BY <1>10, <1>11, <2>3, <2>5, <2>7, <2>8, <2>9, <2>10, Primed
<1>16. StackRight'
  BY <1>2, <1>3, <1>7, <1>8, <1>9, StackSetTop
<1>17. SlotsRight'
  <2>1. ASSUME NEW p \in Places, NEW x \in Ids, Has(wheel'[p], x)
        PROVE  NotEarly(p, due'[x], timer_clk')
    <3>1. InSlot(p, x)'
      BY <2>1 DEF InSlot, Has, Places
    <3>2. Has(wheel[p], x)
      BY <1>11, <3>1 DEF InSlot
    <3> QED BY <1>2, <1>3, <3>2 DEF SlotsRight
  <2>2. Places' = Places
    BY DEF Places
  <2> QED BY <1>3, <2>1, <2>2 DEF SlotsRight, NotEarly, Has
<1> QED
  BY <1>12, <1>15, <1>16, <1>17

LEMMA CascadePlacesIInv ==
  ASSUME IInv, CascadePlaces
  PROVE  IInv'
<1> USE DEF IInv
<1>0. PICK n, id, rest : n = Len(frames) /\ id = Head(Top.work) /\ rest = Tail(Top.work)
  OBVIOUS
<1>1. PICK place : place = Place(due[id], timer_clk)
  OBVIOUS
<1> DEFINE f == [Top EXCEPT !.work = rest]
<1>2. /\ frames # <<>> /\ Top.phase = "place" /\ Top.work # <<>>
      /\ frames' = SetTop(f)
      /\ wheel' = Enqueued(place, id)
      /\ UNCHANGED <<timer_clk, ref, lost, ghosts, clock, next_id, status, ledger>>
  BY <1>0, <1>1 DEF CascadePlaces, InPhase
<1>3. BaseTypeOK' /\ Ids' = Ids /\ Frame' = Frame /\ UNCHANGED <<due, live, reported>>
  <2>1. BaseTypeOK' /\ Ids' = Ids
    BY <1>2, LedgerType DEF TypeOK, BaseTypeOK, ledger
  <2> QED BY <1>2, <2>1 DEF Frame, ledger
<1>4. Top \in Frame /\ n \in DOMAIN frames /\ frames[n] = Top /\ Top.work \in Seq(Ids)
  BY <1>0, <1>2, TopFields
<1>5. ListsInjective /\ HeldApart /\ HeldAreRef /\ Injective(Top.work)
  BY <1>4 DEF Linked, ListsInjective
<1>6. /\ rest \in Seq(Ids) /\ id \in Ids /\ Injective(rest) /\ Has(Top.work, id)
      /\ \A x : Has(rest, x) <=> Has(Top.work, x) /\ x # id
  <2> DEFINE list == Top.work
  <2>1. list \in Seq(Ids) /\ Injective(list) /\ list # <<>>
        /\ rest = Tail(list) /\ id = Head(list)
    BY <1>0, <1>2, <1>4, <1>5
  <2> HIDE DEF list
  <2>2. /\ rest \in Seq(Ids) /\ id \in Ids /\ Injective(rest) /\ Has(list, id)
        /\ \A x : Has(rest, x) <=> Has(list, x) /\ x # id
    BY <2>1, TailHas
  <2> QED BY <2>2 DEF list
<1>7. place \in Places /\ NotEarly(place, due[id], timer_clk)
  <2>1. due[id] \in Nat /\ timer_clk \in Nat
    BY <1>6 DEF TypeOK, BaseTypeOK
  <2> QED BY <1>1, <2>1, PlaceIs
<1>8. f \in Frame /\ f.work = rest /\ f.now = Top.now /\ f.phase = "place"
  BY <1>2, <1>4, <1>6 DEF Frame
<1> HIDE DEF f
<1>9. InWork(n, id)
  BY <1>4, <1>6 DEF InWork
<1>10. \A q : ~InSlot(q, id)
  BY <1>5, <1>9 DEF HeldApart
<1>11. /\ frames' \in Seq(Frame)
       /\ \A k \in DOMAIN frames' : Injective(frames'[k].work)
       /\ \A k, x : InWork(k, x)' <=> IF k = n THEN Has(rest, x) ELSE InWork(k, x)
  BY <1>0, <1>2, <1>5, <1>6, <1>8, SetTopHas
<1>12. /\ wheel' \in [Places -> Seq(Ids)]
       /\ \A q \in Places : Injective(wheel'[q])
       /\ \A q, x : InSlot(q, x)' <=> InSlot(q, x) \/ (q = place /\ x = id)
  BY <1>2, <1>5, <1>6, <1>7, <1>10, EnqueuedIs DEF TypeOK, ListsInjective
<1>13. TypeOK'
  BY <1>2, <1>3, <1>11, <1>12 DEF TypeOK, Places
<1>14. \A k, x : InWork(k, x)' <=> InWork(k, x) /\ x # id
  <2>1. \A x : InWork(n, x) <=> Has(Top.work, x)
    BY <1>4 DEF InWork
  <2>2. \A k : k # n => ~InWork(k, id)
    BY <1>5, <1>9 DEF HeldApart
  <2> QED BY <1>6, <1>11, <2>1, <2>2
<1>15. Linked'
  <2>1. RefIsLive'
    BY <1>2, <1>3 DEF Linked, RefIsLive
  <2>2. \A p, q, x : InSlot(p, x)' /\ InSlot(q, x)' => p = q
    BY <1>5, <1>10, <1>12 DEF HeldApart
  <2>3. \A k, l, x : InWork(k, x)' /\ InWork(l, x)' => k = l
    BY <1>5, <1>14 DEF HeldApart
  <2>4. \A p, k, x : ~(InSlot(p, x)' /\ InWork(k, x)')
    BY <1>5, <1>12, <1>14 DEF HeldApart
  <2>5. id \in ref \ lost
    BY <1>5, <1>9 DEF HeldAreRef
  <2>6. \A x : x \in ref' \ lost' <=> (\E p : InSlot(p, x)') \/ (\E k : InWork(k, x)')
    BY <1>2, <1>5, <1>12, <1>14, <2>5 DEF HeldAreRef
  <2> QED BY <1>11, <1>12, <2>1, <2>2, <2>3, <2>4, <2>6, Primed
<1>16. StackRight'
  <2>1. timer_clk <= Top.now
    BY <1>2, <1>4 DEF StackRight
  <2> QED BY <1>2, <1>3, <1>5, <1>6, <1>8, <2>1, StackSetTop
<1>17. SlotsRight'
  <2>1. ASSUME NEW p \in Places, NEW x \in Ids, Has(wheel'[p], x)
        PROVE  NotEarly(p, due'[x], timer_clk')
    <3>1. InSlot(p, x)'
      BY <2>1 DEF InSlot, Has, Places
    <3>2. CASE p = place /\ x = id
      BY <1>2, <1>3, <1>7, <3>2
    <3>3. CASE InSlot(p, x)
      BY <1>2, <1>3, <3>3 DEF SlotsRight, InSlot
    <3> QED BY <1>12, <3>1, <3>2, <3>3
  <2>2. Places' = Places
    BY DEF Places
  <2> QED BY <1>3, <2>1, <2>2 DEF SlotsRight, NotEarly, Has
<1> QED
  BY <1>13, <1>15, <1>16, <1>17

LEMMA TakeSlotIInv ==
  ASSUME IInv, TakeSlot
  PROVE  IInv'
<1> USE DEF IInv
<1>0. PICK n, from : n = Len(frames) /\ from = Current(1)
  OBVIOUS
<1>1. PICK list : list = wheel[from]
  OBVIOUS
<1> DEFINE f == [Top EXCEPT !.phase = "loop", !.work = list]
<1>2. /\ frames # <<>> /\ Top.phase = "take" /\ timer_clk' = timer_clk + 1
      /\ frames' = SetTop(f)
      /\ wheel' = [wheel EXCEPT ![from] = <<>>]
      /\ UNCHANGED <<ref, lost, ghosts, clock, next_id, status, ledger>>
  BY <1>0, <1>1 DEF TakeSlot, InPhase
<1>3. BaseTypeOK' /\ Ids' = Ids /\ Frame' = Frame /\ UNCHANGED <<due, live, reported>>
  <2>1. BaseTypeOK' /\ Ids' = Ids
    BY <1>2, LedgerType DEF TypeOK, BaseTypeOK, ledger
  <2> QED BY <1>2, <2>1 DEF Frame, ledger
<1>4. timer_clk \in Nat /\ from \in Places /\ from = <<1, timer_clk % TVR_SIZE>>
  <2>1. timer_clk \in Nat
    BY DEF TypeOK
  <2>2. timer_clk \div 1 = timer_clk
    BY <2>1
  <2>3. from = <<1, timer_clk % TVR_SIZE>>
    BY <1>0, <2>2, WidthIs DEF Current, SlotOf, Slots
  <2> QED BY <1>0, <2>1, <2>3, SlotType DEF Current
<1>5. Top \in Frame /\ n \in DOMAIN frames /\ frames[n] = Top
  BY <1>0, <1>2, TopFields
<1>6. Top.work = <<>> /\ timer_clk <= Top.now /\ Top.now \in Nat
  BY <1>2, <1>5, TopFields DEF StackRight
<1>7. ListsInjective /\ HeldApart /\ HeldAreRef /\ Injective(list) /\ list \in Seq(Ids)
  BY <1>1, <1>4 DEF Linked, ListsInjective, TypeOK
<1>8. f \in Frame /\ f.work = list /\ f.now = Top.now /\ f.phase = "loop"
  BY <1>5, <1>7 DEF Frame
<1> HIDE DEF f
<1>9. /\ frames' \in Seq(Frame)
      /\ \A k \in DOMAIN frames' : Injective(frames'[k].work)
      /\ \A k, x : InWork(k, x)' <=> IF k = n THEN Has(list, x) ELSE InWork(k, x)
  BY <1>0, <1>2, <1>7, <1>8, SetTopHas
<1>10. /\ wheel' \in [Places -> Seq(Ids)]
       /\ \A q \in Places : Injective(wheel'[q])
       /\ \A q, x : InSlot(q, x)' <=> InSlot(q, x) /\ q # from
  BY <1>2, <1>4, <1>7, ClearedIs DEF TypeOK, ListsInjective
<1>11. TypeOK'
  BY <1>2, <1>3, <1>4, <1>9, <1>10 DEF TypeOK, Places
<1>12. \A x : ~InWork(n, x)
  BY <1>5, <1>6, EmptyHas DEF InWork
<1>13. \A x : InSlot(from, x) <=> Has(list, x)
  BY <1>1, <1>4 DEF InSlot
<1>14. Linked'
  <2>1. RefIsLive'
    BY <1>2, <1>3 DEF Linked, RefIsLive
  <2>2. \A p, q, x : InSlot(p, x)' /\ InSlot(q, x)' => p = q
    BY <1>7, <1>10 DEF HeldApart
  <2>3. \A x : Has(list, x) => InSlot(from, x) /\ \A k : ~InWork(k, x)
    BY <1>7, <1>13 DEF HeldApart
  <2>4. \A k, l, x : InWork(k, x)' /\ InWork(l, x)' => k = l
    BY <1>7, <1>9, <2>3 DEF HeldApart
  <2>5. \A p, k, x : ~(InSlot(p, x)' /\ InWork(k, x)')
    BY <1>7, <1>9, <1>10, <2>3 DEF HeldApart
  <2>6. ASSUME NEW x
        PROVE  (\E p : InSlot(p, x)') \/ (\E k : InWork(k, x)')
                 <=> (\E p : InSlot(p, x)) \/ (\E k : InWork(k, x))
    BY <1>9, <1>10, <1>12, <1>13
  <2>7. \A x : x \in ref' \ lost' <=> (\E p : InSlot(p, x)') \/ (\E k : InWork(k, x)')
    BY <1>2, <1>7, <2>6 DEF HeldAreRef
  <2> QED BY <1>9, <1>10, <2>1, <2>2, <2>4, <2>5, <2>7, Primed
<1>15. StackRight'
  <2>1. ASSUME NEW x \in Ids, Has(list, x) PROVE due[x] <= Top.now
    <3>1. NotEarly(from, due[x], timer_clk)
      BY <1>1, <1>4, <2>1 DEF SlotsRight
    <3>2. timer_clk >= due[x]
      <4>1. from[1] = 1 /\ from[2] = timer_clk % TVR_SIZE
        BY <1>4
      <4>2. timer_clk >= timer_clk
        BY <1>4
      <4> QED BY <1>4, <3>1, <4>1, <4>2 DEF NotEarly
    <3>3. due[x] \in Nat
      BY <2>1 DEF TypeOK, BaseTypeOK
    <3> QED BY <1>4, <1>6, <3>2, <3>3
  <2>2. f.phase \in {"loop", "callback"} =>
          \A x \in Ids : Has(f.work, x) => due[x] <= f.now
    BY <1>8, <2>1
  <2> QED BY <1>2, <1>3, <1>7, <1>8, <2>2, StackSetTop
<1>16. SlotsRight'
  <2>1. ASSUME NEW p \in Places, NEW x \in Ids, Has(wheel'[p], x)
        PROVE  NotEarly(p, due'[x], timer_clk')
    <3>1. InSlot(p, x)'
      BY <2>1 DEF InSlot, Has, Places
    <3>2. Has(wheel[p], x)
      BY <1>10, <3>1 DEF InSlot
    <3>3. NotEarly(p, due[x], timer_clk)
      BY <3>2 DEF SlotsRight
    <3>4. \A t \in Nat : t >= timer_clk' => t >= timer_clk
      BY <1>2, <1>4
    <3> QED BY <1>3, <3>3, <3>4 DEF NotEarly
  <2>2. Places' = Places
    BY DEF Places
  <2> QED BY <1>3, <2>1, <2>2 DEF SlotsRight, NotEarly, Has
<1> QED
  BY <1>11, <1>14, <1>15, <1>16

LEMMA FireHeadIInv ==
  ASSUME IInv, FireHead
  PROVE  IInv' /\ Head(Top.work) \in live /\ due[Head(Top.work)] <= reported
<1> USE DEF IInv
<1>0. PICK n, id, rest : n = Len(frames) /\ id = Head(Top.work) /\ rest = Tail(Top.work)
  OBVIOUS
<1> DEFINE f == [Top EXCEPT !.phase = "callback", !.work = rest]
<1>1. /\ frames # <<>> /\ Top.phase = "loop" /\ Top.work # <<>>
      /\ ref' = ref \ {id} /\ Fired(id) /\ live' = live \ {id}
      /\ frames' = SetTop(f)
      /\ UNCHANGED <<timer_clk, wheel, lost, ghosts, clock, status, next_id, due, reported>>
  BY <1>0 DEF FireHead, InPhase, Fired
<1>2. Top \in Frame /\ n \in DOMAIN frames /\ frames[n] = Top /\ Top.work \in Seq(Ids)
      /\ Top.now \in Nat
  BY <1>0, <1>1, TopFields
<1>3. ListsInjective /\ HeldApart /\ HeldAreRef /\ Injective(Top.work)
  BY <1>2 DEF Linked, ListsInjective
<1>4. /\ rest \in Seq(Ids) /\ id \in Ids /\ Injective(rest) /\ Has(Top.work, id)
      /\ \A x : Has(rest, x) <=> Has(Top.work, x) /\ x # id
  <2> DEFINE list == Top.work
  <2>1. list \in Seq(Ids) /\ Injective(list) /\ list # <<>>
        /\ rest = Tail(list) /\ id = Head(list)
    BY <1>0, <1>1, <1>2, <1>3
  <2> HIDE DEF list
  <2>2. /\ rest \in Seq(Ids) /\ id \in Ids /\ Injective(rest) /\ Has(list, id)
        /\ \A x : Has(rest, x) <=> Has(list, x) /\ x # id
    BY <2>1, TailHas
  <2> QED BY <2>2 DEF list
<1>5. InWork(n, id)
  BY <1>2, <1>4 DEF InWork
<1>6. id \in ref /\ id \notin lost /\ id \in live
  BY <1>3, <1>5 DEF HeldAreRef, Linked, RefIsLive
<1>7. \A x \in Ids : Has(Top.work, x) => due[x] <= Top.now
  BY <1>1, <1>2 DEF StackRight
<1>8. due[id] <= reported
  <2>1. due[id] <= Top.now /\ Top.now <= reported
    BY <1>2, <1>4, <1>7 DEF StackRight
  <2>2. due[id] \in Nat /\ reported \in Nat
    BY <1>4 DEF TypeOK, BaseTypeOK
  <2> QED BY <1>2, <2>1, <2>2
<1>9. BaseTypeOK' /\ Ids' = Ids /\ Frame' = Frame
  <2>1. BaseTypeOK' /\ Ids' = Ids
    BY <1>1, <1>6, LedgerType DEF TypeOK, BaseTypeOK
  <2> QED BY <2>1 DEF Frame
<1>10. f \in Frame /\ f.work = rest /\ f.now = Top.now /\ f.phase = "callback"
  BY <1>2, <1>4 DEF Frame
<1> HIDE DEF f
<1>11. /\ frames' \in Seq(Frame)
       /\ \A k \in DOMAIN frames' : Injective(frames'[k].work)
       /\ \A k, x : InWork(k, x)' <=> IF k = n THEN Has(rest, x) ELSE InWork(k, x)
  BY <1>0, <1>1, <1>3, <1>4, <1>10, SetTopHas
<1>12. TypeOK'
  BY <1>1, <1>9, <1>11 DEF TypeOK
<1>13. \A k, x : InWork(k, x)' <=> InWork(k, x) /\ x # id
  <2>1. \A x : InWork(n, x) <=> Has(Top.work, x)
    BY <1>2 DEF InWork
  <2>2. \A k : k # n => ~InWork(k, id)
    BY <1>3, <1>5 DEF HeldApart
  <2> QED BY <1>4, <1>11, <2>1, <2>2
<1>14. \A p, x : InSlot(p, x)' <=> InSlot(p, x)
  BY <1>1 DEF InSlot, Has, Places
<1>15. Linked'
  <2>1. RefIsLive'
    BY <1>1, <1>6 DEF Linked, RefIsLive
  <2>2. /\ \A p, q, x : InSlot(p, x)' /\ InSlot(q, x)' => p = q
        /\ \A k, l, x : InWork(k, x)' /\ InWork(l, x)' => k = l
        /\ \A p, k, x : ~(InSlot(p, x)' /\ InWork(k, x)')
    BY <1>3, <1>13, <1>14 DEF HeldApart
  <2>3. \A p : ~InSlot(p, id)
    BY <1>3, <1>5 DEF HeldApart
  <2>4. \A x : x \in ref' \ lost' <=> (\E p : InSlot(p, x)') \/ (\E k : InWork(k, x)')
    BY <1>1, <1>3, <1>13, <1>14, <2>3 DEF HeldAreRef
  <2>5. \A p \in Places : Injective(wheel'[p])
    BY <1>1, <1>3 DEF ListsInjective
  <2> QED BY <1>11, <2>1, <2>2, <2>4, <2>5, Primed
<1>16. StackRight'
  <2>1. \A x \in Ids : Has(f.work, x) => due[x] <= f.now
    BY <1>4, <1>7, <1>10
  <2> QED BY <1>1, <1>3, <1>4, <1>10, <2>1, StackSetTop
<1>17. SlotsRight'
  BY <1>1, SlotsKept DEF TypeOK
<1> QED
  BY <1>0, <1>6, <1>8, <1>12, <1>15, <1>16, <1>17

-----------------------------------------------------------------------------
\* Empty lists outside any Update.
LEMMA EmptyIInv ==
  ASSUME TypeOK, frames = <<>>, ref = {}, live = {}, lost = {},
         wheel = [p \in Places |-> <<>>]
  PROVE  IInv
<1>1. DOMAIN frames = {} /\ \A p \in Places : wheel[p] = <<>>
  BY EmptyHas
<1>2. ListsInjective /\ (\A p, id : ~InSlot(p, id)) /\ (\A k, id : ~InWork(k, id))
  BY <1>1, EmptyHas DEF ListsInjective, InSlot, InWork
<1>3. Linked
  BY <1>2 DEF Linked, RefIsLive, HeldApart, HeldAreRef
<1>4. StackRight /\ SlotsRight
  BY <1>1, EmptyHas DEF StackRight, SlotsRight
<1> QED
  BY <1>3, <1>4 DEF IInv

LEMMA EmptyType ==
  /\ [p \in Places |-> <<>>] \in [Places -> Seq(Ids)]
  /\ <<>> \in Seq(Frame)
BY EmptySeq

LEMMA DestroyIInv ==
  ASSUME IInv, Destroy
  PROVE  IInv'
<1>1. /\ frames' = <<>> /\ live' = {} /\ ref' = {} /\ lost' = {} /\ ghosts' = {}
      /\ wheel' = [p \in Places |-> <<>>] /\ timer_clk' = 0 /\ status' = "destroyed"
      /\ UNCHANGED <<clock, next_id, due, fired, reported>>
  BY DEF Destroy, Discarded
<1>2. BaseTypeOK' /\ Ids' = Ids
  BY <1>1, LedgerType DEF IInv, TypeOK, BaseTypeOK
<1>3. TypeOK'
  <2>1. Frame' = Frame
    BY <1>2 DEF Frame
  <2> QED BY <1>1, <1>2, <2>1, EmptyType DEF TypeOK, Places
<1>4. (TypeOK /\ frames = <<>> /\ ref = {} /\ live = {} /\ lost = {}
        /\ wheel = [p \in Places |-> <<>>] => IInv)'
  BY EmptyIInv, PTL
<1> QED
  BY <1>1, <1>3, <1>4 DEF Places

LEMMA InitIInv == Init => IInv
<1> SUFFICES ASSUME Init PROVE IInv
  OBVIOUS
<1>1. BaseTypeOK /\ clock \in Nat
  BY BaseInitType DEF Init, BaseTypeOK
<1>2. TypeOK
  BY <1>1, EmptyType DEF Init, BaseInit, TypeOK
<1> QED
  BY <1>2, EmptyIInv DEF Init, BaseInit

LEMMA StepIInv ==
  ASSUME IInv, [Next]_vars
  PROVE  IInv'
<1>1. ASSUME NEW duration \in Durations, Start(duration) PROVE IInv'
  BY <1>1, StartIInv
<1>2. ASSUME NEW id \in ref, Cancel(id) PROVE IInv'
  BY <1>2, CancelIInv
<1>3. ASSUME NEW lag \in Lags, Update(clock - lag) PROVE IInv'
  BY <1>3, UpdateIInv
<1>4. ASSUME NEW head \in Places, CascadeEnds(head) PROVE IInv'
  BY <1>4, CascadeEndsIInv
<1>5. CASE \/ CallerUsesDeadHead \/ WheelMeetsDeadHead \/ TimePasses \/ Ended
           \/ UNCHANGED vars
  <2>1. /\ UNCHANGED <<wheelVars, frames, next_id, ledger>>
        /\ status' \in {"running", "destroyed", "undefined"}
        /\ clock' \in 1 .. Horizon
    BY <1>5 DEF CallerUsesDeadHead, WheelMeetsDeadHead, TimePasses, Elapse, Ended, vars,
                baseVars, IInv, TypeOK, BaseTypeOK
  <2>2. BaseTypeOK' /\ UNCHANGED <<due, live, reported>>
    BY <2>1, LedgerType DEF IInv, TypeOK, ledger
  <2> QED BY <1>5, <2>1, <2>2, StillIInv
<1> QED
  BY <1>1, <1>2, <1>3, <1>4, <1>5, BeginTickIInv, CascadeEmptyIInv, CascadeBeginsIInv,
     CascadePlacesIInv, TakeSlotIInv, FireHeadIInv, UpdateReturnsIInv, ActionDoneIInv,
     DestroyIInv
  DEF Next

LEMMA Invariance == Spec => []IInv
<1> QED
  BY InitIInv, StepIInv, PTL DEF Spec

-----------------------------------------------------------------------------
\* Type correctness.
THEOREM TypeCorrect == Spec => []TypeOK
<1>1. IInv => TypeOK
  BY DEF IInv
<1> QED
  BY Invariance, <1>1, PTL

\* Every timer is on one list, or lost to a cascade; a freed one is on none.
THEOREM AlwaysLinkedOnce == Spec => []LinkedOnce
<1>1. IInv => LinkedOnce
  BY LinkedOnceParts DEF IInv
<1> QED
  BY Invariance, <1>1, PTL

\* HHWheelTimer keeps the contract of the interface, until a dead list head
\* is used: it never fires a timer early, for wheels of any size.
THEOREM Implements == Spec => ImplementsService
<1>1. Init => Service!Init
  BY BaseInitType DEF Init
<1>2. ASSUME IInv, [Next]_vars PROVE [Service!Next]_(Service!vars)
  <2>0. BaseTypeOK
    BY <1>2 DEF IInv, TypeOK
  <2>1. ASSUME NEW duration \in Durations, Start(duration) PROVE Service!Next
    BY <2>0, <2>1, ContractSteps DEF Start
  <2>2. ASSUME NEW id \in ref, Cancel(id) PROVE Service!Next
    BY <1>2, <2>0, <2>2, ContractSteps, CancelIInv DEF Cancel
  <2>3. ASSUME NEW lag \in Lags, Update(clock - lag) PROVE Service!Next
    BY <2>0, <2>3, ContractSteps DEF Update
  <2>4. CASE FireHead
    BY <1>2, <2>0, <2>4, ContractSteps, FireHeadIInv DEF FireHead
  <2>5. CASE Destroy
    BY <2>0, <2>5, ContractSteps DEF Destroy
  <2>6. CASE \/ BeginTick \/ CascadeEmpty \/ CascadeBegins \/ CascadePlaces
             \/ (\E head \in Places : CascadeEnds(head)) \/ TakeSlot \/ UpdateReturns
             \/ CallerUsesDeadHead \/ WheelMeetsDeadHead \/ ActionDone \/ TimePasses
             \/ Ended \/ UNCHANGED vars
    <3>1. UNCHANGED <<next_id, ledger>>
      BY <2>6 DEF BeginTick, CascadeEmpty, CascadeBegins, CascadePlaces, CascadeEnds,
                  TakeSlot, UpdateReturns, Returned, CallerUsesDeadHead,
                  WheelMeetsDeadHead, ActionDone, ActionReturns, TimePasses, Elapse,
                  Ended, vars, baseVars
    <3> QED BY <2>0, <3>1, ContractSteps
  <2> QED BY <1>2, <2>1, <2>2, <2>3, <2>4, <2>5, <2>6 DEF Next
<1> QED
  BY <1>1, <1>2, Invariance, PTL DEF Spec, ImplementsService, Service!Spec

-----------------------------------------------------------------------------
(* Quotients and remainders.                                               *)

\* Quotient and remainder are the only ones.
LEMMA DivUnique ==
  ASSUME NEW W \in Nat, W > 0, NEW q \in Int, NEW r \in 0 .. W - 1, NEW a \in Int,
         a = W * q + r
  PROVE  a \div W = q /\ a % W = r
<1>1. PICK d \in Int : d = a \div W /\ a % W = a - W * d /\ a % W \in 0 .. W - 1
  BY DivMod
<1>2. PICK m \in 0 .. W - 1 : m = a % W
  BY <1>1
<1>3. W * (d - q) = r - m
  <2>1. W * (d - q) = W * d - W * q /\ W * d \in Int /\ W * q \in Int
    OBVIOUS
  <2> QED BY <1>1, <1>2, <2>1
<1>4. ~(d - q >= 1)
  <2> SUFFICES ASSUME d - q >= 1 PROVE FALSE
    OBVIOUS
  <2>1. W * (d - q) >= W
    OBVIOUS
  <2> QED BY <1>3, <2>1
<1>5. ~(d - q <= -1)
  <2> SUFFICES ASSUME d - q <= -1 PROVE FALSE
    OBVIOUS
  <2>1. W * (d - q) <= -W
    OBVIOUS
  <2> QED BY <1>3, <2>1
<1>6. d = q
  BY <1>4, <1>5
<1>7. m = r
  BY <1>3, <1>6
<1> QED
  BY <1>1, <1>2, <1>6, <1>7

LEMMA Multiple ==
  ASSUME NEW W \in Nat, W > 0, NEW c \in Nat
  PROVE  /\ c \div W \in Nat
         /\ c % W = 0 <=> c = W * (c \div W)
<1>1. c \div W \in Nat
  OBVIOUS
<1>2. PICK q \in Nat : q = c \div W
  BY <1>1
<1>3. c % W = c - W * q /\ W * q \in Int
  BY <1>2, DivMod
<1> QED
  BY <1>2, <1>3

LEMMA OfMultiple ==
  ASSUME NEW W \in Nat, W > 0, NEW u \in Int, NEW c \in Int, c = W * u
  PROVE  c \div W = u /\ c % W = 0
<1>1. c = W * u + 0 /\ 0 \in 0 .. W - 1
  OBVIOUS
<1> QED
  BY <1>1, DivUnique

\* A multiple of W * N is one of W whose quotient is one of N.
LEMMA NextAligned ==
  ASSUME NEW W \in Nat, W > 0, NEW N \in Nat, N > 0, NEW c \in Nat
  PROVE  c % (W * N) = 0 <=> c % W = 0 /\ (c \div W) % N = 0
<1>0. PICK V \in Nat : V = W * N /\ V > 0
  BY ProductIs
<1>1. ASSUME c % W = 0, (c \div W) % N = 0 PROVE c % V = 0
  <2>1. PICK q \in Nat : q = c \div W /\ c = W * q /\ q % N = 0
    BY <1>1, Multiple
  <2>2. PICK u \in Nat : q = N * u
    <3>1. q \div N \in Nat /\ q = N * (q \div N)
      BY <2>1, Multiple
    <3> QED BY <3>1
  <2>3. c = V * u
    <3>1. W * (N * u) = (W * N) * u
      OBVIOUS
    <3> QED BY <1>0, <2>1, <2>2, <3>1
  <2>4. V \in Nat /\ V > 0
    BY <1>0
  <2> QED BY <2>3, <2>4, OfMultiple
<1>2. ASSUME c % V = 0 PROVE c % W = 0 /\ (c \div W) % N = 0
  <2>1. PICK u \in Nat : c = V * u
    BY <1>0, <1>2, Multiple
  <2>2. PICK q \in Nat : q = N * u
    OBVIOUS
  <2>3. c = W * q
    <3>1. W * (N * u) = (W * N) * u
      OBVIOUS
    <3> QED BY <1>0, <2>1, <2>2, <3>1
  <2>4. c \div W = q /\ c % W = 0
    BY <2>3, OfMultiple
  <2>5. q % N = 0
    BY <2>2, OfMultiple
  <2> QED BY <2>4, <2>5
<1> QED
  BY <1>0, <1>1, <1>2

-----------------------------------------------------------------------------
(* The geometry, further: what a slot above level 1 stands for.            *)

\* Each level turns once while a slot of the next one lasts.
LEMMA WidthChain ==
  /\ \A level \in 1 .. 4 : Width(level + 1) = Width(level) * Slots(level)
  /\ MAX_TVAL + 1 = Width(5) * Slots(5)
  /\ Slots(1) = TVR_SIZE
  /\ \A level \in 2 .. 5 : Slots(level) = TVN_SIZE /\ Width(level) <= MAX_TVAL
<1> DEFINE w3 == TVR_SIZE * TVN_SIZE
           w4 == w3 * TVN_SIZE
           w5 == w4 * TVN_SIZE
           w6 == w5 * TVN_SIZE
<1>0. TVR_SIZE \in Nat \ {0} /\ TVN_SIZE \in Nat \ {0} /\ TVN_SIZE >= 2
  BY WheelAssumption
<1>1. w3 \in Nat \ {0} /\ w3 >= TVR_SIZE
  BY ProductIs, <1>0
<1>2. w4 \in Nat \ {0} /\ w4 >= w3
  <2> HIDE DEF w3
  <2> QED BY <1>0, <1>1, ProductIs
<1>3. w5 \in Nat \ {0} /\ w5 >= w4
  <2> HIDE DEF w4
  <2> QED BY <1>0, <1>2, ProductIs
<1>4. w6 - 1 >= w5 /\ w6 \in Nat
  <2> HIDE DEF w5
  <2>1. w6 = w5 + w5 * (TVN_SIZE - 1) /\ TVN_SIZE - 1 \in Nat \ {0}
    BY <1>0, <1>3
  <2>2. w5 * (TVN_SIZE - 1) \in Nat \ {0}
    BY <1>3, <2>1, ProductIs
  <2> QED BY <1>3, <2>1, <2>2
<1>5. /\ Width(1) = 1 /\ Width(2) = TVR_SIZE /\ Width(3) = w3 /\ Width(4) = w4
      /\ Width(5) = w5 /\ MAX_TVAL = w6 - 1
  BY DEF Width, MAX_TVAL
<1>6. Slots(1) = TVR_SIZE /\ \A level \in 2 .. 5 : Slots(level) = TVN_SIZE
  BY DEF Slots
<1>7. /\ Width(2) = Width(1) * Slots(1) /\ Width(3) = Width(2) * Slots(2)
      /\ Width(4) = Width(3) * Slots(3) /\ Width(5) = Width(4) * Slots(4)
      /\ MAX_TVAL + 1 = Width(5) * Slots(5)
  <2>1. Width(2) = Width(1) * Slots(1)
    BY <1>0, <1>5, <1>6
  <2>2. Slots(2) = TVN_SIZE /\ Slots(3) = TVN_SIZE /\ Slots(4) = TVN_SIZE /\ Slots(5) = TVN_SIZE
    BY <1>6
  <2>3. MAX_TVAL + 1 = w6
    BY <1>4, <1>5
  <2> QED BY <1>5, <2>1, <2>2, <2>3
<1> HIDE DEF w3, w4, w5, w6
<1>8. ASSUME NEW level \in 1 .. 4 PROVE Width(level + 1) = Width(level) * Slots(level)
  <2>1. /\ level = 1 \/ level = 2 \/ level = 3 \/ level = 4
        /\ 1 + 1 = 2 /\ 2 + 1 = 3 /\ 3 + 1 = 4 /\ 4 + 1 = 5
    OBVIOUS
  <2> QED BY <1>7, <2>1
<1>9. ASSUME NEW level \in 2 .. 5 PROVE Width(level) <= MAX_TVAL
  <2>1. level = 2 \/ level = 3 \/ level = 4 \/ level = 5
    OBVIOUS
  <2> QED BY <1>0, <1>1, <1>2, <1>3, <1>4, <1>5, <2>1
<1> QED
  BY <1>6, <1>7, <1>8, <1>9

\* Above level 1, a timer is put into the slot of a time that is not after
\* its expiry, at least a slot ahead and less than a turn of the level.
LEMMA PlaceParts ==
  ASSUME NEW expires \in Nat, NEW clk \in Nat, NEW level \in 2 .. 5,
         level = LevelOf(expires - clk)
  PROVE  \E t \in Nat :
           /\ Place(expires, clk) = SlotOf(level, t)
           /\ t <= expires /\ clk + Width(level) <= t
           /\ t < clk + Width(level) * Slots(level)
<1>0. PICK idx \in Int : idx = expires - clk
  OBVIOUS
<1>1. PICK max \in Nat : max = MAX_TVAL
  BY WidthIs
<1>2. PICK t \in Nat : t = IF idx > max THEN clk + max ELSE expires
  OBVIOUS
<1>3. Place(expires, clk) = SlotOf(level, t)
  BY <1>0, <1>1, <1>2 DEF Place
<1>4. \A l \in 2 .. 5 : Width(l) \in Nat /\ Width(l) <= max
  BY <1>1, WidthChain, WidthIs
<1>5. /\ Width(level) <= idx
      /\ idx < Width(level) * Slots(level) \/ (level = 5 /\ max + 1 = Width(5) * Slots(5))
  <2>1. level = LevelOf(idx)
    BY <1>0
  <2>2. /\ Width(2) \in Nat /\ Width(3) \in Nat /\ Width(4) \in Nat /\ Width(5) \in Nat
        /\ Width(2) * Slots(2) = Width(3) /\ Width(3) * Slots(3) = Width(4)
        /\ Width(4) * Slots(4) = Width(5) /\ max + 1 = Width(5) * Slots(5)
    <3>1. 2 + 1 = 3 /\ 3 + 1 = 4 /\ 4 + 1 = 5 /\ 2 \in 1 .. 4 /\ 3 \in 1 .. 4 /\ 4 \in 1 .. 4
      OBVIOUS
    <3> QED BY <1>1, <1>4, <3>1, WidthChain
  <2>3. PICK w2, w3, w4, w5 \in Nat :
          w2 = Width(2) /\ w3 = Width(3) /\ w4 = Width(4) /\ w5 = Width(5)
    BY <2>2
  <2>4. level = CASE idx < w2 -> 1
                  [] idx >= w2 /\ idx < w3 -> 2
                  [] idx >= w3 /\ idx < w4 -> 3
                  [] idx >= w4 /\ idx < w5 -> 4
                  [] OTHER -> 5
    BY <2>1, <2>3 DEF LevelOf
  <2>5. w2 <= w3 /\ w3 <= w4 /\ w4 <= w5
    <3>1. /\ w3 = w2 * TVN_SIZE /\ w4 = w3 * TVN_SIZE /\ w5 = w4 * TVN_SIZE
          /\ w2 \in Nat \ {0} /\ w3 \in Nat \ {0} /\ w4 \in Nat \ {0}
      BY <2>2, <2>3, WidthChain, WidthIs
    <3> QED BY <3>1, ProductIs, WheelAssumption
  <2>6. \/ level = 2 /\ w2 <= idx /\ idx < w3
        \/ level = 3 /\ w3 <= idx /\ idx < w4
        \/ level = 4 /\ w4 <= idx /\ idx < w5
        \/ level = 5 /\ w5 <= idx
    BY <2>4, <2>5
  <2> QED BY <2>2, <2>3, <2>6
<1>6. PICK w, v \in Nat : w = Width(level) /\ v = Width(level) * Slots(level)
  <2>1. Width(level) \in Nat /\ Slots(level) \in Nat
    BY WidthIs
  <2> QED BY <2>1
<1>7. w <= max /\ w <= idx /\ (idx < v \/ max + 1 = v)
  BY <1>4, <1>5, <1>6
<1>8. t <= expires /\ clk + w <= t /\ t < clk + v
  BY <1>0, <1>2, <1>7
<1> QED
  BY <1>3, <1>6, <1>8

\* A number in terms of its quotient and remainder.
LEMMA DivParts ==
  ASSUME NEW W \in Nat, W > 0, NEW a \in Int
  PROVE  \E q \in Int : \E r \in 0 .. W - 1 :
           q = a \div W /\ r = a % W /\ a = W * q + r
<1>1. a % W = a - W * (a \div W) /\ a \div W \in Int /\ a % W \in 0 .. W - 1
  BY DivMod
<1>2. PICK q \in Int : q = a \div W
  BY <1>1
<1>3. PICK r \in 0 .. W - 1 : r = a % W /\ r = a - W * q
  BY <1>1, <1>2
<1>4. a = W * q + r
  <2>1. W * q \in Int
    OBVIOUS
  <2> QED BY <1>3, <2>1
<1> QED
  BY <1>2, <1>3, <1>4

\* The first time from clk on that has the remainder of an earlier one.
LEMMA SameRemainder ==
  ASSUME NEW R \in Nat, R > 0, NEW e \in Nat, NEW clk \in Nat
  PROVE  \E t \in Nat : clk <= t /\ t <= clk + R - 1 /\ t % R = e % R
<1>1. PICK idx \in Int : idx = e - clk
  OBVIOUS
<1>2. PICK d \in Int : \E m \in 0 .. R - 1 : d = idx \div R /\ m = idx % R /\ idx = R * d + m
  BY DivParts
<1>3. PICK m \in 0 .. R - 1 : idx = R * d + m
  BY <1>2
<1>4. PICK q \in Int : \E r \in 0 .. R - 1 : q = e \div R /\ r = e % R /\ e = R * q + r
  BY DivParts
<1>5. PICK r \in 0 .. R - 1 : r = e % R /\ e = R * q + r
  BY <1>4
<1>6. PICK t \in Nat, z \in Int : t = clk + m /\ z = q - d
  OBVIOUS
<1>7. t = R * z + r
  <2>1. R * (q - d) = R * q - R * d /\ R * q \in Int /\ R * d \in Int
    OBVIOUS
  <2> QED BY <1>1, <1>3, <1>5, <1>6, <2>1
<1>8. t % R = r
  BY <1>7, DivUnique
<1> QED
  BY <1>5, <1>6, <1>8

\* The beginning of the slot that a time is in.
LEMMA SlotBegins ==
  ASSUME NEW W \in Nat, W > 0, NEW t \in Nat
  PROVE  \E u \in Nat : u <= t /\ t < u + W /\ u % W = 0 /\ u \div W = t \div W
<1>1. PICK q \in Int : \E r \in 0 .. W - 1 : q = t \div W /\ r = t % W /\ t = W * q + r
  BY DivParts
<1>2. PICK r \in 0 .. W - 1 : q = t \div W /\ t = W * q + r
  BY <1>1
<1>3. q \in Nat
  BY <1>2, Multiple
<1>4. PICK u \in Nat : u = W * q
  BY <1>3
<1>5. u \div W = q /\ u % W = 0
  BY <1>4, OfMultiple
<1> QED
  BY <1>2, <1>4, <1>5

\* A slot ahead, and less than a turn: not the same slot.
LEMMA LessThanTurn ==
  ASSUME NEW W \in Nat, W > 0, NEW N \in Nat, N > 0, NEW clk \in Nat, clk % W = 0,
         NEW t \in Nat, clk + W <= t, t < clk + W * N
  PROVE  (t \div W) % N # (clk \div W) % N
<1>1. PICK u \in Nat : u = clk \div W /\ clk = W * u
  BY Multiple
<1>2. PICK v \in Int : \E r \in 0 .. W - 1 : v = t \div W /\ r = t % W /\ t = W * v + r
  BY DivParts
<1>3. PICK r \in 0 .. W - 1 : v = t \div W /\ t = W * v + r
  BY <1>2
<1>4. v \in Nat
  BY <1>3, Multiple
<1>5. PICK wu, wv, wn \in Int : wu = W * u /\ wv = W * v /\ wn = W * N
  OBVIOUS
<1>6. wu + W <= wv + r /\ wv + r < wu + wn
  BY <1>1, <1>3, <1>5
<1>7. u < v
  <2> SUFFICES ASSUME u - v >= 0 PROVE FALSE
    OBVIOUS
  <2>1. W * (u - v) >= 0 /\ W * (u - v) = W * u - W * v
    OBVIOUS
  <2> QED BY <1>5, <1>6, <2>1
<1>8. v - u < N
  <2> SUFFICES ASSUME (v - u) - N >= 0 PROVE FALSE
    OBVIOUS
  <2>1. W * ((v - u) - N) >= 0 /\ W * ((v - u) - N) = W * v - W * u - W * N
    OBVIOUS
  <2> QED BY <1>5, <1>6, <2>1
<1>9. u % N # v % N
  <2>1. N \in Nat \ {0} /\ ~(v - u >= N)
    BY <1>8
  <2> QED BY <1>4, <1>7, <2>1, TurnApart
<1> QED
  BY <1>1, <1>3, <1>9

\* A tick in time, no later than the expiry or, for a timer in the past, than
\* a turn of level 1, empties slot p.
Limit(expires, clk) == IF expires < clk THEN clk + TVR_SIZE - 1 ELSE expires
Timely(p, expires, clk) ==
  \E t \in Nat : clk <= t /\ t <= Limit(expires, clk) /\ Empties(p, t)

\* The wheel's clock is at the beginning of a slot of this level.
Aligned(level, clk) == clk % Width(level) = 0

LEMMA AlignedNext ==
  ASSUME NEW clk \in Nat, NEW level \in 1 .. 4
  PROVE  Aligned(level + 1, clk) <=> Aligned(level, clk) /\ SlotOf(level, clk)[2] = 0
<1>1. PICK w, n \in Nat : /\ w = Width(level) /\ n = Slots(level) /\ w > 0 /\ n > 0
                          /\ Width(level + 1) = w * n
  <2>1. /\ Width(level) \in Nat \ {0} /\ Slots(level) \in Nat \ {0}
        /\ Width(level + 1) = Width(level) * Slots(level)
    BY WidthIs, WidthChain
  <2> QED BY <2>1
<1>2. SlotOf(level, clk)[2] = (clk \div w) % n
  BY <1>1 DEF SlotOf
<1>3. clk % (w * n) = 0 <=> clk % w = 0 /\ (clk \div w) % n = 0
  BY <1>1, NextAligned
<1> QED
  BY <1>1, <1>2, <1>3 DEF Aligned

\* Level 1: the slot of the expiry, a turn or more later if that is past.
LEMMA NearTimely ==
  ASSUME NEW expires \in Nat, NEW clk \in Nat, LevelOf(expires - clk) = 1
  PROVE  Timely(Place(expires, clk), expires, clk)
<1>0. PICK R \in Nat : R = TVR_SIZE /\ R > 0
  BY WheelAssumption
<1>6. R > 0
  BY <1>0
<1>1. PICK p : p = Place(expires, clk)
  OBVIOUS
<1>2. p = <<1, expires % R>>
  <2>1. expires - clk < R
    BY <1>0, LevelType
  <2>2. ~(expires - clk > MAX_TVAL)
    BY <1>0, <2>1, WidthIs
  <2>3. expires \div 1 = expires
    OBVIOUS
  <2> QED BY <1>0, <1>1, <2>2, <2>3, WidthIs DEF Place, SlotOf, Slots
<1>3. ASSUME NEW t \in Nat, t % R = expires % R PROVE Empties(p, t)
  <2>1. t \div 1 = t /\ t % 1 = 0
    OBVIOUS
  <2> QED BY <1>0, <1>2, <1>3, <2>1, WidthIs DEF Empties, SlotOf, Slots
<1>4. CASE expires >= clk
  <2>1. Empties(p, expires)
    BY <1>3
  <2> QED BY <1>1, <1>4, <2>1 DEF Timely, Limit
<1>5. CASE expires < clk
  <2>1. PICK t \in Nat : clk <= t /\ t <= clk + R - 1 /\ t % R = expires % R
    BY <1>6, SameRemainder
  <2>2. Empties(p, t)
    BY <1>3, <2>1
  <2> QED BY <1>0, <1>1, <1>5, <2>1, <2>2 DEF Timely, Limit
<1> QED
  BY <1>4, <1>5

LEMMA FarTimely ==
  ASSUME NEW expires \in Nat, NEW clk \in Nat, NEW level \in 2 .. 5,
         level = LevelOf(expires - clk)
  PROVE  Timely(Place(expires, clk), expires, clk)
<1>1. PICK w, n \in Nat : w = Width(level) /\ n = Slots(level) /\ w > 0 /\ n > 0
  <2>1. Width(level) \in Nat \ {0} /\ Slots(level) \in Nat \ {0}
    BY WidthIs
  <2> QED BY <2>1
<1>7. w > 0
  BY <1>1
<1>2. PICK t \in Nat : Place(expires, clk) = SlotOf(level, t) /\ t <= expires /\ clk + w <= t
  BY <1>1, PlaceParts
<1>3. PICK u \in Nat : u <= t /\ t < u + w /\ u % w = 0 /\ u \div w = t \div w
  BY <1>7, SlotBegins
<1>4. Empties(SlotOf(level, t), u)
  BY <1>1, <1>3 DEF Empties, SlotOf
<1>5. clk <= u /\ u <= expires /\ ~(expires < clk)
  BY <1>2, <1>3
<1> QED
  BY <1>2, <1>4, <1>5 DEF Timely, Limit

\* Wherever a timer is put, a tick in time empties the slot.
LEMMA PlaceTimely ==
  ASSUME NEW expires \in Nat, NEW clk \in Nat
  PROVE  Timely(Place(expires, clk), expires, clk)
<1>1. LevelOf(expires - clk) \in 1 .. 5
  BY LevelType
<1>2. LevelOf(expires - clk) = 1 \/ LevelOf(expires - clk) \in 2 .. 5
  BY <1>1
<1> QED
  BY <1>2, NearTimely, FarTimely

\* A cascade puts no timer back into the slot it empties, nor into one that
\* was emptied in the same tick.
LEMMA PlaceApart ==
  ASSUME NEW expires \in Nat, NEW clk \in Nat, NEW l \in 2 .. 5, Aligned(l, clk)
  PROVE  Place(expires, clk) # SlotOf(l, clk)
<1>1. PICK level \in 1 .. 5 : level = LevelOf(expires - clk)
  BY LevelType
<1>2. Place(expires, clk)[1] = level
  BY <1>1 DEF Place, SlotOf
<1>3. CASE level # l
  BY <1>2, <1>3 DEF SlotOf
<1>4. CASE level = l
  <2>1. PICK w, n \in Nat : w = Width(level) /\ n = Slots(level) /\ w > 0 /\ n > 0
    <3>1. Width(level) \in Nat \ {0} /\ Slots(level) \in Nat \ {0}
      BY WidthIs
    <3> QED BY <3>1
  <2>2. PICK t \in Nat : /\ Place(expires, clk) = SlotOf(level, t)
                         /\ clk + w <= t /\ t < clk + w * n
    BY <1>1, <1>4, <2>1, PlaceParts
  <2>3. clk % w = 0 /\ w > 0 /\ n > 0
    BY <1>4, <2>1 DEF Aligned
  <2>4. (t \div w) % n # (clk \div w) % n
    BY <2>2, <2>3, LessThanTurn
  <2>5. SlotOf(level, t)[2] = (t \div w) % n /\ SlotOf(l, clk)[2] = (clk \div w) % n
    BY <1>4, <2>1 DEF SlotOf
  <2> QED BY <2>2, <2>4, <2>5
<1> QED
  BY <1>3, <1>4

-----------------------------------------------------------------------------
(* Timers are reached in time.  Beyond IInv: a tick in time empties every  *)
(* slot that holds a timer; before a tick takes its slot of level 1, every *)
(* slot above that begins with the tick has been emptied; and the timers   *)
(* on a work list expired before the wheel's clock.                        *)

OnTime ==
  \A p \in Places : \A id \in Ids :
    Has(wheel[p], id) => Timely(p, due[id], timer_clk)

\* The level's slot begins with the tick, and was emptied.
Swept(level) == Aligned(level, timer_clk) /\ wheel[Current(level)] = <<>>

TickRight ==
  frames # <<>> =>
    /\ Top.phase = "cascade" =>
         /\ Top.level >= 2 /\ Aligned(Top.level, timer_clk)
         /\ \A l \in 2 .. Top.level - 1 : Swept(l)
    /\ Top.phase = "place" =>
         Top.level >= 2 /\ \A l \in 2 .. Top.level : Swept(l)
    /\ Top.phase = "take" =>
         \A l \in 2 .. 5 : Aligned(l, timer_clk) => Swept(l)

WorkPast ==
  \A k \in DOMAIN frames : frames[k].phase \in {"loop", "callback"} =>
    \A id \in Ids : Has(frames[k].work, id) => due[id] < timer_clk

LEMMA AlignedBelow ==
  ASSUME NEW clk \in Nat, NEW k \in 1 .. 5, NEW l \in 1 .. 5, k <= l, Aligned(l, clk)
  PROVE  Aligned(k, clk)
<1>1. \A j \in 1 .. 4 : Aligned(j + 1, clk) => Aligned(j, clk)
  BY AlignedNext
<1>2. 1 + 1 = 2 /\ 2 + 1 = 3 /\ 3 + 1 = 4 /\ 4 + 1 = 5
  OBVIOUS
<1>3. /\ Aligned(5, clk) => Aligned(4, clk)
      /\ Aligned(4, clk) => Aligned(3, clk)
      /\ Aligned(3, clk) => Aligned(2, clk)
      /\ Aligned(2, clk) => Aligned(1, clk)
  <2>1. 1 \in 1 .. 4 /\ 2 \in 1 .. 4 /\ 3 \in 1 .. 4 /\ 4 \in 1 .. 4
    OBVIOUS
  <2>2. /\ Aligned(4 + 1, clk) => Aligned(4, clk)
        /\ Aligned(3 + 1, clk) => Aligned(3, clk)
        /\ Aligned(2 + 1, clk) => Aligned(2, clk)
        /\ Aligned(1 + 1, clk) => Aligned(1, clk)
    BY <1>1, <2>1
  <2> QED BY <1>2, <2>2
<1>4. /\ k \in {1, 2, 3, 4, 5}
      /\ l = 1 \/ l = 2 \/ l = 3 \/ l = 4 \/ l = 5
  OBVIOUS
<1> QED
  BY <1>3, <1>4

LEMMA TopIs ==
  ASSUME TypeOK, frames # <<>>, NEW f \in Frame, frames' = SetTop(f)
  PROVE  Top' = f /\ frames' # <<>>
<1>1. /\ frames' \in Seq(Frame) /\ DOMAIN frames' = DOMAIN frames
      /\ Len(frames') = Len(frames)
      /\ \A k \in DOMAIN frames : frames'[k] = IF k = Len(frames) THEN f ELSE frames[k]
  BY SetTopIs DEF TypeOK
<1>2. Len(frames) \in DOMAIN frames
  BY TopFields
<1>3. frames'[Len(frames')] = f /\ DOMAIN frames' # {}
  BY <1>1, <1>2
<1> QED
  BY <1>3, EmptyHas DEF Top

\* Outside the part of a tick before the slot is taken there is nothing to say.
LEMMA QuietTop ==
  ASSUME frames' # <<>> => Top'.phase \in {"loop", "callback"}
  PROVE  TickRight'
BY DEF TickRight

LEMMA GoesOnSwept ==
  ASSUME IInv, frames # <<>>, Top.phase \in {"cascade", "place"}, Top.level >= 2,
         \A l \in 2 .. Top.level : Swept(l),
         CascadeGoesOn, UNCHANGED <<timer_clk, wheel>>
  PROVE  TickRight'
<1>0. PICK L \in 2 .. 5 : L = Top.level
  <2>1. Top.level \in 1 .. 5
    BY TopFields DEF IInv
  <2> QED BY <2>1
<1>1. PICK next, one \in 1 .. 5 : one = 1 /\ (L < 5 => next = L + 1)
  <2>1. L < 5 => L + 1 \in 1 .. 5
    OBVIOUS
  <2> QED BY <2>1
<1> DEFINE c == [Top EXCEPT !.phase = "cascade", !.level = next]
           t == [Top EXCEPT !.phase = "take", !.level = one]
<1>2. TypeOK /\ Top \in Frame /\ timer_clk \in Nat
  BY TopFields DEF IInv, TypeOK
<1>3. \/ frames' = SetTop(c) /\ L < 5 /\ Current(L)[2] = 0
      \/ frames' = SetTop(t) /\ ~(L < 5 /\ Current(L)[2] = 0)
  BY <1>0, <1>1 DEF CascadeGoesOn
<1>4. c \in Frame /\ c.phase = "cascade" /\ c.level = next
  BY <1>2 DEF Frame
<1>5. t \in Frame /\ t.phase = "take"
  BY <1>2 DEF Frame
<1> HIDE DEF c, t
<1>6. \A l : Swept(l)' <=> Swept(l)
  BY DEF Swept, Current, Aligned, SlotOf, Width, Slots
<1>7. \A l \in 2 .. L : Swept(l)
  BY <1>0
<1>8. L < 5 => (Aligned(L + 1, timer_clk) <=> Current(L)[2] = 0)
  <2>1. Aligned(L, timer_clk)
    BY <1>7 DEF Swept
  <2>2. L < 5 => L \in 1 .. 4
    OBVIOUS
  <2> QED BY <1>2, <2>1, <2>2, AlignedNext DEF Current
<1>9. CASE frames' = SetTop(c) /\ L < 5 /\ Current(L)[2] = 0
  <2>1. Top' = c /\ frames' # <<>>
    BY <1>2, <1>4, <1>9, TopIs
  <2>2. next = L + 1 /\ next >= 2 /\ \A l \in 2 .. next - 1 : l \in 2 .. L
    BY <1>1, <1>9
  <2>3. Aligned(next, timer_clk')
    BY <1>8, <1>9, <2>2
  <2>4. \A l \in 2 .. next - 1 : Swept(l)'
    BY <1>6, <1>7, <2>2
  <2>5. Top'.phase = "cascade" /\ Top'.level = next
    BY <1>4, <2>1
  <2> QED BY <2>2, <2>3, <2>4, <2>5 DEF TickRight, Aligned, Width
<1>10. CASE frames' = SetTop(t) /\ ~(L < 5 /\ Current(L)[2] = 0)
  <2>1. Top' = t /\ frames' # <<>> /\ Top'.phase = "take"
    BY <1>2, <1>5, <1>10, TopIs
  <2>2. ASSUME NEW l \in 2 .. 5, Aligned(l, timer_clk) PROVE l \in 2 .. L
    <3> SUFFICES ASSUME l > L PROVE FALSE
      OBVIOUS
    <3>1. PICK j \in 1 .. 5 : j = L + 1 /\ j <= l /\ L < 5
      OBVIOUS
    <3>2. Aligned(j, timer_clk)
      BY <1>2, <2>2, <3>1, AlignedBelow
    <3> QED BY <1>8, <1>10, <3>1, <3>2
  <2>3. \A l \in 2 .. 5 : Aligned(l, timer_clk)' => Swept(l)'
    BY <1>6, <1>7, <2>2 DEF Aligned, Width
  <2> QED BY <2>1, <2>3 DEF TickRight
<1> QED
  BY <1>3, <1>9, <1>10

LEMMA BeginTickSwept ==
  ASSUME IInv, BeginTick
  PROVE  TickRight'
<1>0. PICK two \in 1 .. 5 : two = 2
  OBVIOUS
<1> DEFINE c == [Top EXCEPT !.phase = "cascade", !.level = two]
           t == [Top EXCEPT !.phase = "take"]
<1>1. /\ frames # <<>>
      /\ \/ frames' = SetTop(c) /\ Current(1)[2] = 0
         \/ frames' = SetTop(t) /\ Current(1)[2] # 0
      /\ UNCHANGED <<timer_clk, wheel>>
  BY <1>0 DEF BeginTick, InPhase, wheelVars
<1>2. TypeOK /\ Top \in Frame /\ timer_clk \in Nat
  BY <1>1, TopFields DEF IInv, TypeOK
<1>3. c \in Frame /\ c.phase = "cascade" /\ c.level = two
  BY <1>2 DEF Frame
<1>4. t \in Frame /\ t.phase = "take"
  BY <1>2 DEF Frame
<1> HIDE DEF c, t
<1>5. Aligned(two, timer_clk) <=> Current(1)[2] = 0
  <2>1. Aligned(1, timer_clk)
    <3>1. timer_clk % 1 = 0
      BY <1>2
    <3> QED BY <3>1, WidthIs DEF Aligned
  <2>2. two = 1 + 1 /\ 1 \in 1 .. 4
    BY <1>0
  <2>3. Aligned(1 + 1, timer_clk) <=> Aligned(1, timer_clk) /\ SlotOf(1, timer_clk)[2] = 0
    BY <1>2, <2>2, AlignedNext
  <2> QED BY <2>1, <2>2, <2>3 DEF Current
<1>6. CASE frames' = SetTop(c) /\ Current(1)[2] = 0
  <2>1. Top' = c /\ frames' # <<>> /\ Top'.phase = "cascade" /\ Top'.level = two
    BY <1>1, <1>2, <1>3, <1>6, TopIs
  <2>2. Aligned(two, timer_clk')
    BY <1>1, <1>5, <1>6
  <2>3. two >= 2 /\ \A l \in 2 .. two - 1 : FALSE
    BY <1>0
  <2> QED BY <2>1, <2>2, <2>3 DEF TickRight, Aligned, Width
<1>7. CASE frames' = SetTop(t) /\ Current(1)[2] # 0
  <2>1. Top' = t /\ frames' # <<>> /\ Top'.phase = "take"
    BY <1>1, <1>2, <1>4, <1>7, TopIs
  <2>2. ASSUME NEW l \in 2 .. 5 PROVE ~Aligned(l, timer_clk)
    <3>1. l \in 1 .. 5 /\ two <= l
      BY <1>0
    <3> QED BY <1>2, <1>5, <1>7, <3>1, AlignedBelow
  <2>3. \A l \in 2 .. 5 : ~Aligned(l, timer_clk)'
    BY <1>1, <2>2 DEF Aligned, Width
  <2> QED BY <2>1, <2>3 DEF TickRight
<1> QED
  BY <1>1, <1>6, <1>7

-----------------------------------------------------------------------------
(* What keeps each of the three.                                           *)

LEMMA OnTimeBy ==
  ASSUME \A p \in Places : \A id \in Ids' :
           InSlot(p, id)' => Timely(p, due'[id], timer_clk')
  PROVE  OnTime'
<1>1. \A p, id : InSlot(p, id)' <=> p \in Places /\ Has(wheel'[p], id)
  BY DEF InSlot, Has, Places
<1>2. \A p \in Places : \A id \in Ids' :
        Has(wheel'[p], id) => Timely(p, due'[id], timer_clk')
  BY <1>1
<1> QED
  BY <1>2 DEF OnTime, Has, Places, Timely, Limit, Empties, Width, SlotOf, Slots

LEMMA OnTimeKept ==
  ASSUME IInv, OnTime, timer_clk' = timer_clk, \A id \in Ids : due'[id] = due[id],
         \A p, id : InSlot(p, id)' => InSlot(p, id)
  PROVE  OnTime'
<1>1. ASSUME NEW p \in Places, NEW id \in Ids', InSlot(p, id)'
      PROVE  Timely(p, due'[id], timer_clk')
  <2>1. InSlot(p, id) /\ id \in Ids
    BY <1>1, HeldIds DEF IInv
  <2> QED BY <2>1 DEF OnTime, InSlot
<1> QED
  BY <1>1, OnTimeBy

LEMMA WorkPastBy ==
  ASSUME \A k \in DOMAIN frames' : frames'[k].phase \in {"loop", "callback"} =>
           \A id \in Ids' : Has(frames'[k].work, id) => due'[id] < timer_clk'
  PROVE  WorkPast'
BY DEF WorkPast, Has

\* When the top frame is replaced.
LEMMA WorkPastTop ==
  ASSUME IInv, WorkPast, frames # <<>>, NEW f \in Frame, frames' = SetTop(f),
         UNCHANGED <<due, next_id>>, timer_clk' \in Nat, timer_clk <= timer_clk',
         f.phase \in {"loop", "callback"} =>
           \A id \in Ids : Has(f.work, id) => due[id] < timer_clk'
  PROVE  WorkPast'
<1>1. /\ DOMAIN frames' = DOMAIN frames
      /\ \A k \in DOMAIN frames : frames'[k] = IF k = Len(frames) THEN f ELSE frames[k]
  BY SetTopIs DEF IInv, TypeOK
<1>2. Ids' = Ids /\ timer_clk \in Nat /\ \A id \in Ids : due[id] \in Nat
  BY DEF Ids, IInv, TypeOK, BaseTypeOK
<1>3. ASSUME NEW k \in DOMAIN frames', frames'[k].phase \in {"loop", "callback"},
             NEW id \in Ids', Has(frames'[k].work, id)
      PROVE  due'[id] < timer_clk'
  <2>1. CASE k = Len(frames)
    BY <1>1, <1>2, <1>3, <2>1
  <2>2. CASE k # Len(frames)
    <3>1. due[id] < timer_clk
      BY <1>1, <1>2, <1>3, <2>2 DEF WorkPast
    <3> QED BY <1>2, <1>3, <3>1
  <2> QED BY <2>1, <2>2
<1> QED
  BY <1>3, WorkPastBy

Right == OnTime /\ TickRight /\ WorkPast

\* A step in which the wheel, its clock and the stack stay.
LEMMA StillRight ==
  ASSUME Right, UNCHANGED <<timer_clk, wheel, frames, due, next_id>>
  PROVE  Right'
<1>1. OnTime'
  BY DEF Right, OnTime, Has, Places, Timely, Limit, Empties, Width, SlotOf, Slots, Ids
<1>2. TickRight'
  BY DEF Right, TickRight, Top, Swept, Aligned, Current, SlotOf, Width, Slots
<1>3. WorkPast'
  BY DEF Right, WorkPast, Has, Ids
<1> QED
  BY <1>1, <1>2, <1>3 DEF Right

LEMMA StartRight ==
  ASSUME IInv, Right, NEW duration \in Durations, Start(duration)
  PROVE  Right'
<1>0. PICK expires \in Nat : expires = clock + duration
  BY BaseAssumption DEF IInv, TypeOK, BaseTypeOK
<1>1. PICK place, id : place = Place(expires, timer_clk) /\ id = next_id
  OBVIOUS
<1>2. place \in Places /\ Timely(place, expires, timer_clk)
  BY <1>1, PlaceIs, PlaceTimely DEF IInv, TypeOK
<1>3. /\ wheel' = Enqueued(place, id) /\ Started(expires) /\ MayCall
      /\ UNCHANGED <<timer_clk, clock, frames>>
  BY <1>0, <1>1 DEF Start, MayStart
<1>4. /\ id \notin Ids /\ Ids' = Ids \cup {id} /\ due'[id] = expires
      /\ \A x \in Ids : due'[x] = due[x]
  BY <1>1, <1>3, StartedType DEF IInv, TypeOK
<1>5. \A q : ~InSlot(q, id)
  BY <1>4, HeldIds DEF IInv
<1>6. \A q, x : InSlot(q, x)' <=> InSlot(q, x) \/ (q = place /\ x = id)
  <2>1. Ids \subseteq Ids' /\ id \in Ids'
    BY <1>4
  <2>2. wheel \in [Places -> Seq(Ids')] /\ \A q \in Places : Injective(wheel[q])
    BY <2>1, SeqMonotonic DEF IInv, TypeOK, Linked, ListsInjective
  <2> QED BY <1>2, <1>3, <1>5, <2>1, <2>2, EnqueuedIs
<1>7. OnTime'
  <2>1. ASSUME NEW p \in Places, NEW x \in Ids', InSlot(p, x)'
        PROVE  Timely(p, due'[x], timer_clk')
    <3>1. CASE p = place /\ x = id
      BY <1>2, <1>3, <1>4, <3>1
    <3>2. CASE InSlot(p, x)
      <4>1. x \in Ids
        BY <3>2, HeldIds DEF IInv
      <4> QED BY <1>3, <1>4, <3>2, <4>1 DEF Right, OnTime, InSlot
    <3> QED BY <1>6, <2>1, <3>1, <3>2
  <2> QED BY <2>1, OnTimeBy
<1>8. TickRight'
  BY <1>3, QuietTop DEF MayCall, Top
<1>9. WorkPast'
  <2>1. ASSUME NEW k \in DOMAIN frames, NEW x, Has(frames[k].work, x) PROVE x \in Ids
    BY <2>1, HeldIds DEF IInv, InWork
  <2> QED BY <1>3, <1>4, <2>1, WorkPastBy DEF Right, WorkPast
<1> QED
  BY <1>7, <1>8, <1>9 DEF Right

LEMMA CancelRight ==
  ASSUME IInv, Right, NEW id \in ref, Cancel(id)
  PROVE  Right'
<1>1. /\ wheel' = [p \in Places |-> Without(wheel[p], id)]
      /\ frames' = [k \in DOMAIN frames |->
                      [frames[k] EXCEPT !.work = Without(frames[k].work, id)]]
      /\ MayCall
      /\ UNCHANGED <<timer_clk, next_id, due>>
  BY DEF Cancel, Unlink, Stopped
<1>2. ASSUME NEW p \in Places, NEW x, Has(wheel'[p], x) PROVE Has(wheel[p], x)
  <2> DEFINE list == wheel[p]
  <2>1. list \in Seq(Ids) /\ Injective(list) /\ wheel'[p] = Without(list, id)
    BY <1>1 DEF IInv, TypeOK, Linked, ListsInjective
  <2> HIDE DEF list
  <2>2. Has(list, x)
    BY <1>2, <2>1, WithoutHas
  <2> QED BY <2>2 DEF list
<1>3. ASSUME NEW k \in DOMAIN frames
      PROVE  /\ frames'[k].phase = frames[k].phase
             /\ \A x : Has(frames'[k].work, x) => Has(frames[k].work, x)
  <2> DEFINE list == frames[k].work
             new  == Without(list, id)
  <2>1. list \in Seq(Ids) /\ Injective(list) /\ frames[k] \in Frame
    BY FrameFields DEF IInv, Linked, ListsInjective
  <2>2. frames'[k] = [frames[k] EXCEPT !.work = new]
    BY <1>1
  <2> HIDE DEF list
  <2>3. \A x : Has(new, x) => Has(list, x)
    BY <2>1, WithoutHas
  <2> HIDE DEF new
  <2>4. frames'[k].work = new /\ frames'[k].phase = frames[k].phase
    BY <2>1, <2>2 DEF Frame
  <2> QED BY <2>3, <2>4 DEF list
<1>4. DOMAIN frames' = DOMAIN frames /\ Ids' = Ids
  BY <1>1 DEF Ids
<1>5. OnTime'
  <2>1. \A p, x : InSlot(p, x)' <=> p \in Places /\ Has(wheel'[p], x)
    BY DEF InSlot, Has, Places
  <2>2. \A p, x : InSlot(p, x)' => InSlot(p, x)
    BY <1>2, <2>1 DEF InSlot
  <2> QED BY <1>1, <2>2, OnTimeKept DEF Right
<1>6. TickRight'
  <2>1. frames # <<>> => Len(frames) \in DOMAIN frames /\ frames[Len(frames)].phase = "callback"
    BY <1>1, TopFields DEF IInv, MayCall
  <2>2. (frames' # <<>> => frames # <<>>) /\ Len(frames') = Len(frames)
    <3>1. DOMAIN frames = 1 .. Len(frames) /\ Len(frames) \in Nat
      BY Elements DEF IInv, TypeOK
    <3>2. frames' \in Seq(Frame') /\ DOMAIN frames' = 1 .. Len(frames)
      BY <1>4, <3>1, CancelIInv DEF IInv, TypeOK
    <3>3. Len(frames') = Len(frames)
      BY <3>1, <3>2, Elements, LenProperties
    <3> QED BY <3>1, <3>2, <3>3, EmptySeq
  <2>3. frames' # <<>> => Top'.phase = "callback"
    BY <1>3, <2>1, <2>2 DEF Top
  <2> QED BY <2>3, QuietTop
<1>7. WorkPast'
  BY <1>1, <1>3, <1>4, WorkPastBy DEF Right, WorkPast
<1> QED
  BY <1>5, <1>6, <1>7 DEF Right

LEMMA UpdateRight ==
  ASSUME IInv, Right, NEW lag \in Lags, Update(clock - lag)
  PROVE  Right'
<1>0. PICK now \in Nat : now = clock - lag
  BY ToldTime DEF Update, IInv, TypeOK
<1> DEFINE f == [now |-> now, work |-> <<>>, level |-> 1, phase |-> "loop"]
<1>1. /\ frames' = Push(f) /\ UNCHANGED <<timer_clk, wheel, next_id, due>>
  BY <1>0 DEF Update, Reported, wheelVars
<1>2. f \in Frame /\ f.work = <<>> /\ f.phase = "loop"
  BY EmptySeq DEF Frame
<1> HIDE DEF f
<1>3. /\ Len(frames') = Len(frames) + 1
      /\ DOMAIN frames' = DOMAIN frames \cup {Len(frames) + 1}
      /\ frames'[Len(frames) + 1] = f
      /\ \A k \in DOMAIN frames : frames'[k] = frames[k]
  BY <1>1, <1>2, PushIs DEF IInv, TypeOK
<1>4. OnTime'
  <2>1. \A p, x : InSlot(p, x)' => InSlot(p, x)
    BY <1>1 DEF InSlot, Has, Places
  <2> QED BY <1>1, <2>1, OnTimeKept DEF Right
<1>5. TickRight'
  <2>1. Top'.phase = "loop"
    BY <1>2, <1>3 DEF Top
  <2> QED BY <2>1, QuietTop
<1>6. WorkPast'
  <2>1. Ids' = Ids
    BY <1>1 DEF Ids
  <2>2. ASSUME NEW k \in DOMAIN frames', frames'[k].phase \in {"loop", "callback"},
               NEW x \in Ids', Has(frames'[k].work, x)
        PROVE  due'[x] < timer_clk'
    <3>1. CASE k = Len(frames) + 1
      BY <1>2, <1>3, <2>2, <3>1, EmptyHas
    <3>2. CASE k \in DOMAIN frames
      BY <1>1, <1>3, <2>1, <2>2, <3>2 DEF Right, WorkPast
    <3> QED BY <1>3, <3>1, <3>2
  <2> QED BY <2>2, WorkPastBy
<1> QED
  BY <1>4, <1>5, <1>6 DEF Right

\* A step that replaces the top frame and leaves the slots.
LEMMA TopStepRight ==
  ASSUME IInv, Right, frames # <<>>, NEW f \in Frame, frames' = SetTop(f), TickRight',
         UNCHANGED <<timer_clk, wheel, due, next_id>>,
         f.phase \in {"loop", "callback"} =>
           /\ Top.phase \in {"loop", "callback"}
           /\ \A x : Has(f.work, x) => Has(Top.work, x)
  PROVE  Right'
<1>1. OnTime'
  <2>1. \A p, x : InSlot(p, x)' => InSlot(p, x)
    BY DEF InSlot, Has, Places
  <2> QED BY <2>1, OnTimeKept DEF Right
<1>2. WorkPast'
  <2>1. timer_clk \in Nat /\ Len(frames) \in DOMAIN frames /\ Top = frames[Len(frames)]
    BY TopFields DEF IInv, TypeOK
  <2>2. f.phase \in {"loop", "callback"} =>
          \A id \in Ids : Has(f.work, id) => due[id] < timer_clk'
    BY <2>1 DEF Right, WorkPast
  <2> QED BY <2>1, <2>2, WorkPastTop DEF Right
<1> QED
  BY <1>1, <1>2 DEF Right

LEMMA ActionDoneRight ==
  ASSUME IInv, Right, ActionDone
  PROVE  Right'
<1> DEFINE f == [Top EXCEPT !.phase = "loop"]
<1>1. /\ frames # <<>> /\ Top.phase = "callback" /\ frames' = SetTop(f)
      /\ UNCHANGED <<timer_clk, wheel, due, next_id>>
  BY DEF ActionDone, ActionReturns, InPhase, wheelVars, ledger
<1>2. TypeOK /\ Top \in Frame
  BY <1>1, TopFields DEF IInv
<1>3. f \in Frame /\ f.work = Top.work /\ f.phase = "loop"
  BY <1>2 DEF Frame
<1> HIDE DEF f
<1>4. TickRight'
  BY <1>1, <1>2, <1>3, TopIs, QuietTop
<1> QED
  BY <1>1, <1>3, <1>4, TopStepRight

LEMMA FireHeadRight ==
  ASSUME IInv, Right, FireHead
  PROVE  Right'
<1>0. PICK rest : rest = Tail(Top.work)
  OBVIOUS
<1> DEFINE f == [Top EXCEPT !.phase = "callback", !.work = rest]
<1>1. /\ frames # <<>> /\ Top.phase = "loop" /\ Top.work # <<>> /\ frames' = SetTop(f)
      /\ UNCHANGED <<timer_clk, wheel, due, next_id>>
  BY <1>0 DEF FireHead, InPhase, Fired
<1>2. TypeOK /\ Top \in Frame /\ Len(frames) \in DOMAIN frames /\ Top = frames[Len(frames)]
      /\ Top.work \in Seq(Ids)
  BY <1>1, TopFields DEF IInv
<1>3. rest \in Seq(Ids) /\ \A x : Has(rest, x) => Has(Top.work, x)
  <2> DEFINE list == Top.work
  <2>1. list \in Seq(Ids) /\ Injective(list) /\ list # <<>> /\ rest = Tail(list)
    BY <1>0, <1>1, <1>2 DEF IInv, Linked, ListsInjective
  <2> HIDE DEF list
  <2>2. rest \in Seq(Ids) /\ \A x : Has(rest, x) => Has(list, x)
    BY <2>1, TailHas
  <2> QED BY <2>2 DEF list
<1>4. f \in Frame /\ f.work = rest /\ f.phase = "callback"
  BY <1>2, <1>3 DEF Frame
<1> HIDE DEF f
<1>5. TickRight'
  BY <1>1, <1>2, <1>4, TopIs, QuietTop
<1> QED
  BY <1>1, <1>3, <1>4, <1>5, TopStepRight

LEMMA UpdateReturnsRight ==
  ASSUME IInv, Right, UpdateReturns
  PROVE  Right'
<1>0. PICK n : n = Len(frames)
  OBVIOUS
<1>1. /\ frames # <<>> /\ frames' = Pop
      /\ UNCHANGED <<timer_clk, wheel, next_id, due>>
  BY DEF UpdateReturns, InPhase, Returned, wheelVars, ledger
<1>2. /\ frames' \in Seq(Frame)
      /\ DOMAIN frames' = 1 .. n - 1 /\ n \in Nat
      /\ \A k \in DOMAIN frames' : k \in DOMAIN frames /\ frames'[k] = frames[k]
  BY <1>0, <1>1, TopPop, Elements DEF IInv, TypeOK
<1>3. OnTime'
  <2>1. \A p, x : InSlot(p, x)' => InSlot(p, x)
    BY <1>1 DEF InSlot, Has, Places
  <2> QED BY <1>1, <2>1, OnTimeKept DEF Right
<1>4. TickRight'
  <2>1. ASSUME frames' # <<>> PROVE Len(frames') \in DOMAIN frames'
    BY <1>2, <2>1, Elements, EmptySeq
  <2>2. \A k \in DOMAIN frames' : frames'[k].phase = "callback"
    BY <1>0, <1>2 DEF IInv, StackRight
  <2>3. frames' # <<>> => Top'.phase = "callback"
    BY <2>1, <2>2 DEF Top
  <2> QED BY <2>3, QuietTop
<1>5. WorkPast'
  <2>1. Ids' = Ids
    BY <1>1 DEF Ids
  <2> QED BY <1>1, <1>2, <2>1, WorkPastBy DEF Right, WorkPast
<1> QED
  BY <1>3, <1>4, <1>5 DEF Right

\* No list and no frame.
LEMMA EmptyRight ==
  ASSUME frames = <<>>, wheel = [p \in Places |-> <<>>]
  PROVE  Right
<1>1. DOMAIN frames = {} /\ \A p \in Places : wheel[p] = <<>>
  BY EmptyHas
<1> QED
  BY <1>1, EmptyHas DEF Right, OnTime, TickRight, WorkPast

LEMMA DestroyRight ==
  ASSUME Destroy
  PROVE  Right'
<1>1. frames' = <<>> /\ wheel' = [p \in Places |-> <<>>]
  BY DEF Destroy, Discarded
<1>2. (frames = <<>> /\ wheel = [p \in Places |-> <<>>] => Right)'
  BY EmptyRight, PTL
<1> QED
  BY <1>1, <1>2 DEF Places

LEMMA BeginTickRight ==
  ASSUME IInv, Right, BeginTick
  PROVE  Right'
<1>0. PICK two \in 1 .. 5 : two = 2
  OBVIOUS
<1> DEFINE c == [Top EXCEPT !.phase = "cascade", !.level = two]
           t == [Top EXCEPT !.phase = "take"]
<1>1. /\ frames # <<>>
      /\ frames' = SetTop(c) \/ frames' = SetTop(t)
      /\ UNCHANGED <<timer_clk, wheel, due, next_id>>
  BY <1>0 DEF BeginTick, InPhase, wheelVars, ledger
<1>2. Top \in Frame
  BY <1>1, TopFields DEF IInv
<1>3. c \in Frame /\ c.phase = "cascade" /\ t \in Frame /\ t.phase = "take"
  BY <1>2 DEF Frame
<1> HIDE DEF c, t
<1> QED
  BY <1>1, <1>3, BeginTickSwept, TopStepRight

LEMMA GoesOnRight ==
  ASSUME IInv, Right, frames # <<>>, CascadeGoesOn, TickRight',
         UNCHANGED <<timer_clk, wheel, due, next_id>>
  PROVE  Right'
<1>0. PICK next, one \in 1 .. 5 : one = 1 /\ (Top.level < 5 => next = Top.level + 1)
  <2>1. Top.level \in 1 .. 5
    BY TopFields DEF IInv
  <2>2. Top.level < 5 => Top.level + 1 \in 1 .. 5
    BY <2>1
  <2> QED BY <2>2
<1> DEFINE c == [Top EXCEPT !.phase = "cascade", !.level = next]
           t == [Top EXCEPT !.phase = "take", !.level = one]
<1>1. frames' = SetTop(c) \/ frames' = SetTop(t)
  BY <1>0 DEF CascadeGoesOn
<1>2. Top \in Frame
  BY TopFields DEF IInv
<1>3. c \in Frame /\ c.phase = "cascade" /\ t \in Frame /\ t.phase = "take"
  BY <1>2 DEF Frame
<1> HIDE DEF c, t
<1> QED
  BY <1>1, <1>3, TopStepRight

LEMMA CascadeEmptyRight ==
  ASSUME IInv, Right, CascadeEmpty
  PROVE  Right'
<1>1. /\ frames # <<>> /\ Top.phase = "cascade" /\ CascadeGoesOn
      /\ wheel[Current(Top.level)] = <<>>
      /\ UNCHANGED <<timer_clk, wheel, due, next_id>>
  BY DEF CascadeEmpty, InPhase, wheelVars, ledger
<1>2. PICK L \in 1 .. 5 : L = Top.level
  BY <1>1, TopFields DEF IInv
<1>3. L >= 2 /\ Aligned(L, timer_clk) /\ \A l \in 2 .. L - 1 : Swept(l)
  BY <1>1, <1>2 DEF Right, TickRight
<1>4. ASSUME NEW l \in 2 .. L PROVE Swept(l)
  <2>1. l = L \/ l \in 2 .. L - 1
    OBVIOUS
  <2> QED BY <1>1, <1>2, <1>3, <2>1 DEF Swept
<1>5. TickRight'
  BY <1>1, <1>2, <1>3, <1>4, GoesOnSwept
<1> QED
  BY <1>1, <1>5, GoesOnRight

LEMMA CascadeEndsRight ==
  ASSUME IInv, Right, NEW head \in Places, CascadeEnds(head)
  PROVE  Right'
<1>1. /\ frames # <<>> /\ Top.phase = "place" /\ CascadeGoesOn
      /\ UNCHANGED <<timer_clk, wheel, due, next_id>>
  BY DEF CascadeEnds, InPhase, ledger
<1>2. Top.level >= 2 /\ \A l \in 2 .. Top.level : Swept(l)
  BY <1>1 DEF Right, TickRight
<1>3. TickRight'
  BY <1>1, <1>2, GoesOnSwept
<1> QED
  BY <1>1, <1>3, GoesOnRight

LEMMA CascadeBeginsRight ==
  ASSUME IInv, Right, CascadeBegins
  PROVE  Right'
<1>0. PICK from, rest : from = Current(Top.level) /\ rest = Tail(wheel[from])
  OBVIOUS
<1> DEFINE f == [Top EXCEPT !.phase = "place", !.work = rest]
<1>1. /\ frames # <<>> /\ Top.phase = "cascade" /\ wheel[from] # <<>>
      /\ frames' = SetTop(f)
      /\ wheel' = [wheel EXCEPT ![from] = <<>>]
      /\ UNCHANGED <<timer_clk, due, next_id>>
  BY <1>0 DEF CascadeBegins, InPhase, ledger
<1>2. TypeOK /\ Top \in Frame /\ timer_clk \in Nat
  BY <1>1, TopFields DEF IInv, TypeOK
<1>3. PICK L \in 2 .. 5 : L = Top.level
  <2>1. Top.level \in 1 .. 5 /\ Top.level >= 2
    BY <1>1, TopFields DEF IInv, Right, TickRight
  <2> QED BY <2>1
<1>4. from \in Places
  BY <1>0, <1>2, <1>3, SlotType DEF Current
<1>5. rest \in Seq(Ids)
  <2> DEFINE list == wheel[from]
  <2>1. list \in Seq(Ids) /\ Injective(list) /\ list # <<>> /\ rest = Tail(list)
    BY <1>0, <1>1, <1>4 DEF IInv, TypeOK, Linked, ListsInjective
  <2> HIDE DEF list
  <2> QED BY <2>1, TailHas
<1>6. f \in Frame /\ f.phase = "place" /\ f.level = L
  BY <1>2, <1>3, <1>5 DEF Frame
<1> HIDE DEF f
<1>7. /\ \A q, x : InSlot(q, x)' => InSlot(q, x)
      /\ \A q \in Places : wheel'[q] = IF q = from THEN <<>> ELSE wheel[q]
  <2>1. wheel \in [Places -> Seq(Ids)] /\ \A q \in Places : Injective(wheel[q])
    BY DEF IInv, TypeOK, Linked, ListsInjective
  <2> QED BY <1>1, <1>4, <2>1, ClearedIs
<1>8. OnTime'
  BY <1>1, <1>7, OnTimeKept DEF Right
<1>9. TickRight'
  <2>1. Aligned(L, timer_clk) /\ \A l \in 2 .. L - 1 : Swept(l)
    BY <1>1, <1>3 DEF Right, TickRight
  <2>2. ASSUME NEW l \in 2 .. L PROVE Aligned(l, timer_clk) /\ wheel'[Current(l)] = <<>>
    <3>1. l = L \/ l \in 2 .. L - 1
      OBVIOUS
    <3>2. l \in 1 .. 5 /\ Current(l) \in Places
      BY <1>2, SlotType DEF Current
    <3> QED BY <1>0, <1>3, <1>7, <2>1, <3>1, <3>2 DEF Swept
  <2>3. \A l \in 2 .. L : Swept(l)'
    BY <1>1, <2>2 DEF Swept, Aligned, Current, SlotOf, Width, Slots
  <2>4. Top' = f /\ L >= 2
    BY <1>1, <1>2, <1>6, TopIs
  <2> QED BY <1>6, <2>3, <2>4 DEF TickRight
<1>10. WorkPast'
  BY <1>1, <1>2, <1>6, WorkPastTop DEF Right
<1> QED
  BY <1>8, <1>9, <1>10 DEF Right

LEMMA CascadePlacesRight ==
  ASSUME IInv, Right, CascadePlaces
  PROVE  Right'
<1>0. PICK n, id, rest : n = Len(frames) /\ id = Head(Top.work) /\ rest = Tail(Top.work)
  OBVIOUS
<1>1. PICK place : place = Place(due[id], timer_clk)
  OBVIOUS
<1> DEFINE f == [Top EXCEPT !.work = rest]
<1>2. /\ frames # <<>> /\ Top.phase = "place" /\ Top.work # <<>>
      /\ frames' = SetTop(f)
      /\ wheel' = Enqueued(place, id)
      /\ UNCHANGED <<timer_clk, due, next_id>>
  BY <1>0, <1>1 DEF CascadePlaces, InPhase, ledger
<1>3. /\ TypeOK /\ Top \in Frame /\ timer_clk \in Nat
      /\ n \in DOMAIN frames /\ frames[n] = Top /\ Top.work \in Seq(Ids)
  BY <1>0, <1>2, TopFields DEF IInv, TypeOK
<1>4. rest \in Seq(Ids) /\ id \in Ids /\ Has(Top.work, id)
  <2> DEFINE list == Top.work
  <2>1. list \in Seq(Ids) /\ Injective(list) /\ list # <<>>
        /\ rest = Tail(list) /\ id = Head(list)
    BY <1>0, <1>2, <1>3 DEF IInv, Linked, ListsInjective
  <2> HIDE DEF list
  <2>2. rest \in Seq(Ids) /\ id \in Ids /\ Has(list, id)
    BY <2>1, TailHas
  <2> QED BY <2>2 DEF list
<1>5. PICK L \in 2 .. 5 : L = Top.level
  <2>1. Top.level \in 1 .. 5 /\ Top.level >= 2
    BY <1>2, TopFields DEF IInv, Right, TickRight
  <2> QED BY <2>1
<1>6. f \in Frame /\ f.phase = "place" /\ f.level = L
  BY <1>2, <1>3, <1>4, <1>5 DEF Frame
<1> HIDE DEF f
<1>7. due[id] \in Nat
  BY <1>4 DEF IInv, TypeOK, BaseTypeOK
<1>8. place \in Places /\ Timely(place, due[id], timer_clk)
  BY <1>1, <1>3, <1>7, PlaceIs, PlaceTimely
<1>9. \A q, x : InSlot(q, x)' <=> InSlot(q, x) \/ (q = place /\ x = id)
  <2>1. wheel \in [Places -> Seq(Ids)] /\ \A q \in Places : Injective(wheel[q])
    BY DEF IInv, TypeOK, Linked, ListsInjective
  <2>2. \A q : ~InSlot(q, id)
    BY <1>3, <1>4 DEF IInv, Linked, HeldApart, InWork
  <2> QED BY <1>2, <1>4, <1>8, <2>1, <2>2, EnqueuedIs
<1>10. \A q \in Places : q # place => wheel'[q] = wheel[q]
  BY <1>2 DEF Enqueued, IInv, TypeOK
<1>11. OnTime'
  <2>1. ASSUME NEW p \in Places, NEW x \in Ids', InSlot(p, x)'
        PROVE  Timely(p, due'[x], timer_clk')
    <3>1. CASE p = place /\ x = id
      BY <1>2, <1>8, <3>1
    <3>2. CASE InSlot(p, x)
      <4>1. x \in Ids
        BY <3>2, HeldIds DEF IInv
      <4> QED BY <1>2, <3>2, <4>1 DEF Right, OnTime, InSlot
    <3> QED BY <1>9, <2>1, <3>1, <3>2
  <2> QED BY <2>1, OnTimeBy
<1>12. TickRight'
  <2>1. \A l \in 2 .. L : Swept(l)
    BY <1>2, <1>5 DEF Right, TickRight
  <2>2. ASSUME NEW l \in 2 .. L PROVE Aligned(l, timer_clk) /\ wheel'[Current(l)] = <<>>
    <3>1. l \in 2 .. 5 /\ l \in 1 .. 5 /\ Current(l) \in Places
      BY <1>3, SlotType DEF Current
    <3>2. Aligned(l, timer_clk) /\ wheel[Current(l)] = <<>>
      BY <2>1 DEF Swept
    <3>3. Current(l) # place
      BY <1>1, <1>3, <1>7, <3>1, <3>2, PlaceApart DEF Current
    <3> QED BY <1>10, <3>1, <3>2, <3>3
  <2>3. \A l \in 2 .. L : Swept(l)'
    BY <1>2, <2>2 DEF Swept, Aligned, Current, SlotOf, Width, Slots
  <2>4. Top' = f /\ L >= 2
    BY <1>2, <1>3, <1>6, TopIs
  <2> QED BY <1>6, <2>3, <2>4 DEF TickRight
<1>13. WorkPast'
  BY <1>2, <1>3, <1>6, WorkPastTop DEF Right
<1> QED
  BY <1>11, <1>12, <1>13 DEF Right

\* When a tick takes its slot, a timer that stays is reached by a later tick.
LEMMA StaysAhead ==
  ASSUME IInv, Right, frames # <<>>, Top.phase = "take",
         NEW p \in Places, NEW id \in Ids, Has(wheel[p], id), p # Current(1)
  PROVE  ~Empties(p, timer_clk) /\ Timely(p, due[id], timer_clk + 1)
<1>1. timer_clk \in Nat /\ due[id] \in Nat
  BY DEF IInv, TypeOK, BaseTypeOK
<1>2. ~Empties(p, timer_clk)
  <2> SUFFICES ASSUME Empties(p, timer_clk) PROVE FALSE
    OBVIOUS
  <2>1. PICK l \in 1 .. 5 : l = p[1]
    BY DEF Places
  <2>2. p = Current(l) /\ Aligned(l, timer_clk)
    BY <2>1 DEF Empties, Current, Aligned
  <2>3. l # 1 /\ l \in 2 .. 5
    BY <2>2
  <2>4. wheel[p] = <<>>
    BY <2>2, <2>3 DEF Right, TickRight, Swept
  <2> QED BY <2>4, EmptyHas
<1>3. PICK t \in Nat : timer_clk <= t /\ t <= Limit(due[id], timer_clk) /\ Empties(p, t)
  BY DEF Right, OnTime, Timely
<1>4. timer_clk + 1 <= t
  BY <1>1, <1>2, <1>3
<1>5. t <= Limit(due[id], timer_clk + 1)
  BY <1>1, <1>3, <1>4, WheelAssumption DEF Limit
<1> QED
  BY <1>2, <1>3, <1>4, <1>5 DEF Timely

LEMMA TakeSlotRight ==
  ASSUME IInv, Right, TakeSlot
  PROVE  Right'
<1>0. PICK from : from = Current(1)
  OBVIOUS
<1>1. PICK list : list = wheel[from]
  OBVIOUS
<1> DEFINE f == [Top EXCEPT !.phase = "loop", !.work = list]
<1>2. /\ frames # <<>> /\ Top.phase = "take" /\ timer_clk' = timer_clk + 1
      /\ frames' = SetTop(f)
      /\ wheel' = [wheel EXCEPT ![from] = <<>>]
      /\ UNCHANGED <<due, next_id>>
  BY <1>0, <1>1 DEF TakeSlot, InPhase, ledger
<1>3. TypeOK /\ Top \in Frame /\ timer_clk \in Nat
  BY <1>2, TopFields DEF IInv, TypeOK
<1>4. from \in Places /\ from = <<1, timer_clk % TVR_SIZE>>
  <2>1. timer_clk \div 1 = timer_clk
    BY <1>3
  <2>2. from = <<1, timer_clk % TVR_SIZE>>
    BY <1>0, <2>1, WidthIs DEF Current, SlotOf, Slots
  <2> QED BY <1>0, <1>3, <2>2, SlotType DEF Current
<1>5. list \in Seq(Ids)
  BY <1>1, <1>4 DEF IInv, TypeOK
<1>6. f \in Frame /\ f.work = list /\ f.phase = "loop"
  BY <1>3, <1>5 DEF Frame
<1> HIDE DEF f
<1>7. \A q, x : InSlot(q, x)' <=> InSlot(q, x) /\ q # from
  <2>1. wheel \in [Places -> Seq(Ids)] /\ \A q \in Places : Injective(wheel[q])
    BY DEF IInv, TypeOK, Linked, ListsInjective
  <2> QED BY <1>2, <1>4, <2>1, ClearedIs
<1>8. OnTime'
  <2>1. ASSUME NEW p \in Places, NEW x \in Ids', InSlot(p, x)'
        PROVE  Timely(p, due'[x], timer_clk')
    <3>1. InSlot(p, x) /\ p # from /\ x \in Ids
      BY <1>7, <2>1, HeldIds DEF IInv
    <3> QED BY <1>0, <1>2, <3>1, StaysAhead DEF InSlot
  <2> QED BY <2>1, OnTimeBy
<1>9. TickRight'
  BY <1>2, <1>3, <1>6, TopIs, QuietTop
<1>10. WorkPast'
  <2>1. ASSUME NEW x \in Ids, Has(list, x) PROVE due[x] < timer_clk + 1
    <3>1. NotEarly(from, due[x], timer_clk)
      BY <1>1, <1>4, <2>1 DEF IInv, SlotsRight
    <3>2. from[1] = 1 /\ from[2] = timer_clk % TVR_SIZE /\ timer_clk >= timer_clk
      BY <1>3, <1>4
    <3>3. timer_clk >= due[x]
      BY <1>3, <3>1, <3>2 DEF NotEarly
    <3>4. due[x] \in Nat
      BY <2>1 DEF IInv, TypeOK, BaseTypeOK
    <3> QED BY <1>3, <3>3, <3>4
  <2>2. timer_clk' \in Nat /\ timer_clk <= timer_clk'
    BY <1>2, <1>3
  <2> QED BY <1>2, <1>6, <2>1, <2>2, WorkPastTop DEF Right
<1> QED
  BY <1>8, <1>9, <1>10 DEF Right

-----------------------------------------------------------------------------
(* The schedule, for every size of the wheels.                             *)

LEMMA StepRight ==
  ASSUME IInv, Right, [Next]_vars
  PROVE  Right'
<1>1. ASSUME NEW duration \in Durations, Start(duration) PROVE Right'
  BY <1>1, StartRight
<1>2. ASSUME NEW id \in ref, Cancel(id) PROVE Right'
  BY <1>2, CancelRight
<1>3. ASSUME NEW lag \in Lags, Update(clock - lag) PROVE Right'
  BY <1>3, UpdateRight
<1>4. ASSUME NEW head \in Places, CascadeEnds(head) PROVE Right'
  BY <1>4, CascadeEndsRight
<1>5. CASE \/ CallerUsesDeadHead \/ WheelMeetsDeadHead \/ TimePasses \/ Ended
           \/ UNCHANGED vars
  <2>1. UNCHANGED <<timer_clk, wheel, frames, due, next_id>>
    BY <1>5 DEF CallerUsesDeadHead, WheelMeetsDeadHead, TimePasses, Elapse, Ended, vars,
                baseVars, wheelVars, ledger
  <2> QED BY <2>1, StillRight
<1> QED
  BY <1>1, <1>2, <1>3, <1>4, <1>5, BeginTickRight, CascadeEmptyRight, CascadeBeginsRight,
     CascadePlacesRight, TakeSlotRight, FireHeadRight, UpdateReturnsRight,
     ActionDoneRight, DestroyRight
  DEF Next

LEMMA RightInvariance == Spec => [](IInv /\ Right)
<1>1. Init => IInv /\ Right
  <2>1. Init => Right
    BY EmptyRight DEF Init, BaseInit
  <2> QED BY <2>1, InitIInv
<1>2. IInv /\ Right /\ [Next]_vars => (IInv /\ Right)'
  BY StepIInv, StepRight
<1> QED
  BY <1>1, <1>2, PTL DEF Spec

\* OnSchedule: the first tick that empties a timer's slot is in time, whatever
\* the sizes of the wheels: not too late on any level, unless the wheel's clock
\* had passed its expiry before, nor too early on the first.
THEOREM AlwaysOnSchedule == Spec => []OnSchedule
<1>1. ASSUME IInv, Right PROVE OnSchedule
  <2>1. ASSUME NEW p \in Places, NEW i \in DOMAIN wheel[p], timer_clk <= due[wheel[p][i]]
        PROVE  \E t \in timer_clk .. due[wheel[p][i]] :
                 /\ Empties(p, t)
                 /\ \A earlier \in timer_clk .. t - 1 : ~Empties(p, earlier)
                 /\ p[1] = 1 => t >= due[wheel[p][i]]
    <3>1. PICK id : id = wheel[p][i]
      OBVIOUS
    <3>2. Has(wheel[p], id) /\ id \in Ids
      <4>1. wheel[p] \in Seq(Ids)
        BY <1>1 DEF IInv, TypeOK
      <4> QED BY <3>1, <4>1, Elements DEF Has
    <3>3. due[id] \in Nat /\ timer_clk \in Nat
      BY <1>1, <3>2 DEF IInv, TypeOK, BaseTypeOK
    <3>4. PICK e, clk \in Nat : e = due[id] /\ clk = timer_clk /\ clk <= e
      BY <2>1, <3>1, <3>3
    <3> DEFINE T == {t \in Nat : clk <= t /\ Empties(p, t)}
    <3>5. PICK u \in T : u <= e
      BY <1>1, <3>2, <3>4 DEF Right, OnTime, Timely, Limit
    <3>6. PICK t \in T : \A y \in T : t <= y
      BY <3>5, LeastNat
    <3>7. t \in Nat /\ clk <= t /\ Empties(p, t) /\ t <= e
      BY <3>4, <3>5, <3>6
    <3>8. ASSUME NEW earlier \in clk .. t - 1 PROVE ~Empties(p, earlier)
      <4>1. earlier \in Nat /\ clk <= earlier /\ ~(t <= earlier)
        BY <3>7
      <4> QED BY <3>6, <4>1
    <3>9. ASSUME p[1] = 1 PROVE t >= e
      <4>1. NotEarly(p, e, clk)
        BY <1>1, <3>2, <3>4 DEF IInv, SlotsRight
      <4>2. p[2] = t % TVR_SIZE
        <5>1. t \div 1 = t
          BY <3>7
        <5>2. SlotOf(1, t) = p
          BY <3>7, <3>9 DEF Empties
        <5> QED BY <5>1, <5>2, WidthIs DEF SlotOf, Slots
      <4> QED BY <3>7, <3>9, <4>1, <4>2 DEF NotEarly
    <3>10. t \in clk .. e
      BY <3>4, <3>7
    <3> QED BY <3>1, <3>4, <3>7, <3>8, <3>9, <3>10
  <2> QED BY <2>1 DEF OnSchedule
<1> QED
  BY <1>1, RightInvariance, PTL

\* The tick at a timer's expiry takes the timer, whatever actions did before.
THEOREM TicksMissNone == Spec => TickMissesNone
<1>1. ASSUME IInv, Right, [Next]_vars,
             NEW id \in live \ lost, timer_clk <= due[id], due[id] < timer_clk'
      PROVE  \E i \in DOMAIN frames'[Len(frames')].work : frames'[Len(frames')].work[i] = id
  <2>1. id \in Ids /\ due[id] \in Nat /\ timer_clk \in Nat /\ TypeOK
    BY <1>1 DEF IInv, TypeOK, BaseTypeOK
  <2>2. TakeSlot
    <3>1. timer_clk' # timer_clk /\ timer_clk' # 0
      BY <1>1, <2>1
    <3> QED BY <1>1, <3>1 DEF Next, Start, Cancel, Update, BeginTick, CascadeEmpty,
            CascadeBegins, CascadePlaces, CascadeEnds, FireHead, UpdateReturns,
            CallerUsesDeadHead, WheelMeetsDeadHead, ActionDone, TimePasses, Destroy,
            Ended, vars, wheelVars
  <2>3. PICK from : from = Current(1)
    OBVIOUS
  <2>4. PICK list : list = wheel[from]
    OBVIOUS
  <2> DEFINE f == [Top EXCEPT !.phase = "loop", !.work = list]
  <2>5. /\ frames # <<>> /\ Top.phase = "take" /\ timer_clk' = timer_clk + 1
        /\ frames' = SetTop(f)
    BY <2>2, <2>3, <2>4 DEF TakeSlot, InPhase
  <2>6. due[id] = timer_clk
    BY <1>1, <2>1, <2>5
  <2>7. Top \in Frame /\ Len(frames) \in DOMAIN frames /\ Top = frames[Len(frames)]
    BY <2>1, <2>5, TopFields
  <2>8. \A k : ~InWork(k, id)
    <3>1. ASSUME NEW k \in DOMAIN frames, Has(frames[k].work, id) PROVE FALSE
      <4>1. CASE k = Len(frames)
        <5>1. frames[k].work = <<>>
          BY <1>1, <2>5, <2>7, <4>1 DEF IInv, StackRight
        <5> QED BY <3>1, <5>1, EmptyHas
      <4>2. CASE k # Len(frames)
        <5>1. frames[k].phase = "callback"
          BY <1>1, <4>2 DEF IInv, StackRight
        <5>2. due[id] < timer_clk
          BY <1>1, <2>1, <3>1, <5>1 DEF Right, WorkPast
        <5> QED BY <2>1, <2>6, <5>2
      <4> QED BY <4>1, <4>2
    <3> QED BY <3>1 DEF InWork
  <2>9. PICK p \in Places : Has(wheel[p], id)
    <3>1. id \in ref \ lost
      BY <1>1 DEF IInv, Linked, RefIsLive
    <3> QED BY <1>1, <2>8, <3>1 DEF IInv, Linked, HeldAreRef, InSlot
  <2>10. p = from
    <3> SUFFICES ASSUME p # from PROVE FALSE
      OBVIOUS
    <3>1. ~Empties(p, timer_clk)
      BY <1>1, <2>1, <2>3, <2>5, <2>9, StaysAhead
    <3>2. PICK t \in Nat : timer_clk <= t /\ t <= Limit(due[id], timer_clk) /\ Empties(p, t)
      BY <1>1, <2>1, <2>9 DEF Right, OnTime, Timely
    <3>3. t = timer_clk
      BY <2>1, <2>6, <3>2 DEF Limit
    <3> QED BY <3>1, <3>2, <3>3
  <2>11. list \in Seq(Ids) /\ Has(list, id)
    BY <2>1, <2>4, <2>9, <2>10 DEF TypeOK
  <2>12. f \in Frame /\ f.work = list
    BY <2>7, <2>11 DEF Frame
  <2> HIDE DEF f
  <2>13. frames'[Len(frames')] = f
    BY <2>1, <2>5, <2>12, TopIs DEF Top
  <2> QED BY <2>11, <2>12, <2>13 DEF Has
<1>2. IInv /\ Right /\ [Next]_vars =>
        [\A id \in live \ lost :
           timer_clk <= due[id] /\ due[id] < timer_clk' =>
             \E i \in DOMAIN frames'[Len(frames')].work :
               frames'[Len(frames')].work[i] = id]_vars
  BY <1>1
<1> QED
  BY <1>2, RightInvariance, PTL DEF Spec, TickMissesNone

-----------------------------------------------------------------------------
(* The order of two timers.                                                *)

Before(list, a, b) ==
  \E i, j \in DOMAIN list : i < j /\ list[i] = a /\ list[j] = b

LEMMA AppendBefore ==
  ASSUME NEW S, NEW list \in Seq(S), NEW id \in S
  PROVE  /\ \A a, b : Before(list, a, b) => Before(Append(list, id), a, b)
         /\ \A a : Has(list, a) => Has(Append(list, id), a) /\ Before(Append(list, id), a, id)
<1> DEFINE n == Len(list)
           new == Append(list, id)
<1>1. n \in Nat /\ DOMAIN list = 1 .. n
  BY Elements
<1>2. /\ new \in Seq(S) /\ Len(new) = n + 1 /\ new[n + 1] = id
      /\ \A i \in 1 .. n : new[i] = list[i]
  BY AppendProperties
<1>3. DOMAIN new = 1 .. n + 1
  BY <1>2, LenProperties
<1> HIDE DEF new, n
<1>4. /\ \A i \in DOMAIN list : i \in DOMAIN new /\ new[i] = list[i] /\ i < n + 1
      /\ n + 1 \in DOMAIN new
  BY <1>1, <1>2, <1>3
<1>5. (\A a, b : Before(list, a, b) => Before(new, a, b)) /\ \A a : Has(list, a) => Has(new, a)
  BY <1>4 DEF Before, Has
<1>6. \A a : Has(list, a) => Before(new, a, id)
  BY <1>2, <1>4 DEF Before, Has
<1> QED
  BY <1>5, <1>6 DEF new

LEMMA TailBefore ==
  ASSUME NEW S, NEW list \in Seq(S), Injective(list), list # <<>>, NEW a, NEW b,
         Before(list, a, b)
  PROVE  /\ b # Head(list)
         /\ a # Head(list) => Before(Tail(list), a, b)
<1> DEFINE n == Len(list)
           new == Tail(list)
<1>1. n \in Nat /\ DOMAIN list = 1 .. n /\ n # 0
  BY Elements, EmptySeq
<1>2. /\ new \in Seq(S) /\ Len(new) = n - 1 /\ Head(list) = list[1]
      /\ \A i \in 1 .. n - 1 : new[i] = list[i + 1]
  BY <1>1, HeadTailProperties, Elements
<1>3. DOMAIN new = 1 .. n - 1
  BY <1>2, LenProperties
<1> HIDE DEF new, n
<1>4. PICK i, j \in 1 .. n : i < j /\ list[i] = a /\ list[j] = b
  BY <1>1 DEF Before
<1>5. b # Head(list)
  <2>1. 1 \in DOMAIN list /\ j \in DOMAIN list /\ j # 1
    BY <1>1, <1>4
  <2> QED BY <1>2, <1>4, <2>1 DEF Injective
<1>6. ASSUME a # Head(list) PROVE Before(new, a, b)
  <2>1. i # 1
    BY <1>2, <1>4, <1>6
  <2>2. PICK k, l \in 1 .. n - 1 : k = i - 1 /\ l = j - 1
    BY <1>1, <1>4, <2>1
  <2>3. k < l /\ k + 1 = i /\ l + 1 = j
    BY <1>4, <2>2
  <2>4. new[k] = a /\ new[l] = b
    BY <1>2, <1>4, <2>3
  <2> QED BY <1>3, <2>3, <2>4 DEF Before
<1> QED
  BY <1>5, <1>6 DEF new

LEMMA WithoutBefore ==
  ASSUME NEW S, NEW list \in Seq(S), NEW id, NEW a, NEW b, a # id, b # id,
         Before(list, a, b)
  PROVE  Before(Without(list, id), a, b)
<1>1. CASE ~\E i \in DOMAIN list : list[i] = id
  BY <1>1 DEF Without
<1>2. CASE \E i \in DOMAIN list : list[i] = id
  <2>1. PICK c \in DOMAIN list : list[c] = id /\ Without(list, id) = Unlinked(list, c)
    BY <1>2 DEF Without
  <2>2. PICK n \in Nat : n = Len(list) /\ DOMAIN list = 1 .. n
    BY Elements
  <2>3. PICK new : new = Unlinked(list, c)
    OBVIOUS
  <2>4. /\ DOMAIN new = 1 .. n - 1
        /\ \A m \in 1 .. n - 1 : new[m] = IF m < c THEN list[m] ELSE list[m + 1]
    BY <2>2, <2>3, UnlinkedIs
  <2>5. PICK i, j \in 1 .. n : i < j /\ list[i] = a /\ list[j] = b
    BY <2>2 DEF Before
  <2>6. i # c /\ j # c /\ c \in 1 .. n
    BY <2>1, <2>2, <2>5
  <2>7. PICK k, l \in 1 .. n - 1 : /\ k = IF i < c THEN i ELSE i - 1
                                   /\ l = IF j < c THEN j ELSE j - 1
    BY <2>5, <2>6
  <2>8. k < l /\ new[k] = a /\ new[l] = b
    BY <2>4, <2>5, <2>6, <2>7
  <2> QED BY <2>1, <2>3, <2>4, <2>8 DEF Before
<1> QED
  BY <1>1, <1>2

\* Ahead, said of the slots and the work lists.
InFront(a, b) ==
  \/ \E p \in Places : Before(wheel[p], a, b)
  \/ \E k \in DOMAIN frames : Before(frames[k].work, a, b)
  \/ Placing /\ Has(wheel[Place(due[b], timer_clk)], a) /\ Has(Top.work, b)

LEMMA AheadIs ==
  ASSUME TypeOK, NEW a, NEW b \in Ids
  PROVE  Ahead(a, b) <=> InFront(a, b)
<1>1. Place(due[b], timer_clk) \in Places
  BY PlaceIs DEF TypeOK, BaseTypeOK
<1>2. PICK place \in Places : place = Place(due[b], timer_clk)
  BY <1>1
<1>3. \A p \in Places : p \in Lists /\ List(p) = wheel[p]
  BY DEF Lists, List, Places
<1>4. \A k \in DOMAIN frames : <<0, k>> \in Lists /\ List(<<0, k>>) = frames[k].work
  BY DEF Lists, List
<1>5. \A x \in Lists : x \in Places \/ \E k \in DOMAIN frames : x = <<0, k>>
  BY DEF Lists
<1>6. Ahead(a, b) <=>
        \/ \E x \in Lists : Before(List(x), a, b)
        \/ Placing /\ Has(List(place), a) /\ Has(Top.work, b)
  <2>1. Ahead(a, b) <=>
          \E x \in Lists : \E i \in DOMAIN List(x) :
            /\ List(x)[i] = a
            /\ \/ \E j \in DOMAIN List(x) : j > i /\ List(x)[j] = b
               \/ Placing /\ x = place /\ \E j \in DOMAIN Top.work : Top.work[j] = b
    BY <1>2 DEF Ahead
  <2>2. ASSUME NEW x \in Lists
        PROVE  (\E i \in DOMAIN List(x) :
                  List(x)[i] = a /\ \E j \in DOMAIN List(x) : j > i /\ List(x)[j] = b)
                 <=> Before(List(x), a, b)
    <3>1. DOMAIN List(x) \subseteq Int
      <4>1. List(x) \in Seq(Ids)
        <5>1. \A p \in Places : wheel[p] \in Seq(Ids)
          BY DEF TypeOK
        <5> QED BY <1>3, <1>4, <1>5, <5>1, FrameFields
      <4> QED BY <4>1, Elements
    <3> QED BY <3>1 DEF Before
  <2>3. place \in Lists
    BY <1>3
  <2> QED BY <2>1, <2>2, <2>3 DEF Has
<1> QED
  BY <1>2, <1>3, <1>4, <1>5, <1>6 DEF InFront

\* What it takes in the next state.
LEMMA FrontNext ==
  ASSUME NEW a, NEW b
  PROVE  /\ \A p \in Places : Before(wheel'[p], a, b) => InFront(a, b)'
         /\ \A k \in DOMAIN frames' : Before(frames'[k].work, a, b) => InFront(a, b)'
         /\ UNCHANGED <<due, timer_clk>> /\ frames' # <<>>
              /\ Top'.phase = "place" /\ Has(wheel'[Place(due[b], timer_clk)], a)
              /\ Has(Top'.work, b) => InFront(a, b)'
<1>1. \A p \in Places : Before(wheel'[p], a, b) => InFront(a, b)'
  BY DEF InFront, Before, Places
<1>2. \A k \in DOMAIN frames' : Before(frames'[k].work, a, b) => InFront(a, b)'
  BY DEF InFront, Before
<1>3. ASSUME UNCHANGED <<due, timer_clk>>, frames' # <<>>,
             Top'.phase = "place", Has(wheel'[Place(due[b], timer_clk)], a), Has(Top'.work, b)
      PROVE  InFront(a, b)'
  <2>1. Place(due[b], timer_clk)' = Place(due[b], timer_clk)
    BY <1>3 DEF Place, LevelOf, SlotOf, Width, Slots, MAX_TVAL
  <2> QED BY <1>3, <2>1 DEF InFront, Placing, Has
<1> QED
  BY <1>1, <1>2, <1>3

\* What a step must leave of a timer in front of another.
Kept(a, b) ==
  \/ InFront(a, b)'
  \/ a \notin live' \ lost'
  \/ b \notin live' /\ fired' = fired

\* When the top frame is replaced, the other work lists stay.
LEMMA FrontTop ==
  ASSUME IInv, frames # <<>>, NEW f \in Frame, frames' = SetTop(f), NEW a, NEW b
  PROVE  /\ Before(f.work, a, b) => InFront(a, b)'
         /\ \A k \in DOMAIN frames : k # Len(frames) /\ Before(frames[k].work, a, b) =>
              InFront(a, b)'
         /\ Top = frames[Len(frames)] /\ Top' = f /\ frames' # <<>>
<1>1. /\ DOMAIN frames' = DOMAIN frames
      /\ \A k \in DOMAIN frames : frames'[k] = IF k = Len(frames) THEN f ELSE frames[k]
  BY SetTopIs DEF IInv, TypeOK
<1>2. Len(frames) \in DOMAIN frames
  BY TopFields DEF IInv
<1>3. \A k \in DOMAIN frames' : Before(frames'[k].work, a, b) => InFront(a, b)'
  BY FrontNext
<1>4. Top' = f /\ frames' # <<>>
  BY TopIs DEF IInv
<1> QED
  BY <1>1, <1>2, <1>3, <1>4 DEF Top

\* The loop moves, and the lists stay.
LEMMA TopStepFront ==
  ASSUME IInv, NEW a, NEW b, InFront(a, b), frames # <<>>, NEW f \in Frame,
         frames' = SetTop(f), f.work = Top.work, wheel' = wheel,
         Top.phase # "place" \/ Top.work = <<>>
  PROVE  Kept(a, b)
<1>1. ~(Placing /\ Has(Top.work, b))
  BY EmptyHas DEF Placing
<1>2. (\E p \in Places : Before(wheel[p], a, b)) => InFront(a, b)'
  BY FrontNext
<1>3. (\E k \in DOMAIN frames : Before(frames[k].work, a, b)) => InFront(a, b)'
  BY FrontTop
<1> QED
  BY <1>1, <1>2, <1>3 DEF InFront, Kept

LEMMA LoopFront ==
  ASSUME IInv, NEW a, NEW b, InFront(a, b),
         \/ BeginTick \/ CascadeEmpty \/ ActionDone
         \/ \E head \in Places : CascadeEnds(head)
  PROVE  Kept(a, b)
<1>0. PICK next, one, two \in 1 .. 5 :
        /\ one = 1 /\ two = 2
        /\ frames # <<>> /\ Top.level < 5 => next = Top.level + 1
  <2>1. frames # <<>> => Top.level \in 1 .. 5
    BY TopFields DEF IInv
  <2>2. frames # <<>> /\ Top.level < 5 => Top.level + 1 \in 1 .. 5
    BY <2>1
  <2> QED BY <2>2
<1> DEFINE c1 == [Top EXCEPT !.phase = "cascade", !.level = two]
           c2 == [Top EXCEPT !.phase = "cascade", !.level = next]
           t1 == [Top EXCEPT !.phase = "take"]
           t2 == [Top EXCEPT !.phase = "take", !.level = one]
           l  == [Top EXCEPT !.phase = "loop"]
<1>1. /\ frames # <<>> /\ wheel' = wheel
      /\ Top.phase # "place" \/ Top.work = <<>>
      /\ \/ frames' = SetTop(c1) \/ frames' = SetTop(c2) \/ frames' = SetTop(t1)
         \/ frames' = SetTop(t2) \/ frames' = SetTop(l)
  <2>1. CASE BeginTick
    BY <1>0, <2>1 DEF BeginTick, InPhase, wheelVars
  <2>2. CASE CascadeEmpty
    BY <1>0, <2>2 DEF CascadeEmpty, CascadeGoesOn, InPhase, wheelVars
  <2>3. CASE ActionDone
    BY <2>3 DEF ActionDone, ActionReturns, InPhase, wheelVars
  <2>4. CASE \E head \in Places : CascadeEnds(head)
    BY <1>0, <2>4 DEF CascadeEnds, CascadeGoesOn, InPhase
  <2> QED BY <2>1, <2>2, <2>3, <2>4
<1>2. Top \in Frame
  BY <1>1, TopFields DEF IInv
<1>3. \A f \in {c1, c2, t1, t2, l} : f \in Frame /\ f.work = Top.work
  BY <1>2 DEF Frame
<1> HIDE DEF c1, c2, t1, t2, l
<1> QED
  BY <1>1, <1>3, TopStepFront

\* Frames and slots only gain.
LEMMA StillFront ==
  ASSUME IInv, NEW a, NEW b, InFront(a, b), ~Placing,
         \A p \in Places : Before(wheel[p], a, b) => Before(wheel'[p], a, b),
         \A k \in DOMAIN frames : Before(frames[k].work, a, b) =>
           k \in DOMAIN frames' /\ Before(frames'[k].work, a, b)
  PROVE  Kept(a, b)
BY FrontNext DEF InFront, Kept

LEMMA CallerFront ==
  ASSUME IInv, NEW a \in live \ lost, NEW b \in live \ lost, InFront(a, b),
         \/ \E duration \in Durations : Start(duration)
         \/ \E id \in ref : Cancel(id)
         \/ \E lag \in Lags : Update(clock - lag)
         \/ Destroy
  PROVE  Kept(a, b)
<1>1. ~Placing
  BY DEF Start, MayStart, Cancel, Update, MayUpdate, MayCall, Destroy, Discarded, Placing
<1>2. CASE \E duration \in Durations : Start(duration)
  <2>1. PICK duration \in Durations : Start(duration)
    BY <1>2
  <2>2. PICK place, id : wheel' = [wheel EXCEPT ![place] = Append(wheel[place], id)]
                         /\ id = next_id /\ frames' = frames
    BY <2>1 DEF Start, Enqueued
  <2>3. ASSUME NEW p \in Places, Before(wheel[p], a, b) PROVE Before(wheel'[p], a, b)
    <3>1. wheel[p] \in Seq(Ids) /\ Ids \subseteq Ids \cup {id}
      BY DEF IInv, TypeOK
    <3>2. wheel[p] \in Seq(Ids \cup {id}) /\ id \in Ids \cup {id}
      BY <3>1, SeqMonotonic
    <3>3. PICK list : list = wheel[p]
      OBVIOUS
    <3>4. Before(Append(list, id), a, b)
      BY <2>3, <3>2, <3>3, AppendBefore
    <3>5. wheel'[p] = list \/ wheel'[p] = Append(list, id)
      BY <2>2, <3>3 DEF IInv, TypeOK
    <3> QED BY <2>3, <3>3, <3>4, <3>5
  <2> QED BY <1>1, <2>2, <2>3, StillFront
<1>3. CASE \E id \in ref : Cancel(id)
  <2>1. PICK id \in ref : Cancel(id)
    BY <1>3
  <2>2. /\ wheel' = [p \in Places |-> Without(wheel[p], id)]
        /\ frames' = [k \in DOMAIN frames |->
                        [frames[k] EXCEPT !.work = Without(frames[k].work, id)]]
        /\ live' = live \ {id} /\ lost' = lost /\ fired' = fired
    BY <2>1 DEF Cancel, Unlink, Stopped
  <2>3. CASE a = id \/ b = id
    BY <2>2, <2>3 DEF Kept
  <2>4. CASE a # id /\ b # id
    <3>1. ASSUME NEW list \in Seq(Ids), Before(list, a, b)
          PROVE  Before(Without(list, id), a, b)
      BY <2>4, <3>1, WithoutBefore
    <3>2. ASSUME NEW p \in Places, Before(wheel[p], a, b) PROVE Before(wheel'[p], a, b)
      <4>1. wheel[p] \in Seq(Ids) /\ wheel'[p] = Without(wheel[p], id)
        BY <2>2 DEF IInv, TypeOK
      <4> QED BY <3>1, <3>2, <4>1
    <3>3. ASSUME NEW k \in DOMAIN frames, Before(frames[k].work, a, b)
          PROVE  k \in DOMAIN frames' /\ Before(frames'[k].work, a, b)
      <4>1. frames[k] \in Frame /\ frames[k].work \in Seq(Ids)
        BY FrameFields DEF IInv
      <4>2. PICK new : new = Without(frames[k].work, id)
        OBVIOUS
      <4>3. k \in DOMAIN frames' /\ frames'[k] = [frames[k] EXCEPT !.work = new]
        BY <2>2, <4>2
      <4>4. frames'[k].work = new
        BY <4>1, <4>3 DEF Frame
      <4> QED BY <3>1, <3>3, <4>1, <4>2, <4>3, <4>4
    <3> QED BY <1>1, <3>2, <3>3, StillFront
  <2> QED BY <2>3, <2>4
<1>4. CASE \E lag \in Lags : Update(clock - lag)
  <2>1. PICK lag \in Lags : Update(clock - lag)
    BY <1>4
  <2>2. PICK now \in Nat : now = clock - lag
    BY <2>1, ToldTime DEF Update, IInv, TypeOK
  <2> DEFINE f == [now |-> now, work |-> <<>>, level |-> 1, phase |-> "loop"]
  <2>3. frames' = Push(f) /\ wheel' = wheel
    BY <2>1, <2>2 DEF Update, wheelVars
  <2>4. f \in Frame
    BY EmptySeq DEF Frame
  <2> HIDE DEF f
  <2>5. \A k \in DOMAIN frames : k \in DOMAIN frames' /\ frames'[k] = frames[k]
    BY <2>3, <2>4, PushIs DEF IInv, TypeOK
  <2> QED BY <1>1, <2>3, <2>5, StillFront
<1>5. CASE Destroy
  BY <1>5 DEF Destroy, Discarded, Kept
<1> QED
  BY <1>2, <1>3, <1>4, <1>5

LEMMA ReturnsFront ==
  ASSUME IInv, NEW a, NEW b, InFront(a, b), UpdateReturns
  PROVE  Kept(a, b)
<1>1. /\ frames # <<>> /\ Top.phase = "loop" /\ Top.work = <<>> /\ frames' = Pop
      /\ wheel' = wheel
  BY DEF UpdateReturns, InPhase, Returned, wheelVars
<1>2. PICK n \in Nat : n = Len(frames) /\ DOMAIN frames = 1 .. n
  BY Elements DEF IInv, TypeOK
<1>3. DOMAIN frames' = 1 .. n - 1 /\ \A k \in DOMAIN frames' : frames'[k] = frames[k]
  BY <1>1, <1>2, TopPop DEF IInv, TypeOK
<1>4. ~Before(frames[n].work, a, b)
  BY <1>1, <1>2, EmptyHas DEF Top, Before
<1>5. ASSUME NEW k \in DOMAIN frames, Before(frames[k].work, a, b)
      PROVE  k \in DOMAIN frames' /\ Before(frames'[k].work, a, b)
  <2>1. k \in DOMAIN frames'
    BY <1>2, <1>3, <1>4, <1>5
  <2> QED BY <1>3, <1>5, <2>1
<1>6. ~Placing
  BY <1>1 DEF Placing
<1> QED
  BY <1>1, <1>5, <1>6, StillFront

LEMMA FireFront ==
  ASSUME IInv, NEW a \in live \ lost, NEW b \in live \ lost, InFront(a, b), FireHead
  PROVE  Kept(a, b)
<1>0. PICK id, rest : id = Head(Top.work) /\ rest = Tail(Top.work)
  OBVIOUS
<1> DEFINE f == [Top EXCEPT !.phase = "callback", !.work = rest]
<1>1. /\ frames # <<>> /\ Top.phase = "loop" /\ Top.work # <<>> /\ frames' = SetTop(f)
      /\ wheel' = wheel /\ live' = live \ {id}
  BY <1>0 DEF FireHead, InPhase, Fired
<1>2. Top \in Frame /\ Len(frames) \in DOMAIN frames /\ Top = frames[Len(frames)]
      /\ Top.work \in Seq(Ids) /\ Injective(Top.work)
  BY <1>1, TopFields DEF IInv, Linked, ListsInjective
<1>3. PICK list : list = Top.work
  OBVIOUS
<1>4. /\ rest \in Seq(Ids)
      /\ Before(list, a, b) /\ a # id => Before(rest, a, b)
  <2>1. list \in Seq(Ids) /\ Injective(list) /\ list # <<>>
        /\ rest = Tail(list) /\ id = Head(list)
    BY <1>0, <1>1, <1>2, <1>3
  <2>2. rest \in Seq(Ids)
    BY <2>1, TailHas
  <2>3. Before(list, a, b) /\ a # id => Before(rest, a, b)
    BY <2>1, TailBefore
  <2> QED BY <2>2, <2>3
<1>5. f \in Frame /\ f.work = rest
  BY <1>2, <1>4 DEF Frame
<1> HIDE DEF f
<1>6. CASE \E p \in Places : Before(wheel[p], a, b)
  BY <1>1, <1>6, FrontNext DEF Kept
<1>7. CASE \E k \in DOMAIN frames : k # Len(frames) /\ Before(frames[k].work, a, b)
  BY <1>1, <1>5, <1>7, FrontTop DEF Kept
<1>8. CASE Before(list, a, b)
  <2>1. CASE a = id
    BY <1>1, <2>1 DEF Kept
  <2>2. CASE a # id
    BY <1>1, <1>4, <1>5, <1>8, <2>2, FrontTop DEF Kept
  <2> QED BY <2>1, <2>2
<1> QED
  BY <1>1, <1>2, <1>3, <1>6, <1>7, <1>8 DEF InFront, Placing

LEMMA BeginsFront ==
  ASSUME IInv, NEW a, NEW b, InFront(a, b), CascadeBegins
  PROVE  Kept(a, b)
<1>0. PICK from, first, rest : /\ from = Current(Top.level) /\ first = Head(wheel[from])
                               /\ rest = Tail(wheel[from])
  OBVIOUS
<1> DEFINE f == [Top EXCEPT !.phase = "place", !.work = rest]
<1>1. /\ frames # <<>> /\ Top.phase = "cascade" /\ wheel[from] # <<>>
      /\ frames' = SetTop(f)
      /\ wheel' = [wheel EXCEPT ![from] = <<>>]
      /\ lost' = lost \cup {first}
  BY <1>0 DEF CascadeBegins, InPhase
<1>2. Top \in Frame /\ Len(frames) \in DOMAIN frames /\ Top = frames[Len(frames)]
      /\ Top.work = <<>> /\ Top.level \in 1 .. 5
  BY <1>1, TopFields DEF IInv, StackRight
<1>3. from \in Places
  BY <1>0, <1>2, SlotType DEF Current, IInv, TypeOK
<1>4. /\ rest \in Seq(Ids)
      /\ Before(wheel[from], a, b) /\ a # first => Before(rest, a, b)
  <2>1. PICK list : list = wheel[from]
    OBVIOUS
  <2>2. list \in Seq(Ids) /\ Injective(list) /\ list # <<>>
        /\ rest = Tail(list) /\ first = Head(list)
    BY <1>0, <1>1, <1>3, <2>1 DEF IInv, TypeOK, Linked, ListsInjective
  <2>3. rest \in Seq(Ids)
    BY <2>2, TailHas
  <2>4. Before(list, a, b) /\ a # first => Before(rest, a, b)
    BY <2>2, TailBefore
  <2> QED BY <2>1, <2>3, <2>4
<1>5. f \in Frame /\ f.work = rest
  BY <1>2, <1>4 DEF Frame
<1> HIDE DEF f
<1>6. CASE \E p \in Places : p # from /\ Before(wheel[p], a, b)
  <2>1. PICK p \in Places : p # from /\ Before(wheel[p], a, b)
    BY <1>6
  <2>2. wheel'[p] = wheel[p]
    BY <1>1, <2>1 DEF IInv, TypeOK
  <2> QED BY <2>1, <2>2, FrontNext DEF Kept
<1>7. CASE \E k \in DOMAIN frames : Before(frames[k].work, a, b)
  <2>1. PICK k \in DOMAIN frames : Before(frames[k].work, a, b)
    BY <1>7
  <2>2. k # Len(frames)
    BY <1>2, <2>1, EmptyHas DEF Before
  <2> QED BY <1>1, <1>5, <2>1, <2>2, FrontTop DEF Kept
<1>8. CASE Before(wheel[from], a, b)
  <2>1. CASE a = first
    BY <1>1, <2>1 DEF Kept
  <2>2. CASE a # first
    BY <1>1, <1>4, <1>5, <1>8, <2>2, FrontTop DEF Kept
  <2> QED BY <2>1, <2>2
<1> QED
  BY <1>1, <1>6, <1>7, <1>8 DEF InFront, Placing

LEMMA PlacesFront ==
  ASSUME IInv, NEW a \in live \ lost, NEW b \in live \ lost, due[a] = due[b],
         InFront(a, b), CascadePlaces
  PROVE  Kept(a, b)
<1>0. PICK id, rest : id = Head(Top.work) /\ rest = Tail(Top.work)
  OBVIOUS
<1>1. PICK place : place = Place(due[id], timer_clk)
  OBVIOUS
<1> DEFINE f == [Top EXCEPT !.work = rest]
<1>2. /\ frames # <<>> /\ Top.phase = "place" /\ Top.work # <<>>
      /\ frames' = SetTop(f)
      /\ wheel' = [wheel EXCEPT ![place] = Append(wheel[place], id)]
      /\ UNCHANGED <<due, timer_clk>>
  BY <1>0, <1>1 DEF CascadePlaces, InPhase, Enqueued, ledger
<1>3. Top \in Frame /\ Len(frames) \in DOMAIN frames /\ Top = frames[Len(frames)]
      /\ Top.work \in Seq(Ids) /\ Injective(Top.work)
  BY <1>2, TopFields DEF IInv, Linked, ListsInjective
<1>4. PICK list : list = Top.work
  OBVIOUS
<1>5. /\ rest \in Seq(Ids) /\ id \in Ids
      /\ Before(list, a, b) => b # id /\ Has(list, b) /\ (a # id => Before(rest, a, b))
      /\ \A x : Has(rest, x) <=> Has(list, x) /\ x # id
  <2>1. list \in Seq(Ids) /\ Injective(list) /\ list # <<>>
        /\ rest = Tail(list) /\ id = Head(list)
    BY <1>0, <1>2, <1>3, <1>4
  <2>2. rest \in Seq(Ids) /\ id \in Ids /\ \A x : Has(rest, x) <=> Has(list, x) /\ x # id
    BY <2>1, TailHas
  <2>3. Before(list, a, b) => b # id /\ (a # id => Before(rest, a, b))
    BY <2>1, TailBefore
  <2>4. Before(list, a, b) => Has(list, b)
    BY DEF Before, Has
  <2> QED BY <2>2, <2>3, <2>4
<1>6. place \in Places
  BY <1>1, <1>5, PlaceIs DEF IInv, TypeOK, BaseTypeOK
<1>7. f \in Frame /\ f.work = rest /\ f.phase = "place"
  BY <1>2, <1>3, <1>5 DEF Frame
<1> HIDE DEF f
<1>8. PICK slot : slot = wheel[place]
  OBVIOUS
<1>9. slot \in Seq(Ids) /\ wheel'[place] = Append(slot, id)
      /\ \A p \in Places : p # place => wheel'[p] = wheel[p]
  BY <1>2, <1>6, <1>8 DEF IInv, TypeOK
<1>10. /\ \A x, y : Before(slot, x, y) => Before(wheel'[place], x, y)
       /\ \A x : Has(slot, x) => Has(wheel'[place], x) /\ Before(wheel'[place], x, id)
       /\ Has(wheel'[place], id)
  <2>1. /\ \A x, y : Before(slot, x, y) => Before(Append(slot, id), x, y)
        /\ \A x : Has(slot, x) => Has(Append(slot, id), x) /\ Before(Append(slot, id), x, id)
    BY <1>5, <1>9, AppendBefore
  <2>2. Has(Append(slot, id), id)
    <3>1. Append(slot, id) \in Seq(Ids) /\ Len(Append(slot, id)) = Len(slot) + 1
          /\ Append(slot, id)[Len(slot) + 1] = id
      BY <1>5, <1>9, AppendProperties
    <3>2. Len(slot) + 1 \in DOMAIN Append(slot, id)
      BY <1>9, <3>1, Elements
    <3> QED BY <3>1, <3>2 DEF Has
  <2> QED BY <1>9, <2>1, <2>2
<1>11. /\ Top' = f /\ frames' # <<>> /\ Top'.phase = "place" /\ Top'.work = rest
       /\ Before(rest, a, b) => InFront(a, b)'
  BY <1>2, <1>7, FrontTop
<1>12. ASSUME Has(wheel'[Place(due[b], timer_clk)], a), Has(rest, b) PROVE Kept(a, b)
  BY <1>2, <1>11, <1>12, FrontNext DEF Kept
<1>13. CASE \E p \in Places : Before(wheel[p], a, b)
  <2>1. PICK p \in Places : Before(wheel[p], a, b)
    BY <1>13
  <2>2. Before(wheel'[p], a, b)
    BY <1>8, <1>9, <1>10, <2>1
  <2> QED BY <2>2, FrontNext DEF Kept
<1>14. CASE \E k \in DOMAIN frames : k # Len(frames) /\ Before(frames[k].work, a, b)
  BY <1>2, <1>7, <1>14, FrontTop DEF Kept
<1>15. CASE Before(list, a, b)
  <2>1. CASE a = id
    <3>1. place = Place(due[b], timer_clk)
      BY <1>1, <2>1
    <3> QED BY <1>5, <1>10, <1>12, <1>15, <2>1, <3>1
  <2>2. CASE a # id
    BY <1>5, <1>11, <1>15, <2>2 DEF Kept
  <2> QED BY <2>1, <2>2
<1>16. CASE Has(wheel[Place(due[b], timer_clk)], a) /\ Has(list, b)
  <2>1. PICK other : other = Place(due[b], timer_clk)
    OBVIOUS
  <2>2. CASE b = id
    <3>1. Before(wheel'[place], a, b)
      BY <1>1, <1>8, <1>10, <1>16, <2>2
    <3> QED BY <1>6, <3>1, FrontNext DEF Kept
  <2>3. CASE b # id
    <3>1. b \in Ids
      BY DEF IInv, TypeOK, BaseTypeOK
    <3>2. other \in Places
      BY <2>1, <3>1, PlaceIs DEF IInv, TypeOK, BaseTypeOK
    <3>3. Has(wheel'[other], a)
      BY <1>8, <1>9, <1>10, <1>16, <2>1, <3>2
    <3> QED BY <1>5, <1>12, <1>16, <2>1, <2>3, <3>3
  <2> QED BY <2>2, <2>3
<1> QED
  BY <1>3, <1>4, <1>13, <1>14, <1>15, <1>16 DEF InFront

LEMMA TakeFront ==
  ASSUME IInv, NEW a, NEW b, InFront(a, b), TakeSlot
  PROVE  Kept(a, b)
<1>0. PICK from, list : from = Current(1) /\ list = wheel[from]
  OBVIOUS
<1> DEFINE f == [Top EXCEPT !.phase = "loop", !.work = list]
<1>1. /\ frames # <<>> /\ Top.phase = "take" /\ frames' = SetTop(f)
      /\ wheel' = [wheel EXCEPT ![from] = <<>>]
  BY <1>0 DEF TakeSlot, InPhase
<1>2. Top \in Frame /\ Len(frames) \in DOMAIN frames /\ Top = frames[Len(frames)]
      /\ Top.work = <<>>
  BY <1>1, TopFields DEF IInv, StackRight
<1>3. from \in Places /\ list \in Seq(Ids)
  <2>1. from \in Places
    BY <1>0, SlotType DEF Current, IInv, TypeOK
  <2> QED BY <1>0, <2>1 DEF IInv, TypeOK
<1>4. f \in Frame /\ f.work = list
  BY <1>2, <1>3 DEF Frame
<1> HIDE DEF f
<1>5. CASE \E p \in Places : p # from /\ Before(wheel[p], a, b)
  <2>1. PICK p \in Places : p # from /\ Before(wheel[p], a, b)
    BY <1>5
  <2>2. wheel'[p] = wheel[p]
    BY <1>1, <2>1 DEF IInv, TypeOK
  <2> QED BY <2>1, <2>2, FrontNext DEF Kept
<1>6. CASE \E k \in DOMAIN frames : Before(frames[k].work, a, b)
  <2>1. PICK k \in DOMAIN frames : Before(frames[k].work, a, b)
    BY <1>6
  <2>2. k # Len(frames)
    BY <1>2, <2>1, EmptyHas DEF Before
  <2> QED BY <1>1, <1>4, <2>1, <2>2, FrontTop DEF Kept
<1>7. CASE Before(list, a, b)
  BY <1>1, <1>4, <1>7, FrontTop DEF Kept
<1> QED
  BY <1>0, <1>1, <1>5, <1>6, <1>7 DEF InFront, Placing

\* "Timers are FIFO": a timer that is ahead of another with the same expiry
\* stays ahead until one of the two is fired, canceled or lost, and the other
\* is not fired first; for wheels of any size and any number of timers.
THEOREM KeepsOrder == Spec => FifoOnceAhead
<1>1. ASSUME IInv, [Next]_vars, NEW a \in live \ lost, NEW b \in live \ lost,
             InFront(a, b), due[a] = due[b]
      PROVE  Kept(a, b)
  <2>1. CASE \/ CallerUsesDeadHead \/ WheelMeetsDeadHead \/ TimePasses \/ Ended
             \/ UNCHANGED vars
    <3>1. UNCHANGED <<timer_clk, wheel, frames, due>>
      BY <2>1 DEF CallerUsesDeadHead, WheelMeetsDeadHead, TimePasses, Elapse, Ended,
                  vars, baseVars, wheelVars, ledger
    <3>2. CASE Placing /\ Has(wheel[Place(due[b], timer_clk)], a) /\ Has(Top.work, b)
      <4>1. frames' # <<>> /\ Top' = Top
        BY <3>1, <3>2 DEF Placing, Top
      <4> QED BY <3>1, <3>2, <4>1, FrontNext DEF Placing, Kept
    <3>3. CASE ~(Placing /\ Has(wheel[Place(due[b], timer_clk)], a) /\ Has(Top.work, b))
      BY <1>1, <3>1, <3>3, FrontNext DEF InFront, Kept
    <3> QED BY <3>2, <3>3
  <2>2. CASE \/ BeginTick \/ CascadeEmpty \/ ActionDone
             \/ \E head \in Places : CascadeEnds(head)
    BY <1>1, <2>2, LoopFront
  <2>3. CASE \/ \E duration \in Durations : Start(duration)
             \/ \E id \in ref : Cancel(id)
             \/ \E lag \in Lags : Update(clock - lag)
             \/ Destroy
    BY <1>1, <2>3, CallerFront
  <2>4. CASE UpdateReturns \/ FireHead \/ CascadeBegins \/ CascadePlaces \/ TakeSlot
    BY <1>1, <2>4, ReturnsFront, FireFront, BeginsFront, PlacesFront, TakeFront
  <2> QED BY <1>1, <2>1, <2>2, <2>3, <2>4 DEF Next
<1>2. \A a, b : TypeOK /\ b \in Ids => (Ahead(a, b) <=> InFront(a, b))
  BY AheadIs
<1>3. (\A a, b : TypeOK /\ b \in Ids => (Ahead(a, b) <=> InFront(a, b)))'
  BY <1>2, PTL
<1>4. ASSUME IInv, [Next]_vars, NEW a \in live \ lost, NEW b \in live \ lost,
             due[a] = due[b], Ahead(a, b)
      PROVE  \/ Ahead(a, b)'
             \/ a \notin live' \ lost'
             \/ b \notin live' /\ fired' = fired
  <2>1. TypeOK /\ TypeOK' /\ b \in Ids /\ b \in Ids'
    <3>1. IInv'
      BY <1>4, StepIInv
    <3>2. next_id' = next_id \/ next_id' = next_id + 1
      BY <1>4 DEF Next, Start, Started, Cancel, Stopped, Update, Reported, BeginTick,
                  CascadeEmpty, CascadeBegins, CascadePlaces, CascadeEnds, TakeSlot,
                  FireHead, Fired, UpdateReturns, Returned, CallerUsesDeadHead,
                  WheelMeetsDeadHead, ActionDone, ActionReturns, TimePasses, Elapse,
                  Destroy, Discarded, Ended, vars, baseVars
    <3>3. next_id \in Nat /\ b \in Ids
      BY <1>4 DEF IInv, TypeOK, BaseTypeOK
    <3>4. b \in Ids'
      BY <3>2, <3>3 DEF Ids
    <3> QED BY <1>4, <3>1, <3>3, <3>4 DEF IInv
  <2>2. Kept(a, b)
    BY <1>1, <1>2, <1>4, <2>1
  <2>3. ASSUME InFront(a, b)' PROVE Ahead(a, b)'
    BY <1>3, <2>1, <2>3
  <2> QED BY <2>2, <2>3 DEF Kept
<1>5. IInv /\ [Next]_vars =>
        [\A a, b \in live \ lost :
           due[a] = due[b] /\ Ahead(a, b) =>
             \/ Ahead(a, b)'
             \/ a \notin live' \ lost'
             \/ b \notin live' /\ fired' = fired]_vars
  BY <1>4
<1> QED
  BY <1>5, Invariance, PTL DEF Spec, FifoOnceAhead

-----------------------------------------------------------------------------
(* Every Update ends: the parts of the measure, and the steps.             *)

TicksLeft(k) == IF timer_clk <= frames[k].now THEN frames[k].now + 1 - timer_clk ELSE 0
Stage(k) ==
  CASE frames[k].phase = "cascade" -> 12 - 2 * frames[k].level
    [] frames[k].phase = "place"   -> 11 - 2 * frames[k].level
    [] frames[k].phase = "take"    -> 0
    [] OTHER                       -> 12

LEMMA StageIs ==
  \A k : frames[k].phase \in {"loop", "cascade", "place", "take", "callback"} =>
    /\ frames[k].phase \in {"loop", "callback"} => Stage(k) = 12
    /\ frames[k].phase = "cascade" => Stage(k) = 12 - 2 * frames[k].level
    /\ frames[k].phase = "place" => Stage(k) = 11 - 2 * frames[k].level
    /\ frames[k].phase = "take" => Stage(k) = 0
<1>1. ASSUME NEW k, frames[k].phase \in {"loop", "callback"} PROVE Stage(k) = 12
  BY <1>1 DEF Stage
<1>2. ASSUME NEW k, frames[k].phase = "cascade" PROVE Stage(k) = 12 - 2 * frames[k].level
  BY <1>2 DEF Stage
<1>3. ASSUME NEW k, frames[k].phase = "place" PROVE Stage(k) = 11 - 2 * frames[k].level
  BY <1>3 DEF Stage
<1>4. ASSUME NEW k, frames[k].phase = "take" PROVE Stage(k) = 0
  BY <1>4 DEF Stage
<1> QED
  BY <1>1, <1>2, <1>3, <1>4

LEMMA ToDoParts ==
  ASSUME TypeOK, NEW k \in DOMAIN frames
  PROVE  /\ ToDo(k) = <<TicksLeft(k), Stage(k), Len(frames[k].work)>>
         /\ TicksLeft(k) \in Nat /\ Stage(k) \in Nat /\ Len(frames[k].work) \in Nat
<1>1. /\ frames[k].now \in Nat /\ frames[k].work \in Seq(Ids) /\ frames[k].level \in 1 .. 5
      /\ frames[k].phase \in {"loop", "cascade", "place", "take", "callback"}
      /\ timer_clk \in Nat
  BY FrameFields DEF TypeOK
<1>2. TicksLeft(k) \in Nat
  BY <1>1 DEF TicksLeft
<1>3. Stage(k) \in Nat
  BY <1>1, StageIs
<1>4. Len(frames[k].work) \in Nat
  BY <1>1, LenProperties
<1> QED
  BY <1>2, <1>3, <1>4 DEF ToDo, TicksLeft, Stage

\* What an Update has yet to do is never negative.
LEMMA ToDoIs ==
  ASSUME TypeOK, NEW k \in DOMAIN frames
  PROVE  ToDo(k) \in [1 .. 3 -> Nat]
BY ToDoParts, TripleIs

\* The same of the next state.
LEMMA NextParts ==
  /\ TypeOK' => \A k \in DOMAIN frames' :
       /\ ToDo(k)' = <<TicksLeft(k)', Stage(k)', Len(frames'[k].work)>>
       /\ TicksLeft(k)' \in Nat /\ Stage(k)' \in Nat /\ Len(frames'[k].work) \in Nat
  /\ \A k : frames'[k].phase \in {"loop", "cascade", "place", "take", "callback"} =>
       /\ frames'[k].phase \in {"loop", "callback"} => Stage(k)' = 12
       /\ frames'[k].phase = "cascade" => Stage(k)' = 12 - 2 * frames'[k].level
       /\ frames'[k].phase = "place" => Stage(k)' = 11 - 2 * frames'[k].level
       /\ frames'[k].phase = "take" => Stage(k)' = 0
<1>1. TypeOK => \A k \in DOMAIN frames :
        /\ ToDo(k) = <<TicksLeft(k), Stage(k), Len(frames[k].work)>>
        /\ TicksLeft(k) \in Nat /\ Stage(k) \in Nat /\ Len(frames[k].work) \in Nat
  BY ToDoParts
<1>2. (TypeOK => \A k \in DOMAIN frames :
         /\ ToDo(k) = <<TicksLeft(k), Stage(k), Len(frames[k].work)>>
         /\ TicksLeft(k) \in Nat /\ Stage(k) \in Nat /\ Len(frames[k].work) \in Nat)'
  BY <1>1, PTL
<1>3. (\A k : frames[k].phase \in {"loop", "cascade", "place", "take", "callback"} =>
         /\ frames[k].phase \in {"loop", "callback"} => Stage(k) = 12
         /\ frames[k].phase = "cascade" => Stage(k) = 12 - 2 * frames[k].level
         /\ frames[k].phase = "place" => Stage(k) = 11 - 2 * frames[k].level
         /\ frames[k].phase = "take" => Stage(k) = 0)'
  BY StageIs, PTL
<1> QED
  BY <1>2, <1>3

\* What lowers the measure, and what leaves it or lowers it.
LEMMA PartsLower ==
  ASSUME TypeOK, TypeOK', NEW k \in DOMAIN frames \cap DOMAIN frames',
         \/ TicksLeft(k)' < TicksLeft(k)
         \/ /\ TicksLeft(k)' = TicksLeft(k)
            /\ \/ Stage(k)' < Stage(k)
               \/ Stage(k)' = Stage(k) /\ Len(frames'[k].work) < Len(frames[k].work)
  PROVE  Lower(ToDo(k)', ToDo(k))
<1>1. /\ ToDo(k) = <<TicksLeft(k), Stage(k), Len(frames[k].work)>>
      /\ TicksLeft(k) \in Nat /\ Stage(k) \in Nat /\ Len(frames[k].work) \in Nat
  BY ToDoParts
<1>2. /\ ToDo(k)' = <<TicksLeft(k)', Stage(k)', Len(frames'[k].work)>>
      /\ TicksLeft(k)' \in Nat /\ Stage(k)' \in Nat /\ Len(frames'[k].work) \in Nat
  BY NextParts
<1>3. PICK d \in Nat, e \in Nat, f \in Nat :
        d = TicksLeft(k) /\ e = Stage(k) /\ f = Len(frames[k].work)
  BY <1>1
<1>4. PICK a \in Nat, b \in Nat, c \in Nat :
        a = TicksLeft(k)' /\ b = Stage(k)' /\ c = Len(frames'[k].work)
  BY <1>2
<1>5. a < d \/ (a = d /\ (b < e \/ (b = e /\ c < f)))
  BY <1>3, <1>4
<1>6. Lower(<<a, b, c>>, <<d, e, f>>)
  BY <1>5, LowerTriple
<1> QED
  BY <1>1, <1>2, <1>3, <1>4, <1>6

LEMMA NoMoreToDo ==
  ASSUME TypeOK, TypeOK', NEW k \in DOMAIN frames \cap DOMAIN frames',
         frames'[k].now = frames[k].now, Stage(k)' = Stage(k),
         Len(frames'[k].work) <= Len(frames[k].work), timer_clk' >= timer_clk
  PROVE  Lower(ToDo(k)', ToDo(k)) \/ ToDo(k)' = ToDo(k)
<1>1. /\ ToDo(k) = <<TicksLeft(k), Stage(k), Len(frames[k].work)>>
      /\ TicksLeft(k) \in Nat /\ Stage(k) \in Nat /\ Len(frames[k].work) \in Nat
  BY ToDoParts
<1>2. /\ ToDo(k)' = <<TicksLeft(k)', Stage(k)', Len(frames'[k].work)>>
      /\ TicksLeft(k)' \in Nat /\ Stage(k)' \in Nat /\ Len(frames'[k].work) \in Nat
  BY NextParts
<1>3. TicksLeft(k)' <= TicksLeft(k)
  <2>1. timer_clk \in Nat /\ timer_clk' \in Nat /\ frames[k].now \in Nat
    BY FrameFields DEF TypeOK
  <2> QED BY <2>1 DEF TicksLeft
<1>4. CASE TicksLeft(k)' = TicksLeft(k) /\ Len(frames'[k].work) = Len(frames[k].work)
  BY <1>1, <1>2, <1>4
<1>5. CASE TicksLeft(k)' < TicksLeft(k)
  BY <1>5, PartsLower
<1>6. CASE TicksLeft(k)' = TicksLeft(k) /\ Len(frames'[k].work) < Len(frames[k].work)
  BY <1>6, PartsLower
<1> QED
  BY <1>1, <1>2, <1>3, <1>4, <1>5, <1>6

\* Replacing the top frame, by whatever it is.
LEMMA SetTopAny ==
  ASSUME TypeOK, frames # <<>>, NEW f, frames' = SetTop(f)
  PROVE  /\ DOMAIN frames' = DOMAIN frames
         /\ Len(frames) \in DOMAIN frames
         /\ frames'[Len(frames)] = f
         /\ \A k \in DOMAIN frames : k # Len(frames) => frames'[k] = frames[k]
<1>1. frames \in Seq(Frame \cup {f}) /\ f \in Frame \cup {f}
  BY SeqMonotonic DEF TypeOK
<1> QED
  BY <1>1, SetTopIs, TopFields

\* The steps of a tick up to the taking of its slot, by what they do to the
\* top frame, and the other two steps of the loop.
TickSteps ==
  \/ BeginTick \/ CascadeEmpty \/ CascadeBegins \/ CascadePlaces
  \/ \E head \in Places : CascadeEnds(head)

LEMMA TickLowers ==
  ASSUME IInv, TypeOK', TickSteps, NEW k, k = Len(frames)
  PROVE  /\ Lower(ToDo(k)', ToDo(k))
         /\ timer_clk' = timer_clk
         /\ \A j \in DOMAIN frames : j # k => frames'[j] = frames[j]
<1> USE DEF IInv
<1>1. /\ frames # <<>> /\ k \in DOMAIN frames /\ frames[k] = Top /\ Top \in Frame
      /\ Top.level \in 1 .. 5 /\ Top.work \in Seq(Ids) /\ timer_clk' = timer_clk
      /\ \E f : frames' = SetTop(f)
  BY TopFields DEF TickSteps, BeginTick, CascadeEmpty, CascadeBegins, CascadePlaces,
                   CascadeEnds, CascadeGoesOn, InPhase, wheelVars
<1>2. k \in DOMAIN frames' /\ \A j \in DOMAIN frames : j # k => frames'[j] = frames[j]
  BY <1>1, SetTopAny
\* A new stage of the same tick.
<1>4. ASSUME NEW f, frames' = SetTop(f), f.now = Top.now,
             \/ /\ f.phase = "cascade"
                /\ \/ Top.phase = "loop" /\ f.level = 2
                   \/ Top.phase \in {"cascade", "place"} /\ f.level = Top.level + 1
             \/ f.phase = "place" /\ Top.phase = "cascade" /\ f.level = Top.level
             \/ f.phase = "take" /\ Top.phase \in {"loop", "cascade", "place"}
      PROVE  Lower(ToDo(k)', ToDo(k))
  <2>1. frames'[k] = f
    BY <1>1, <1>4, SetTopAny
  <2>2. TicksLeft(k)' = TicksLeft(k)
    BY <1>1, <1>4, <2>1 DEF TicksLeft
  <2>3. Stage(k)' < Stage(k)
    <3>1. CASE f.phase = "cascade"
      <4>1. Stage(k)' = 12 - 2 * f.level
        BY <2>1, <3>1, NextParts
      <4>2. CASE Top.phase = "loop" /\ f.level = 2
        BY <1>1, <4>1, <4>2, StageIs
      <4>3. CASE Top.phase \in {"cascade", "place"} /\ f.level = Top.level + 1
        BY <1>1, <4>1, <4>3, StageIs
      <4> QED BY <1>4, <3>1, <4>2, <4>3
    <3>2. CASE f.phase = "place"
      <4>1. Stage(k)' = 11 - 2 * f.level
        BY <2>1, <3>2, NextParts
      <4> QED BY <1>1, <1>4, <3>2, <4>1, StageIs
    <3>3. CASE f.phase = "take"
      <4>1. Stage(k)' = 0
        BY <2>1, <3>3, NextParts
      <4> QED BY <1>1, <1>4, <3>3, <4>1, StageIs
    <3> QED BY <1>4, <3>1, <3>2, <3>3
  <2> QED BY <1>1, <1>2, <2>2, <2>3, PartsLower
<1>5. ASSUME CascadeGoesOn, Top.phase \in {"cascade", "place"}
      PROVE  Lower(ToDo(k)', ToDo(k))
  <2> DEFINE c == [Top EXCEPT !.phase = "cascade", !.level = @ + 1]
             t == [Top EXCEPT !.phase = "take", !.level = 1]
  <2>1. frames' = SetTop(c) \/ frames' = SetTop(t)
    BY <1>5 DEF CascadeGoesOn
  <2>2. c.now = Top.now /\ c.phase = "cascade" /\ c.level = Top.level + 1
    BY <1>1 DEF Frame
  <2>3. t.now = Top.now /\ t.phase = "take"
    BY <1>1 DEF Frame
  <2> HIDE DEF c, t
  <2> QED BY <1>4, <1>5, <2>1, <2>2, <2>3
<1>6. ASSUME BeginTick PROVE Lower(ToDo(k)', ToDo(k))
  <2> DEFINE c == [Top EXCEPT !.phase = "cascade", !.level = 2]
             t == [Top EXCEPT !.phase = "take"]
  <2>1. Top.phase = "loop" /\ (frames' = SetTop(c) \/ frames' = SetTop(t))
    BY <1>6 DEF BeginTick, InPhase
  <2>2. c.now = Top.now /\ c.phase = "cascade" /\ c.level = 2
    BY <1>1 DEF Frame
  <2>3. t.now = Top.now /\ t.phase = "take"
    BY <1>1 DEF Frame
  <2> HIDE DEF c, t
  <2> QED BY <1>4, <2>1, <2>2, <2>3
<1>7. ASSUME CascadeBegins PROVE Lower(ToDo(k)', ToDo(k))
  <2>0. PICK rest : rest = Tail(wheel[Current(Top.level)])
    OBVIOUS
  <2> DEFINE p == [Top EXCEPT !.phase = "place", !.work = rest]
  <2>1. Top.phase = "cascade" /\ frames' = SetTop(p)
    BY <1>7, <2>0 DEF CascadeBegins, InPhase
  <2>2. p.now = Top.now /\ p.phase = "place" /\ p.level = Top.level
    BY <1>1 DEF Frame
  <2> HIDE DEF p
  <2> QED BY <1>4, <2>1, <2>2
<1>8. ASSUME CascadePlaces PROVE Lower(ToDo(k)', ToDo(k))
  <2>1. /\ Top.phase = "place" /\ Top.work # <<>>
        /\ frames' = SetTop([Top EXCEPT !.work = Tail(@)])
    BY <1>8 DEF CascadePlaces, InPhase
  <2>2. frames'[k] = [Top EXCEPT !.work = Tail(@)]
    BY <1>1, <2>1, SetTopAny
  <2>3. /\ frames'[k].now = Top.now /\ frames'[k].level = Top.level
        /\ frames'[k].phase = "place" /\ frames'[k].work = Tail(Top.work)
    BY <1>1, <2>1, <2>2 DEF Frame
  <2>4. Len(Tail(Top.work)) < Len(Top.work)
    BY <1>1, <2>1, HeadTailProperties, LenProperties
  <2>5. Stage(k)' = 11 - 2 * Top.level
    BY <2>3, NextParts
  <2>6. Stage(k) = 11 - 2 * Top.level
    BY <1>1, <2>1, StageIs
  <2>7. TicksLeft(k)' = TicksLeft(k)
    BY <1>1, <2>3 DEF TicksLeft
  <2> QED BY <1>1, <1>2, <2>3, <2>4, <2>5, <2>6, <2>7, PartsLower
<1>9. ASSUME CascadeEmpty \/ \E head \in Places : CascadeEnds(head)
      PROVE  Lower(ToDo(k)', ToDo(k))
  BY <1>5, <1>9 DEF CascadeEmpty, CascadeEnds, InPhase
<1> QED
  BY <1>1, <1>2, <1>6, <1>7, <1>8, <1>9 DEF TickSteps

LEMMA TakeLowers ==
  ASSUME IInv, TypeOK', TakeSlot \/ FireHead, NEW k, k = Len(frames)
  PROVE  /\ Lower(ToDo(k)', ToDo(k))
         /\ timer_clk' >= timer_clk
         /\ \A j \in DOMAIN frames : j # k => frames'[j] = frames[j]
<1> USE DEF IInv
<1>1. /\ frames # <<>> /\ k \in DOMAIN frames /\ frames[k] = Top /\ Top \in Frame
      /\ Top.now \in Nat /\ Top.work \in Seq(Ids) /\ timer_clk \in Nat
      /\ \E f : frames' = SetTop(f)
  BY TopFields DEF TakeSlot, FireHead, InPhase, TypeOK
<1>2. k \in DOMAIN frames' /\ \A j \in DOMAIN frames : j # k => frames'[j] = frames[j]
  BY <1>1, SetTopAny
<1>3. ASSUME TakeSlot PROVE Lower(ToDo(k)', ToDo(k)) /\ timer_clk' >= timer_clk
  <2>0. PICK rest : rest = wheel[Current(1)]
    OBVIOUS
  <2>1. /\ Top.phase = "take" /\ timer_clk' = timer_clk + 1
        /\ frames' = SetTop([Top EXCEPT !.phase = "loop", !.work = rest])
    BY <1>3, <2>0 DEF TakeSlot, InPhase
  <2>2. frames'[k] = [Top EXCEPT !.phase = "loop", !.work = rest]
    BY <1>1, <2>1, SetTopAny
  <2>3. frames'[k].now = Top.now
    BY <1>1, <2>2 DEF Frame
  <2>4. timer_clk <= Top.now
    BY <1>1, <2>1 DEF StackRight
  <2>5. TicksLeft(k)' < TicksLeft(k)
    BY <1>1, <2>1, <2>3, <2>4 DEF TicksLeft
  <2> QED BY <1>1, <1>2, <2>1, <2>5, PartsLower
<1>4. ASSUME FireHead PROVE Lower(ToDo(k)', ToDo(k)) /\ timer_clk' >= timer_clk
  <2>1. /\ Top.phase = "loop" /\ Top.work # <<>> /\ timer_clk' = timer_clk
        /\ frames' = SetTop([Top EXCEPT !.phase = "callback", !.work = Tail(@)])
    BY <1>4 DEF FireHead, InPhase
  <2>2. frames'[k] = [Top EXCEPT !.phase = "callback", !.work = Tail(@)]
    BY <1>1, <2>1, SetTopAny
  <2>3. /\ frames'[k].now = Top.now /\ frames'[k].phase = "callback"
        /\ frames'[k].work = Tail(Top.work)
    BY <1>1, <2>2 DEF Frame
  <2>4. Len(Tail(Top.work)) < Len(Top.work)
    BY <1>1, <2>1, HeadTailProperties, LenProperties
  <2>5. Stage(k)' = 12
    BY <2>3, NextParts
  <2>6. Stage(k) = 12
    BY <1>1, <2>1, StageIs
  <2>7. TicksLeft(k)' = TicksLeft(k)
    BY <1>1, <2>1, <2>3 DEF TicksLeft
  <2>8. Lower(ToDo(k)', ToDo(k))
    BY <1>1, <1>2, <2>3, <2>4, <2>5, <2>6, <2>7, PartsLower
  <2> QED BY <1>1, <2>1, <2>8
<1> QED
  BY <1>2, <1>3, <1>4

\* The steps of the Update on top of the stack before it returns.
TopMoves == TickSteps \/ TakeSlot \/ FireHead \/ ActionDone

\* What the steps do to the stack and to the wheel's clock.
LEMMA StackMoves ==
  ASSUME [Next]_vars
  PROVE  \/ frames # <<>> /\ TopMoves
         \/ frames # <<>> /\ Top.phase = "loop" /\ frames' = Pop /\ timer_clk' = timer_clk
         \/ MayCall /\ frames' = frames /\ (timer_clk' = timer_clk \/ frames = <<>>)
         \/ MayCall /\ timer_clk' = timer_clk /\ \E f : frames' = Push(f)
         \/ \E id \in ref : Cancel(id)
         \/ UNCHANGED <<frames, timer_clk>> /\ (status' # "running" \/ UNCHANGED vars)
<1>1. ASSUME NEW duration \in Durations, Start(duration)
      PROVE  MayCall /\ frames' = frames /\ timer_clk' = timer_clk
  BY <1>1 DEF Start, MayStart
<1>2. ASSUME NEW lag \in Lags, Update(clock - lag)
      PROVE  MayCall /\ timer_clk' = timer_clk /\ \E f : frames' = Push(f)
  BY <1>2 DEF Update, MayUpdate, wheelVars
<1>3. ASSUME TopMoves PROVE frames # <<>> /\ TopMoves
  BY <1>3 DEF TopMoves, TickSteps, BeginTick, CascadeEmpty, CascadeBegins, CascadePlaces,
              CascadeEnds, TakeSlot, FireHead, ActionDone, ActionReturns, InPhase
<1>4. ASSUME UpdateReturns
      PROVE  frames # <<>> /\ Top.phase = "loop" /\ frames' = Pop /\ timer_clk' = timer_clk
  BY <1>4 DEF UpdateReturns, Returned, InPhase, wheelVars
<1>5. ASSUME CallerUsesDeadHead \/ WheelMeetsDeadHead
      PROVE  UNCHANGED <<frames, timer_clk>> /\ status' # "running"
  BY <1>5 DEF CallerUsesDeadHead, WheelMeetsDeadHead, wheelVars
<1>6. ASSUME TimePasses PROVE MayCall /\ frames' = frames /\ timer_clk' = timer_clk
  BY <1>6 DEF TimePasses, Elapse, wheelVars
<1>7. ASSUME Destroy PROVE MayCall /\ frames' = frames /\ frames = <<>>
  BY <1>7 DEF Destroy, Discarded, MayCall
<1>8. ASSUME Ended \/ UNCHANGED vars
      PROVE  UNCHANGED <<frames, timer_clk>> /\ UNCHANGED vars
  BY <1>8 DEF Ended, vars, baseVars, wheelVars
<1>9. ASSUME TickSteps \/ TakeSlot \/ FireHead \/ ActionDone PROVE TopMoves
  BY <1>9 DEF TopMoves
<1> QED
  BY <1>1, <1>2, <1>3, <1>4, <1>5, <1>6, <1>7, <1>8, <1>9 DEF Next, TickSteps

\* An Update that is in an action has no more to do than before, if the time it
\* was told is the same, and its work list no longer.
LEMMA InActionNoMore ==
  ASSUME TypeOK, TypeOK', NEW k \in DOMAIN frames \cap DOMAIN frames',
         frames[k].phase = "callback", frames'[k].phase = "callback",
         frames'[k].now = frames[k].now,
         Len(frames'[k].work) <= Len(frames[k].work), timer_clk' >= timer_clk
  PROVE  Lower(ToDo(k)', ToDo(k)) \/ ToDo(k)' = ToDo(k)
<1>1. Stage(k) = 12
  BY StageIs
<1>2. Stage(k)' = 12
  BY NextParts
<1> QED
  BY <1>1, <1>2, NoMoreToDo

(***************************************************************************)
(* Every Update ends: the ticks that it has left, the stages left of the   *)
(* current one, and the timers left on its work list only ever become      *)
(* fewer, in this order of significance, whatever its actions do.          *)
(***************************************************************************)
THEOREM UpdatesEnd == Spec => UpdateEnds
<1> DEFINE Goes(k) ==
             \/ Lower(ToDo(k)', ToDo(k))
             \/ ToDo(k)' = ToDo(k) /\ (k < Len(frames) \/ MayCall \/ status' # "running")
           Ends == \A k \in DOMAIN frames \cap DOMAIN frames' : Goes(k)
<1>1. ASSUME IInv, [Next]_vars PROVE [Ends]_vars
  <2> SUFFICES ASSUME vars' # vars, NEW k \in DOMAIN frames \cap DOMAIN frames'
               PROVE  Goes(k)
    OBVIOUS
  <2>0. /\ TypeOK /\ TypeOK' /\ DOMAIN frames = 1 .. Len(frames) /\ Len(frames) \in Nat
        /\ timer_clk \in Nat
    BY <1>1, StepIInv, Elements DEF IInv, TypeOK
  <2>1. \/ k = Len(frames)
        \/ k < Len(frames) /\ frames[k].phase = "callback"
    BY <1>1, <2>0 DEF IInv, StackRight
  <2>2. Len(frames[k].work) \in Nat
    BY <2>0, FrameFields, LenProperties
  \* The Update below the top has the same frame, and a wheel no earlier.
  <2>3. ASSUME frames[k].phase = "callback", frames'[k] = frames[k], timer_clk' >= timer_clk
        PROVE  Lower(ToDo(k)', ToDo(k)) \/ ToDo(k)' = ToDo(k)
    BY <2>0, <2>2, <2>3, InActionNoMore
  <2>4. CASE frames # <<>> /\ TopMoves
    <3>1. CASE TickSteps \/ TakeSlot \/ FireHead
      <4>1. /\ k = Len(frames) => Lower(ToDo(k)', ToDo(k))
            /\ timer_clk' >= timer_clk
            /\ k # Len(frames) => frames'[k] = frames[k]
        <5>1. CASE TickSteps
          BY <1>1, <2>0, <5>1, TickLowers
        <5>2. CASE TakeSlot \/ FireHead
          BY <1>1, <2>0, <5>2, TakeLowers
        <5> QED BY <3>1, <5>1, <5>2
      <4> QED BY <2>1, <2>3, <4>1
    <3>2. CASE ActionDone
      <4>1. /\ Top.phase = "callback" /\ status = "running" /\ timer_clk' = timer_clk
            /\ frames' = SetTop([Top EXCEPT !.phase = "loop"])
        BY <3>2 DEF ActionDone, ActionReturns, InPhase, wheelVars
      <4>2. MayCall
        BY <4>1 DEF MayCall
      <4>3. CASE k = Len(frames)
        <5>1. frames[k] = Top /\ Top \in Frame
          BY <2>0, <2>4, <4>3, TopFields
        <5>2. frames'[k] = [Top EXCEPT !.phase = "loop"]
          BY <2>0, <2>4, <4>1, <4>3, SetTopAny
        <5>3. /\ frames'[k].now = Top.now /\ frames'[k].work = Top.work
              /\ frames'[k].phase = "loop"
          BY <5>1, <5>2 DEF Frame
        <5>4. ToDo(k)' = ToDo(k)
          BY <4>1, <5>1, <5>3 DEF ToDo
        <5> QED BY <4>2, <5>4
      <4>4. CASE k < Len(frames)
        <5>1. frames'[k] = frames[k]
          BY <2>0, <2>4, <4>1, <4>4, SetTopAny
        <5> QED BY <2>0, <2>1, <2>3, <4>1, <4>4, <5>1
      <4> QED BY <2>1, <4>3, <4>4
    <3> QED BY <2>4, <3>1, <3>2 DEF TopMoves
  <2>5. CASE frames # <<>> /\ Top.phase = "loop" /\ frames' = Pop /\ timer_clk' = timer_clk
    <3>1. /\ DOMAIN Pop = 1 .. Len(frames) - 1
          /\ \A i \in DOMAIN Pop : i \in DOMAIN frames /\ Pop[i] = frames[i]
      BY <2>0, <2>5, TopPop DEF TypeOK
    <3>2. k < Len(frames) /\ frames'[k] = frames[k]
      BY <2>0, <2>5, <3>1
    <3> QED BY <2>0, <2>1, <2>3, <2>5, <3>2
  \* The caller's calls come when every active Update is in an action.
  <2>6. ASSUME MayCall PROVE frames[k].phase = "callback"
    BY <2>0, <2>1, <2>6, EmptySeq DEF MayCall, Top
  <2>7. CASE MayCall /\ frames' = frames /\ (timer_clk' = timer_clk \/ frames = <<>>)
    <3>1. timer_clk' = timer_clk
      BY <2>0, <2>7, EmptySeq
    <3> QED BY <2>0, <2>3, <2>6, <2>7, <3>1
  <2>8. CASE MayCall /\ timer_clk' = timer_clk /\ \E f : frames' = Push(f)
    <3>1. frames'[k] = frames[k]
      <4>1. PICK f : frames' = Push(f)
        BY <2>8
      <4>2. frames \in Seq(Frame \cup {f}) /\ f \in Frame \cup {f}
        BY <2>0, SeqMonotonic DEF TypeOK
      <4> QED BY <4>1, <4>2, PushIs
    <3> QED BY <2>0, <2>3, <2>6, <2>8, <3>1
  <2>9. CASE \E id \in ref : Cancel(id)
    <3>1. PICK id \in ref : Cancel(id)
      BY <2>9
    <3>2. /\ MayCall /\ timer_clk' = timer_clk
          /\ frames'[k] = [frames[k] EXCEPT !.work = Without(frames[k].work, id)]
      BY <3>1 DEF Cancel, Unlink
    <3>3. frames[k] \in Frame /\ frames[k].work \in Seq(Ids)
      BY <2>0, FrameFields
    <3>4. /\ frames'[k].now = frames[k].now /\ frames'[k].phase = frames[k].phase
          /\ frames'[k].work = Without(frames[k].work, id)
      BY <3>2, <3>3 DEF Frame
    <3>5. Len(frames'[k].work) <= Len(frames[k].work)
      BY <3>3, <3>4, WithoutLength
    <3>6. timer_clk' >= timer_clk
      BY <2>0, <3>2
    <3>7. Lower(ToDo(k)', ToDo(k)) \/ ToDo(k)' = ToDo(k)
      BY <2>0, <2>6, <3>2, <3>4, <3>5, <3>6, InActionNoMore
    <3> QED BY <3>2, <3>7
  <2>10. CASE UNCHANGED <<frames, timer_clk>> /\ status' # "running"
    BY <2>10 DEF ToDo
  <2> QED BY <1>1, <2>4, <2>5, <2>7, <2>8, <2>9, <2>10, StackMoves
<1> HIDE DEF Ends
<1>2. IInv /\ [Next]_vars => [Ends]_vars
  BY <1>1
<1>3. Spec => [][Ends]_vars
  BY <1>2, Invariance, PTL DEF Spec
<1> QED
  BY <1>3 DEF UpdateEnds, Ends
=============================================================================
