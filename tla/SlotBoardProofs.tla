-------------------------- MODULE SlotBoardProofs --------------------------
(***************************************************************************)
(* Proofs about delivery slots, for every clock, every configuration with  *)
(* a positive step and any number of orders; they rest on lemmas about the *)
(* arithmetic of app/timefirst_core.py.                                    *)
(***************************************************************************)
EXTENDS SlotBoard, FiniteSetTheorems, TLAPS

----------------------------------------------------------------------------
(* Arithmetic.                                                             *)

LEMMA CeilDivCovers ==
    ASSUME NEW a \in Nat, NEW b \in Nat \ {0}
    PROVE  /\ CeilDiv(a, b) \in Nat
           /\ b * CeilDiv(a, b) >= a
<1> DEFINE q == (a + b - 1) \div b
<1>1. a + b - 1 \in Nat
  OBVIOUS
<1>2. q \in Nat /\ a + b - 1 < b * q + b
  BY <1>1
<1>3. b * q \in Nat
  BY <1>2
<1>4. b * q >= a
  BY <1>2, <1>3
<1> QED
  BY <1>2, <1>4 DEF CeilDiv

\* An amount that covers m units, and a bit more, covers m + 1 of them.
LEMMA CoversUnits ==
    ASSUME NEW m \in Nat, NEW x \in Nat, NEW rest \in Nat,
           NEW unit \in Nat \ {0}, x * unit >= m * unit + rest
    PROVE  x >= m /\ (rest > 0 => x >= m + 1)
<1>1. ASSUME x < m PROVE FALSE
  <2>1. x * unit < m * unit
    BY <1>1
  <2> QED
    BY <2>1
<1>2. ASSUME rest > 0, x <= m PROVE FALSE
  <2>1. x * unit <= m * unit
    BY <1>2
  <2> QED
    BY <1>2, <2>1
<1> QED
  BY <1>1, <1>2

\* Rounding never goes back, not even within the minute.
LEMMA RoundingGoesUp ==
    ASSUME NEW t \in Instant, NEW step \in Nat \ {0}
    PROVE  /\ CeilToInterval(t, step) \in Nat
           /\ CeilToInterval(t, step) >= UpToMinute(t)
<1> DEFINE m == t.min % 60
           hour == t.min - m
           rest == t.sec * 60000 + t.us
           unit == 3600000
           units == m * unit + t.sec * 60000 + t.us
           b == step * unit
           c == CeilDiv(units, b)
           x == step * c
<1>1. t.min \in Nat /\ t.sec \in Nat /\ t.us \in Nat
  BY SMT DEF Instant, DayLength
<1>2. m \in Nat /\ hour \in Nat /\ hour + m = t.min
  BY SMT, <1>1
<1>3. CeilToInterval(t, step) = hour + x
  BY SMT DEF CeilToInterval
<1>4. rest \in Nat /\ (rest = 0 <=> t.sec = 0 /\ t.us = 0)
  BY SMT, <1>1
<1>5. unit \in Nat \ {0}
  BY SMT
<1> HIDE DEF m, hour, unit
<1>6. units = m * unit + rest
  <2>1. m * unit \in Nat
    BY SMT, <1>2, <1>5
  <2> QED
    BY SMT, <1>1, <2>1
<1> HIDE DEF rest, units
<1>7. units \in Nat
  BY SMT, <1>2, <1>4, <1>5, <1>6
<1>8. b \in Nat \ {0}
  BY SMT, <1>5
<1>9. c \in Nat /\ b * c >= units
  BY SMT, <1>7, <1>8, CeilDivCovers
<1> HIDE DEF c
<1>10. x \in Nat /\ x * unit = b * c
  BY SMT, <1>5, <1>9
<1> HIDE DEF x, b
<1>11. x * unit >= m * unit + rest
  BY SMT, <1>6, <1>9, <1>10
<1>12. x >= m /\ (rest > 0 => x >= m + 1)
  BY SMT, <1>2, <1>4, <1>5, <1>10, <1>11, CoversUnits
<1> QED
  BY SMT, <1>1, <1>2, <1>3, <1>4, <1>10, <1>12 DEF UpToMinute

LEMMA UpToMinuteType ==
    ASSUME NEW t \in Instant
    PROVE  UpToMinute(t) \in 0 .. DayLength
BY SMT DEF Instant, UpToMinute, DayLength

LEMMA DateOfMinute ==
    ASSUME NEW date \in Nat, NEW m \in 0 .. DayLength - 1
    PROVE  Calendar(date, m) \div DayLength = date
BY DEF Calendar, DayLength

----------------------------------------------------------------------------
(* What a slot of get_slots promises.                                      *)

LEMMA ErrorMeansNoSlots ==
    ASSUME NEW target, NEW t, NEW step, NEW buffer, NEW cutoff, NEW m,
           m \in DOMAIN GetSlots(target, t, step, buffer, cutoff)
    PROVE  SlotError(target, t, cutoff) = "none"
BY DEF GetSlots

LEMMA LaterOnADay ==
    ASSUME NEW d \in Nat, NEW m \in Int, NEW from \in Int, NEW now \in Int,
           NEW buffer \in Int, from >= now,
           Calendar(d, m) >= Calendar(d, from) + buffer
    PROVE  Calendar(d, m) >= Calendar(d, now) + buffer
BY DEF Calendar, DayLength

\* A slot that get_slots calls available leaves the buffer from the present
\* minute on, unless rounding has passed midnight.
LEMMA AvailableIsAhead ==
    ASSUME NEW target \in Targets, NEW t \in Instant,
           NEW step \in Nat \ {0}, NEW buffer \in Int, NEW cutoff,
           NEW m \in Nat,
           m \in DOMAIN GetSlots(target, t, step, buffer, cutoff),
           GetSlots(target, t, step, buffer, cutoff)[m],
           CeilToInterval(t, step) < DayLength
    PROVE  Calendar(TargetDate(target, t), m)
              >= Calendar(t.day, UpToMinute(t)) + buffer
<1> DEFINE base == BaseTime(target, t, step)
           W == DaypartWindow("ALLDAY")
<1>1. SlotError(target, t, cutoff) = "none"
  BY ErrorMeansNoSlots
<1>2. /\ m \in Grid(W, step)
      /\ Calendar(base \div DayLength, m) >= base + buffer
  BY <1>1 DEF GetSlots, SlotsForWindow
<1>3. /\ t.day \in Nat
      /\ UpToMinute(t) \in 0 .. DayLength
      /\ CeilToInterval(t, step) \in Nat
      /\ CeilToInterval(t, step) >= UpToMinute(t)
  BY SMT, UpToMinuteType, RoundingGoesUp DEF Instant
<1>4. CASE target = "today"
  <2>1. base = Calendar(t.day, CeilToInterval(t, step))
    BY <1>4 DEF BaseTime
  <2>2. base \div DayLength = t.day
    <3>1. CeilToInterval(t, step) \in 0 .. DayLength - 1
      BY <1>3 DEF DayLength
    <3> HIDE DEF base
    <3> QED
      BY <1>3, <2>1, <3>1, DateOfMinute
  <2>3. TargetDate(target, t) = t.day
    BY <1>4 DEF TargetDate
  <2>4. Calendar(t.day, m)
           >= Calendar(t.day, CeilToInterval(t, step)) + buffer
    <3> HIDE DEF base
    <3> QED
      BY Zenon, <1>2, <2>1, <2>2
  <2>5. Calendar(t.day, m) >= Calendar(t.day, UpToMinute(t)) + buffer
    <3>1. UpToMinute(t) \in Int /\ CeilToInterval(t, step) \in Int
      BY <1>3
    <3> QED
      BY <1>3, <2>4, <3>1, LaterOnADay
  <2> QED
    BY Zenon, <2>3, <2>5
<1>5. CASE target = "tomorrow"
  <2>1. base = Calendar(t.day + 1, 0)
    BY <1>5 DEF BaseTime
  <2>2. base \div DayLength = t.day + 1
    <3>1. 0 \in 0 .. DayLength - 1 /\ t.day + 1 \in Nat
      BY <1>3 DEF DayLength
    <3> HIDE DEF base
    <3> QED
      BY <2>1, <3>1, DateOfMinute
  <2>3. TargetDate(target, t) = t.day + 1
    BY <1>5 DEF TargetDate
  <2> QED
    BY <1>2, <1>3, <2>1, <2>2, <2>3 DEF Calendar, DayLength
<1> QED
  BY <1>4, <1>5 DEF Targets

----------------------------------------------------------------------------
(* Types.                                                                  *)

Order == [date : Int, slot : Nat, at : Instant, step : Nat \ {0},
          buffer : Int, cancelled : BOOLEAN]

BoardType ==
    /\ clock \in 1 .. Len(Instants)
    /\ config \in Config
    /\ orders \in Seq(Order)

LEMMA NowType == ASSUME BoardType PROVE Now \in Instant
BY BoardAssumption DEF BoardType, Now

\* The order a step appends.
NewOrder(w) == [date |-> Now.day + w.ahead, slot |-> w.slot, at |-> Now,
                step |-> config.step, buffer |-> config.buffer,
                cancelled |-> FALSE]

LEMMA NewOrderType ==
    ASSUME BoardType, NEW w \in Wishes PROVE NewOrder(w) \in Order
<1>1. Now \in Instant /\ Now.day \in Int
  BY SMT, NowType DEF Instant
<1>2. w.ahead \in Int /\ w.slot \in Nat
  BY BoardAssumption
<1> QED
  BY <1>1, <1>2 DEF NewOrder, Order, BoardType, Config

LEMMA BoardTypeStep ==
    ASSUME BoardType, [SlotNext]_boardVars PROVE BoardType'
<1> USE BoardAssumption DEF BoardType
<1>1. CASE UNCHANGED boardVars
  BY <1>1 DEF boardVars
<1>2. CASE Tick
  BY <1>2 DEF Tick
<1>3. CASE PlaceOrder
  <2>1. PICK w \in Wishes : orders' = Append(orders, NewOrder(w))
    BY <1>3 DEF PlaceOrder, NewOrder
  <2>2. NewOrder(w) \in Order
    BY NewOrderType
  <2> QED
    BY <1>3, <2>1, <2>2 DEF PlaceOrder
<1>4. CASE CancelOrder
  <2>1. PICK i \in 1 .. Len(orders) :
           orders' = [orders EXCEPT ![i].cancelled = TRUE]
    BY <1>4 DEF CancelOrder
  <2>2. orders[i] \in Order
    OBVIOUS
  <2> DEFINE o == [orders[i] EXCEPT !.cancelled = TRUE]
  <2>3. o \in Order
    BY <2>2 DEF Order
  <2>4. orders' = [orders EXCEPT ![i] = o]
    BY <2>1
  <2> HIDE DEF o
  <2>5. orders' \in Seq(Order)
    BY <2>3, <2>4
  <2> QED
    BY <1>4, <2>5 DEF CancelOrder
<1>5. CASE SaveConfig
  BY <1>5 DEF SaveConfig
<1> QED
  BY <1>1, <1>2, <1>3, <1>4, <1>5 DEF SlotNext

LEMMA BoardTypeInit == SlotInit => BoardType
BY BoardAssumption
   DEF SlotInit, BoardType, DefaultConfig, Config, DayLength

\* SlotBoard's orders have their types in every reachable state.
LEMMA BoardTypeHolds == SlotSpec => []BoardType
BY BoardTypeInit, BoardTypeStep, PTL DEF SlotSpec

----------------------------------------------------------------------------
(* The orders of a step: those there were, cancelled or not, and at most   *)
(* one that create_order has just accepted.                                *)

SameOrder(o, p) == /\ o.date = p.date /\ o.slot = p.slot /\ o.at = p.at
                   /\ o.step = p.step /\ o.buffer = p.buffer

Accepted(o) == \E w \in Wishes : /\ CheckSlot(w.slot, Now.day + w.ahead)
                                 /\ o = NewOrder(w)

LEMMA OrdersOfAStep ==
    ASSUME BoardType, [SlotNext]_boardVars, NEW i \in 1 .. Len(orders')
    PROVE  \/ i \in 1 .. Len(orders) /\ SameOrder(orders'[i], orders[i])
           \/ Accepted(orders'[i])
<1>1. CASE orders' = orders
  BY <1>1 DEF SameOrder
<1>2. CASE PlaceOrder
  <2>1. PICK w \in Wishes : /\ CheckSlot(w.slot, Now.day + w.ahead)
                            /\ orders' = Append(orders, NewOrder(w))
    BY <1>2 DEF PlaceOrder, NewOrder
  <2>2. CASE i \in 1 .. Len(orders)
    BY <2>1, <2>2 DEF SameOrder, BoardType
  <2>3. CASE i = Len(orders) + 1
    <3>1. orders'[i] = NewOrder(w)
      BY <2>1, <2>3 DEF BoardType
    <3> QED
      BY <2>1, <3>1 DEF Accepted
  <2> QED
    BY <2>1, <2>2, <2>3 DEF BoardType
<1>3. CASE CancelOrder
  <2>1. PICK j \in 1 .. Len(orders) :
           orders' = [orders EXCEPT ![j].cancelled = TRUE]
    BY <1>3 DEF CancelOrder
  <2>2. Len(orders') = Len(orders)
    BY <2>1 DEF BoardType
  <2>3. orders[i] \in Order
    BY <2>2 DEF BoardType
  <2>4. SameOrder(orders'[i], orders[i])
    BY <2>1, <2>2, <2>3 DEF SameOrder, BoardType, Order
  <2> QED
    BY <2>2, <2>4
<1> QED
  BY <1>1, <1>2, <1>3 DEF SlotNext, Tick, SaveConfig, boardVars

----------------------------------------------------------------------------
(* Type correctness.                                                       *)

OrderOK(o) == /\ o.date \in WishedDates
              /\ o.slot \in WishedSlots
              /\ o.at \in Shown

ConfigOK == config \in Configs \cup {DefaultConfig}

\* The variables keep their types: an order is for one of the wished slots
\* and was accepted at one of the instants of the clock.
THEOREM SlotTypeCorrect == SlotSpec => []SlotTypeOK
<1> DEFINE J == ConfigOK /\ \A i \in 1 .. Len(orders) : OrderOK(orders[i])
<1>1. SlotInit => J
  BY DEF SlotInit, ConfigOK
<1>2. ASSUME BoardType, J, [SlotNext]_boardVars PROVE J'
  <2>1. ConfigOK'
    BY <1>2 DEF ConfigOK, SlotNext, Tick, PlaceOrder, CancelOrder,
                SaveConfig, boardVars
  <2>2. ASSUME NEW i \in 1 .. Len(orders') PROVE OrderOK(orders'[i])
    <3>1. CASE i \in 1 .. Len(orders) /\ SameOrder(orders'[i], orders[i])
      BY <1>2, <3>1 DEF OrderOK, SameOrder
    <3>2. CASE Accepted(orders'[i])
      <4>1. PICK w \in Wishes : orders'[i] = NewOrder(w)
        BY <3>2 DEF Accepted
      <4>2. Now \in Shown
        BY <1>2 DEF BoardType, Now, Shown
      <4>3. Now.day \in Days
        BY <1>2 DEF BoardType, Now, Days
      <4>4. Now.day + w.ahead \in WishedDates /\ w.slot \in WishedSlots
        BY <4>3 DEF WishedDates, WishedSlots
      <4> QED
        BY <4>1, <4>2, <4>4 DEF OrderOK, NewOrder
    <3> QED
      BY <1>2, <2>2, <3>1, <3>2, OrdersOfAStep
  <2> QED
    BY <2>1, <2>2 DEF OrderOK, WishedDates, WishedSlots, Shown, Days
<1>3. ASSUME BoardType, J PROVE SlotTypeOK
  <2>1. \A i \in 1 .. Len(orders) : orders[i] \in Order
    BY <1>3 DEF BoardType
  <2>2. \A o \in Order : o.cancelled \in BOOLEAN
    BY Zenon DEF Order
  <2>3. \A i \in 1 .. Len(orders) : orders[i].cancelled \in BOOLEAN
    BY <2>1, <2>2
  <2>4. clock \in 1 .. Len(Instants) /\ ConfigOK
    BY <1>3 DEF BoardType
  <2>5. \A i \in 1 .. Len(orders) : OrderOK(orders[i])
    BY <1>3
  <2> HIDE DEF J
  <2> QED
    BY <2>3, <2>4, <2>5 DEF ConfigOK, OrderOK, SlotTypeOK
<1> QED
  BY <1>1, <1>2, <1>3, BoardTypeHolds, PTL DEF SlotSpec

----------------------------------------------------------------------------
(* Accepted orders.                                                        *)

AheadOK(o) ==
    ~RoundsIntoNextDay(o) =>
        Calendar(o.date, o.slot)
            >= Calendar(o.at.day, UpToMinute(o.at)) + o.buffer

SundayOK(o) == o.date <= o.at.day + 1 => ~IsSunday(o.date)

LEMMA AcceptedIsGood ==
    ASSUME BoardType, NEW o, Accepted(o)
    PROVE  AheadOK(o) /\ SundayOK(o)
<1>1. PICK w \in Wishes : /\ CheckSlot(w.slot, Now.day + w.ahead)
                          /\ o = NewOrder(w)
  BY DEF Accepted
<1> DEFINE date   == Now.day + w.ahead
           target == IF date = Now.day THEN "today" ELSE "tomorrow"
<1>2. /\ Now \in Instant /\ Now.day \in Nat
      /\ w.slot \in Nat /\ w.ahead \in Int
      /\ config.step \in Nat \ {0} /\ config.buffer \in Int
  BY SMTT(40), NowType, BoardAssumption DEF BoardType, Config, Instant
<1>3. /\ o.date = date /\ o.slot = w.slot /\ o.at = Now
      /\ o.step = config.step /\ o.buffer = config.buffer
  BY <1>1 DEF NewOrder
<1>4. date \in Int /\ date >= Now.day /\ target \in Targets
  BY <1>1, <1>2 DEF CheckSlot, Targets
<1>5. /\ w.slot \in DOMAIN GetSlots(target, Now, config.step,
                                   config.buffer, Cutoff)
      /\ GetSlots(target, Now, config.step, config.buffer, Cutoff)[w.slot]
  BY <1>1 DEF CheckSlot, OnBoard, Board
<1>6. SlotError(target, Now, Cutoff) = "none"
  BY <1>5, ErrorMeansNoSlots
<1>7. /\ TargetDate(target, Now) \in Int
      /\ date >= TargetDate(target, Now)
      /\ date <= Now.day + 1 => date = TargetDate(target, Now)
  BY <1>2, <1>4 DEF TargetDate
<1> HIDE DEF date, target
<1>8. SundayOK(o)
  BY <1>3, <1>6, <1>7 DEF SundayOK, SlotError
<1>9. ASSUME ~RoundsIntoNextDay(o)
      PROVE  Calendar(o.date, o.slot)
                >= Calendar(o.at.day, UpToMinute(o.at)) + o.buffer
  <2>1. CeilToInterval(Now, config.step) \in Nat
    BY SMT, <1>2, RoundingGoesUp
  <2>2. CeilToInterval(Now, config.step) < DayLength
    BY <1>3, <1>9, <2>1 DEF RoundsIntoNextDay, DayLength
  <2>3. Calendar(TargetDate(target, Now), w.slot)
           >= Calendar(Now.day, UpToMinute(Now)) + config.buffer
    BY <1>2, <1>4, <1>5, <2>2, AvailableIsAhead
  <2>4. Calendar(date, w.slot)
           >= Calendar(TargetDate(target, Now), w.slot)
    BY <1>2, <1>4, <1>7 DEF Calendar, DayLength
  <2>5. UpToMinute(Now) \in Int
    BY SMT, <1>2, UpToMinuteType DEF DayLength
  <2> QED
    BY <1>2, <1>3, <1>4, <1>7, <2>3, <2>4, <2>5 DEF Calendar, DayLength
<1> QED
  BY <1>8, <1>9 DEF AheadOK

LEMMA SameOrderIsAsGood ==
    ASSUME NEW o, NEW p, SameOrder(o, p)
    PROVE  (AheadOK(p) => AheadOK(o)) /\ (SundayOK(p) => SundayOK(o))
BY DEF SameOrder, AheadOK, SundayOK, RoundsIntoNextDay

\* Whatever the clock and the configuration did since, an accepted order
\* was at least the buffer before its slot when it was accepted, unless
\* rounding had carried "now" past midnight.
THEOREM AcceptedOrdersAreAhead == SlotSpec => []OrdersAreAhead
<1> DEFINE J == \A i \in 1 .. Len(orders) : AheadOK(orders[i])
<1>1. SlotInit => J
  BY DEF SlotInit
<1>2. ASSUME BoardType, J, [SlotNext]_boardVars PROVE J'
  <2>1. ASSUME NEW i \in 1 .. Len(orders') PROVE AheadOK(orders'[i])
    BY <1>2, <2>1, OrdersOfAStep, AcceptedIsGood, SameOrderIsAsGood
  <2> QED
    BY <2>1 DEF AheadOK, RoundsIntoNextDay
<1>3. J => OrdersAreAhead
  BY DEF AheadOK, OrdersAreAhead
<1> QED
  BY <1>1, <1>2, <1>3, BoardTypeHolds, PTL DEF SlotSpec

\* No order accepted for today or tomorrow is for a Sunday.
THEOREM NoOrderForSunday == SlotSpec => []SundaysStayFree
<1> DEFINE J == \A i \in 1 .. Len(orders) : SundayOK(orders[i])
<1>1. SlotInit => J
  BY DEF SlotInit
<1>2. ASSUME BoardType, J, [SlotNext]_boardVars PROVE J'
  <2>1. ASSUME NEW i \in 1 .. Len(orders') PROVE SundayOK(orders'[i])
    BY <1>2, <2>1, OrdersOfAStep, AcceptedIsGood, SameOrderIsAsGood
  <2> QED
    BY <2>1 DEF SundayOK
<1>3. J => SundaysStayFree
  BY DEF SundayOK, SundaysStayFree
<1> QED
  BY <1>1, <1>2, <1>3, BoardTypeHolds, PTL DEF SlotSpec

----------------------------------------------------------------------------
(* The two implementations of grid and count.                              *)

\* The grouped count of the API is the count of create_order; a slot the
\* query does not return has no order.
LEMMA CountsAgree ==
    ASSUME BoardType, NEW date, NEW slot
    PROVE  Count(date, slot) = IF slot \in DOMAIN OrderCounts(date)
                               THEN OrderCounts(date)[slot] ELSE 0
<1>1. DOMAIN orders = 1 .. Len(orders)
  BY DEF BoardType
<1>2. CASE slot \in DOMAIN OrderCounts(date)
  BY <1>1, <1>2 DEF Count, OrderCounts
<1>3. CASE slot \notin DOMAIN OrderCounts(date)
  <2>1. {i \in 1 .. Len(orders) : /\ orders[i].date = date
                                  /\ orders[i].slot = slot
                                  /\ ~orders[i].cancelled} = {}
    BY <1>1, <1>3 DEF OrderCounts
  <2> QED
    BY <1>3, <2>1, FS_EmptySet DEF Count
<1> QED
  BY <1>2, <1>3

\* GET /api/slots and create_order agree on every slot of both days, in
\* every state and for every configuration.
THEOREM BothGridsAgree == SlotSpec => []SlotsAgree
<1>1. ASSUME BoardType PROVE SlotsAgree
  <2>1. SUFFICES ASSUME NEW target \in Targets, NEW w \in Wishes
                 PROVE  CheckSlot(w.slot, TargetDate(target, Now))
                           <=> w.slot \in Offered(target)
    BY DEF SlotsAgree
  <2> DEFINE date == TargetDate(target, Now)
  <2>2. Now.day \in Nat
    BY SMT, <1>1, NowType DEF Instant
  <2>3. /\ date >= Now.day
        /\ (IF date = Now.day THEN "today" ELSE "tomorrow") = target
    BY <2>2 DEF TargetDate, Targets
  <2>4. CheckSlot(w.slot, date)
           <=> OnBoard(w.slot, target) /\ Count(date, w.slot) < config.cap
    BY <2>3 DEF CheckSlot
  <2>5. w.slot \in Offered(target)
           <=> /\ OnBoard(w.slot, target)
               /\ (IF w.slot \in DOMAIN OrderCounts(date)
                   THEN OrderCounts(date)[w.slot] ELSE 0) < config.cap
    BY DEF Offered, OnBoard
  <2> QED
    BY <1>1, <2>4, <2>5, CountsAgree
<1> QED
  BY <1>1, BoardTypeHolds, PTL

============================================================================
