----------------------------- MODULE SlotBoard -----------------------------
(***************************************************************************)
(* The clock, the menu configuration and the orders for delivery slots:    *)
(* what GET /api/slots offers (app/timefirst_api.py) and what create_order *)
(* accepts (check_slot_availability, app/main.py).                         *)
(*                                                                         *)
(* The check and the insert of one order are one step here: what comes in  *)
(* between when there are several processes is the subject of              *)
(* OrderCreation.                                                          *)
(***************************************************************************)
EXTENDS TimeFirst, Sequences, FiniteSets

CONSTANTS
    Instants,       \* the instants the clock shows, one after the other
    Configs,        \* rows of menu_configuration the form may save
    Wishes,         \* [ahead, slot]: slots customers ask for
    MaxOrders       \* bound: orders

Instant == [day : Nat, min : 0 .. DayLength - 1, sec : 0 .. 59, us : Nat]

\* A step of 0 or less cannot be served at all; nothing checks the other
\* numbers of the form.
Config == [step : Nat \ {0}, buffer : Int, cap : Int, tomorrow : BOOLEAN,
           cutoff : 0 .. DayLength - 1]

ASSUME BoardAssumption ==
    /\ Instants \in Seq(Instant) /\ Instants # <<>>
    /\ Configs \subseteq Config
    /\ Wishes \subseteq [ahead : Int, slot : Nat]
    /\ MaxOrders \in Nat

VARIABLES
    clock,          \* index of the present instant
    config,         \* [step, buffer, cap, tomorrow, cutoff]
    orders          \* orders placed with delivery_mode "slot"

boardVars == <<clock, config, orders>>

Now == Instants[clock]
Days == {Instants[i].day : i \in 1 .. Len(Instants)}

\* tomorrow_order_cutoff if enable_tomorrow_orders else time(0, 0)
Cutoff == IF config.tomorrow THEN config.cutoff ELSE 0

Board(target) ==
    GetSlots(target, Now, config.step, config.buffer, Cutoff)

Count(date, slot) ==
    Cardinality({i \in 1 .. Len(orders) : /\ orders[i].date = date
                                          /\ orders[i].slot = slot
                                          /\ ~orders[i].cancelled})

\* Broken variant: cancelled orders keep their place.
OrderCountsEver(date) ==
    [m \in {orders[i].slot : i \in DOMAIN orders} |->
        Cardinality({i \in DOMAIN orders : /\ orders[i].date = date
                                           /\ orders[i].slot = m})]

\* The counts of GET /api/slots: one query, grouped by slot.
OrderCounts(date) ==
    [m \in {orders[i].slot : i \in DOMAIN orders} |->
        Cardinality({i \in DOMAIN orders : /\ orders[i].date = date
                                           /\ orders[i].slot = m
                                           /\ ~orders[i].cancelled})]

\* The slots GET /api/slots shows as available, with an empty cache.
Offered(target) ==
    LET board  == Board(target)
        counts == OrderCounts(TargetDate(target, Now))
        count(m) == IF m \in DOMAIN counts THEN counts[m] ELSE 0
    IN  {m \in DOMAIN board : board[m] /\ count(m) < config.cap}

OnBoard(slot, target) ==
    LET board == Board(target) IN slot \in DOMAIN board /\ board[slot]

\* Broken variant: the grid of today stands for every date.
CheckSlotToday(slot, date) ==
    /\ date >= Now.day
    /\ OnBoard(slot, "today")
    /\ Count(date, slot) < config.cap

\* check_slot_availability: any date after today is checked on the grid of
\* tomorrow.
CheckSlot(slot, date) ==
    /\ date >= Now.day
    /\ OnBoard(slot, IF date = Now.day THEN "today" ELSE "tomorrow")
    /\ Count(date, slot) < config.cap

\* The row get_menu_config creates when there is none.
DefaultConfig == [step |-> 15, buffer |-> 15, cap |-> 10, tomorrow |-> TRUE,
                  cutoff |-> 23 * 60]

SlotInit ==
    /\ clock = 1
    /\ config = DefaultConfig
    /\ orders = <<>>

Tick ==
    /\ clock < Len(Instants)
    /\ clock' = clock + 1
    /\ UNCHANGED <<config, orders>>

\* An order for a slot; at, step and buffer record when and under which
\* configuration it was accepted.
PlaceOrder ==
    /\ Len(orders) < MaxOrders
    /\ \E w \in Wishes :
          /\ CheckSlot(w.slot, Now.day + w.ahead)
          /\ orders' = Append(orders, [date |-> Now.day + w.ahead,
                                       slot |-> w.slot, at |-> Now,
                                       step |-> config.step,
                                       buffer |-> config.buffer,
                                       cancelled |-> FALSE])
    /\ UNCHANGED <<clock, config>>

CancelOrder ==
    /\ \E i \in 1 .. Len(orders) :
          /\ ~orders[i].cancelled
          /\ orders' = [orders EXCEPT ![i].cancelled = TRUE]
    /\ UNCHANGED <<clock, config>>

\* The form of menu_configuration; it has no check of the slot grid.
SaveConfig ==
    /\ config' \in Configs
    /\ UNCHANGED <<clock, orders>>

SlotNext == Tick \/ PlaceOrder \/ CancelOrder \/ SaveConfig

SlotSpec == SlotInit /\ [][SlotNext]_boardVars

----------------------------------------------------------------------------
(* Properties.                                                             *)

WishedDates == {d + w.ahead : d \in Days, w \in Wishes}
WishedSlots == {w.slot : w \in Wishes}
Shown == {Instants[i] : i \in 1 .. Len(Instants)}

SlotTypeOK ==
    /\ clock \in 1 .. Len(Instants)
    /\ config \in Configs \cup {DefaultConfig}
    /\ \A i \in 1 .. Len(orders) :
          /\ orders[i].date \in WishedDates
          /\ orders[i].slot \in WishedSlots
          /\ orders[i].at \in Shown
          /\ orders[i].cancelled \in BOOLEAN

\* What the API offers for today and tomorrow is what create_order accepts,
\* and the other way round (two implementations of grid and count,
\* timefirst_api.py:320-371 and main.py:839-887).
SlotsAgree ==
    \A target \in Targets : LET offered == Offered(target) IN
        \A w \in Wishes :
            CheckSlot(w.slot, TargetDate(target, Now)) <=> w.slot \in offered

RoundsIntoNextDay(o) == CeilToInterval(o.at, o.step) >= DayLength

\* An accepted order leaves at least the buffer until its slot, as long as
\* rounding up has not carried "now" past midnight.
OrdersAreAhead ==
    \A i \in 1 .. Len(orders) : LET o == orders[i] IN
        ~RoundsIntoNextDay(o) =>
            Calendar(o.date, o.slot)
                >= Calendar(o.at.day, UpToMinute(o.at)) + o.buffer

\* What the code means by the buffer: no order is accepted for a slot that
\* has passed.  It is not so near midnight (main.py:863).
AcceptedSlotIsAhead ==
    \A i \in 1 .. Len(orders) : LET o == orders[i] IN
        Calendar(o.date, o.slot) >= Calendar(o.at.day, o.at.min)

\* No order is accepted for a Sunday among the two days a customer is shown;
\* later dates are checked on the grid of tomorrow and may be Sundays
\* (main.py:860).
SundaysStayFree ==
    \A i \in 1 .. Len(orders) : LET o == orders[i] IN
        o.date <= o.at.day + 1 => ~IsSunday(o.date)

============================================================================
