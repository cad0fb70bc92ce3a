----------------------------- MODULE TimeFirst -----------------------------
(***************************************************************************)
(* The pure functions of app/timefirst_core.py: slots of a day, and the    *)
(* availability of a product under its rules.                              *)
(*                                                                         *)
(* A date is a number of days, day 0 a Monday; a time of day is a number   *)
(* of minutes; an instant also has seconds and microseconds, because the   *)
(* code compares datetimes and rounds them.  A date and a time of day make *)
(* a minute of the calendar, date * DayLength + time.                      *)
(***************************************************************************)
EXTENDS Integers

DayLength == 24 * 60

\* No time: start_time, end_time, desired_slot or next_available is None.
NoTime == -1

Methods == {"delivery", "pickup"}
Dayparts == {"MORNING", "EVENING", "ALLDAY"}
Targets == {"today", "tomorrow"}

\* The first whole minute that is not before t.
UpToMinute(t) == IF t.sec = 0 /\ t.us = 0 THEN t.min ELSE t.min + 1

\* t.time() > m
IsPast(t, m) == UpToMinute(t) > m

Calendar(date, min) == date * DayLength + min

----------------------------------------------------------------------------
(* Slots.                                                                  *)

CeilDiv(a, b) == (a + b - 1) \div b

\* The minute of t's day (DayLength or more: of the next day) that
\* ceil_to_interval rounds t to.  The code divides microseconds by 3600000,
\* so a minute has that many units here, and a second 60000.
CeilToInterval(t, step) ==
    LET hour  == t.min - (t.min % 60)
        units == (t.min % 60) * 3600000 + t.sec * 60000 + t.us
    IN  hour + step * CeilDiv(units, step * 3600000)

AsInstant(date, min) == [day |-> date, min |-> min, sec |-> 0, us |-> 0]

\* The times of the grid, from the rounded start of the window to its end.
Grid(window, step) ==
    LET first == CeilToInterval(AsInstant(0, window.start), step)
    IN  {first + step * i : i \in 0 .. ((window.end - first) \div step)}

\* Broken variant: every slot of the window is available.
SlotsForWindowAll(window, base, step, buffer) ==
    [m \in Grid(window, step) |-> TRUE]

\* The slots of the window on base's date, each with its availability: from
\* base plus the buffer on.
SlotsForWindow(window, base, step, buffer) ==
    [m \in Grid(window, step) |->
        Calendar(base \div DayLength, m) >= base + buffer]

DaypartWindow(daypart) ==
    CASE daypart = "MORNING" -> [start |-> 7 * 60, end |-> 10 * 60]
      [] daypart = "EVENING" -> [start |-> 14 * 60, end |-> 21 * 60]
      [] OTHER -> [start |-> 0, end |-> DayLength - 1]

TargetDate(target, now) == IF target = "today" THEN now.day ELSE now.day + 1

IsSunday(date) == date % 7 = 6

\* The error text of get_slots; "none" when there is no error.
SlotError(target, now, cutoff) ==
    IF target = "tomorrow" /\ IsPast(now, cutoff) THEN "cutoff"
    ELSE IF IsSunday(TargetDate(target, now)) THEN "sunday"
    ELSE "none"

\* Today's slots are counted from now rounded up, which near midnight is a
\* minute of the next day; tomorrow's from midnight.
BaseTime(target, now, step) ==
    IF target = "today" THEN Calendar(now.day, CeilToInterval(now, step))
    ELSE Calendar(now.day + 1, 0)

GetSlots(target, now, step, buffer, cutoff) ==
    IF SlotError(target, now, cutoff) # "none" THEN [m \in {} |-> FALSE]
    ELSE SlotsForWindow(DaypartWindow("ALLDAY"), BaseTime(target, now, step),
                        step, buffer)

----------------------------------------------------------------------------
(* Availability rules: [id, scope, of, daypart, start, end, lead, methods, *)
(* tomorrow, cutoff, active].  Nothing reads tomorrow and cutoff           *)
(* (allow_tomorrow and tomorrow_cutoff), although the forms ask for them:  *)
(* orders for tomorrow end at the cut-off of the shop, whatever the rule.  *)

EffectiveWindow(rule) ==
    IF rule.start # NoTime /\ rule.end # NoTime
    THEN [start |-> rule.start, end |-> rule.end]
    ELSE DaypartWindow(rule.daypart)

Contains(window, time) == window.start <= time /\ time <= window.end

\* The minute of _calculate_next_available: today while now plus the lead
\* time is not past the window, otherwise the opening of tomorrow, which is
\* not compared with the lead time again.
NextAvailable(window, lead, now) ==
    IF UpToMinute(now) + lead <= window.end
    THEN IF UpToMinute(now) + lead <= window.start
         THEN Calendar(now.day, window.start)
         ELSE Calendar(now.day, now.min + lead)
    ELSE Calendar(now.day + 1, window.start)

Answer(ok, next, reason) == [available |-> ok, next |-> next,
                             reason |-> reason]

\* Broken variant: the lead time of a wished slot is not looked at.
CheckRuleNoLead(rule, target, now, slot) ==
    LET window == EffectiveWindow(rule)
        wish   == IF slot = NoTime THEN window.start ELSE slot
    IN  IF Contains(window, wish) THEN Answer(TRUE, NoTime, "none")
        ELSE Answer(FALSE, NextAvailable(window, rule.lead, now),
                    "OUTSIDE_WINDOW")

\* _check_rule_availability, for a rule that allows the method.
CheckRule(rule, target, now, slot) ==
    LET window == EffectiveWindow(rule)
        wish   == IF slot = NoTime THEN window.start ELSE slot
        next   == NextAvailable(window, rule.lead, now)
        soon   == /\ rule.lead > 0
                  /\ Calendar(TargetDate(target, now), wish)
                       < Calendar(now.day, UpToMinute(now) + rule.lead)
    IN  IF ~Contains(window, wish) THEN Answer(FALSE, next, "OUTSIDE_WINDOW")
        ELSE IF ~soon THEN Answer(TRUE, NoTime, "none")
        ELSE IF slot = NoTime THEN Answer(TRUE, next, "none")
        ELSE Answer(FALSE, next, "LEAD_TIME")

Usable(rules, method) == {r \in rules : r.active /\ method \in r.methods}

DaypartOrder(rule) == IF rule.daypart = "ALLDAY" THEN 1 ELSE 0

\* rule_priority: rules of a part of the day first, then by id.
Precedes(r, q) ==
    \/ DaypartOrder(r) < DaypartOrder(q)
    \/ DaypartOrder(r) = DaypartOrder(q) /\ r.id <= q.id

FirstRule(rules) == CHOOSE r \in rules : \A q \in rules : Precedes(r, q)

\* The rules the first of which decides: the product's own that are active
\* and allow the method, or else those of the categories above it.
Applicable(own, above, method) ==
    IF Usable(own, method) # {} THEN Usable(own, method)
    ELSE Usable(above, method)

CheckAvailability(own, above, target, method, now, slot, cutoff) ==
    LET rules == Applicable(own, above, method)
    IN  IF target = "tomorrow" /\ IsPast(now, cutoff)
        THEN Answer(FALSE, NoTime, "TOMORROW_CUTOFF")
        ELSE IF rules = {} THEN Answer(FALSE, NoTime, "NO_RULE")
        ELSE CheckRule(FirstRule(rules), target, now, slot)

============================================================================
