---------------------------- MODULE MCSlotBoard ----------------------------
EXTENDS SlotBoard

At(day, hour, min, sec, us) ==
    [day |-> day, min |-> 60 * hour + min, sec |-> sec, us |-> us]

\* Day 4 is a Friday, day 6 the closed Sunday.
MCInstants ==
    << At(4, 10, 5, 30, 0), At(4, 23, 0, 0, 0), At(4, 23, 50, 0, 0),
       At(5, 6, 44, 50, 900000), At(5, 21, 0, 1, 0) >>

MCShortInstants ==
    << At(4, 10, 5, 30, 0), At(4, 23, 50, 0, 0), At(5, 6, 44, 50, 900000) >>

MCConfigs ==
    { [step |-> 15, buffer |-> 15, cap |-> 1, tomorrow |-> TRUE,
       cutoff |-> 23 * 60],
      [step |-> 30, buffer |-> 60, cap |-> 2, tomorrow |-> FALSE,
       cutoff |-> 23 * 60] }

MCWishes ==
    { [ahead |-> 0, slot |-> 7 * 60], [ahead |-> 0, slot |-> 10 * 60 + 30],
      [ahead |-> 1, slot |-> 10 * 60 + 30], [ahead |-> 2, slot |-> 7 * 60] }

============================================================================
