CONSTANTS
    Instants <- MCInstants
    Configs <- MCConfigs
    Wishes <- MCWishes
    MaxOrders = 1
SPECIFICATION SlotSpec
INVARIANT AcceptedSlotIsAhead
CHECK_DEADLOCK FALSE
