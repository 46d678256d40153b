SPECIFICATION HandleSpec
CONSTANTS
    b1 = b1
    Low = Low
    High = High
INVARIANTS
    EveryHandleIsKept
CHECK_DEADLOCK FALSE
