SPECIFICATION FairSpec
CONSTANTS
    Capacity = 2
    MaxPushes = 2
    MaxFlips = 2
INVARIANT
    StateComesWithTick
CHECK_DEADLOCK FALSE
