SPECIFICATION FairSpec
CONSTANTS
    Capacity = 2
    MaxPushes = 5
    MaxFlips = 2
INVARIANTS
    TypeOK
    StopLeavesNothingRunning
    TicksInOnePlace
PROPERTIES
    StopReturns
    TicksReachHandler
    IoNeverHeldUp
CHECK_DEADLOCK FALSE
