SPECIFICATION FairSpec
CONSTANTS
    p1 = p1
    p2 = p2
    c1 = c1
    c2 = c2
    t1 = t1
    Producers <- MCProducers
    Consumers <- MCConsumers
    Closers <- MCClosers
    Capacity = 3
    MaxPushes = 8
INVARIANTS
    TypeOK
    HoldsNewest
    NothingUnaccounted
    NoLostWakeup
    CloseReachesWaiters
    DoneMeansDrained
    ReturnsTellLoss
PROPERTIES
    ImplementsWindow
    EveryItemLeaves
    CloseEndsConsumers
