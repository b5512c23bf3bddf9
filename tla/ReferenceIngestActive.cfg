SPECIFICATION FairSpec
CONSTANTS
    r1 = r1
    r2 = r2
    r3 = r3
    o1 = o1
    o2 = o2
    f1 = f1
    perp = perp
    btc_usd = btc_usd
    Runs <- TwoRuns
    Options <- TwoOptions
    Futures <- OneFuture
    Perpetuals <- OnePerpetual
    Index = btc_usd
    MaxListings = 1
INVARIANT
    OnlyActiveLoaded
CHECK_DEADLOCK FALSE
