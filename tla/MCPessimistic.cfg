CONSTANTS
    a1 = a1
    a2 = a2
    r1 = r1
    r2 = r2
    r3 = r3
    k1 = k1
    Auctions = {a1}
    Ids = {r1, r2, r3}
    Amounts = {1, 2}
    Keys = {k1}
    NoKey = NoKey
    NoBidder = NoBidder
    Increment = 1
    StartingBid = 0
    EndsAt = 1
    PoolSize = 2
    MaxClock = 1
    NoRequest = NoRequest
    NoRead = NoRead
    Free = Free
SPECIFICATION Spec
SYMMETRY IdSymmetry
INVARIANT TypeOK
INVARIANT WinnerAndVersionCoherent
INVARIANT LockedReadStaysTrue
PROPERTY ClosedIsFinal
PROPERTY ImplementsEngine
CHECK_DEADLOCK FALSE
