CONSTANTS
    a1 = a1
    r1 = r1
    r2 = r2
    k1 = k1
    Auctions = {a1}
    Ids = {r1, r2}
    Amounts = {1, 2, 3}
    Keys = {k1}
    NoKey = NoKey
    NoBidder = NoBidder
    Increment = 1
    StartingBid = 1
    EndsAt = 1
    Versions = {0, 1}
    NoVersion = NoVersion
    MaxClock = 2
    NoRequest = NoRequest
    NoStmt = NoStmt
SPECIFICATION FairSpec
INVARIANT TypeOK
INVARIANT WinnerAndVersionCoherent
INVARIANT OneWinnerPerVersion
PROPERTY ClosedIsFinal
PROPERTY ImplementsEngine
CHECK_DEADLOCK FALSE
PROPERTY EveryCallAnswered
