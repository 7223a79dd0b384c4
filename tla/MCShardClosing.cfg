CONSTANTS
    a1 = a1
    a2 = a2
    s1 = s1
    s2 = s2
    r1 = r1
    r2 = r2
    r3 = r3
    k1 = k1
    Auctions = {a1}
    Ids = {r1}
    Amounts = {1}
    Keys = {k1}
    NoKey = NoKey
    NoBidder = NoBidder
    Increment = 1
    StartingBid = 0
    EndsAt = 1
    Shards = {s1}
    ShardOf <- OneShard
    InboxCap = 2
    BatchMax = 2
    Skews = {0}
    Drifts = {0}
    MaxClock = 1
    NoRequest = NoRequest
    Unknown = Unknown
SPECIFICATION Spec
PROPERTY ClosedIsFinal
