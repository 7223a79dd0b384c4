CONSTANTS
    a1 = a1
    a2 = a2
    s1 = s1
    s2 = s2
    r1 = r1
    r2 = r2
    r3 = r3
    k1 = k1
    Auctions = {a1, a2}
    Ids = {r1, r2}
    Amounts = {1}
    Keys = {k1}
    NoKey = NoKey
    NoBidder = NoBidder
    Increment = 1
    StartingBid = 0
    EndsAt = 1
    Shards = {s1, s2}
    ShardOf <- TwoShards
    InboxCap = 1
    BatchMax = 2
    Skews <- SkewErrors
    Drifts = {0}
    MaxClock = 2
    NoRequest = NoRequest
    Unknown = Unknown
SPECIFICATION FairSpec
PROPERTY EveryCallAnswered
PROPERTY ClosedStaysClosed
