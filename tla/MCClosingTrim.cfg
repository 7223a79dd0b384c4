CONSTANTS
    a1 = a1
    a2 = a2
    m1 = m1
    m2 = m2
    Auctions = {a1}
    Malformed = {m1}
    EndsAt = 1
    NotClosed = NotClosed
    NoMessage = NoMessage
    Limit = 1
    MaxLen = 2
    ReadCount = 2
    MaxClock = 1
    MaxFaults = 2
SPECIFICATION FairSpec
PROPERTY MalformedIsBuried
