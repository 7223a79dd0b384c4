CONSTANTS
    a1 = a1
    a2 = a2
    Auctions = {a1, a2}
    m1 = m1
    m2 = m2
    Malformed = {m1}
    EndsAt = 1
    NotClosed = NotClosed
    NoMessage = NoMessage
    Limit = 1
    MaxLen = 1
    ReadCount = 1
    MaxClock = 1
    MaxFaults = 1
SPECIFICATION FairSpec
PROPERTY ExpiredIsClosed
