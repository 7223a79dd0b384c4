CONSTANTS
    a1 = a1
    a2 = a2
    Auctions = {a1}
    m1 = m1
    m2 = m2
    Malformed = {m1, m2}
    EndsAt = 1
    NotClosed = NotClosed
    NoMessage = NoMessage
    Limit = 1
    MaxLen = 2
    ReadCount = 2
    MaxClock = 2
    MaxFaults = 2
SPECIFICATION FairSpec
INVARIANT TypeOK
INVARIANT NeverClosedEarly
PROPERTY ClosedAtNeverMoves
PROPERTY BuriedOrTrimmed
PROPERTY ExpiredIsClosed
PROPERTY PendingIsDrained
