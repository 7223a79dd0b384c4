CONSTANTS
    r1 = r1
    r2 = r2
    r3 = r3
    k1 = k1
    Ids = {r1, r2, r3}
    Keys = {k1}
    NoKey = NoKey
    NoBody = NoBody
    MaxTries = 2
SPECIFICATION Spec
SYMMETRY IdSymmetry
INVARIANT TypeOK
INVARIANT OneBidPerKey
INVARIANT MarksExpire
INVARIANT DuplicatesCostAMark
PROPERTY StoredAnswerIsFinal
PROPERTY ImplementsKeyedBids
CHECK_DEADLOCK FALSE
