CONSTANTS
    v1 = v1
    v2 = v2
    a1 = a1
    a2 = a2
    VUs = {v1, v2}
    Auctions = {a1, a2}
    MaxIterations = 1
    MaxRetries = 2
    MaxLosses = 1
    NoKey = NoKey
    NoBody = NoBody
SYMMETRY Symmetry
SPECIFICATION Spec
INVARIANT TypeOK
INVARIANT NoFalseLoss
INVARIANT LossIsReported
INVARIANT CleanCellPasses
CHECK_DEADLOCK FALSE
