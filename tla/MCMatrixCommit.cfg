CONSTANTS
    Last = 2
    Pools = {10}
    Rates = {4}
    MaxLoads = 2
    MaxMoves = 2
    NoFile = NoFile
SPECIFICATION Spec
INVARIANT BuiltFromItsCommit
CHECK_DEADLOCK FALSE
