CONSTANTS
    Last = 2
    Pools = {10, 25}
    Rates = {4, 6}
    MaxLoads = 3
    MaxMoves = 2
    NoFile = NoFile
SPECIFICATION Spec
INVARIANT TypeOK
INVARIANT PublishedIsOneExperiment
PROPERTY GreenIsKept
CHECK_DEADLOCK FALSE
