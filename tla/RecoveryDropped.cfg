SPECIFICATION RecoverySpec
CONSTANTS
    w1 = w1
    w2 = w2
    Key <- TwoKeys
    Writer <- OneWriter
    Writes <- SinglesAndPair
    MemBound = 2
    LogRoom = 2
    MaxSeq = 4
    MaxStops = 2
INVARIANTS
    NoneDropped
CHECK_DEADLOCK FALSE
