SPECIFICATION RecoverySpec
CONSTANTS
    w1 = w1
    w2 = w2
    Key <- TwoKeys
    Writer <- TwoWriters
    Writes <- OneToFour
    MemBound = 3
    LogRoom = 2
    MaxSeq = 4
    MaxStops = 3
SYMMETRY WriterSymmetry
INVARIANTS
    RecoveryTypeOK
    AckedStoredOrLost
    BatchWhole
    StoredAreOlderUnlessCrashed
CHECK_DEADLOCK FALSE
