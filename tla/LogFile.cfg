SPECIFICATION LogFileSpec
CONSTANTS
    v1 = v1
    empty = empty
    large = large
    tomb = tomb
    garbled = garbled
    Key <- TwoKeys
    Value <- AllValues
    Tomb = tomb
    Garbled = garbled
    NoKey = 0
    First = 1
    Others <- OneOther
    MaxEntries = 3
    Length <- Lengths
    Capacity = 12
    LengthLimit = 4
    MaxSeq = 4
INVARIANTS
    BatchTypeOK
    LastWordOrNothing
    LogTypeOK
    RecoveredAsLogged
    OpensAgain
PROPERTIES
    LogOfEntries
CHECK_DEADLOCK FALSE
