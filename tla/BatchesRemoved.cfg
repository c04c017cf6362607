SPECIFICATION BatchSpec
CONSTANTS
    v1 = v1
    v2 = v2
    tomb = tomb
    Key <- ThreeKeys
    Value <- TwoValues
    Tomb = tomb
    NoKey = 0
    First = 7
    Others <- TwoOthers
    MaxEntries = 4
INVARIANTS
    RemovedIsDeleted
CHECK_DEADLOCK FALSE
