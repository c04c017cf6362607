SPECIFICATION FairDbSpec
CONSTANTS
    w1 = w1
    w2 = w2
    background = background
    r1 = r1
    Key <- OneKey
    Batches = {}
    Task <- TwoWritersOneLoop
    Loops <- Background
    From <- FromTop
    Percent <- Ratios
    Top = 0
    MaxLevel = 2
    Allowed <- ThreeThenMany
    MaxTables = 0
    MaxTop = 0
    Writer <- TwoWriters
    Reader = {}
    Writes <- OnceOrTwice
    MemBound = 1
    MaxSeq = 6
INVARIANTS
    DbTypeOK
    AckedKept
PROPERTIES
    InsertReturns
