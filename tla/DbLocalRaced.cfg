SPECIFICATION DbSpec
CONSTANTS
    w1 = w1
    w2 = w2
    background = background
    r1 = r1
    Key <- TwoKeys
    Batches = {}
    Task <- OneWriter
    Loops = {}
    From <- FromTop
    Percent <- Ratios
    Top = 0
    MaxLevel = 2
    Allowed <- TwoThenMany
    MaxTables = 0
    MaxTop = 0
    Writer <- OneWriter
    Reader = {r1}
    Writes <- SinglesAndPair
    MemBound = 2
    MaxSeq = 4
INVARIANTS
    AlwaysFresh
