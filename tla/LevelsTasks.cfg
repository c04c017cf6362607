SPECIFICATION FairLevelsSpec
CONSTANTS
    background = background
    inserting = inserting
    Key <- TwoKeys
    Batches <- SingleKeys
    Task <- Both
    Loops <- Background
    From <- FromTop
    Percent <- Ratios
    Top = 0
    MaxLevel = 3
    Allowed <- ThreeThenMany
    MaxTables = 8
    MaxTop = 4
INVARIANTS
    LevelsTypeOK
    NothingLost
PROPERTIES
    NewestWinsAlone
    OverfullLevelCompacted
