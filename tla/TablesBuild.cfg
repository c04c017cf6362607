SPECIFICATION TablesSpec
CONSTANTS
    tomb = tomb
    empty = empty
    long = long
    Key <- SixKeys
    SeqNum = {1, 2, 3}
    Value <- Values
    Tomb = tomb
    Empty = empty
    KeyBytes <- TwoLong
    ValueBytes <- LongHas60
    BlockSize = 110
    SizeLimit = 8
    Interval = 5
    Hashes = 44
    Listed <- Some
    FilterBytes = 3
    PrefixLimit = 15
    FullAt = {113, 126}
INVARIANTS
    TablesTypeOK
    ReadBack
    LookupsFind
    DisjointExact
    BlocksParse
    TablesOpen
CHECK_DEADLOCK FALSE
