SPECIFICATION FairFilesSpec
CONSTANTS
    t1 = t1
    t2 = t2
    Table = {t1, t2}
    Reader = {r1, r2}
    Layouts <- TwoLayouts
    MetaLength = 4
    DiskBlock = 4
    MemBlock = 3
    CacheBlock = 4
    Capacity = 1
INVARIANTS
    FilesTypeOK
    ReadersGetTheTable
    PublishedComplete
    UnlinkedStaysGone
PROPERTIES
    OpeningEnds
CHECK_DEADLOCK FALSE
