SPECIFICATION FairSpec
CONSTANTS
    f1 = f1  f2 = f2  f3 = f3
    v1 = v1  v2 = v2  v3 = v3
    u1 = u1  u2 = u2
    r1 = r1  r2 = r2
    NoVersion = NoVersion
    File <- TwoFiles
    Version <- ThreeVersions
    Updater <- OneUpdater
    Reader <- OneReader
    MaxCrashes = 1
INVARIANTS
    PinnedTablesReadable
    QuiescentCurrentPersisted
PROPERTIES
    GarbageVersionErased
    GarbageTableUnlinked
