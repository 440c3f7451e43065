INIT MCInit
NEXT MCNext
CONSTANTS
    Threads = {t1, t2, t3}
    Kinds <- PutsAndGets
    MaxOps = 1
    NoThread = NoThread
    VersionReaders = {v1}
    VersionKeys = {1, 2, 3}
    FlushContents <- MCContents
    MaxTableFlushes = 3
    MaxVersionReads = 1
    MaxVersionFaults = 1
    kNumLevels = 3
    kMaxMemCompactLevel = 1
    kL0_CompactionTrigger = 2
    kMinSeeks = 1
    kLevelBase = 2
    TableFiles = {1, 2, 3}
    Hash <- MCHash
    Readers = {c1, c2}
    Capacity = 2
    MmapLimit = 2
    InitialLength = 1
    MaxOpenFails = 1
    UserKeys = {1, 2}
    kMaxHeight = 2
    MaxEntries = 3
    MemReaders = {m1}
    MaxReads = 2
    Handles = {"h1", "h2", "h3"}
    Processes = {"p1", "p2"}
    ProcessOf <- MCProcessOf
    MaxInodes = 2
    RepairKeys = {1, 2}
    Garbage = 9
    MaxWrites = 3
    MaxFiles = 7
    MaxRepairFaults = 2
    MaxPosixTables = 2
    MaxPosixCrashes = 2
    MaxPosixFaults = 1
SYMMETRY Symmetry
INVARIANTS
    TypeOK
    HonestStoreAccepted
    HistoryIsPrefix
    PendingAreOpen
    VersionsKept
    VersionReadsSound
    CacheExact
    ListReadsExact
    LockSound
    RepairSound
    CrashKeepsTables
CHECK_DEADLOCK FALSE
