INIT MCInit
NEXT MCNext
CONSTANTS
    kBlockSize = 7
    kHeaderSize = 3
    RecordSizes = {0, 1, 3, 9}
    MaxRecords = 3
    TableKeys <- MCTableKeys
    BloomHash <- MCBloomHash
    MaxByte = 2
    MaxTag = 3
    RestartInterval = 2
    BlockSizes = {1, 50}
    BaseLg = 5
    BitsPerKey = 10
    BloomProbes = 3
    MaxTableEntries = 4
    GroupBits = 2
    Width32 = 5
    Width64 = 9
    NumLevels = 2
    EditNumbers = {0, 4, 31, 511}
    EditKeys <- MCEditKeys
    MaxFields = 2
    BatchKeys <- MCBatchKeys
    MaxBatch = 4
    DigitChars = {0, 2, 5, 6}
    MaxDigits = 4
    MaxU64 = 255
    ArenaBlock = 16
    Align = 4
    PieceSizes = {1, 2, 3, 4, 6}
    MaxPieces = 4
    IterKeys = {1, 2}
    MaxSequence = 4
    MaxRuns = 3
INVARIANTS
    LogReadExact
    TableReadsExact
    DecodersInvert
    PiecesDisjoint
    IteratorStable
CHECK_DEADLOCK FALSE
