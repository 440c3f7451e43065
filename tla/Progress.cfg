SPECIFICATION MCSpec
CONSTANTS
    c1 = c1
    c2 = c2
    c3 = c3
    d1 = d1
    d2 = d2
    DBs = {d1, d2}
    Callers = {c1, c2, c3}
    DBOf <- MCDBOf
    Pieces = 1
    MaxNeeds = 1
    MaxErrors = 1
    None = None
    Names = {"open", "fillseq", "fillbatch", "fillrandom", "overwrite", "fillsync", "readseq", "readrandom", "readrandomsmall", "seekrandom", "deleteseq", "readwhilewriting", "compact", "crc32c", "snappycomp", "snappyuncomp", "stats"}
    FLAGS_num = 3
    FLAGS_threads = 2
    FLAGS_reads = 2
    ReadThreads = 2
    Thousand = 2
    SpinOps = 1
    MaxBenchmarks = 2
    MaxExtraWrites = 1
    ByteBase = 2
    SeqBytes = 3
    MaxChannels = 3
    InputBufferSize = 2
    OutputBufferSize = 2
    MaxCompactions = 2
    MCChannels = 2
    MCRecords = 4
    Inputs <- MCInputs
INVARIANTS
    BackgroundSound
    BenchmarksSound
    BuffersSound
    OutputIsMerge
PROPERTIES
    BackgroundProgress
    BenchmarksEnd
    MergeEnds
CHECK_DEADLOCK FALSE
