SPECIFICATION Spec
CONSTANTS
    ByteBase = 2
    SeqBytes = 4
    NumKeys = 1
    MaxSeq = 4
    NumLevels = 3
    MaxMemCompactLevel = 2
    ManualRanges <- MCFullRange
    Instances <- MCSplit
INVARIANTS
    ReadsAgree
