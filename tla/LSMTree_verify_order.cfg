SPECIFICATION Spec
CONSTANTS
    ByteBase = 2
    SeqBytes = 4
    NumKeys = 2
    MaxSeq = 3
    NumLevels = 3
    MaxMemCompactLevel = 2
    ManualRanges <- MCFullRange
    Instances <- MCVerifyOrder
INVARIANTS
    ReadsAgree
