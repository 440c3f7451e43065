SPECIFICATION Spec
CONSTANTS
    ByteBase = 2
    SeqBytes = 4
    NumKeys = 3
    MaxSeq = 5
    NumLevels = 3
    MaxMemCompactLevel = 2
    ManualRanges <- MCFullRange
    Instances <- MCManualGap
INVARIANTS
    LevelsDisjoint
