SPECIFICATION Spec
CONSTANTS
    Writers = {t1, t2, t3}
    Requests <- Unit
    Kinds <- Puts
    MaxWrites = 1
    WriteBufferSize = 3
    MaxGroupSize = 4
    SmallGroupSize = 2
    L0CompactionTrigger = 1
    L0SlowdownTrigger = 1
    L0StopTrigger = 2
    InitialL0 = {0, 1}
    MaxFaults = 0
    BG = BG
    Nobody = Nobody
SYMMETRY Symmetry
INVARIANTS
    BenchAccepted
    HistoryCatchesUp
