SPECIFICATION Spec
CONSTANTS
    t1 = t1
    t2 = t2
    t3 = t3
    Writers <- MCWriters
    Requests <- Mixed
    MaxWrites = 1
    WriteBufferSize = 1
    MaxGroupSize = 4
    SmallGroupSize = 1
    L0CompactionTrigger = 1
    L0SlowdownTrigger = 1
    L0StopTrigger = 2
    InitialL0 = {0, 2}
    MaxFaults = 1
    BG = BG
    Nobody = Nobody
INVARIANTS
    EntriesExact
    SingleLogger
    NoLostWakeup
    AnswersHonest
PROPERTIES
    ImplementsAtomicWrites
    EveryCallReturns
    ImmIsFlushed
