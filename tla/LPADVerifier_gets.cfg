SPECIFICATION Spec
CONSTANTS
    Threads = {t1, t2}
    Kinds <- PutsAndGets
    MaxOps = 1
    NoThread = NoThread
PROPERTIES
    EveryGetReturns
