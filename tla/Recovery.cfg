SPECIFICATION Spec
CONSTANTS
    MaxWrites = 2
    MaxCrashes = 2
    MaxFails = 2
    MaxCompactions = 1
    MaxHeld = 1
INVARIANTS
    NumbersFresh
    NothingLost
    NeededTablesExist
    
