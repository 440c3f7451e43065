SPECIFICATION Spec
CONSTANTS
    MaxWrites = 2
    MaxCrashes = 1
    MaxFails = 1
    MaxCompactions = 0
    MaxHeld = 0
INVARIANTS
    AcknowledgedSurvive
