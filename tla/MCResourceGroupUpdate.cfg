CONSTANTS
    MaxId = 1
    Targets <- MCTargets
    TargetOf <- MCTargetOf
    MaxBoot = 1
    UDA11 = TRUE
    MaxQueue = 12
    MaxResponses = 0
SPECIFICATION Spec
PROPERTIES
    FirstUpdateIsCorrect
CHECK_DEADLOCK FALSE
