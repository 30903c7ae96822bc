CONSTANTS
    MaxId = 1
    Targets <- MCTargets
    TargetOf <- MCTargetOf
    MaxBoot = 0
    UDA11 = FALSE
    MaxQueue = 6
    MaxResponses = 0
SPECIFICATION Spec
INVARIANTS
    GoneGroupsSaidGoodbye
CHECK_DEADLOCK FALSE
