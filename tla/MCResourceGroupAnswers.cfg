CONSTANTS
    MaxId = 1
    Targets <- MCTargets
    TargetOf <- MCTargetOf
    MaxBoot = 0
    UDA11 = FALSE
    MaxQueue = 6
    MaxResponses = 1
SPECIFICATION Spec
INVARIANTS
    AnswersOnlyWhileAvailable
CHECK_DEADLOCK FALSE
