CONSTANTS
    MaxId = 2
    Targets <- MCTargets
    TargetOf <- MCTargetOf
    MaxBoot = 0
    UDA11 = TRUE
    MaxQueue = 12
    MaxResponses = 1
SPECIFICATION FairSpec
INVARIANTS
    TypeOK
    TimersMatchState
    QueueIsServed
    InitialByebyesDone
    FirstWordIsByebye
    LastWordIsCurrent
    ResponsesAreOwned
PROPERTIES
    ByebyesComeGrouped
    DisposeSaysGoodbye
    AliveReachesTheNetwork
    ByebyeReachesTheNetwork
    SearchIsAnswered
CHECK_DEADLOCK FALSE
