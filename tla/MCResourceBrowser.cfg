CONSTANTS
    Usns <- MCUsns
    Locations <- MCLocations
    BrowseTargets <- MCTargets
    HandlerStops = FALSE
SPECIFICATION Spec
INVARIANTS
    TypeOK
    DiscoveryIsInOnePhase
    ApplicationKnowsTheCache
    CacheMatchesTarget
    StoppedBrowserIsEmpty
PROPERTIES
    NewLocationsAreTold
    RefreshDropsTheSilent
CHECK_DEADLOCK FALSE
