CONSTANTS
    Usns <- FewUsns
    Locations <- FewLocations
    BrowseTargets <- FewTargets
    HandlerStops = TRUE
SPECIFICATION FairSpec
PROPERTIES
    SignalsAlternate
    DiscoveryEnds
    SilentResourcesAreForgotten
CHECK_DEADLOCK FALSE
