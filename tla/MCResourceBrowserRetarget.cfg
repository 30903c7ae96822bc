CONSTANTS
    Usns <- FewUsns
    Locations <- FewLocations
    BrowseTargets <- RetargetTargets
    HandlerStops = FALSE
SPECIFICATION Spec
INVARIANTS
    UnversionedTargetMatchesAll
CHECK_DEADLOCK FALSE
