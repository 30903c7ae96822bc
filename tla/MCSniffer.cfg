CONSTANTS
    Usns <- MCUsns
    DeviceTypes <- MCDeviceTypes
    Locations <- MCLocations
    MaxPackets = 1
    NONE = NONE
SPECIFICATION Spec
INVARIANTS
    RowsAreBelieved
    CountersMatchTheLists
