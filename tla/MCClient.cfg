CONSTANTS
    SSDP_PORT = 1900
    DynamicPorts = {5001, 5002}
    NONE = NONE
    mac = mac
    agent = agent
    other = other
    Givens <- MCGivens
    MACs <- MCMACs
    Agents <- MCAgents
    BootIds = {0, 1}
    ConfigIds = {0}
    VendorHeaders = {"DLNA"}
    MaxValues = 2
SPECIFICATION FairSpec
INVARIANTS
    DescriptorsAreAccounted
    IdsReachTheWire
    SocketsServeTheirRoles
    HostAddressFitsRequest
    ForeignPacketsStayOut
    AgentsFollowTheirHosts
PROPERTY InitialisationEnds
CHECK_DEADLOCK FALSE
