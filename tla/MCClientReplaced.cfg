CONSTANTS
    SSDP_PORT = 1900
    DynamicPorts = {5001, 5002}
    NONE = NONE
    mac = mac
    agent = agent
    other = other
    Givens <- GivenPort
    MACs <- MCMACs
    Agents <- MCAgents
    BootIds = {0, 1}
    ConfigIds = {0}
    VendorHeaders = {"DLNA"}
    MaxValues = 2
SPECIFICATION Spec
INVARIANTS
    SearchesLeaveFromThePort
CHECK_DEADLOCK FALSE
