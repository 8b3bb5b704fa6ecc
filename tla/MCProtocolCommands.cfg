SPECIFICATION FairProtocolSpec
CONSTANTS
    t1 = t1
    Thread = {t1}
    Server = Server
    Nobody = Nobody
    InEp = {1}
    OutEp = {2, 3}
    ENDPOINT_MAX_DATA_LENGTH = 2
    TransmitLength = {1}
    FetchLength = {1}
    SubmitLength = {1}
    PacketCount = {1}
    DescriptorLength <- NoDescriptors
    Setup <- MCSetup
    EndpointType <- BulkAndIso
    Interval <- Unpaced
    HasEpDataCallback = TRUE
    HasIsoInCallback = TRUE
    HasResetCallback = FALSE
    MAX_PENDING_URBS = 2
    WAIT_TIMEOUT_US = 1
    MaxTransmits = 2
    MaxResets = 4
    MaxRequests = 3
    MaxCommands = 3
    MaxTime = 0
INVARIANTS
    ProtocolTypeOK
    HostSeesItsSession
    NothingToUnlinkMeansAnswered
PROPERTY
    DataReachesHost
