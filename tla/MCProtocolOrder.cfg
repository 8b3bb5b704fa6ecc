SPECIFICATION ProtocolSpec
CONSTANTS
    t1 = t1
    Thread = {t1}
    Server = Server
    Nobody = Nobody
    InEp = {1}
    OutEp = {}
    ENDPOINT_MAX_DATA_LENGTH = 2
    TransmitLength = {1}
    FetchLength = {1, 2}
    SubmitLength = {1}
    PacketCount = {1}
    DescriptorLength <- NoDescriptors
    Setup <- NoSetup
    EndpointType <- BulkType
    Interval <- Unpaced
    HasEpDataCallback = TRUE
    HasIsoInCallback = TRUE
    HasResetCallback = FALSE
    MAX_PENDING_URBS = 2
    WAIT_TIMEOUT_US = 1
    MaxTransmits = 1
    MaxResets = 2
    MaxRequests = 2
    MaxCommands = 2
    MaxTime = 0
PROPERTY
    OldestGetsData
