SPECIFICATION ProtocolSpec
CONSTANTS
    t1 = t1
    Thread = {t1}
    Server = Server
    Nobody = Nobody
    InEp = {1, 2}
    OutEp = {}
    ENDPOINT_MAX_DATA_LENGTH = 2
    TransmitLength = {1}
    FetchLength = {0, 1}
    SubmitLength = {0, 1}
    PacketCount = {1, 2}
    DescriptorLength <- NoDescriptors
    Setup <- NoSetup
    EndpointType <- InterruptAndIso
    Interval <- Paced
    HasEpDataCallback = TRUE
    HasIsoInCallback = TRUE
    HasResetCallback = FALSE
    MAX_PENDING_URBS = 2
    WAIT_TIMEOUT_US = 3
    MaxTransmits = 1
    MaxResets = 2
    MaxRequests = 4
    MaxCommands = 4
    MaxTime = 2
INVARIANTS
    NoLostWakeUp
    ExactlyOneAnswer
    IsoInOrder
