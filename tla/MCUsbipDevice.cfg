SPECIFICATION DeviceSpec
CONSTANTS
    t1 = t1
    t2 = t2
    Thread = {t1, t2}
    Server = Server
    Nobody = Nobody
    InEp = {1}
    ENDPOINT_MAX_DATA_LENGTH = 2
    TransmitLength = {1, 3}
    FetchLength = {1, 3}
    DescriptorLength <- MCDescriptorLength
    Setup <- MCSetup
    HasResetCallback = TRUE
    MaxTransmits = 3
    MaxResets = 2
    MaxRequests = 1
INVARIANTS
    DeviceTypeOK
    SleepersHaveCause
    SessionIsolation
    ReplyIsFresh
    CriticalSectionsExclude
    NobodyWaitsHoldingTheLock
PROPERTY
    HostStreamSpec
SYMMETRY Symmetry
