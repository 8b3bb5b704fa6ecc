SPECIFICATION Spec
CONSTANTS
    Device <- MCDevice
    Index = {0, 1, 3, 4}
    RequestLength = {2, 9, 64, 65535}
    ENDPOINT_MAX_DATA_LENGTH = 512
INVARIANTS
    EndpointsAsDescribed
    InterfacesListed
    OtherSpeedIsFullSpeed
    AnswersAsAnnounced
