SPECIFICATION ExamplesSpec
CONSTANTS
    MaxSessions = 2
    BulkLength = {0, 300, 512}
    MaxBulkTransfers = 3
    LineCoding = {"9600"}
    LineState = {1, 2}
    CdcLength = {5, 6}
    MaxTicks = 2
    MaxCdcTransfers = 2
    Text <- MCLetter
    MaxConfigurations = 1
    MaxReports <- MCReports
    AUDIO_SAMPLES_PER_PACKET = 3
    PULSE_PERIOD_SAMPLES = 5
    PacketSpace = {5, 8}
    MaxSamples = 8
INVARIANT TypesOncePerAttach
CHECK_DEADLOCK FALSE
