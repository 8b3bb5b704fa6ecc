SPECIFICATION FairGudSpec
CONSTANTS
    DISPLAY_WIDTH = 2
    DISPLAY_HEIGHT = 2
    DISPLAY_MAX_BUFFER_SIZE = 4
    DISPLAY_COMPRESSION = {}
    display_formats = {"RGB565"}
    window_open = TRUE
    GetRequest <- MCGetRequest
    BufferRequest <- MCBufferRequest
    StateRequest <- MCStateRequest
    Malformed = Malformed
    ChunkLength = {2, 4}
    MaxRectangles = 2
    MaxResets = 2
INVARIANTS
    GudTypeOK
    PendingFits
    FramebufferIsImage
    WindowUpToDate
    EveryRectangleCounted
PROPERTIES
    RefusedChangesNothing
    ImageIsShown
CHECK_DEADLOCK FALSE
