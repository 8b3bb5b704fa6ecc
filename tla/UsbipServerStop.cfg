SPECIFICATION FairServerSpec
CONSTANTS
    MaxReplies = 2
    MaxClients = 1
    MaxInterrupts = 3
PROPERTY
    StopMakesCallsReturn
CHECK_DEADLOCK FALSE
