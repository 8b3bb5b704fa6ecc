SPECIFICATION ServerSpec
CONSTANTS
    MaxReplies = 2
    MaxClients = 1
    MaxInterrupts = 3
INVARIANT
    DetachIsTold
CHECK_DEADLOCK FALSE
