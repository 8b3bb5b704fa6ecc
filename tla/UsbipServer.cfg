SPECIFICATION FairServerSpec
CONSTANTS
    MaxReplies = 2
    MaxClients = 2
    MaxInterrupts = 8
INVARIANTS
    ServerTypeOK
    ServedAfterImport
    EightInterruptsExit
PROPERTY
    InterruptedEnds
CHECK_DEADLOCK FALSE
