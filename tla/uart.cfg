SPECIFICATION Spec
CONSTANTS
    BUF_LEN = 3
    FIFO_LEN = 2
    WriteThreshold = 1
    IntMax = 5
    DefaultTimeout = 2
    MaxPut = 5
    MaxTimed = 5
    MaxTyped = 5
    MaxCall = 2
INVARIANTS TypeOK SendingKicked ReceivingArmed
PROPERTIES WrittenIsHeard TypedIsRead WritesReturn AwayReleases AcceptedIsSent TypedIsReceived
