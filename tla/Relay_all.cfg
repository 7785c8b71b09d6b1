\* Bytes, buffers and event masks, bulk data both ways, both ends closing at any time.
CONSTANTS
    ObCap = 2
    IbCap = 3
    ResultLen = 2
    MaxUp = 4
    MaxDown = 5
    Closing = {"app", "dev"}
    Hangup = TRUE
SPECIFICATION FairSpec
INVARIANTS TypeOK StreamsIntact NoLostWakeup
PROPERTIES ImplementsPipe DeliveredUnlessStalled HangupReachesClient
CHECK_DEADLOCK FALSE
