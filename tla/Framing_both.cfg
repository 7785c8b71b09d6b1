SPECIFICATION FairSpec
CONSTANTS
    Hdr = 2
    IbCap = 4
    Length = {1, 2, 4, 5}
    MaxPacket = 2
    MaxReply = 2
INVARIANT TypeOK
INVARIANT InStep
INVARIANT InOrder
PROPERTY Handled
PROPERTY EofNoticed
PROPERTY RepliesSent
CHECK_DEADLOCK FALSE
