SPECIFICATION FairSpec
CONSTANTS
    Base = 8
    OutLength = 13
    InLength = 7
    Sizes <- ThreeSizes
    Ids <- HighIds
    MaxPackets = 2
INVARIANTS TypeOK WithinBuffer Framed
PROPERTIES FailsForCause Delivered
