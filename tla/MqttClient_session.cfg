CONSTANTS
    MaxMessages = 2
    MaxIncoming = 1
    MaxInFlight = 2
    MaxTroubles = 1
    Sorts <- TwoCalls
SPECIFICATION FairSpec
INVARIANTS TypeOK PublishedArrived ExactlyOnce HeardBeforeAck
PROPERTIES ImplementsDelivery Drains StopReturns
