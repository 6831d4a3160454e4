CONSTANTS
    Window = 1
    HighWater = 2
    LowWater = 1
    PubSubLimit = 3
    QueueLimit = 1
    MaxChunk = 2
    MaxRequests = 6
    MaxFrames = 6
SPECIFICATION Spec
PROPERTY ClosedConnectionsEnd
CHECK_DEADLOCK FALSE
