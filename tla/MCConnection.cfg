CONSTANTS
    Window = 1
    HighWater = 1
    LowWater = 1
    PubSubLimit = 3
    QueueLimit = 1
    MaxChunk = 3
    MaxRequests = 6
    MaxFrames = 5
SPECIFICATION Spec
INVARIANTS TypeOK NothingLost BacklogBounded
PROPERTIES FramesInOrder WaitsEnd ConnectionsEnd
CHECK_DEADLOCK FALSE
