SPECIFICATION FairSpec
CONSTANTS
    MAX_RTSP_CLIENT = 1
    nalu_sent_len = 3
    timestamp_increse = 1
    LenMod = 8
    FrameSize = {0, 2, 5, 6, 11}
    MaxFrames = 2
    MaxSessions = 3
CHECK_DEADLOCK FALSE
INVARIANTS
    TypeOK
    BuffersOwned
    FrameComplete
PROPERTIES
    FramesInOrder
    QueueDrains
