SPECIFICATION Spec
CONSTANTS
    MAX_RTSP_CLIENT = 1
    nalu_sent_len = 3
    timestamp_increse = 1
    LenMod = 8
    FrameSize = {1}
    MaxFrames = 2
    MaxSessions = 1
CHECK_DEADLOCK FALSE
INVARIANTS
    FrameCountExact
