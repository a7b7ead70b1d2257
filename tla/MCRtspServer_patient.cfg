SPECIFICATION FairSpec
CONSTANTS
    Client = {c1, c2, c3}
    MAX_RTSP_CLIENT = 1
    MaxFd = 3
    Patient = TRUE
CHECK_DEADLOCK FALSE
INVARIANTS
    SocketsClosed
PROPERTIES
    SessionEnds
