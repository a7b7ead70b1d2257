SPECIFICATION FairSpec
CONSTANTS
    Client = {c1, c2}
    MAX_RTSP_CLIENT = 1
    MaxFd = 2
    Patient = FALSE
CHECK_DEADLOCK FALSE
INVARIANTS
    TypeOK
    NoOrphanSession
PROPERTIES
    BacklogServed
