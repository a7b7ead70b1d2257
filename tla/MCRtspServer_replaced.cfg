SPECIFICATION Spec
CONSTANTS
    Client = {c1, c2}
    MAX_RTSP_CLIENT = 1
    MaxFd = 3
    Patient = FALSE
CHECK_DEADLOCK FALSE
PROPERTIES
    EndsOwnSession
