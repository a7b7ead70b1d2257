SPECIFICATION FairSpec
CONSTANTS
    THREAD_COUNT = 2
    FRAMEBUFFER_COUNT = 2
    Faulty = {1}
    MaxFrames = 5
INVARIANTS
    TypeOK
    InstanceExclusive
    RoundRobin
    StreamedFramesIntact
    BuffersReturned
    NoLostWakeup
PROPERTIES
    NoWriteInFlight
    StreamInOrder
    CaptureProgress
    HandoverEnds
