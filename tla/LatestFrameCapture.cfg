SPECIFICATION Spec
CONSTANTS
    Sources <- MCSources
    BaseDelay = 1
    MaxDelay = 3
    RetryBound = 2
    FrameBound = 4
    RunBound = 2
INVARIANTS
    SlotIsLatest
    DropsAreCounted
    LastFrameDelivered
    RtspNeverGivesUp
PROPERTIES
    CaptureProceeds
