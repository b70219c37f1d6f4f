SPECIFICATION Spec
CONSTANTS
  Sources = 2
  MaxFrames = 2
  MaxEvents = 1
  MaxBatch = 2
  Capacity = 1
  TargetFps = TRUE
INVARIANTS
  AnalyticsIsSound
  NothingIsLost
  LastFrameIsSeen
PROPERTY MonitorEnds
CHECK_DEADLOCK FALSE
