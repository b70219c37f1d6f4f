SPECIFICATION FrameSpec
CONSTANTS
  Tensors <- MCTensors
  TrackSets <- MCTrackSets
  Transform <- MCTransform
  MaxCandidates = 4
  MaxDetections = 3
  NmsIou = 45
  PoseConfidence = 40
  TrackingConfidence = 10
  Thresholds <- MCThresholds
  Enabled <- MCEnabled
INVARIANTS
  DetectionsAreTheBest
  MatchingIsStable
  ItemsHaveOneOwner
CHECK_DEADLOCK FALSE
