SPECIFICATION MCSpec
CONSTANTS
  n1 = n1
  n2 = n2
  MaxOutput = 2
  Confidences = {0, 1}
  DefaultConfidence = 0
  Names = {n1, n2}
  NoName = NoName
  Versions = {1, 2}
  PersistentSecrets = TRUE
INVARIANTS
  RuntimeIsSupervised
  VerdictIsTrue
  AnnouncedIsKept
  ProfilesAreKept
PROPERTY StopEnds
CHECK_DEADLOCK FALSE
