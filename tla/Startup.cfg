SPECIFICATION StartupSpec
CONSTANTS
  Starts <- MCStarts
  PipeRoom = 3
  MaxLines = 2
  MaxEdits = 2
INVARIANTS
  CpuIsExplained
  AutoServes
  WarmupDecides
  LoadedIsVerified
  LaunchedIsUnderstood
PROPERTY StartupDecides
CHECK_DEADLOCK FALSE
