SPECIFICATION Spec
CONSTANTS
    Tracks = {t1}
    Poses <- MCPoses
    ConfirmFrames = 2
    ResetFrames = 2
    Cooldown = 6
    Ttl = 3
    DescentWindow = 1
    DescentHold = 2
    Steps = {1, 3}
    FrameBound = 9
PROPERTIES
    AlertNeedsEvidence
    OneAlertPerFall
