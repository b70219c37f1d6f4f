SPECIFICATION Spec
CONSTANTS
    Tracks = {t1}
    Items = {"vest", "respirator"}
    FaceItems = {"respirator"}
    Looks <- MCLooks
    Window = 3
    MinimumSamples = 2
    PresentPercent = 35
    Cooldown = 4
    Ttl = 2
    Steps = {1, 3}
    FrameBound = 6
INVARIANTS
    BlameIsShown
    ViolationIsReported
PROPERTIES
    RepeatsAreSpaced
