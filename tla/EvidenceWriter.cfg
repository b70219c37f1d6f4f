SPECIFICATION Spec
CONSTANTS
    Events = {e1, e2, e3}
    PpeEvents = {e1, e2}
    NoEvent = NoEvent
    RunBound = 3
INVARIANTS
    RecordHasImage
    ReportsAreReadable
    StraysAreExplained
