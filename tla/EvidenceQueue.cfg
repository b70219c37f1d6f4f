SPECIFICATION Spec
CONSTANTS
    Events = {e1, e2, e3, e4}
    PpeEvents = {e1, e3}
    Producers = {monitor}
    Capacity = 2
    NoEvent = NoEvent
INVARIANTS
    QueueInv
    FilesAgree
    DrainAccountsForAll
PROPERTIES
    QueueProceeds
    ImplementsChannel
