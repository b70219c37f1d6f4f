SPECIFICATION Spec
CONSTANTS
    Frames = {f1, f2, f3}
    NoFrame = NoFrame
    Callers = {c1, c2}
    NoCaller = NoCaller
    Paths = {"serial", "hybrid", "overlap"}
    WithPerson = {f1, f2}
INVARIANTS
    PoseBelongsToCall
    PathsAgree
PROPERTIES
    CallReturns
