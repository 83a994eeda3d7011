SPECIFICATION Spec
CONSTANTS
    Callers = {c1, c2}
    Messages = {m1}
    Unknown = {}
    Narrow = {m1}
    MaxFaults = 1
INVARIANT ReturnsAfterCommit
