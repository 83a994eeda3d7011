SPECIFICATION Spec
CONSTANTS
    Callers = {c1, c2}
    Messages = {m1, m2}
    Unknown = {m2}
    Narrow = {m1}
    MaxFaults = 2
INVARIANT KeyIsAnswerable
INVARIANT SuccessIsDurable
INVARIANT RepeatsAgree
INVARIANT UncheckedOnlyWhenSwitched
PROPERTY InboxStays
PROPERTY CallbackAccepted
