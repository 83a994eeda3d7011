SPECIFICATION Spec
CONSTANTS
    MaxFaults = 1
INVARIANT UnknownOutcomeCounts
CHECK_DEADLOCK FALSE
