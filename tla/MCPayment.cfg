SPECIFICATION Spec
CONSTANTS
  Ops = {o1}
  Callers = {x1, x2}
  Msgs = {m1, m2}
  MaxStamp = 4
  DirectSignals = TRUE
  GiveUps = TRUE
  None = none
SYMMETRY Symmetry
CHECK_DEADLOCK FALSE
INVARIANT StatusFollowsProcess
INVARIANT FinalHasEvidence
INVARIANT EventsTellStatus
INVARIANT OneDecision
PROPERTY FinalStatusStays
