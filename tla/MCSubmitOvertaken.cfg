SPECIFICATION Spec
CONSTANTS
  Ops = {o1}
  Callers = {x1, x2}
  Msgs = {}
  MaxStamp = 4
  DirectSignals = FALSE
  GiveUps = FALSE
  None = none
CHECK_DEADLOCK FALSE
INVARIANT SubmitAnswered
