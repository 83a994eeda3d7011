SPECIFICATION FairSpec
CONSTANTS
  Ops = {o1}
  Callers = {x1, x2}
  Msgs = {m1}
  MaxStamp = 2
  DirectSignals = FALSE
  GiveUps = FALSE
  None = none
CHECK_DEADLOCK FALSE
PROPERTY ReceiptDecides
PROPERTY DecisionDecides
