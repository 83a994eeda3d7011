SPECIFICATION Spec
CONSTANTS
  Steps <- ReceiptSteps
  Outcome = {"ok"}
  StartStep = "prepare"
  StepType <- ReceiptStepType
  Allowed <- ReceiptAllowed
  Target <- ReceiptTarget
  SignalTypes = {"payment.receipt"}
  SignalType <- ReceiptSignalType
  ParamOutcome <- ReceiptParamOutcome
  MaxAttempts <- ReceiptMaxAttempts
  Rank <- ReceiptRank
  Owners = {"worker"}
  OwnerOf <- SameOwner
  Reconciler = reconciler
  ReceiptType = "payment.receipt"
  PrepareStep = "prepare"
  None = none
  Procs = {p1}
  Workers = {w1, w2}
  Batch = 1
  MaxLease = 2
  Senders = {s1, s2}
  Msgs = {m1, m2}
  Bodies = {b1, b2}
SYMMETRY EngineSymmetry
INVARIANT TypeOK
INVARIANT TablesAgree
INVARIANT OneEffect
INVARIANT LeaseExclusive
INVARIANT RetryBudget
INVARIANT NoLostSignal
INVARIANT OneSignalPerWait
INVARIANT InboxReachesSignal
