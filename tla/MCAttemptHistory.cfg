SPECIFICATION Spec
CONSTANTS
  Steps <- CanarySteps
  Outcome = {"ok"}
  StartStep = "canary"
  StepType <- CanaryStepType
  Allowed <- CanaryAllowed
  Target <- CanaryTarget
  SignalTypes = {"payment.receipt"}
  SignalType <- CanarySignalType
  ParamOutcome <- CanaryParamOutcome
  MaxAttempts <- CanaryMaxAttempts
  Rank <- CanaryRank
  Owners = {"worker"}
  OwnerOf <- SameOwner
  Reconciler = reconciler
  ReceiptType = "payment.receipt"
  PrepareStep = "canary"
  None = none
  Procs = {p1}
  Workers = {w1, w2}
  Batch = 1
  MaxLease = 3
  Senders = {}
  Msgs = {}
  Bodies = {}
INVARIANT SuccessHistory
