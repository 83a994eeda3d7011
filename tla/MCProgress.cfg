SPECIFICATION FairSpec
CONSTANTS
  Steps <- MixedSteps
  Outcome <- MixedOutcome
  StartStep = "check"
  StepType <- MixedStepType
  Allowed <- MixedAllowed
  Target <- MixedTarget
  SignalTypes = {"payment.receipt"}
  SignalType <- MixedSignalType
  ParamOutcome <- MixedParamOutcome
  MaxAttempts <- MixedMaxAttempts
  Rank <- MixedRank
  Owners = {"worker"}
  OwnerOf <- SameOwner
  Reconciler = reconciler
  ReceiptType = "payment.receipt"
  PrepareStep = "prepare"
  None = none
  Procs = {p1}
  Workers = {w1}
  Batch = 1
  MaxLease = 2
  Senders = {}
  Msgs = {m1}
  Bodies = {b1}
INVARIANT HistoryIsPath
PROPERTY FinalIsFinal
PROPERTY RunningSettles
PROPERTY ReceiptSettles
