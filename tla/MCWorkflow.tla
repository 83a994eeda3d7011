------------------------------ MODULE MCWorkflow ------------------------------
(***************************************************************************)
(* Flow maps for the model checker: the training map of migration 012 cut  *)
(* to its automatic step, and the payment maps of migration 016 without    *)
(* the steps that only repeat one already there.                           *)
(***************************************************************************)
EXTENDS Workflow, TLC

\* invoke_canary -> done
CanarySteps == {"canary", "done"}
CanaryStepType == [canary |-> "AUTOMATIC", done |-> "END"]
CanaryAllowed == [canary |-> {"ok"}, done |-> {}]
CanaryTarget == [s \in CanarySteps |-> [o \in {"ok"} |-> "done"]]
CanaryRank == [canary |-> 0, done |-> 1]
CanaryMaxAttempts == [s \in CanarySteps |-> 2]
CanarySignalType == [s \in CanarySteps |-> "payment.receipt"]
CanaryParamOutcome == [s \in CanarySteps |-> "ok"]

\* prepare_external_request -> validate_operation -> wait_receipt -> done: a
\* receipt can arrive before the process waits for it
ReceiptSteps == {"prepare", "validate", "wait", "done"}
ReceiptStepType ==
    [prepare |-> "AUTOMATIC", validate |-> "AUTOMATIC", wait |-> "WAIT_SIGNAL", done |-> "END"]
ReceiptAllowed ==
    [prepare |-> {"ok"}, validate |-> {"ok"}, wait |-> {"ok"}, done |-> {}]
ReceiptTarget ==
    [s \in ReceiptSteps |-> [o \in {"ok"} |->
        CASE s = "prepare" -> "validate" [] s = "validate" -> "wait" [] OTHER -> "done"]]
ReceiptRank == [prepare |-> 0, validate |-> 1, wait |-> 2, done |-> 3]
ReceiptMaxAttempts == [s \in ReceiptSteps |-> IF s = "prepare" THEN 2 ELSE 1]
ReceiptSignalType == [s \in ReceiptSteps |-> "payment.receipt"]
ReceiptParamOutcome == [s \in ReceiptSteps |-> "ok"]

\* check_limit -> prepare | manual decision -> prepare | done; prepare -> validate -> wait
\* -> done: both payment maps in one, with every kind of step
MixedSteps == {"check", "manual", "prepare", "validate", "wait", "done"}
MixedOutcome == {"YES", "NO"}
MixedStepType ==
    [check |-> "AUTOMATIC", manual |-> "MANUAL", prepare |-> "AUTOMATIC",
     validate |-> "AUTOMATIC", wait |-> "WAIT_SIGNAL", done |-> "END"]
MixedAllowed ==
    [check |-> {"YES", "NO"}, manual |-> {"YES", "NO"}, prepare |-> {"YES"}, validate |-> {"YES"},
     wait |-> {"YES"}, done |-> {}]
MixedTarget ==
    [s \in MixedSteps |-> [o \in MixedOutcome |->
        CASE s = "check" /\ o = "NO"   -> "manual"
          [] s = "manual" /\ o = "NO"  -> "done"
          [] s \in {"check", "manual"} -> "prepare"
          [] s = "prepare"             -> "validate"
          [] s = "validate"            -> "wait"
          [] OTHER                     -> "done"]]
MixedRank == [check |-> 0, manual |-> 1, prepare |-> 2, validate |-> 3, wait |-> 4, done |-> 5]
MixedMaxAttempts == [s \in MixedSteps |-> IF s = "check" THEN 1 ELSE 2]
MixedSignalType == [s \in MixedSteps |-> "payment.receipt"]
MixedParamOutcome == [s \in MixedSteps |-> "YES"]

\* Two workers that share an owner name: a worker and its restart.
SameOwner == [w \in Workers |-> "worker"]

EngineSymmetry == Permutations(Workers) \cup Permutations(Senders)
                  \cup Permutations(Msgs) \cup Permutations(Bodies)
===============================================================================
