------------------------------ MODULE Checkers -------------------------------
(***************************************************************************)
(* The acceptance checkers of weeks 2 and 4 and the scenarios they play    *)
(* against a candidate.  A behaviour is one of these programs, from its    *)
(* start to its end; the variables of the others are not used.  The        *)
(* programs share the names of the variables they have in common.          *)
(***************************************************************************)
EXTENDS Naturals

CONSTANTS
    KeepStack,      \* --keep-stack
    MaxFailures,    \* bound: checks that fail of their own
    MaxFaults,      \* bound: faults of a candidate
    OutageFaults,   \* bound: the same for the outage scenario
    WorkerClaims,   \* bound: claims of a job
    OutageClaims,   \* bound: claims of a delivery
    OutageAttempts, \* attempts the contract of week 4 allows
    MaxDocker,      \* bound: compose commands that fail
    MaxLeaks        \* bound: secrets in the logs

ASSUME CheckersTypes ==
    /\ KeepStack \in BOOLEAN
    /\ {MaxFailures, MaxFaults, OutageFaults, OutageClaims, MaxDocker, MaxLeaks} \subseteq Nat
    /\ {OutageAttempts, WorkerClaims} \subseteq Nat \ {0}

VARIABLES
    program,        \* the program that runs
    pc, checks, extra, raised, armed, left, status, code, report,
    faults, job, due, attempts, effects, dispatches, events, waiting, worker, acks, seen, result,
    late, doubled, active, proc, signals, up,
    svc, dirty, caught, lost, evidence, failed, cleaned,
    row, disp, provider, payments, operation, pending, verdict, docker,
    op, outbox, paid, inbox, decided, hand, dispatching, reconciling, before, early

\* The variables of one program only, and those that several share.
runOnly == <<checks, raised>>
workerOnly == <<job, attempts, effects, dispatches, waiting, worker, acks, doubled>>
signalOnly == <<active, proc, signals, up>>
stageOnly == <<svc, dirty, caught, lost, evidence, failed, cleaned>>
outageOnly == <<row, disp, provider, payments, operation, pending, docker>>
receiptOnly == <<op, outbox, paid, inbox, decided, hand, dispatching, reconciling, before, early>>
main == <<armed, left, status, code, report>>
phase == <<events, result>>
candidate == <<faults, late>>

vars == <<program, pc, extra, due, seen, verdict, main, phase, candidate,
          runOnly, workerOnly, signalOnly, stageOnly, outageOnly, receiptOnly>>

Run == INSTANCE CheckRun
Work == INSTANCE WorkerProbe WITH MaxClaims <- WorkerClaims
Sign == INSTANCE SignalProbe
Stag == INSTANCE StageRun
Outa == INSTANCE OutageProbe WITH MaxClaims <- OutageClaims, MaxAttempts <- OutageAttempts, MaxFaults <- OutageFaults
Rece == INSTANCE ReceiptProbe

-----------------------------------------------------------------------------
(* A program leaves the variables alone that it does not have. *)

Unused == "unused"
NoRunOnly == checks = Unused /\ raised = Unused
NoWorkerOnly ==
    /\ job = Unused /\ attempts = Unused /\ effects = Unused /\ dispatches = Unused
    /\ waiting = Unused /\ worker = Unused /\ acks = Unused /\ doubled = Unused
NoSignalOnly == active = Unused /\ proc = Unused /\ signals = Unused /\ up = Unused
NoStageOnly ==
    /\ svc = Unused /\ dirty = Unused /\ caught = Unused /\ lost = Unused
    /\ evidence = Unused /\ failed = Unused /\ cleaned = Unused
NoOutageOnly ==
    /\ row = Unused /\ disp = Unused /\ provider = Unused /\ payments = Unused
    /\ operation = Unused /\ pending = Unused /\ docker = Unused
NoReceiptOnly ==
    /\ op = Unused /\ outbox = Unused /\ paid = Unused /\ inbox = Unused /\ decided = Unused
    /\ hand = Unused /\ dispatching = Unused /\ reconciling = Unused /\ before = Unused /\ early = Unused
NoMain == armed = Unused /\ left = Unused /\ status = Unused /\ code = Unused /\ report = Unused
NoPhase == events = Unused /\ result = Unused
NoCandidate == faults = Unused /\ late = Unused

Init ==
    \/ /\ program = "run" /\ Run!Init
       /\ due = Unused /\ seen = Unused /\ verdict = Unused
       /\ NoWorkerOnly /\ NoSignalOnly /\ NoStageOnly /\ NoOutageOnly /\ NoReceiptOnly /\ NoPhase /\ NoCandidate
    \/ /\ program = "worker" /\ Work!Init
       /\ extra = Unused /\ verdict = Unused
       /\ NoRunOnly /\ NoSignalOnly /\ NoStageOnly /\ NoOutageOnly /\ NoReceiptOnly /\ NoMain
    \/ /\ program = "signal" /\ Sign!Init
       /\ extra = Unused /\ due = Unused /\ verdict = Unused
       /\ NoRunOnly /\ NoWorkerOnly /\ NoStageOnly /\ NoOutageOnly /\ NoReceiptOnly /\ NoMain
    \/ /\ program = "stages" /\ Stag!Init
       /\ extra = Unused /\ due = Unused /\ seen = Unused /\ verdict = Unused
       /\ NoRunOnly /\ NoWorkerOnly /\ NoSignalOnly /\ NoOutageOnly /\ NoReceiptOnly /\ NoPhase /\ NoCandidate
    \/ /\ program = "outage" /\ Outa!Init
       /\ extra = Unused
       /\ NoRunOnly /\ NoWorkerOnly /\ NoSignalOnly /\ NoStageOnly /\ NoReceiptOnly /\ NoMain /\ NoPhase
    \/ /\ program = "receipt" /\ Rece!Init
       /\ due = Unused /\ seen = Unused
       /\ NoRunOnly /\ NoWorkerOnly /\ NoSignalOnly /\ NoStageOnly /\ NoOutageOnly /\ NoMain /\ NoPhase

RunStep ==
    /\ program = "run" /\ Run!Next
    /\ UNCHANGED <<program, due, seen, verdict, workerOnly, signalOnly, stageOnly, outageOnly, receiptOnly, phase, candidate>>

WorkStep ==
    /\ program = "worker" /\ Work!Next
    /\ UNCHANGED <<program, extra, verdict, runOnly, signalOnly, stageOnly, outageOnly, receiptOnly, main>>

SignStep ==
    /\ program = "signal" /\ Sign!Next
    /\ UNCHANGED <<program, extra, due, verdict, runOnly, workerOnly, stageOnly, outageOnly, receiptOnly, main>>

StagStep ==
    /\ program = "stages" /\ Stag!Next
    /\ UNCHANGED <<program, extra, due, seen, verdict, runOnly, workerOnly, signalOnly, outageOnly, receiptOnly, phase, candidate>>

OutaStep ==
    /\ program = "outage" /\ Outa!Next
    /\ UNCHANGED <<program, extra, runOnly, workerOnly, signalOnly, stageOnly, receiptOnly, main, phase>>

ReceStep ==
    /\ program = "receipt" /\ Rece!Next
    /\ UNCHANGED <<program, due, seen, runOnly, workerOnly, signalOnly, stageOnly, outageOnly, main, phase>>

Next == RunStep \/ WorkStep \/ SignStep \/ StagStep \/ OutaStep \/ ReceStep

\* A checker is one thread, and each of its waits has a deadline.
Fairness ==
    /\ WF_(Run!vars)(program = "run" /\ Run!Next)
    /\ WF_(Work!vars)(program = "worker" /\ Work!Checker)
    /\ WF_(Sign!vars)(program = "signal" /\ Sign!Checker)
    /\ WF_(Stag!vars)(program = "stages" /\ Stag!Checker)
    /\ WF_(Outa!vars)(program = "outage" /\ Outa!Checker)
    /\ WF_(Rece!vars)(program = "receipt" /\ Rece!Checker)

Spec == Init /\ [][Next]_vars /\ Fairness

-----------------------------------------------------------------------------
(* Properties *)

\* Every variable holds a value its program can give it.
TypeOK ==
    /\ program = "run" => Run!TypeOK
    /\ program = "worker" => Work!TypeOK
    /\ program = "signal" => Sign!TypeOK
    /\ program = "stages" => Stag!TypeOK
    /\ program = "outage" => Outa!TypeOK
    /\ program = "receipt" => Rece!TypeOK

\* A check or a scenario passes only a candidate without the faults it is there to detect,
\* however the candidate's workers, dispatchers and leases interleave with its steps, and a
\* pass of the outage scenario shows a retry that outlived the outage.  Two kinds of fault
\* count only once they have shown: a lease given to two workers when it was, and a
\* delivery that must not be sent when the provider had it as the audit asked; a candidate
\* that sends one after the audit passes.
NoFalsePass ==
    /\ program = "worker" => Work!NoFalsePass
    /\ program = "signal" => Sign!NoFalsePass
    /\ program = "outage" => Outa!NoFalsePass /\ Outa!PassShowsRecovery
    /\ program = "receipt" => Rece!NoFalsePass

\* A candidate without faults fails only when something took longer than a deadline allows,
\* or Docker did not do what it was told.
NoFalseFail ==
    /\ program = "worker" => Work!NoFalseFail
    /\ program = "signal" => Sign!NoFalseFail
    /\ program = "outage" => Outa!NoFalseFail
    /\ program = "receipt" => Rece!NoFalseFail

\* The exit code, the report, the recorded checks and what is left of the project agree,
\* whatever is raised and whether or not cleanup and the report succeed.
ExitTellsVerdict ==
    /\ program = "run" => Run!ExitZeroMeansAllPassed /\ Run!VerdictIsReported /\ Run!NoLeftovers
    /\ program = "stages" => Stag!ExitMatchesReport

\* record and fail_missing never turn a failed check into a passed one, nor lose one.
FailureStays == [][program = "run" => Run!FailureKept]_vars

\* After a phase whose check passed both workers run without a failpoint, a stage of week 4
\* finds the services it relies on, and no dispatcher is left paused.  A phase of week 2 that
\* raises or fails its check may leave the workers as they are: nothing is said of it.
StackRestored ==
    /\ program = "worker" => Work!Restored
    /\ program = "stages" => Stag!StageFindsStack
    /\ program = "outage" => Outa!NothingPaused

\* A week 4 run that passes has missed a secret in a log only where the logs cannot be read.
SecretsFound == program = "stages" => Stag!SecretsFound

\* Every run and every scenario ends, with an exit code or a verdict.
CheckersEnd ==
    <>(/\ program = "run" => Run!Ended
       /\ program = "worker" => Work!Ended
       /\ program = "signal" => Sign!Ended
       /\ program = "stages" => Stag!Ended
       /\ program = "outage" => Outa!Ended
       /\ program = "receipt" => Rece!Ended)

==============================================================================
