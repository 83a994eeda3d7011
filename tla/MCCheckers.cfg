SPECIFICATION Spec
CONSTANTS
    KeepStack = FALSE
    MaxFailures = 2
    MaxFaults = 1
    OutageFaults = 2
    WorkerClaims = 4
    OutageClaims = 6
    OutageAttempts = 4
    MaxDocker = 1
    MaxLeaks = 1
INVARIANT TypeOK
INVARIANT NoFalsePass
INVARIANT NoFalseFail
INVARIANT ExitTellsVerdict
INVARIANT StackRestored
INVARIANT SecretsFound
PROPERTY FailureStays
PROPERTY CheckersEnd
CHECK_DEADLOCK FALSE
