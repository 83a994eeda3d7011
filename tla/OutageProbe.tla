----------------------------- MODULE OutageProbe -----------------------------
(***************************************************************************)
(* The provider outage scenario of the week 4 checker against the          *)
(* deliveries it watches: the provider is stopped, a payment is submitted, *)
(* dispatcher A fails to deliver it, is paused before its attempts run     *)
(* out, and delivers once the provider is back and B is started too.       *)
(*                                                                         *)
(* The checker races the dispatcher: it reads the row, and pauses later.   *)
(* The candidate keeps its contract unless a fault is chosen for it.       *)
(***************************************************************************)
EXTENDS Naturals, FiniteSets

CONSTANTS
    MaxAttempts,    \* attempts the contract of week 4 allows, the first included
    MaxClaims,      \* bound: claims of the delivery
    MaxFaults,      \* bound: faults of the candidate
    MaxDocker       \* bound: compose commands that fail or time out

VARIABLES
    faults,         \* what is wrong with the candidate
    row,            \* the delivery in autocheck.outbox
    due,            \* whether its lease or its delay has passed
    disp,           \* the two dispatchers
    provider,       \* "up" or "down"
    payments,       \* payments of this request at the provider
    operation,      \* status of the operation
    pc,             \* step of the checker
    seen,           \* retry_rows: the row that ended the first poll
    pending,        \* exception raised in the try block, until the finally clause is done
    verdict,        \* "passed", or the kind of exception that ended the scenario
    late,           \* whether a deadline passed while the candidate could still move
    docker          \* compose commands that may still fail

candidate == <<row, due, disp, provider, payments, operation>>
vars == <<faults, candidate, pc, seen, pending, verdict, late, docker>>

-----------------------------------------------------------------------------
Dispatchers == {"a", "b"}

\* Faults this scenario is there to find.
Faults == {"needs_provider", "no_metric", "request_lost", "sent_unseen", "not_retryable", "gives_up",
           "never_retries", "pays_twice"}

RowStates == {"none", "PENDING", "LEASED", "RETRY_WAIT", "DEAD", "DELIVERED", "CONFIRMED"}
NoRow == [state |-> "none", count |-> 0, owner |-> "none", ver |-> 0, error |-> "none"]

Steps == {"ready", "submit", "metric", "start", "poll", "pause", "window", "record", "restore",
          "available", "finally", "resume", "wait", "audit", "done"}

Rows == [state : RowStates, count : 0..MaxClaims, owner : Dispatchers \cup {"none"},
         ver : 0..MaxClaims, error : {"none", "retryable", "final"}]

\* Every variable holds a value the scenario can give it.
TypeOK ==
    /\ faults \subseteq Faults
    /\ row \in Rows /\ seen \in Rows /\ due \in BOOLEAN
    /\ disp \in [Dispatchers -> [run : {"stopped", "running", "paused"},
                                 at : {"idle", "claimed", "accepted", "refused"}, ver : 0..MaxClaims]]
    /\ provider \in {"up", "down"} /\ payments \in 0..2
    /\ operation \in {"none", "SUBMITTED", "COMPLETED"}
    /\ pc \in Steps
    /\ pending \in {"none", "ContractError", "environment"}
    /\ verdict \in {"none", "passed", "ContractError", "environment"}
    /\ late \in BOOLEAN /\ docker \in 0..MaxDocker

\* Both dispatchers and the provider have been stopped.
Init ==
    /\ faults \in {F \in SUBSET Faults : Cardinality(F) <= MaxFaults}
    /\ row = NoRow /\ due = FALSE
    /\ disp = [d \in Dispatchers |-> [run |-> "stopped", at |-> "idle", ver |-> 0]]
    /\ provider = "down" /\ payments = 0 /\ operation = "none"
    /\ pc = "ready" /\ seen = NoRow /\ pending = "none" /\ verdict = "none"
    /\ late = FALSE /\ docker = MaxDocker

-----------------------------------------------------------------------------
(* The candidate and the provider, while the stack is there *)

Has(f) == f \in faults
Checking == UNCHANGED <<faults, pc, seen, pending, verdict, docker>>

Claimable ==
    \/ row.state = "PENDING"
    \/ row.state = "RETRY_WAIT" /\ due /\ ~Has("never_retries")
    \/ row.state = "LEASED" /\ due

\* claim_outbox
Claim(d) ==
    /\ disp[d].run = "running" /\ disp[d].at = "idle"
    /\ Claimable /\ row.count < MaxClaims
    /\ row' = [row EXCEPT !.state = "LEASED", !.owner = d, !.ver = @ + 1, !.count = @ + 1]
    /\ due' = FALSE
    /\ disp' = [disp EXCEPT ![d].at = "claimed", ![d].ver = row.ver + 1]
    /\ Checking
    /\ UNCHANGED <<provider, payments, operation, late>>

\* The POST of one attempt.  The provider keeps one payment per key.
Post(d) ==
    /\ disp[d].run = "running" /\ disp[d].at = "claimed"
    /\ IF provider = "up"
         THEN /\ disp' = [disp EXCEPT ![d].at = "accepted"]
              /\ payments' = IF Has("pays_twice") THEN 2 ELSE 1
         ELSE /\ disp' = [disp EXCEPT ![d].at = "refused"]
              /\ payments' = payments
    /\ Checking
    /\ UNCHANGED <<row, due, provider, operation, late>>

\* A provider that is up answers after the dispatcher's timeout, or not at all.
PostTimesOut(d) ==
    /\ disp[d].run = "running" /\ disp[d].at = "claimed" /\ provider = "up"
    /\ disp' = [disp EXCEPT ![d].at = "refused"]
    /\ payments' \in {payments, IF Has("pays_twice") THEN 2 ELSE 1}
    /\ late' = TRUE
    /\ Checking
    /\ UNCHANGED <<row, due, provider, operation>>

Holds(d) == row.state = "LEASED" /\ row.owner = d /\ row.ver = disp[d].ver

\* fail_outbox: the delay of a retry, or the end of the attempts.
Failed ==
    IF Has("sent_unseen") THEN [row EXCEPT !.state = "DELIVERED", !.owner = "none"]
    ELSE [row EXCEPT
            !.owner = "none",
            !.error = IF Has("not_retryable") THEN "final" ELSE "retryable",
            !.state = IF row.count < MaxAttempts /\ ~Has("gives_up") THEN "RETRY_WAIT" ELSE "DEAD"]

\* succeed_outbox or fail_outbox; a stale report changes nothing.
Report(d) ==
    /\ disp[d].run = "running" /\ disp[d].at \in {"accepted", "refused"}
    /\ row' = IF ~Holds(d) THEN row
              ELSE IF disp[d].at = "accepted" THEN [row EXCEPT !.state = "DELIVERED", !.owner = "none"]
              ELSE Failed
    /\ due' = (due /\ ~Holds(d))
    /\ disp' = [disp EXCEPT ![d].at = "idle"]
    /\ Checking
    /\ UNCHANGED <<provider, payments, operation, late>>

\* The provider's callback, its receipt and the steps of the process after it.
Callback ==
    /\ provider = "up" /\ payments > 0 /\ operation = "SUBMITTED"
    /\ operation' = "COMPLETED"
    /\ row' = [row EXCEPT !.state = "CONFIRMED", !.owner = "none"]
    /\ Checking
    /\ UNCHANGED <<due, disp, provider, payments, late>>

\* A lease of 2 s or the delay of a retry passes.
TimePasses ==
    /\ row.state \in {"LEASED", "RETRY_WAIT"} /\ ~due
    /\ due' = TRUE
    /\ Checking
    /\ UNCHANGED <<row, disp, provider, payments, operation, late>>

Candidate ==
    /\ pc # "done"
    /\ \/ \E d \in Dispatchers : Claim(d) \/ Post(d) \/ PostTimesOut(d) \/ Report(d)
       \/ Callback \/ TimePasses

\* The candidate can take a step: a dispatcher or the provider has something to do, or a
\* lease or a delay runs.
Busy ==
    /\ pc # "done"
    /\ \/ \E d \in Dispatchers :
             /\ disp[d].run = "running"
             /\ disp[d].at # "idle" \/ (Claimable /\ row.count < MaxClaims)
       \/ provider = "up" /\ payments > 0 /\ operation = "SUBMITTED"
       \/ row.state \in {"LEASED", "RETRY_WAIT"} /\ ~due

-----------------------------------------------------------------------------
(* The checker's tools *)

Go(next) == pc' = next
Keep == <<faults, pending, verdict, late, docker>>

\* An exception.  In the try block it waits for the finally clause.
Raise(kind) ==
    IF pc \in {"window", "record", "restore", "available"}
      THEN pending' = kind /\ Go("finally") /\ UNCHANGED verdict
      ELSE verdict' = kind /\ Go("done") /\ UNCHANGED pending

\* A check of _record, or a rows' requirement.
Require(ok, next) ==
    /\ IF ok THEN Go(next) /\ UNCHANGED <<pending, verdict>> ELSE Raise("ContractError")
    /\ UNCHANGED <<faults, candidate, seen, late, docker>>

\* _poll_rows and _wait_service_ready: the deadline passes before a query sees p.
PollTimeout(p) ==
    /\ ~p
    /\ Raise("ContractError")
    /\ late' = (late \/ Busy)
    /\ UNCHANGED <<faults, candidate, seen, docker>>

\* require_docker_result: a command fails or times out.  The exception says whether the
\* daemon still answers; outside the try block it ends the scenario, and the stack with it.
DockerFails ==
    /\ docker > 0 /\ docker' = docker - 1
    /\ pc \in {"ready", "submit", "start", "pause", "restore", "finally", "resume"}
    /\ \E kind \in {"ContractError", "environment"} :
          IF pc = "finally" THEN verdict' = kind /\ Go("done") /\ UNCHANGED pending ELSE Raise(kind)
    /\ UNCHANGED <<faults, candidate, seen, late>>

Run(d, state) == disp' = [disp EXCEPT ![d].run = state]

-----------------------------------------------------------------------------
(* _check_provider_outage_recovery *)

\* Dispatcher A is ready without the provider, as the api and the workers are.
OutageReady == pc = "ready" /\ Require(~Has("needs_provider"), "submit")

\* A is stopped again; request and submit; _external_request waits for the row.
OutageSubmit ==
    /\ pc = "submit" /\ Go("metric")
    /\ operation' = "SUBMITTED"
    /\ row' = IF Has("request_lost") THEN row ELSE [row EXCEPT !.state = "PENDING"]
    /\ UNCHANGED <<due, disp, provider, payments, seen, Keep>>

OutageMetric ==
    \/ pc = "metric" /\ row.state # "none" /\ Require(~Has("no_metric"), "start")
    \/ pc = "metric" /\ PollTimeout(row.state # "none")

OutageStart ==
    /\ pc = "start" /\ Go("poll")
    /\ Run("a", "running")
    /\ UNCHANGED <<row, due, provider, payments, operation, seen, Keep>>

Retried == row.state \in {"RETRY_WAIT", "DEAD"}

OutagePoll ==
    \/ /\ pc = "poll" /\ Retried
       /\ Go("pause") /\ seen' = row
       /\ UNCHANGED <<candidate, Keep>>
    \/ pc = "poll" /\ PollTimeout(Retried)

OutagePause ==
    /\ pc = "pause" /\ Go("window")
    /\ Run("a", "paused")
    /\ UNCHANGED <<row, due, provider, payments, operation, seen, Keep>>

\* Mutant: the window is taken for open as long as the delivery is not DEAD.
MissedNotDead == row.state = "DEAD"

\* Too few attempts are left; one of a LEASED row may not be counted yet.
Missed == row.count = MaxAttempts \/ (row.state = "LEASED" /\ row.count >= MaxAttempts - 1)

\* _require_recovery_window, in the order of its conditions.
RecoveryWindow ==
    /\ pc = "window"
    /\ IF \/ row.count \notin 1..MaxAttempts
          \/ row.state = "DEAD" /\ row.count < MaxAttempts
          \/ row.state \notin {"RETRY_WAIT", "LEASED", "DEAD"}
          \/ row.state # "LEASED" /\ row.error # "retryable"
         THEN Raise("ContractError")
         ELSE IF Missed THEN Raise("environment")
         ELSE Go("record") /\ UNCHANGED <<pending, verdict>>
    /\ UNCHANGED <<faults, candidate, seen, late, docker>>

\* provider-outage-persists-retry, on the row of the poll.
OutageRecord ==
    /\ pc = "record"
    /\ Require(seen.state = "RETRY_WAIT" /\ seen.count >= 1 /\ seen.error = "retryable", "restore")

OutageRestore ==
    /\ pc = "restore" /\ Go("available")
    /\ provider' = "up"
    /\ UNCHANGED <<row, due, disp, payments, operation, seen, Keep>>

\* The provider's audit answers, or its deadline passes.
OutageAvailable ==
    /\ pc = "available"
    /\ \/ Go("finally") /\ UNCHANGED <<pending, verdict>>
       \/ Raise("environment")
    /\ UNCHANGED <<faults, candidate, seen, late, docker>>

OutageFinally ==
    /\ pc = "finally"
    /\ Run("a", "running")
    /\ IF pending = "none" THEN Go("resume") /\ UNCHANGED verdict
                           ELSE verdict' = pending /\ Go("done")
    /\ UNCHANGED <<faults, row, due, provider, payments, operation, seen, pending, late, docker>>

OutageResume ==
    /\ pc = "resume" /\ Go("wait")
    /\ Run("b", "running")
    /\ UNCHANGED <<row, due, provider, payments, operation, seen, Keep>>

OutageWait ==
    \/ /\ pc = "wait" /\ operation = "COMPLETED"
       /\ Go("audit")
       /\ UNCHANGED <<candidate, seen, Keep>>
    \/ pc = "wait" /\ PollTimeout(operation = "COMPLETED")

\* provider-recovery-completes-once
OutageAudit ==
    /\ pc = "audit"
    /\ IF payments = 1 THEN verdict' = "passed" /\ Go("done") ELSE Raise("ContractError")
    /\ UNCHANGED <<faults, candidate, seen, pending, late, docker>>

Checker ==
    \/ OutageReady \/ OutageSubmit \/ OutageMetric \/ OutageStart \/ OutagePoll \/ OutagePause
    \/ RecoveryWindow \/ OutageRecord \/ OutageRestore \/ OutageAvailable \/ OutageFinally
    \/ OutageResume \/ OutageWait \/ OutageAudit

Next == Candidate \/ Checker \/ DockerFails

\* Every wait of the checker has a deadline.
Spec == Init /\ [][Next]_vars /\ WF_vars(Checker)

-----------------------------------------------------------------------------
(* Properties *)

\* The scenario passes no candidate with one of the faults it looks for, however the
\* attempts, the pause and the provider's return interleave.
NoFalsePass == verdict = "passed" => faults = {}

\* A pass shows what the scenario is for: the request was refused and kept for a retry, the
\* provider came back before the attempts were used up, and took one payment.
PassShowsRecovery ==
    verdict = "passed" =>
        /\ seen.state = "RETRY_WAIT" /\ seen.count < MaxAttempts
        /\ payments = 1 /\ operation = "COMPLETED" /\ row.state = "CONFIRMED"
        /\ \A d \in Dispatchers : disp[d].run = "running"

\* A candidate without faults is not blamed: when Docker does what it is told and no
\* deadline passes early, a pause that comes too late is an environment failure.
NoFalseFail == faults = {} /\ ~late /\ docker = MaxDocker => verdict # "ContractError"

\* When Docker does what it is told, the scenario leaves no dispatcher paused.
NothingPaused ==
    pc = "done" /\ docker = MaxDocker => \A d \in Dispatchers : disp[d].run # "paused"

\* The scenarios are over, with a verdict.
Ended == pc = "done" /\ verdict # "none"

==============================================================================
