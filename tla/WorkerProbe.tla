----------------------------- MODULE WorkerProbe -----------------------------
(***************************************************************************)
(* The week 2 checker's phases concurrency, recovery and resilience, run   *)
(* one after the other against a workflow engine and its two workers.      *)
(*                                                                         *)
(* The checker starts, stops, kills and recreates workers and reads the    *)
(* tables between steps that the workers take by themselves.  The engine   *)
(* may have faults: a fault is a deviation from the published contract     *)
(* that one of the checks is there to detect.  The question is whether the *)
(* checker's verdict is right: whatever the interleaving, a check passes   *)
(* only an engine without the faults it is about, and fails an engine      *)
(* without faults only when something took longer than it may.             *)
(***************************************************************************)
EXTENDS Naturals, Sequences, FiniteSets

CONSTANTS
    MaxFaults,      \* bound: faults of an engine
    MaxClaims       \* bound: claims of a job

Workers == {"worker-a", "worker-b"}
Other(w) == CHOOSE v \in Workers : v # w

Checks == {"two-worker-reclaim-and-stale-finish", "action-finish-rollback-and-recovery",
           "bounded-retry-and-terminal-failures", "worker-recreate-persistence"}

\* The faults each check is there to detect.
Detects ==
    [c \in Checks |->
       CASE c = "two-worker-reclaim-and-stale-finish" ->
              {"inline_start", "double_claim", "no_reclaim", "same_version", "not_stale",
               "new_execution", "new_job", "no_fence", "fence_writes", "double_effect", "lost_effect"}
         [] c = "action-finish-rollback-and-recovery" ->
              {"effect_outside", "dispatch_outside", "no_reclaim", "new_execution", "new_job",
               "double_effect", "lost_effect"}
         [] c = "bounded-retry-and-terminal-failures" ->
              {"unbounded_retry", "retries_error", "invalid_accepted", "failure_effect"}
         [] c = "worker-recreate-persistence" -> {"ready_lost", "retry_lost", "wait_lost"}]

Faults == UNION {Detects[c] : c \in Checks}

VARIABLES
    faults,         \* what is wrong with the engine
    job,            \* the row of autocheck.jobs of the process under test
    due,            \* lease_until or next_attempt_at has passed
    attempts,       \* its rows of autocheck.attempts
    effects,        \* rows of the effect table for its execution
    dispatches,     \* rows of autocheck.action_dispatches since the process was started
    events,         \* rows of autocheck.workflow_events that a stale finish added
    waiting,        \* the rows of the processes that wait: "kept" or "lost"
    worker,         \* each worker's container and what it is doing
    acks,           \* failpoint acknowledgements in each container's log
    pc,             \* the step of the checker
    seen,           \* what the checker has read
    result,         \* checker.checks
    late,           \* something took longer than the checker allows for
    doubled         \* two workers held one lease during concurrency

engine == <<job, due, attempts, effects, dispatches, events, waiting>>
vars == <<faults, engine, worker, acks, pc, seen, result, late, doubled>>

Rows == 0..MaxClaims
NoJob == [state |-> "none", id |-> 0, exec |-> 0, owner |-> "none", ver |-> 0, count |-> 0,
          mode |-> "signal"]
Stopped == [up |-> FALSE, fp |-> "", at |-> "idle", ver |-> 0]
Started(fp) == [up |-> TRUE, fp |-> fp, at |-> "idle", ver |-> 0]
Nothing == [job |-> NoJob, winner |-> "none", lease |-> 0, ok |-> TRUE,
            preserved |-> TRUE]

Phases == {"concurrency", "recovery", "resilience"}
StepsOf ==
    [p \in Phases |->
       CASE p = "concurrency" -> {"c_start", "c_boot", "c_claim", "c_ack", "c_loser", "c_reclaim",
                                  "c_attempts", "c_stale", "c_restart", "c_final", "c_restore"}
         [] p = "recovery" -> {"a_start", "a_boot", "a_ack", "a_crash", "a_final", "a_restore"}
         [] p = "resilience" -> {"r_start", "r_wait", "r_ready", "r_resumed", "r_retry",
                                 "r_retrywait", "r_recreate", "r_failed", "t_error", "t_invalid",
                                 "r_verdict"}]
ChecksOf ==
    [p \in Phases |->
       CASE p = "concurrency" -> {"two-worker-reclaim-and-stale-finish"}
         [] p = "recovery" -> {"action-finish-rollback-and-recovery"}
         [] p = "resilience" -> {"bounded-retry-and-terminal-failures", "worker-recreate-persistence"}]
Then == [concurrency |-> "a_start", recovery |-> "r_start", resilience |-> "done"]

\* Every variable holds a value of the tables, of a container or of the checker.
TypeOK ==
    /\ faults \subseteq Faults
    /\ job.state \in {"none", "READY", "LEASED", "RETRY_WAIT", "SUCCEEDED", "DEAD"}
    /\ job.owner \in Workers \cup {"none"} /\ job.ver \in Rows /\ job.count \in Rows
    /\ due \in BOOLEAN
    /\ \A i \in DOMAIN attempts :
          attempts[i].ver \in Rows /\ attempts[i].status \in {"RUNNING", "STALE", "FAILED", "SUCCEEDED"}
    /\ Len(attempts) <= MaxClaims
    /\ waiting \in {"kept", "lost"}
    /\ \A w \in Workers : /\ worker[w].at \in {"idle", "claimed", "acted"}
                          /\ worker[w].fp \in {"", "after_job_claim", "after_action_before_finish"}
    /\ pc \in (UNION {StepsOf[p] : p \in Phases}) \cup {"done"}
    /\ result \in [Checks -> {"absent", "passed", "failed"}]
    /\ late \in BOOLEAN /\ doubled \in BOOLEAN

Init ==
    /\ faults \in {F \in SUBSET Faults : Cardinality(F) <= MaxFaults}
    /\ job = NoJob /\ due = FALSE /\ attempts = <<>>
    /\ effects = 0 /\ dispatches = 0 /\ events = 0 /\ waiting = "kept"
    /\ worker = [w \in Workers |-> Started("")]
    /\ acks = [w \in Workers |-> 0]
    /\ pc = "c_start" /\ seen = Nothing
    /\ result = [c \in Checks |-> "absent"]
    /\ late = FALSE /\ doubled = FALSE

-----------------------------------------------------------------------------
(* The engine and its workers *)

Has(f) == f \in faults
Unseen == <<faults, pc, seen, result, doubled>>

Reclaim == job.state = "LEASED" /\ due /\ ~Has("no_reclaim")
Claimable == job.state = "READY" \/ Reclaim \/ (job.state = "RETRY_WAIT" /\ due)

\* The attempt that lost its lease becomes STALE.
Settled == IF job.state = "LEASED" /\ ~Has("not_stale")
           THEN [attempts EXCEPT ![Len(attempts)].status = "STALE"] ELSE attempts

Paused(w) ==
    \/ worker[w].fp = "after_job_claim" /\ worker[w].at = "claimed"
    \/ worker[w].fp = "after_action_before_finish" /\ worker[w].at = "acted"

\* A worker that reaches its failpoint writes one line and blocks.
At(w, at, ver) ==
    /\ worker' = [worker EXCEPT ![w].at = at, ![w].ver = ver]
    /\ acks' = [acks EXCEPT ![w] = @ + (IF Paused(w)' THEN 1 ELSE 0)]

\* claim_jobs.
Claim(w) ==
    /\ worker[w].up /\ worker[w].at = "idle" /\ job.count < MaxClaims
    /\ Claimable
    /\ LET ver == IF Reclaim /\ Has("same_version") THEN job.ver ELSE job.ver + 1
           exec == IF Reclaim /\ Has("new_execution") THEN job.exec + 1 ELSE job.exec
           changed == \/ Reclaim /\ Has("new_job")
                      \/ job.state = "READY" /\ Has("ready_lost")
                      \/ job.state = "RETRY_WAIT" /\ Has("retry_lost")
           id == IF changed THEN job.id + 1 ELSE job.id
       IN /\ job' = [job EXCEPT !.state = "LEASED", !.owner = w, !.ver = ver, !.exec = exec,
                                !.count = @ + 1, !.id = id]
          /\ attempts' = Append(Settled, [ver |-> ver, status |-> "RUNNING", id |-> id, exec |-> exec])
          /\ At(w, "claimed", ver)
    /\ due' = FALSE
    /\ UNCHANGED <<effects, dispatches, events, waiting, late, Unseen>>

\* Fault: the row is claimed again while its lease is valid.
DoubleClaim(w) ==
    /\ Has("double_claim")
    /\ worker[w].up /\ worker[w].at = "idle"
    /\ job.state = "LEASED" /\ job.owner # w /\ ~due
    /\ At(w, "claimed", job.ver)
    /\ doubled' = (doubled \/ pc \in StepsOf["concurrency"])
    /\ UNCHANGED <<engine, faults, pc, seen, result, late>>

\* The action runs in a transaction that the finish commits.
Act(w) ==
    /\ worker[w].up /\ worker[w].at = "claimed" /\ ~Paused(w)
    /\ At(w, "acted", worker[w].ver)
    /\ effects' = effects + (IF Has("effect_outside") THEN 1 ELSE 0)
    /\ dispatches' = dispatches + (IF Has("dispatch_outside") THEN 1 ELSE 0)
    /\ UNCHANGED <<job, due, attempts, events, waiting, late, Unseen>>

Holds(w) == job.state = "LEASED" /\ job.owner = w /\ job.ver = worker[w].ver

\* The attempt of the current lease ends with status s.
End(s) == attempts' = [attempts EXCEPT ![Len(attempts)].status = s]

\* What the action of the job returns.
Accepted == job.mode \in {"signal"} \cup (IF Has("invalid_accepted") THEN {"invalid"} ELSE {})

\* finish_job, or the rollback of a worker that lost its lease.
Finish(w) ==
    /\ worker[w].up /\ worker[w].at = "acted" /\ ~Paused(w)
    /\ Accepted
    /\ At(w, "idle", 0)
    /\ IF Holds(w)
         THEN /\ job' = [job EXCEPT !.state = "SUCCEEDED"]
              /\ End("SUCCEEDED")
              /\ effects' = effects + (IF Has("double_effect") THEN 2
                                       ELSE IF Has("lost_effect") \/ Has("effect_outside") THEN 0 ELSE 1)
              /\ dispatches' = dispatches + (IF Has("dispatch_outside") THEN 0 ELSE 1)
         ELSE UNCHANGED <<job, attempts, effects, dispatches>>
    /\ UNCHANGED <<due, events, waiting, late, Unseen>>

MaxAttempts == 3

Retryable == job.mode = "retry" \/ Has("retries_error")

\* fail_job.
Fail(w) ==
    /\ worker[w].up /\ worker[w].at = "acted" /\ ~Paused(w)
    /\ ~Accepted
    /\ At(w, "idle", 0)
    /\ IF Holds(w)
         THEN /\ job' = [job EXCEPT !.state = IF Retryable /\ (job.count < MaxAttempts \/ Has("unbounded_retry"))
                                              THEN "RETRY_WAIT" ELSE "DEAD"]
              /\ End("FAILED")
              /\ effects' = effects + (IF Has("failure_effect") THEN 1 ELSE 0)
         ELSE UNCHANGED <<job, attempts, effects>>
    /\ due' = FALSE
    /\ UNCHANGED <<dispatches, events, waiting, late, Unseen>>

\* Steps between a read and what the checker does about it that must be quicker than a
\* lease or the delay of a retry.
Hurried == pc \in {"c_claim", "r_retrywait", "r_recreate"}

Alive == \E w \in Workers : worker[w].up /\ Holds(w) /\ ~Paused(w)

\* A lease or a retry delay runs out.  A worker that is up and not at a failpoint
\* finishes well within its lease.
TimePasses ==
    /\ job.state \in {"LEASED", "RETRY_WAIT"} /\ ~due
    /\ due' = TRUE
    /\ late' = (late \/ Hurried \/ Alive)
    /\ UNCHANGED <<job, attempts, effects, dispatches, events, waiting, worker, acks, Unseen>>

Engine ==
    \/ \E w \in Workers : Claim(w) \/ DoubleClaim(w) \/ Act(w) \/ Finish(w) \/ Fail(w)
    \/ TimePasses

\* The engine can take a step: a worker has something to do, or a lease or a delay runs.
Busy ==
    \/ \E w \in Workers :
          /\ worker[w].up
          /\ \/ worker[w].at = "idle" /\ job.count < MaxClaims /\ Claimable
             \/ worker[w].at = "idle" /\ Has("double_claim") /\ job.state = "LEASED" /\ job.owner # w /\ ~due
             \/ worker[w].at # "idle" /\ ~Paused(w)
    \/ job.state \in {"LEASED", "RETRY_WAIT"} /\ ~due

-----------------------------------------------------------------------------
(* The checker's tools *)

Go(next) == pc' = next
Keep == <<faults, result, late, doubled>>

\* compose stop, kill, create and up: what a worker was doing is rolled back.
Containers(S, row) ==
    /\ worker' = [w \in Workers |-> IF w \in S THEN row ELSE worker[w]]
    /\ acks' = [w \in Workers |-> IF w \in S /\ row.up THEN 0 ELSE acks[w]]

\* _start: a process with one READY job.  Fault: the action runs while it is started.
Start(mode) ==
    /\ job' = IF Has("inline_start") /\ mode = "signal"
              THEN [NoJob EXCEPT !.state = "SUCCEEDED", !.count = 1, !.ver = 1]
              ELSE [NoJob EXCEPT !.state = "READY", !.mode = mode]
    /\ due' = FALSE /\ attempts' = <<>>
    /\ effects' = 0 /\ dispatches' = 0 /\ events' = 0
    /\ UNCHANGED waiting

PhaseOf(step) == CHOOSE p \in Phases : step \in StepsOf[p]

\* A ContractError ends the phase; the workers stay as they are.
Contract(slow) ==
    /\ result' = [c \in Checks |-> IF c \in ChecksOf[PhaseOf(pc)] /\ result[c] = "absent"
                                   THEN "failed" ELSE result[c]]
    /\ late' = (late \/ slow)
    /\ Go(Then[PhaseOf(pc)])
    /\ UNCHANGED <<faults, engine, worker, acks, seen, doubled>>

\* poll_rows: the predicate holds when a query is made, or the deadline passes first.  It
\* passes for good when the engine has nothing left to do.
PollTimeout(p) == ~p /\ Contract(Busy)

\* wait_failpoint: one line is expected, two are an error.
wait_failpoint(w, next) ==
    \/ acks[w] = 1 /\ next
    \/ acks[w] > 1 /\ Contract(FALSE)
    \/ PollTimeout(acks[w] > 0)

Record(c, passed) == result' = [result EXCEPT ![c] = IF passed THEN "passed" ELSE "failed"]

-----------------------------------------------------------------------------
(* concurrency *)

\* Both workers are stopped; the new process must leave one READY job.
ConcurrencyStart ==
    /\ pc = "c_start" /\ Go("c_boot")
    /\ Containers(Workers, Stopped)
    /\ seen' = Nothing
    /\ Start("signal")
    /\ UNCHANGED Keep

ConcurrencyBoot ==
    /\ pc = "c_boot"
    /\ IF job.state = "READY"
         THEN /\ Containers(Workers, Started("after_job_claim"))
              /\ seen' = [seen EXCEPT !.job = job] /\ Go("c_claim")
              /\ UNCHANGED <<engine, Keep>>
         ELSE Contract(FALSE)

FirstClaim == job.state = "LEASED" /\ job.owner \in Workers /\ job.count = 1

ConcurrencyClaim ==
    /\ pc = "c_claim"
    /\ \/ /\ FirstClaim
          /\ seen' = [seen EXCEPT !.winner = job.owner] /\ Go("c_ack")
          /\ UNCHANGED <<engine, worker, acks, Keep>>
       \/ PollTimeout(FirstClaim)

\* The winner is killed once it has acknowledged its claim.
ConcurrencyKill ==
    /\ pc = "c_ack"
    /\ wait_failpoint(seen.winner,
          /\ Containers({seen.winner}, Stopped) /\ Go("c_loser")
          /\ UNCHANGED <<engine, seen, Keep>>)

ConcurrencyLoser ==
    /\ pc = "c_loser"
    /\ wait_failpoint(Other(seen.winner),
          Go("c_reclaim") /\ UNCHANGED <<engine, worker, acks, seen, Keep>>)

SecondClaim == job.state = "LEASED" /\ job.owner = Other(seen.winner) /\ job.count = 2

ConcurrencyReclaim ==
    /\ pc = "c_reclaim"
    /\ \/ SecondClaim /\ Go("c_attempts") /\ UNCHANGED <<engine, worker, acks, seen, Keep>>
       \/ PollTimeout(SecondClaim)

\* initial_claim, reclaimed_ok and the identity of the job.
ClaimRows ==
    /\ Len(attempts) = 2
    /\ attempts[1].status = "STALE" /\ job.ver > attempts[1].ver
    /\ attempts[2].ver = job.ver /\ attempts[2].status = "RUNNING"
    /\ job.id = seen.job.id /\ job.exec = seen.job.exec

ConcurrencyAttempts ==
    /\ pc = "c_attempts" /\ Go("c_stale")
    /\ seen' = [seen EXCEPT !.ok = ClaimRows, !.job = job,
                            !.lease = IF attempts = <<>> THEN 0 ELSE attempts[1].ver]
    /\ UNCHANGED <<engine, worker, acks, Keep>>

\* test-finish with the owner and the lease of the killed winner, between two snapshots
\* that only it can tell apart: the loser is held at its failpoint.
StaleFinish ==
    /\ pc = "c_stale" /\ Go("c_restart")
    /\ LET held == job.owner = seen.winner /\ job.ver = seen.lease
           accepted == job.state = "LEASED" /\ (held \/ Has("no_fence"))
       IN /\ IF accepted THEN job' = [job EXCEPT !.state = "SUCCEEDED"] /\ End("SUCCEEDED")
                         ELSE UNCHANGED <<job, attempts>>
          /\ events' = events + (IF accepted \/ Has("fence_writes") THEN 1 ELSE 0)
          /\ seen' = [seen EXCEPT !.ok = @ /\ ~accepted /\ events' = events]
    /\ UNCHANGED <<due, effects, dispatches, waiting, worker, acks, Keep>>

ConcurrencyRestart ==
    /\ pc = "c_restart" /\ Go("c_final")
    /\ Containers({Other(seen.winner)}, Started(""))
    /\ UNCHANGED <<engine, seen, Keep>>

Succeeded == Cardinality({i \in DOMAIN attempts : attempts[i].status = "SUCCEEDED"})

ConcurrencyValid ==
    /\ seen.ok
    /\ job.state = "SUCCEEDED" /\ job.id = seen.job.id /\ job.exec = seen.job.exec
    /\ job.ver > seen.job.ver
    /\ Len(attempts) >= 3 /\ Succeeded = 1
    /\ \A i \in DOMAIN attempts : attempts[i].id = seen.job.id /\ attempts[i].exec = seen.job.exec
    /\ dispatches = 1 /\ effects = 1

ConcurrencyVerdict ==
    /\ pc = "c_final"
    /\ LET p == job.state = "SUCCEEDED"
       IN \/ /\ p /\ Go("c_restore")
             /\ Record("two-worker-reclaim-and-stale-finish", ConcurrencyValid)
             /\ UNCHANGED <<engine, worker, acks, seen, faults, late, doubled>>
          \/ PollTimeout(p)

\* Mutant: only the worker that was killed comes back.
RestoreOne(step) ==
    /\ pc = step /\ Go(Then[PhaseOf(step)])
    /\ Containers({"worker-a"}, Started(""))
    /\ UNCHANGED <<engine, seen, Keep>>

\* Both workers come back without a failpoint when the check is recorded.
Restore(step) ==
    /\ pc = step /\ Go(Then[PhaseOf(step)])
    /\ Containers(Workers, Started(""))
    /\ UNCHANGED <<engine, seen, Keep>>

-----------------------------------------------------------------------------
(* recovery *)

RecoveryStart ==
    /\ pc = "a_start" /\ Go("a_boot")
    /\ Containers(Workers, Stopped)
    /\ seen' = Nothing
    /\ Start("signal")
    /\ UNCHANGED Keep

RecoveryBoot ==
    /\ pc = "a_boot" /\ Go("a_ack")
    /\ Containers({"worker-a"}, Started("after_action_before_finish"))
    /\ UNCHANGED <<engine, seen, Keep>>

\* worker-a is killed with the action done and its transaction open.
RecoveryKill ==
    /\ pc = "a_ack"
    /\ wait_failpoint("worker-a",
          /\ Containers({"worker-a"}, Stopped)
          /\ seen' = [seen EXCEPT !.job = job] /\ Go("a_crash")
          /\ UNCHANGED <<engine, Keep>>)

\* Nothing of the action may be visible now.
RecoveryCrash ==
    /\ pc = "a_crash" /\ Go("a_final")
    /\ seen' = [seen EXCEPT !.ok = (effects = 0 /\ dispatches = 0)]
    /\ Containers({"worker-b"}, Started(""))
    /\ UNCHANGED <<engine, Keep>>

RecoveryValid ==
    /\ seen.ok /\ effects = 1 /\ dispatches = 1
    /\ job.state = "SUCCEEDED" /\ job.id = seen.job.id /\ job.exec = seen.job.exec

RecoveryVerdict ==
    /\ pc = "a_final"
    /\ LET p == job.state = "SUCCEEDED"
       IN \/ /\ p /\ Go("a_restore")
             /\ Record("action-finish-rollback-and-recovery", RecoveryValid)
             /\ UNCHANGED <<engine, worker, acks, seen, faults, late, doubled>>
          \/ PollTimeout(p)

-----------------------------------------------------------------------------
(* resilience *)

ResilienceStart ==
    /\ pc = "r_start" /\ Go("r_wait")
    /\ Start("signal")
    /\ seen' = Nothing
    /\ UNCHANGED <<worker, acks, Keep>>

\* One process waits for its signal; another is started while no worker runs.
ResilienceReady ==
    /\ pc = "r_wait"
    /\ LET p == job.state = "SUCCEEDED"
       IN \/ /\ p /\ Go("r_ready")
             /\ Containers(Workers, Stopped)
             /\ Start("signal")
             /\ UNCHANGED <<seen, Keep>>
          \/ PollTimeout(p)

\* Recreated workers must not touch what waits.
Recreate ==
    /\ Containers(Workers, Started(""))
    /\ waiting' = IF Has("wait_lost") THEN "lost" ELSE waiting
    /\ UNCHANGED <<job, due, attempts, effects, dispatches, events>>

ResilienceRecreate ==
    /\ pc = "r_ready"
    /\ IF job.state = "READY"
         THEN /\ Recreate /\ Go("r_resumed")
              /\ seen' = [seen EXCEPT !.job = job]
              /\ UNCHANGED Keep
         ELSE Contract(FALSE)

SameJob == job.id = seen.job.id /\ job.exec = seen.job.exec

ResilienceResumed ==
    /\ pc = "r_resumed"
    /\ LET p == job.state = "SUCCEEDED"
       IN \/ /\ p /\ Go("r_retry")
             /\ seen' = [seen EXCEPT !.preserved = SameJob]
             /\ UNCHANGED <<engine, worker, acks, Keep>>
          \/ PollTimeout(p)

ResilienceRetry ==
    /\ pc = "r_retry" /\ Go("r_retrywait")
    /\ Start("retry")
    /\ UNCHANGED <<worker, acks, seen, Keep>>

ResilienceRetryWait ==
    /\ pc = "r_retrywait"
    /\ LET p == job.state = "RETRY_WAIT"
       IN \/ /\ p /\ Go("r_recreate")
             /\ seen' = [seen EXCEPT !.job = job]
             /\ UNCHANGED <<engine, worker, acks, Keep>>
          \/ PollTimeout(p)

ResilienceRetryRecreate ==
    /\ pc = "r_recreate" /\ Go("r_failed")
    /\ Recreate
    /\ UNCHANGED <<seen, Keep>>

\* terminal_failure_consistent
terminal_failure_consistent(n) ==
    /\ job.state = "DEAD" /\ job.count = n /\ Len(attempts) = n /\ effects = 0
    /\ \A i \in 1..n : /\ attempts[i].status = "FAILED"
                       /\ attempts[i].id = job.id /\ attempts[i].exec = job.exec
    /\ \A i, j \in 1..n : i < j => attempts[i].ver < attempts[j].ver
    /\ attempts[n].ver = job.ver

\* The process must end FAILED; then the next one is started.
Terminal(step, n, mode, next) ==
    /\ pc = step
    /\ LET p == job.state = "DEAD"
       IN \/ /\ p /\ Go(next)
             /\ seen' = [seen EXCEPT !.ok = @ /\ terminal_failure_consistent(n),
                                     !.preserved = @ /\ (step = "r_failed" => SameJob)]
             /\ IF mode = "" THEN UNCHANGED engine ELSE Start(mode)
             /\ UNCHANGED <<worker, acks, Keep>>
          \/ PollTimeout(p)

ResilienceRetried == Terminal("r_failed", MaxAttempts, "error", "t_error")
ResilienceError == Terminal("t_error", 1, "invalid", "t_invalid")
ResilienceInvalid == Terminal("t_invalid", 1, "", "r_verdict")

Persistence == seen.preserved /\ waiting = "kept"

ResilienceVerdict ==
    /\ pc = "r_verdict" /\ Go("done")
    /\ result' = [result EXCEPT
         !["bounded-retry-and-terminal-failures"] = IF seen.ok THEN "passed" ELSE "failed",
         !["worker-recreate-persistence"] = IF Persistence THEN "passed" ELSE "failed"]
    /\ UNCHANGED <<engine, worker, acks, seen, faults, late, doubled>>

-----------------------------------------------------------------------------
Checker ==
    \/ ConcurrencyStart \/ ConcurrencyBoot \/ ConcurrencyClaim \/ ConcurrencyKill
    \/ ConcurrencyLoser \/ ConcurrencyReclaim \/ ConcurrencyAttempts \/ StaleFinish
    \/ ConcurrencyRestart \/ ConcurrencyVerdict \/ Restore("c_restore")
    \/ RecoveryStart \/ RecoveryBoot \/ RecoveryKill \/ RecoveryCrash \/ RecoveryVerdict
    \/ Restore("a_restore")
    \/ ResilienceStart \/ ResilienceReady \/ ResilienceRecreate \/ ResilienceResumed
    \/ ResilienceRetry \/ ResilienceRetryWait \/ ResilienceRetryRecreate
    \/ ResilienceRetried \/ ResilienceError \/ ResilienceInvalid \/ ResilienceVerdict

Next == Engine \/ Checker

\* Every wait of the checker has a deadline.
Spec == Init /\ [][Next]_vars /\ WF_vars(Checker)

-----------------------------------------------------------------------------
(* Properties *)

\* A check passes only an engine without the faults it is there to detect, however the
\* workers' steps, the leases and the checker's steps interleave.  Of an engine that may
\* give a lease to two workers this can be asked only when it did.
NoFalsePass ==
    \A c \in Checks :
        result[c] = "passed" =>
            faults \cap Detects[c] \subseteq (IF doubled THEN {} ELSE {"double_claim"})

\* An engine without faults fails a check only when a deadline, a lease or a retry delay
\* passed while the checker or a worker still had something to do.
NoFalseFail == faults = {} /\ ~late => \A c \in Checks : result[c] # "failed"

\* A phase whose check is recorded as passed leaves both workers running without a
\* failpoint.  One that raises leaves them as they are, and the next phase has to cope.
Restored ==
    /\ pc = "a_start" /\ result["two-worker-reclaim-and-stale-finish"] = "passed" =>
          \A w \in Workers : worker[w].up /\ worker[w].fp = ""
    /\ pc = "r_start" /\ result["action-finish-rollback-and-recovery"] = "passed" =>
          \A w \in Workers : worker[w].up /\ worker[w].fp = ""

\* The phases are over, and every check has a result.
Ended == pc = "done" /\ \A c \in Checks : result[c] # "absent"

==============================================================================
