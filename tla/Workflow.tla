------------------------------ MODULE Workflow -------------------------------
(***************************************************************************)
(* The workflow engine: the tables of schema workflow (and the inbox of    *)
(* schema delivery), the PL/pgSQL functions that change them, and the      *)
(* actors that call the functions concurrently: the workers (claim, invoke *)
(* and finish in one transaction, fail), the clients that send signals,    *)
(* the inbox reconciler and the manual decisions.                          *)
(*                                                                         *)
(* A variable holds what is committed.  A transaction that reads, waits    *)
(* for a row lock and then writes is split at the waits; what it has not   *)
(* committed yet is in claims (workers) and tx (signals).                  *)
(*                                                                         *)
(* A map is acyclic, so a process enters a step at most once: the step     *)
(* instance and the job of process p at step s are named by <<p, s>>.      *)
(***************************************************************************)
EXTENDS FlowMap, FiniteSets

CONSTANTS
    Procs,          \* processes, one per business key
    Workers,        \* worker processes
    Owners,         \* lease owner names
    OwnerOf,        \* worker -> its owner name (two may share one: a restart)
    Batch,          \* jobs per claim
    MaxLease,       \* bound: no lease expires, and no claim is lost, at this version
    Senders,        \* clients that call accept_signal directly
    Reconciler,     \* the inbox reconciler, a further caller of accept_signal
    Msgs,           \* message ids
    Bodies,         \* message bodies, up to their hash
    ReceiptType,    \* the signal type of a receipt
    PrepareStep,    \* the step whose action creates the external request
    None            \* null

ASSUME WorkflowTypes ==
    /\ OwnerOf \in [Workers -> Owners]
    /\ Batch \in Nat \ {0}
    /\ MaxLease \in Nat
    /\ Reconciler \notin Senders
    /\ ReceiptType \in SignalTypes
    /\ PrepareStep \in AutoSteps
    /\ None \notin Steps /\ None \notin Outcome /\ None \notin Owners

\* The bound leaves room for the retries a map may ask for.
ASSUME BoundLeavesRetries == \A s \in AutoSteps : MaxAttempts[s] <= MaxLease

VARIABLES
    proc,           \* process_instance: state and current_step_key
    step,           \* step_instance: state and outcome
    job,            \* workflow_job: state, lease_owner, lease_version, time due
    attempt,        \* task_attempt: status by job and lease_version
    effects,        \* per job, committed subject effects (with their dispatch row)
    disabled,       \* AUTOMATIC steps whose pinned action version is disabled
    signal,         \* workflow_signal rows
    inbox,          \* inbox rows
    claims,         \* what the workers hold: claimed jobs and their progress
    tx,             \* open accept_signal transactions
    selected        \* inbox rows the reconciler selected and locked

vars == <<proc, step, job, attempt, effects, disabled, signal, inbox,
          claims, tx, selected>>

-----------------------------------------------------------------------------
(* Types. *)

Jobs == Procs \X AutoSteps
Clients == Senders \cup {Reconciler}

ProcStates == {"NONE", "RUNNING", "WAITING_SIGNAL", "WAITING_MANUAL",
               "COMPLETED", "FAILED"}
StepStates == {"NONE", "READY", "RUNNING", "WAITING", "COMPLETED", "FAILED"}
JobStates  == {"NONE", "READY", "LEASED", "RETRY_WAIT", "SUCCEEDED", "DEAD"}
AttemptStates == {"NONE", "RUNNING", "SUCCEEDED", "FAILED", "STALE"}
Phases == {"queued", "claimed", "invoked", "finishing", "failing"}

Terminal == {"COMPLETED", "FAILED"}
LiveJob  == {"READY", "LEASED", "RETRY_WAIT"}

ProcRow == [state : ProcStates, current : Steps \cup {None}]
StepRow == [state : StepStates, outcome : Outcome \cup {None}]
\* due: the time that gates a claim (lease_until or next_attempt_at) has come.
JobRow  == [state : JobStates, owner : Owners \cup {None}, version : 0..MaxLease,
            due : BOOLEAN]
Message(statuses) == [msg : Msgs, proc : Procs, type : SignalTypes,
                      body : Bodies, status : statuses]
SignalRow == Message({"ACCEPTED", "APPLIED"})
InboxRow  == Message({"RECEIVED", "APPLIED"})
Claim == [by : Workers, job : Jobs, version : 1..MaxLease, phase : Phases,
          outcome : Outcome \cup {None}, retry : BOOLEAN]
Tx == [by : Clients, row : SignalRow, phase : {"inserted", "locked"},
       wait : Steps \cup {None}]

TypeOK ==
    /\ proc \in [Procs -> ProcRow]
    /\ step \in [Procs -> [Steps -> StepRow]]
    /\ job \in [Jobs -> JobRow]
    /\ attempt \in [Jobs -> [1..MaxLease -> AttemptStates]]
    /\ effects \in [Jobs -> Nat]
    /\ disabled \subseteq AutoSteps
    /\ signal \subseteq SignalRow
    /\ inbox \subseteq InboxRow
    /\ claims \subseteq Claim
    /\ tx \subseteq Tx
    /\ selected \subseteq inbox

Init ==
    /\ proc = [p \in Procs |-> [state |-> "NONE", current |-> None]]
    /\ step = [p \in Procs |-> [s \in Steps |-> [state |-> "NONE", outcome |-> None]]]
    /\ job = [j \in Jobs |->
                [state |-> "NONE", owner |-> None, version |-> 0, due |-> FALSE]]
    /\ attempt = [j \in Jobs |-> [v \in 1..MaxLease |-> "NONE"]]
    /\ effects = [j \in Jobs |-> 0]
    /\ disabled = {}
    /\ signal = {} /\ inbox = {}
    /\ claims = {} /\ tx = {} /\ selected = {}

-----------------------------------------------------------------------------
(* Row locks.  A worker that passed the fence of finish_job holds the job   *)
(* row; a signal transaction past its FOR UPDATE holds the process row.     *)

JobLocked(j) == \E c \in claims : c.job = j /\ c.phase = "finishing"

\* Mutant: accept_signal reads the waiting step without FOR UPDATE.
ProcLockedNever(p) == FALSE
ProcLocked(p) == \E t \in tx : t.row.proc = p /\ t.phase = "locked"

(* Uniqueness of workflow_signal: the message id, and the body within one   *)
(* process and type.  A key inserted by an open transaction makes others    *)
(* wait.                                                                    *)

SameBody(q, r) == q.proc = r.proc /\ q.type = r.type /\ q.body = r.body
Clash(q, r) == q.msg = r.msg \/ SameBody(q, r)
Fresh(rows, r) == \A q \in rows : ~Clash(q, r)
KeyHeld(r) == \E t \in tx : Clash(t.row, r)
Conflict(rows, r) == \E q \in rows : q.msg = r.msg /\ ~SameBody(q, r)

WithStatus(rows, st) == {[r EXCEPT !.status = st] : r \in rows}
AtMostOne(rows) == IF rows = {} THEN {{}} ELSE {{r} : r \in rows}

-----------------------------------------------------------------------------
(* _enter_step, _apply_ready_signals, apply_inbox_for_process, _advance.    *)
(* A transaction works on db, the tables as it has left them so far.        *)

Tables == [proc |-> proc, step |-> step, job |-> job, signal |-> signal,
           inbox |-> inbox]

Write(db) ==
    /\ proc' = db.proc
    /\ step' = db.step
    /\ job' = db.job
    /\ signal' = db.signal
    /\ inbox' = db.inbox

EntryProc(s) ==
    [state |-> CASE StepType[s] = "AUTOMATIC"   -> "RUNNING"
                 [] StepType[s] = "WAIT_SIGNAL" -> "WAITING_SIGNAL"
                 [] StepType[s] = "MANUAL"      -> "WAITING_MANUAL"
                 [] StepType[s] = "END"         -> "COMPLETED",
     current |-> s]

\* Mutant: the step instance gets the state of the process.
EntryStepAsProcess(s) == [state |-> EntryProc(s).state, outcome |-> None]
EntryStep(s) ==
    CASE StepType[s] = "AUTOMATIC" -> [state |-> "READY", outcome |-> None]
      [] StepType[s] = "END"       -> [state |-> "COMPLETED", outcome |-> ParamOutcome[s]]
      [] OTHER                     -> [state |-> "WAITING", outcome |-> None]

NewJob == [state |-> "READY", owner |-> None, version |-> 0, due |-> TRUE]

\* A row accepted when a signal has just been applied (sig) finds the process
\* past the step: it stays ACCEPTED.
\* Mutant: it is marked APPLIED as if it had moved the process.
RowStatusApplied(sig) == "APPLIED"
RowStatus(sig) == IF sig = {} THEN "APPLIED" ELSE "ACCEPTED"

\* The process enters s.  At a WAIT_SIGNAL step it applies a ready signal (sig)
\* and then accepts an inbox row (row), either of which takes it to the next
\* step.
Entered(db, p, s, sig, row) ==
    LET fresh == {r \in row : Fresh(db.signal, r)}
        last  == IF sig \cup fresh = {} THEN s ELSE Target[s][ParamOutcome[s]]
    IN  [proc   |-> [db.proc EXCEPT ![p] = EntryProc(last)],
         step   |-> [db.step EXCEPT ![p] =
                        [t \in Steps |->
                            IF t = last THEN EntryStep(t)
                            ELSE IF t = s
                            THEN [state |-> "COMPLETED", outcome |-> ParamOutcome[s]]
                            ELSE db.step[p][t]]],
         job    |-> IF last \in AutoSteps THEN [db.job EXCEPT ![<<p, last>>] = NewJob]
                    ELSE db.job,
         signal |-> (db.signal \ sig) \cup WithStatus(sig, "APPLIED")
                    \cup WithStatus(fresh, RowStatus(sig)),
         inbox  |-> (db.inbox \ row) \cup WithStatus(row, "APPLIED")]

ReadySignals(db, p, s) ==
    {r \in db.signal : /\ s \in WaitSteps
                       /\ r.proc = p /\ r.type = SignalType[s] /\ r.status = "ACCEPTED"}

ReceivedRows(db, p, s) ==
    {r \in db.inbox : /\ s \in WaitSteps
                      /\ r.proc = p /\ r.type = SignalType[s] /\ r.status = "RECEIVED"}

\* Timestamps decide which signal and which row come first: any may.  A row the
\* reconciler has locked is waited for.
EnterStep(db, p, s) ==
    \E sig \in AtMostOne(ReadySignals(db, p, s)), row \in AtMostOne(ReceivedRows(db, p, s)) :
        /\ \A r \in row : ~Conflict(db.signal, r) /\ ~KeyHeld(r) /\ r \notin selected
        /\ Write(Entered(db, p, s, sig, row))

\* Mutant: the transition is looked up without the outcome.
AdvanceAnyOutcome(db, p, o) ==
    LET at == db.proc[p]
    IN  IF at.state \in Terminal THEN Write(db)
        ELSE \E x \in Allowed[at.current] : EnterStep(db, p, Target[at.current][x])
Advance(db, p, o) ==
    LET at == db.proc[p]
    IN  IF at.state \in Terminal THEN Write(db)
        ELSE /\ o \in Allowed[at.current]
             /\ EnterStep(db, p, Target[at.current][o])

\* The tables after step s of p is completed with outcome o.
Completed(db, p, s, o) ==
    [db EXCEPT !.step[p][s] = [state |-> "COMPLETED", outcome |-> o]]

-----------------------------------------------------------------------------
(* start_process, manual_v1, disable_action. *)

\* A second start with the same business key returns the existing process.
StartProcess(p) ==
    /\ proc[p].state = "NONE"
    /\ EnterStep(Tables, p, StartStep)
    /\ UNCHANGED <<attempt, effects, disabled, claims, tx, selected>>

ManualDecision(p, o) ==
    LET s == proc[p].current
    IN  /\ ~ProcLocked(p)
        /\ s \in Steps /\ StepType[s] = "MANUAL" /\ step[p][s].state = "WAITING"
        /\ Advance(Completed(Tables, p, s, o), p, o)
        /\ UNCHANGED <<attempt, effects, disabled, claims, tx, selected>>

DisableAction(s) ==
    /\ s \notin disabled
    /\ disabled' = disabled \cup {s}
    /\ UNCHANGED <<proc, step, job, attempt, effects, signal, inbox, claims, tx, selected>>

\* The clock passes lease_until or next_attempt_at.
TimePasses(j) ==
    /\ ~job[j].due
    /\ \/ job[j].state = "RETRY_WAIT"
       \/ job[j].state = "LEASED" /\ job[j].version < MaxLease
    /\ job' = [job EXCEPT ![j].due = TRUE]
    /\ UNCHANGED <<proc, step, attempt, effects, disabled, signal, inbox, claims, tx, selected>>

-----------------------------------------------------------------------------
(* claim_jobs *)

\* Mutant: expired leases are not selected.
DueNoReclaim == {j \in Jobs : job[j].state \in {"READY", "RETRY_WAIT"} /\ job[j].due}
Due == {j \in Jobs : job[j].state \in LiveJob /\ job[j].due /\ ~JobLocked(j)}

\* The lease runs out between the two statements of claim_jobs, each of which
\* reads the clock: too late to be marked STALE, early enough to be claimed.
Expiring == {j \in Jobs : /\ job[j].state = "LEASED" /\ ~job[j].due /\ ~JobLocked(j)
                          /\ job[j].version < MaxLease}

\* SKIP LOCKED LIMIT p_batch: everything due and unlocked, or a full batch.
Selection(S) ==
    /\ Cardinality(S) <= Batch
    /\ Due \subseteq S \/ Cardinality(S) = Batch

ActionDisabled(j) == j[2] \in disabled

\* Mutant: a reclaim keeps the version of the lease it takes over.
NextLeaseKept(j) == IF job[j].state = "LEASED" THEN job[j].version ELSE job[j].version + 1
NextLease(j) == job[j].version + 1

ClaimJobs(w) ==
    /\ \A c \in claims : c.by # w
    /\ \E S \in SUBSET (Due \cup Expiring) :
        LET dead == {j \in S : ActionDisabled(j)}
        IN  /\ Selection(S)
            /\ \A j \in dead : ~ProcLocked(j[1])
            /\ attempt' = [j \in Jobs |-> [v \in 1..MaxLease |->
                    IF j \in S /\ v = NextLease(j)
                    THEN IF j \in dead THEN "FAILED" ELSE "RUNNING"
                    ELSE IF attempt[j][v] = "RUNNING" /\ job[j].state = "LEASED" /\ job[j].due
                    THEN "STALE" ELSE attempt[j][v]]]
            /\ job' = [j \in Jobs |->
                    IF j \notin S THEN job[j]
                    ELSE [state   |-> IF j \in dead THEN "DEAD" ELSE "LEASED",
                          owner   |-> IF j \in dead THEN None ELSE OwnerOf[w],
                          version |-> NextLease(j),
                          due     |-> FALSE]]
            /\ step' = [p \in Procs |-> [s \in Steps |->
                    IF <<p, s>> \notin S THEN step[p][s]
                    ELSE [step[p][s] EXCEPT
                            !.state = IF s \in disabled THEN "FAILED" ELSE "RUNNING"]]]
            /\ proc' = [p \in Procs |->
                    IF \E j \in dead : j[1] = p
                    THEN [proc[p] EXCEPT !.state = "FAILED"] ELSE proc[p]]
            /\ claims' = claims \cup
                    {[by |-> w, job |-> j, version |-> NextLease(j),
                      phase |-> "queued", outcome |-> None, retry |-> FALSE] : j \in S \ dead}
    /\ UNCHANGED <<effects, disabled, signal, inbox, tx, selected>>

-----------------------------------------------------------------------------
(* ProcessJobAsync: one claimed job of worker c.by. *)

Drop(c) == claims' = claims \ {c}
Become(c, d) == claims' = (claims \ {c}) \cup {d}
Failing(c, retry) == [c EXCEPT !.phase = "failing", !.outcome = None, !.retry = retry]

DbUnchanged == UNCHANGED <<proc, step, job, attempt, effects, disabled, signal, inbox,
                           tx, selected>>

InTx == {"claimed", "invoked", "finishing"}

\* The jobs of a batch are processed one after the other; one whose payload or
\* contract is invalid is failed before any transaction is opened.
ProcessJob(c) ==
    /\ c.phase = "queued"
    /\ \A d \in claims : d.by = c.by => d.phase = "queued"
    /\ \/ Become(c, [c EXCEPT !.phase = "claimed"])
       \/ Become(c, Failing(c, FALSE))
    /\ DbUnchanged

\* api.invoke inserts the dispatch row under the execution id, so it waits for
\* an open transaction that has inserted it ...
ExecutionHeld(j) == \E d \in claims : d.job = j /\ d.phase \in {"invoked", "finishing"}

Invoke(c) ==
    /\ c.phase = "claimed" /\ ~ExecutionHeld(c.job)
    /\ effects[c.job] = 0 /\ ~ActionDisabled(c.job)
    /\ \E o \in Allowed[c.job[2]] : Become(c, [c EXCEPT !.phase = "invoked", !.outcome = o])
    /\ DbUnchanged

\* ... and fails on one that is committed: a database error, no fail_job.
InvokeRepeated(c) ==
    /\ c.phase = "claimed" /\ ~ExecutionHeld(c.job)
    /\ effects[c.job] > 0
    /\ Drop(c)
    /\ DbUnchanged

\* An error envelope, an unknown outcome or an invalid response: rolled back.
InvokeError(c, retryable) ==
    /\ c.phase = "claimed"
    /\ retryable => ~ActionDisabled(c.job)
    /\ Become(c, Failing(c, retryable))
    /\ DbUnchanged

Timeout(c) ==
    /\ c.phase \in InTx
    /\ Become(c, Failing(c, TRUE))
    /\ DbUnchanged

\* A database error rolls back and is only logged; one in FailJobAsync too.
DbFailure(c) ==
    /\ c.phase \in InTx \cup {"failing"} /\ c.version < MaxLease
    /\ Drop(c)
    /\ DbUnchanged

Crash(w) ==
    /\ \E c \in claims : c.by = w
    /\ \A c \in claims : c.by = w => c.version < MaxLease
    /\ claims' = {c \in claims : c.by # w}
    /\ DbUnchanged

-----------------------------------------------------------------------------
(* finish_job, in the transaction of the effect, and its commit. *)

\* Mutant: the fence forgets the state.
HoldsLeaseAnyState(c) ==
    job[c.job].owner = OwnerOf[c.by] /\ job[c.job].version = c.version
HoldsLease(c) ==
    /\ job[c.job].state = "LEASED"
    /\ job[c.job].owner = OwnerOf[c.by]
    /\ job[c.job].version = c.version

\* Mutant: the effect is committed although finish_job answered stale.
FinishJobNoRollback(c) ==
    /\ c.phase = "invoked" /\ ~JobLocked(c.job)
    /\ IF HoldsLease(c)
       THEN Become(c, [c EXCEPT !.phase = "finishing"]) /\ UNCHANGED effects
       ELSE Drop(c) /\ effects' = [effects EXCEPT ![c.job] = @ + 1]
    /\ UNCHANGED <<proc, step, job, attempt, disabled, signal, inbox, tx, selected>>
FinishJob(c) ==
    /\ c.phase = "invoked" /\ ~JobLocked(c.job)
    /\ IF HoldsLease(c) THEN Become(c, [c EXCEPT !.phase = "finishing"]) ELSE Drop(c)
    /\ DbUnchanged

SettleAttempt(c, status) ==
    attempt' = [attempt EXCEPT ![c.job][c.version] = IF @ = "RUNNING" THEN status ELSE @]

\* The rest of finish_job and the commit.  The acknowledgement may come too
\* late: the worker then takes the commit for a timeout.
Commit(c) ==
    LET p == c.job[1]
        s == c.job[2]
        db == [Tables EXCEPT !.job[c.job] = [@ EXCEPT !.state = "SUCCEEDED", !.due = FALSE]]
    IN  /\ c.phase = "finishing" /\ ~ProcLocked(p)
        /\ SettleAttempt(c, "SUCCEEDED")
        /\ Advance(Completed(db, p, s, c.outcome), p, c.outcome)
        /\ effects' = [effects EXCEPT ![c.job] = @ + 1]
        /\ Drop(c) \/ Become(c, Failing(c, TRUE))
        /\ UNCHANGED <<disabled, tx, selected>>

\* The step entered finds an inbox row whose message id is taken: the exception
\* rolls finish_job back and the worker only logs it.
CommitRefused(c) ==
    LET p == c.job[1]
        next == Target[c.job[2]][c.outcome]
    IN  /\ c.phase = "finishing" /\ ~ProcLocked(p)
        /\ \E r \in ReceivedRows(Tables, p, next) : Conflict(signal, r)
        /\ Drop(c)
        /\ DbUnchanged

-----------------------------------------------------------------------------
(* fail_job, a transaction of its own *)

\* attempt_count < max_attempts.
\* Mutant: one retry too many.
BudgetLeftOneMore(c) == job[c.job].version <= MaxAttempts[c.job[2]]
BudgetLeft(c) == job[c.job].version < MaxAttempts[c.job[2]]

FailStale(c) ==
    /\ c.phase = "failing" /\ ~JobLocked(c.job)
    /\ ~HoldsLease(c)
    /\ Drop(c)
    /\ DbUnchanged

\* Mutant: the failure is recorded without the fence.
FailRetryUnfenced(c) ==
    /\ c.phase = "failing" /\ ~JobLocked(c.job)
    /\ c.retry /\ BudgetLeft(c)
    /\ SettleAttempt(c, "FAILED")
    /\ job' = [job EXCEPT ![c.job] =
                [@ EXCEPT !.state = "RETRY_WAIT", !.owner = None, !.due = FALSE]]
    /\ Drop(c)
    /\ UNCHANGED <<proc, step, effects, disabled, signal, inbox, tx, selected>>
FailRetry(c) ==
    /\ c.phase = "failing" /\ ~JobLocked(c.job)
    /\ HoldsLease(c)
    /\ c.retry /\ BudgetLeft(c)
    /\ SettleAttempt(c, "FAILED")
    /\ job' = [job EXCEPT ![c.job] =
                [@ EXCEPT !.state = "RETRY_WAIT", !.owner = None, !.due = FALSE]]
    /\ Drop(c)
    /\ UNCHANGED <<proc, step, effects, disabled, signal, inbox, tx, selected>>

FailDead(c) ==
    /\ c.phase = "failing" /\ ~JobLocked(c.job)
    /\ HoldsLease(c) /\ ~ProcLocked(c.job[1])
    /\ ~(c.retry /\ BudgetLeft(c))
    /\ SettleAttempt(c, "FAILED")
    /\ job' = [job EXCEPT ![c.job] =
                [@ EXCEPT !.state = "DEAD", !.owner = None, !.due = FALSE]]
    /\ step' = [step EXCEPT ![c.job[1]][c.job[2]].state = "FAILED"]
    /\ proc' = [proc EXCEPT ![c.job[1]].state = "FAILED"]
    /\ Drop(c)
    /\ UNCHANGED <<effects, disabled, signal, inbox, tx, selected>>

-----------------------------------------------------------------------------
(* accept_signal: insert the signal, lock the process, apply.  The reconciler *)
(* calls it for inbox rows, the senders directly.                             *)

WaitingAt(p) == {s \in WaitSteps : step[p][s].state = "WAITING"}

Insert(x, r) ==
    /\ Fresh(signal, r) /\ ~KeyHeld(r)
    /\ tx' = tx \cup {[by |-> x, row |-> [r EXCEPT !.status = "ACCEPTED"],
                       phase |-> "inserted", wait |-> None]}

\* A duplicate or a conflicting message changes nothing.
SendSignal(x, r) ==
    /\ \A t \in tx : t.by # x
    /\ proc[r.proc].state # "NONE"
    /\ \E s \in WaitSteps : SignalType[s] = r.type
    /\ Insert(x, r)
    /\ UNCHANGED <<proc, step, job, attempt, effects, disabled, signal, inbox,
                   claims, selected>>

SignalLock(t) ==
    /\ t.phase = "inserted" /\ ~ProcLocked(t.row.proc)
    /\ \E s \in IF WaitingAt(t.row.proc) = {} THEN {None} ELSE WaitingAt(t.row.proc) :
          tx' = (tx \ {t}) \cup {[t EXCEPT !.phase = "locked", !.wait = s]}
    /\ UNCHANGED <<proc, step, job, attempt, effects, disabled, signal, inbox,
                   claims, selected>>

\* The inbox rows the transaction settles: the reconciler marks its row APPLIED.
InboxOf(t) == {r \in selected : t.by = Reconciler /\ r.msg = t.row.msg}

SignalCommit(t) ==
    LET p == t.row.proc
        db == [Tables EXCEPT
                !.signal = @ \cup {t.row},
                !.inbox = (@ \ InboxOf(t)) \cup WithStatus(InboxOf(t), "APPLIED")]
    IN  /\ t.phase = "locked"
        /\ IF t.wait # None /\ SignalType[t.wait] = t.row.type
           THEN \E sig \in ReadySignals(db, p, t.wait) :
                  Advance(Completed([db EXCEPT !.signal = (@ \ {sig}) \cup WithStatus({sig}, "APPLIED")],
                                    p, t.wait, ParamOutcome[t.wait]),
                          p, ParamOutcome[t.wait])
           ELSE Write(db)
        /\ tx' = tx \ {t}
        /\ selected' = selected \ InboxOf(t)
        /\ UNCHANGED <<attempt, effects, disabled, claims>>

\* The caller fails before the commit; the reconciler loses its whole batch.
SignalAbort(t) ==
    /\ tx' = tx \ {t}
    /\ selected' = IF t.by = Reconciler THEN {} ELSE selected
    /\ UNCHANGED <<proc, step, job, attempt, effects, disabled, signal, inbox, claims>>

-----------------------------------------------------------------------------
(* receipt_accept_v1 (its inbox row) and reconcile_inbox *)

\* The payload holds the message id: two inbox rows never have the same body.
ReceiptArrives(m, p, b) ==
    /\ effects[<<p, PrepareStep>>] > 0
    /\ \A r \in inbox : r.msg # m /\ r.body # b
    /\ inbox' = inbox \cup {[msg |-> m, proc |-> p, type |-> ReceiptType, body |-> b,
                             status |-> "RECEIVED"]}
    /\ UNCHANGED <<proc, step, job, attempt, effects, disabled, signal, claims, tx, selected>>

ReconcilerIdle == \A t \in tx : t.by # Reconciler

\* Mutant: the rows of processes that run, not of those that wait.
ReconcileSelectRunning ==
    /\ selected = {} /\ ReconcilerIdle
    /\ selected' = {r \in inbox : r.status = "RECEIVED" /\ proc[r.proc].state = "RUNNING"}
    /\ UNCHANGED <<proc, step, job, attempt, effects, disabled, signal, inbox, claims, tx>>
ReconcileSelect ==
    /\ selected = {} /\ ReconcilerIdle
    /\ selected' = {r \in inbox : /\ r.status = "RECEIVED"
                                  /\ \E s \in WaitingAt(r.proc) : SignalType[s] = r.type}
    /\ UNCHANGED <<proc, step, job, attempt, effects, disabled, signal, inbox, claims, tx>>

ReconcileInsert(r) ==
    /\ ReconcilerIdle
    /\ Insert(Reconciler, r)
    /\ UNCHANGED <<proc, step, job, attempt, effects, disabled, signal, inbox,
                   claims, selected>>

\* accept_signal answers "duplicate": the row is APPLIED all the same.
ReconcileDuplicate(r) ==
    /\ ReconcilerIdle
    /\ ~Fresh(signal, r) /\ ~Conflict(signal, r)
    /\ inbox' = (inbox \ {r}) \cup WithStatus({r}, "APPLIED")
    /\ selected' = selected \ {r}
    /\ UNCHANGED <<proc, step, job, attempt, effects, disabled, signal, claims, tx>>

\* accept_signal raises: swallowed, the row stays RECEIVED.
\* Mutant: it is marked APPLIED.
ReconcileConflictApplied(r) ==
    /\ ReconcilerIdle
    /\ Conflict(signal, r)
    /\ inbox' = (inbox \ {r}) \cup WithStatus({r}, "APPLIED")
    /\ selected' = selected \ {r}
    /\ UNCHANGED <<proc, step, job, attempt, effects, disabled, signal, claims, tx>>
ReconcileConflict(r) ==
    /\ ReconcilerIdle
    /\ Conflict(signal, r)
    /\ selected' = selected \ {r}
    /\ UNCHANGED <<proc, step, job, attempt, effects, disabled, signal, inbox, claims, tx>>

-----------------------------------------------------------------------------

WorkerStep(c) ==
    \/ ProcessJob(c) \/ Invoke(c) \/ InvokeRepeated(c)
    \/ \E retryable \in BOOLEAN : InvokeError(c, retryable)
    \/ Timeout(c) \/ DbFailure(c)
    \/ FinishJob(c) \/ Commit(c) \/ CommitRefused(c)
    \/ FailStale(c) \/ FailRetry(c) \/ FailDead(c)

ReconcilerStep ==
    \/ ReconcileSelect
    \/ \E r \in selected :
          ReconcileInsert(r) \/ ReconcileDuplicate(r) \/ ReconcileConflict(r)

Next ==
    \/ \E p \in Procs : StartProcess(p)
    \/ \E p \in Procs, o \in Outcome : ManualDecision(p, o)
    \/ \E s \in AutoSteps : DisableAction(s)
    \/ \E j \in Jobs : TimePasses(j)
    \/ \E w \in Workers : ClaimJobs(w) \/ Crash(w)
    \/ \E c \in claims : WorkerStep(c)
    \/ \E x \in Senders, r \in Message({"ACCEPTED"}) : SendSignal(x, r)
    \/ \E t \in tx : SignalLock(t) \/ SignalCommit(t) \/ SignalAbort(t)
    \/ \E m \in Msgs, p \in Procs, b \in Bodies : ReceiptArrives(m, p, b)
    \/ ReconcilerStep

Spec == Init /\ [][Next]_vars

-----------------------------------------------------------------------------
(* Safety *)

\* The job of an AUTOMATIC step is in the state its step instance says: what the
\* trigger assert_job_lease_step_running checks of a lease, for every state.
JobMatchesStep ==
    \A p \in Procs, s \in AutoSteps :
        step[p][s].state = CASE job[<<p, s>>].state = "NONE"       -> "NONE"
                             [] job[<<p, s>>].state = "READY"      -> "READY"
                             [] job[<<p, s>>].state = "LEASED"     -> "RUNNING"
                             [] job[<<p, s>>].state = "RETRY_WAIT" -> "RUNNING"
                             [] job[<<p, s>>].state = "SUCCEEDED"  -> "COMPLETED"
                             [] job[<<p, s>>].state = "DEAD"       -> "FAILED"

\* The state of a process is that of its current step, and no other step of it
\* is unfinished.
CurrentStepRules ==
    \A p \in Procs :
        /\ proc[p].state = "NONE" =>
              proc[p].current = None /\ \A s \in Steps : step[p][s].state = "NONE"
        /\ proc[p].state # "NONE" => proc[p].current \in Steps
        /\ \A s \in Steps \ {proc[p].current} : step[p][s].state \in {"NONE", "COMPLETED"}
        /\ \A s \in Steps : s = proc[p].current =>
              /\ proc[p].state = "RUNNING" <=>
                    StepType[s] = "AUTOMATIC" /\ step[p][s].state \in {"READY", "RUNNING"}
              /\ proc[p].state = "WAITING_SIGNAL" <=>
                    StepType[s] = "WAIT_SIGNAL" /\ step[p][s].state = "WAITING"
              /\ proc[p].state = "WAITING_MANUAL" <=>
                    StepType[s] = "MANUAL" /\ step[p][s].state = "WAITING"
              /\ proc[p].state = "COMPLETED" <=>
                    StepType[s] = "END" /\ step[p][s].state = "COMPLETED"
              /\ proc[p].state = "FAILED" <=>
                    StepType[s] = "AUTOMATIC" /\ step[p][s].state = "FAILED"

\* The process, step and job tables agree whatever workers, signals and crashes
\* interleave: one unfinished step per process, at most one job that can run.
TablesAgree == JobMatchesStep /\ CurrentStepRules

\* ADR-003: exactly one subject effect for one logical work.  A job has its
\* effect, once, exactly when it is SUCCEEDED: no effect without the advance of
\* the process, no advance without the effect, no second effect by a stale worker.
OneEffect ==
    \A j \in Jobs : effects[j] = IF job[j].state = "SUCCEEDED" THEN 1 ELSE 0

\* One lease version is one right to finish: no two claims hold the same version
\* of a job, across reclaims, restarts and workers that share an owner name.
LeaseExclusive ==
    \A c, d \in claims : c.job = d.job /\ c.version = d.version => c = d

\* The attempts of a SUCCEEDED job tell how it came about: the last one SUCCEEDED
\* and every earlier one FAILED or, where its lease was lost, is STALE, as
\* WorkflowFencingTests reads task_attempt and the week 2 assignment has it of an
\* expired lease.  claim_jobs breaks it twice: it takes over a lease that ends
\* between its two statements without marking its attempt, and it marks the
\* attempt of a finish_job that has passed its fence and is about to commit.
SuccessHistory ==
    \A j \in Jobs : job[j].state = "SUCCEEDED" =>
        /\ attempt[j][job[j].version] = "SUCCEEDED"
        /\ \A v \in 1..(job[j].version - 1) : attempt[j][v] \in {"FAILED", "STALE"}

\* A job never fails more often than max_attempts, lost leases included.
RetryBudget ==
    \A j \in Jobs :
        Cardinality({v \in 1..MaxLease : attempt[j][v] = "FAILED"}) <= MaxAttempts[j[2]]

\* No signal is lost between accept_signal and _enter_step: a process never waits
\* for a signal that is already ACCEPTED.
NoLostSignal ==
    \A p \in Procs, r \in signal :
        \A s \in WaitingAt(p) :
            ~(r.proc = p /\ r.type = SignalType[s] /\ r.status = "ACCEPTED")

\* A signal moves a process once: as many signals of a type are APPLIED as wait
\* steps of that type are completed.
OneSignalPerWait ==
    \A p \in Procs, t \in SignalTypes :
        Cardinality({r \in signal : r.proc = p /\ r.type = t /\ r.status = "APPLIED"})
        = Cardinality({s \in WaitSteps : SignalType[s] = t /\ step[p][s].state = "COMPLETED"})

\* Message ids and bodies stay unique in workflow_signal, and an inbox row is
\* APPLIED only when its message is a signal of the process.
InboxReachesSignal ==
    /\ \A q, r \in signal : Clash(q, r) => q = r
    /\ \A r \in inbox : r.status = "APPLIED" => \E q \in signal : SameBody(q, r)

\* The step instances of a process are a path of the map: each completed step
\* has an outcome of the map and its successor was entered, each entered step is
\* the start or the successor of a completed one.
HistoryIsPath ==
    \A p \in Procs, s \in Steps :
        /\ step[p][s].state = "COMPLETED" /\ StepType[s] # "END" =>
              /\ step[p][s].outcome \in Allowed[s]
              /\ step[p][Target[s][step[p][s].outcome]].state # "NONE"
        /\ step[p][s].state # "NONE" /\ s # StartStep =>
              \E q \in Steps : /\ step[p][q].state = "COMPLETED"
                               /\ step[p][q].outcome \in Allowed[q]
                               /\ Target[q][step[p][q].outcome] = s

-----------------------------------------------------------------------------
(* What a step may never do *)

\* Nothing reopens a COMPLETED or FAILED process: no late finish, failure,
\* signal or decision changes it, its steps or its jobs.
FinalIsFinal ==
    [][\A p \in Procs : proc[p].state \in Terminal =>
          /\ proc'[p] = proc[p]
          /\ step'[p] = step[p]
          /\ \A s \in AutoSteps : job'[<<p, s>>] = job[<<p, s>>]]_vars

\* week2/04_assignment.md: an expired lease does not use up the failure budget:
\* a retryable failure makes a job DEAD only when max_attempts attempts failed.
StaleKeepsBudget ==
    [][\A c \in claims :
          c.phase = "failing" /\ c.retry /\ HoldsLease(c) /\ job'[c.job].state = "DEAD" =>
              Cardinality({v \in 1..MaxLease : attempt'[c.job][v] = "FAILED"})
                  >= MaxAttempts[c.job[2]]]_vars

-----------------------------------------------------------------------------
(* Liveness.  A worker that polls claims what is due and gets on with what it *)
(* claimed (each call has a timeout); the clock runs; the reconciler polls,   *)
(* and does not lose its connection every time it has a row to apply.         *)

OfWorker(w) == {c \in claims : c.by = w}
OfReconciler == {t \in tx : t.by = Reconciler}

Fairness ==
    /\ \A w \in Workers : /\ WF_vars(ClaimJobs(w))
                          /\ WF_vars(\E c \in OfWorker(w) : WorkerStep(c))
    /\ \A j \in Jobs : WF_vars(TimePasses(j))
    /\ WF_vars(ReconcilerStep)
    /\ SF_vars(\E t \in OfReconciler : SignalLock(t))
    /\ SF_vars(\E t \in OfReconciler : SignalCommit(t))

FairSpec == Spec /\ Fairness

\* A process does not run for ever: crashes, lost leases, retries and disabled
\* actions end in a step that waits, in COMPLETED or in FAILED.
RunningSettles ==
    \A p \in Procs : proc[p].state = "RUNNING" ~> proc[p].state # "RUNNING"

\* A receipt that arrived is applied or its process has ended, whether it came
\* before, while or after the process waits for it.
ReceiptSettles ==
    \A m \in Msgs, p \in Procs :
        (\E r \in inbox : r.msg = m /\ r.proc = p /\ r.status = "RECEIVED")
        ~> \/ \E r \in inbox : r.msg = m /\ r.status = "APPLIED"
           \/ proc[p].state \in Terminal

==============================================================================
