# DbFirstPractice: a TLA+ specification

DbFirstPractice runs payments through versioned business processes whose logic
lives in PostgreSQL functions. Small services around the database call these
functions concurrently: an API behind a gateway, workers, an outbox dispatcher,
an inbox reconciler and an adapter for the callbacks of an external provider.
What makes the system correct is how these callers interleave with each other,
with crashes, with expiring leases and with repeated messages. That is what the
modules here model, check with TLC and prove with TLAPS. The repository also holds
the acceptance checkers of the course, programs of several thousand lines that play
scenarios against a running candidate and race its workers; those of weeks 2 and 4
are modelled too, and the question there is whether their verdict is right.

Contents: 1 the system, 2 modules, 3 what each model abstracts, 4 runs,
5 fairness, 6 proofs, 7 findings, 8 not modelled, 9 plan.

## 1. The system

```
client -> Gateway -> Api -> api.invoke --(start_process, manual decision, submit)--> workflow.*
                                 ^                                                      |
Worker: claim_jobs -> [api.invoke + finish_job] -> fail_job <-----------------------> jobs
                                 |
             prepare_external_v1 inserts external_request + outbox
                                 v
dispatcher: claim_outbox -> POST -> provider -> callback -> adapter -> Api -> receipt.accept
            succeed/fail_outbox                                                  |
                                                            inbox + receipt <----+
reconciler: reconcile_inbox -> accept_signal -> the process leaves WAIT_SIGNAL
```

| Component (source) | State | Operations | What is hard |
|---|---|---|---|
| Workflow engine (`Api/Migrations/009`, `010`, `015`) | `process_instance`, `step_instance`, `workflow_job`, `task_attempt`, `workflow_signal` | `start_process`, `claim_jobs`, `finish_job`, `fail_job`, `accept_signal`, `_enter_step`, `_advance` | leases that expire under a live worker; a signal that races the entry of its wait step; early and repeated signals |
| Worker (`Worker/WorkerLoop.cs`) | the claimed batch, in memory | claim, invoke and finish in one transaction, fail in another | crash or timeout between any two calls; a commit whose acknowledgement is late; a restart under the same owner name |
| Inbox reconciler (`015: reconcile_inbox`, `Python/app/reconciler.py`) | none of its own | select `RECEIVED` rows of waiting processes, `accept_signal`, mark `APPLIED` | exceptions swallowed row by row; the batch lost with its connection |
| Outbox and dispatcher (`015`, `Python/app/dispatcher.py`) | `external_request`, `outbox`, the claimed batch | `prepare_external_v1`, `claim_outbox`, `succeed_outbox`, `fail_outbox` | the provider accepted but the answer was lost; the callback before the finish; two lock orders |
| Receipt acceptance (`015: receipt_accept_v1`) | `inbox`, `receipt` | insert, confirm request and outbox | repeated and conflicting messages, deadlock with `succeed_outbox` |
| Receipt adapter (`Python/app/adapter.py`) | none | verify, normalise, sign, forward | an answer lost after the commit |
| Payment processing and review actions (`015`) | `payment.operations.status`, `payment.decisions`, `operation_events` | `validate`, `apply_receipt`, `complete`, `reject`, `check_limit`, `approve`, `manual` | two receipts with different outcomes; a decision twice |
| Payment request and submit (`003`, `015`) | `payment.operations` | `request_v1`, `submit_v1` | two submits at once |
| API invocation (`Api/Services/ActionInvoker.cs`, `IdempotencyService.cs`, `DispatchService.cs`, `Api/Endpoints/ActionEndpoint.cs`) | `action_dispatches`, `idempotency_store` | read the manifest, check, claim the key, `api.invoke`, log, store, commit | two requests with one key; errors swallowed inside a transaction; a caller that leaves; a commit without an answer |
| Action catalog (`006`, `007`, `Shared/Services/ActionCatalogService.cs`) | `action_catalog`: versions, default, status | publish, activate, disable | a version that changes between check and call |
| Flow maps (`Cli/Utils/FlowMapValidator.cs`, `010`) | `flow_version` and its definitions | validate, publish, activate | a map the engine gets stuck on |
| Course checkers (`task/week2/autocheck/public_check.py`, `task/week4/autocheck/public_check.py`) | recorded checks, cleanup flag, containers of a candidate, snapshots of its tables | admission, phases or stages, polls with a deadline, stop, kill, pause and replace containers, verdict, cleanup, report | the candidate goes on between a read and the next step; an exception between two steps; a check recorded too early; a log lost with its container |
| Gateway, authentication, documents, CLI, schema and views | none that changes concurrently | | |

What correct means, per component:

- engine: the three tables of a process always agree; a job has its effect
  exactly once, and exactly when it is `SUCCEEDED`; a finished process stays
  finished; its history is a path of the map; it does not run for ever;
- signals: none is lost, none moves a process twice, and an inbox row is
  `APPLIED` only when its message really became a signal;
- delivery: `external_request`, `outbox` and `inbox` tell the same story, it never
  goes backwards, and every callback is stored in the end;
- payments: an operation is final only on recorded evidence (an applied receipt
  with that outcome, or a decision), its status agrees with the place of its
  process and with its events, it is decided once and stays final, and a receipt or
  a decision does become a status;
- API: a committed key has its answer and stands with the rows of its call; who was
  told success finds the row; identical repeats are told the same; an accepted body
  stays; a callback the provider repeats is accepted in the end; a payload its schema
  refuses runs only across a switch of the default version;
- checkers: a check passes only a candidate without the faults it is about, and fails
  a faultless one only when something was too slow; exit code, report, recorded checks
  and leftovers agree; what a stage takes away is back when the next one needs it; a
  run ends.

The places where each of these is exposed are the `hazards` of `PROJECT.json`.

## 2. Modules

| Module | What it is |
|---|---|
| `FlowMap` | a published map as constants, with what the validator guarantees as named assumptions |
| `Workflow` | engine, workers, signal clients, reconciler, manual decisions, `disable_action` |
| `MCWorkflow` | three maps for TLC, owner function, symmetry |
| `WorkflowProofs` | inductive invariant of `Workflow` and the theorems |
| `HistoryProofs` | on top of it: what the tables record of a process (end, attempts, budget, path), and the handshake of signals, inbox and wait steps |
| `Delivery` | abstract specification: what delivery promises of a request |
| `Outbox` | the delivery tables, dispatchers, provider, callbacks; instantiates `Delivery` |
| `MCOutbox` | owner function and symmetry |
| `OutboxProofs` | inductive invariant of `Outbox`, the theorems and the refinement |
| `Payment` | operations, submit, the processing and review actions, decisions, receipts and the reconciler as an operation sees them |
| `MCPayment` | symmetry |
| `PaymentProofs` | inductive invariant of `Payment` and the theorems |
| `Invocation` | the calls of `receipt.accept`: adapter, endpoint, transaction of `InvokeAsync`; runs as its own model |
| `InvocationProofs` | inductive invariant of `Invocation` and the theorems |
| `CheckRun` | week 2 checker: admission, phases, recorded checks, exceptions, cleanup, report |
| `WorkerProbe` | week 2 checker: phases concurrency, recovery and resilience, against an engine with two workers |
| `SignalProbe` | week 2 checker: phases execution and versioning, against an engine |
| `StageRun` | week 4 checker: stages, containers, logs, exceptions, cleanup, report |
| `OutageProbe` | week 4 checker: the provider outage, against two dispatchers |
| `ReceiptProbe` | week 4 checker: delivery, receipt, review and restart scenarios, against a candidate |
| `Checkers` | the six programs above, composed: a behaviour is one of them |
| `RunProofs` | inductive invariants of `CheckRun` and `StageRun`: exit codes, recorded failures, secrets |
| `ProbeProofs` | inductive invariants of the four scenarios: types, what they restore, what a pass shows |
| `VerdictProofs` | on top of it: what a candidate without faults goes through, and that none of the scenarios fails it |

`map` in `PROJECT.json` names the source lines of every definition. `Delivery` is
the statement of a promise, not of code, and is not in it.

### Workflow

A variable is what is committed. A transaction of one statement, or one that
holds the locks it needs from its first read to its last write, is one action.
One that reads, waits for a lock and then writes is split at the wait.

| Code | Model |
|---|---|
| `process_instance`, `step_instance`, `workflow_job`, `task_attempt` | `proc`, `step`, `job`, `attempt` |
| the business effect of an action with its `action_dispatches` row | `effects`, a counter per job |
| jobs a worker holds, where it is with each | `claims`, records with a `phase` |
| `workflow_signal`, `inbox`, open `accept_signal` transactions, rows locked by the reconciler | `signal`, `inbox`, `tx`, `selected` |
| `claim_jobs` | `ClaimJobs`: `Due`, `Expiring`, `Selection`, the jobs of a disabled action die here |
| `ProcessJobAsync` | `ProcessJob`, `Invoke`, `InvokeRepeated`, `InvokeError`, `Timeout`, `DbFailure`, `Crash` |
| `finish_job` and the commit | `FinishJob` (fence and row lock), `Commit`, `CommitRefused` |
| `fail_job` | `FailStale`, `FailRetry`, `FailDead` |
| `_enter_step`, `_apply_ready_signals`, `apply_inbox_for_process`, `_advance` | `Entered`, `EnterStep`, `Advance`, on a record `db` of the tables as the open transaction has left them |
| `accept_signal` | `SendSignal` / `ReconcileInsert` (insert), `SignalLock`, `SignalCommit`, `SignalAbort` |
| `reconcile_inbox` | `ReconcileSelect`, `ReconcileInsert`, `ReconcileDuplicate`, `ReconcileConflict` |
| `receipt_accept_v1`, its inbox row | `ReceiptArrives` |

### Outbox

| Code | Model |
|---|---|
| `external_request.state`, `outbox`, `inbox` + `receipt` | `request`, `outbox`, `inbox` |
| rows a dispatcher holds; open `receipt_accept_v1` transactions | `claims`, `open` |
| the provider (external) | `posted`, `accepted`, `callbacks`; `ProviderAccepts`, `Callback` |
| `claim_outbox`, POST, `classify_response` | `ClaimOutbox`, `Post`, `Answer` |
| `succeed_outbox`: outbox row, then request row | `SucceedOutbox`, `SucceedCommit` |
| `fail_outbox` | `FailOutbox` |
| `receipt_accept_v1`: insert, request row, then outbox row | `ReceiptInsert`, `ReceiptConfirm`, `ReceiptCommit`; `ReceiptKnown` for duplicate and conflict |
| a transaction that fails or is chosen to break a deadlock | `DbError`, `ReceiptAbort` |

### Payment

| Code | Model |
|---|---|
| `payment.operations`, `operation_events` | `op`, `events` (a count per status they tell of) |
| the current step of an operation's process; what its running action has answered | `at`, `work` |
| `external_request` exists; `payment.decisions`; `inbox` with `receipt` | `requested`, `decisions`, `rows` |
| rows locked by `reconcile_inbox`; processes with an early direct signal; calls of `submit_v1` | `selected`, `ready`, `submit` |
| `_set_status`, `request_v1` | `SetStatus`, `Request` |
| `submit_v1`: read without lock, then `start_process` and status | `SubmitRead`, `SubmitCommit` (`SubmittedOnce` is the unique index), `SubmitAbort` |
| `validate_v1`, `prepare_external_v1`, `apply_receipt_v1`, `check_limit_v1`, `approve_v1`, `complete_v1`, `reject_v1` | what they read: `ActionResult`, `Evidence`, at `Invoke`; what they write: `CommitJob`, `LimitDecision`, `FinalStatus` |
| the two published maps | `Transition`, `Enter` |
| domain errors; timeouts and lost leases; exhausted attempts and disabled actions | `FailJob`; `Retry`; `GiveUp` |
| `manual_v1` | `ManualDecision` |
| `receipt_accept_v1` | `InsertInbox`, `InsertReceipt` (each reads the clock), `ReceiptCommit`, `ReceiptAbort` |
| `reconcile_inbox` | `ReconcileSelect`, `ReconcileCommit`, `ReconcileAbort` |
| `accept_signal` from the command line | `Signal` |

### Invocation

| Code | Model |
|---|---|
| what the API does for a connection: its place, key, body, version, answer, and what its open transaction has done | `call`, one record per caller |
| `idempotency_store`, `inbox`, `action_dispatches`, the default version | `store`, `inbox`, `logged`, `default` |
| what callers were told (ghost) | `answers`; `lost`: keys told success by a transaction that was rolled back; `unchecked`: calls run by a version whose schema refuses them |
| `do_POST` with `normalize_callback`; another client | `AdapterPosts`; `DirectPosts` |
| `post_json` gives up | `Leave` |
| `Handle`: resolve the manifest, check the payload | `Handle` |
| `ClaimAsync`; `ClaimOrReplayAsync` on a known key | `Claim`; `Replay` |
| `api.invoke` with `receipt_accept_v1` | `Invoke`, `Accept` |
| `LogAsync`, `StoreResponseAsync`, with the errors they swallow | `Dispatch`, `StoreResponse` |
| `CommitAsync`: done; done but unanswered; turned into a rollback | `Commit`; `CommitUnanswered`; `CommitAborted` |
| a token that is cancelled, and the statement that throws; a database error; a stop of the API | `Cancel`, `Timeout`; `Unavailable`; `Crash` |
| `activate` of a version | `Activate` |

### The checkers

| Code | Model |
|---|---|
| `record`, `fail_missing`, `run_phase`, `run_checks`, `main` (week 2) | `CheckRun`: `record`, `fail_missing`, `Raise`, one action per part of admission and publication, `PhaseStep`, `PhaseEnds`, `UnknownOutcome`, `Verdict`, `Cleanup...`, `Write...` |
| `concurrency`, `recovery`, `resilience`; their polls, kills and recreates | `WorkerProbe`: `Concurrency...`, `StaleFinish`, `Recovery...`, `Resilience...`, `Restore`; the candidate: `Claim`, `Act`, `Finish`, `Fail`, `TimePasses` |
| `execution`, `versioning` | `SignalProbe`: `Execution...`, `Versioning...`; the candidate: `Work`, `Signal`, `Start` |
| `execute` and its stages, `_capture_logs`, log hygiene, `main` (week 4) | `StageRun`: one action per part of a stage that changes containers, `LogHygiene`, `Raise`, `Interrupt`, `Verdict`, `Cleanup`, `WriteReport` |
| the outage scenario | `OutageProbe`: `Outage...`, `RecoveryWindow`, `DockerFails`; the candidate: `Claim`, `Post`, `Report`, `Callback` |
| provider, adapter, review, recreate and restart scenarios | `ReceiptProbe`: `Provider...`, `Adapter...`, `Review...`, `Recreate...`, `Restart...`; the candidate: `Prepare`, `Claim`, `Deliver`, `Callback`, `Apply` |

## 3. Abstractions

`Workflow` and `Outbox`:

- Time is one flag per row, `due`: the timestamp that gates the next claim has
  passed. `TimePasses` sets it at any moment, so a lease can end at any step of its
  holder. Timestamps that only order rows become a choice: any row may be first.
- `attempt_count` and `lease_version` start together and are incremented together
  by every claim, and nothing else writes them: one field stands for both.
- A body is its hash; business keys, operation ids and process ids are one name.
- Rows written for reading only (`workflow_event`, logs) are left out.

`Workflow`:

- A map is acyclic, so a process is at a step at most once, and `<<process, step>>`
  names the step instance, the job and the execution id.
- `_advance` and everything it calls run under the process row lock, so they are
  one step with the commit. An inbox row locked by the reconciler, or a signal key
  held by an open transaction, is waited for; the wait can be ended by a timeout or
  by the loss of the connection, which also covers a deadlock between the two.
- The reconciler's batch is one transaction in the code; the model commits row by
  row and loses the rest of the batch when the connection is lost. The rows of
  different processes are independent, and a row of the batch that would be rolled
  back is selected again.
- An action of a step is its outcome, any outcome the map has a transition for; an
  outcome it has none for is `InvokeError`, as in the worker.
- A call of `accept_signal` that finds a duplicate or a conflict writes nothing and
  is not a step.
- `NoAdjacentWaits` assumes that no transition joins two `WAIT_SIGNAL` steps. It
  holds of every map the migrations publish; the validator does not demand it.

`Outbox`:

- `fail_outbox` reads the row and then updates it under the same fence; the second
  statement checks the fence again, so the pair is one step.
- The idempotency key of `receipt.accept` is the message id: two calls for one
  message wait for each other, which is the guard on `open` in `ReceiptInsert`.
- An answer to the provider that is lost leaves the callback in `callbacks`.

`Payment`:

- The engine is what `Workflow` shows of it: one effect per job, committed together
  with the transition. What an action reads is read earlier, at `Invoke`, so
  everything that can be committed in between is.
- `prepare_external_v1` commits the request together with the entry of the wait
  step, so in the published map no receipt can precede the wait; only a direct
  signal can (`ready`). Direct signals have message ids of their own.
- An amount is whether it is within the limit; kind and amount are fixed by the
  request and chosen in `Init`.
- A process of an operation is started by `submit_v1` only; a process started by
  `flow start` on the command line under an operation's business key is not
  modelled.
- A reconciled batch is one commit. A row of it whose message id was taken by a
  direct signal is the subject of `Workflow`, not of this module.
- `MaxStamp` bounds the clock readings, `GiveUps` and `DirectSignals` switch the
  behaviours that the liveness run has to exclude.

`Invocation`:

- The bytes of a call are its message and its result; the text of a callback is
  dropped by the adapter's normalisation before anything is compared, so it is not a
  part of the body. Headers, policy and signature of a call are checked before the
  manifest and change nothing: a call that fails them is not a step.
- The two waits of the code, for the key and for the inbox row of a message, are
  guards on what other open transactions hold (`Free`, `Unwritten`).
- The request and outbox rows that `receipt_accept_v1` also writes are the subject of
  `Outbox`.
- An error answer tells its caller nothing about the rows, so only successes are kept
  in `answers`.
- A message in `Unknown` names no request, one in `Narrow` is refused by the schema of
  version 2. `MaxFaults` bounds what goes wrong: timeouts, disconnects, database
  errors, unanswered commits and crashes together.

The checkers:

- A candidate is correct except for a set of faults, chosen in `Init` and listed per
  check (`Detects`, `Faults`): each fault is one deviation from the contract that the
  check is there to detect. `MaxFaults` bounds how many a candidate has at once, the
  candidate without a fault always being one of them.
- A check that only reads (a query, an HTTP answer, a file) goes on or raises; what is
  compared is modelled, how it is fetched is not. Polling is one step that waits until
  the condition holds or the deadline passes.
- A deadline may pass at any moment. The flag `late` records that the candidate still
  could move then: such a failure is the machine's, and excluded from `NoFalseFail`.
- Worker and dispatcher loops are the ones of the contract, with one job or one
  delivery at a time, bounded by `MaxClaims`.
- `CheckRun` and `StageRun` leave the findings of a check open and follow the
  bookkeeping; the probes follow how a finding comes about. `Checkers` chooses one of
  the six in `Init` and runs it alone: a checker's phases share no state with another
  checker's.

Bounds: `MaxLease` is the last lease version. A lease of that version does not
expire and a claim of it is not lost; every other failure remains possible. So the
models are finite, and liveness holds on the assumption that crashes and lost
leases stop at some point, without which no such system makes progress. The
theorems hold for every `MaxLease`.

## 4. Runs

Passing runs:

| Run | Instance | Distinct states | Properties |
|---|---|---|---|
| `engine` | 1 process with an action (`max_attempts` 2) and a wait step, 2 workers sharing an owner name, `MaxLease` 2, 2 senders, reconciler, 2 message ids, 2 bodies | 352 380 | `TypeOK`, `TablesAgree`, `OneEffect`, `LeaseExclusive`, `RetryBudget`, `NoLostSignal`, `OneSignalPerWait`, `InboxReachesSignal` |
| `progress` | one map with a branch, a manual step and a receipt, 1 worker, reconciler, 1 message id, fairness | 26 904 | `HistoryIsPath`, `FinalIsFinal`, `RunningSettles`, `ReceiptSettles` |
| `outbox` | 1 request, 2 dispatchers sharing an owner name, `max_attempts` 2, `MaxLease` 3, 1 message id, 2 bodies, fairness | 6 517 | `DeliveryAgrees`, `LeaseExclusive`, `OneReceiptPerMessage`, `SentMeansAccepted`, `NeverGoesBack`, `DeliverySettles`, `CallbackStored` |
| `payment` | 1 operation of either kind, 2 submits, 2 message ids, 4 clock readings, direct signals and failing jobs | 25 190 | `StatusFollowsProcess`, `FinalHasEvidence`, `EventsTellStatus`, `OneDecision`, `FinalStatusStays` |
| `payment_progress` | 2 submits, 1 message id, fairness, no direct signals, no given-up jobs | 354 | `ReceiptDecides`, `DecisionDecides` |
| `invocation` | 2 callers, 2 messages (one unknown, one narrow), 2 keys each, 2 faults, fairness | 1 171 056 | `KeyIsAnswerable`, `SuccessIsDurable`, `RepeatsAgree`, `UncheckedOnlyWhenSwitched`, `InboxStays`, `CallbackAccepted` |
| `checkers` | the six programs; 2 failing checks, 1 fault (2 in the outage), 4 claims of a job, 6 of a delivery, 4 allowed attempts, 1 failing compose command, 1 secret in a log, fairness | 610 816 | `TypeOK`, `NoFalsePass`, `NoFalseFail`, `ExitTellsVerdict`, `StackRestored`, `SecretsFound`, `FailureStays`, `CheckersEnd` |

Why the bounds are enough for the cases the properties are about:

- `engine`: two holders of one job need two workers and two lease versions. Both workers
  have the same owner name, so only the version can tell them apart. A claimed job may
  wait for its turn for as long as it likes, so a batch of one already has the lease that
  ends before its job is begun; larger batches, more processes and more lease versions
  are covered by the theorems. Two senders and the reconciler collide in every way two
  keys can (same id, same body, both, neither), before, while and after the wait step is
  entered, and with a worker that lost its lease there.
- `progress`: every outcome of every branch; the first action may not be retried, the
  later ones once. The receipt comes before, during or after the wait, or to a process
  that has taken the other branch. A second receipt is in `engine` and `payment`.
- `outbox`: two bodies under one message give a repeat and a conflict; two dispatchers
  and the callback give every order of the two row locks. A claimed row may wait for its
  turn until its lease has ended and the other dispatcher has claimed it, which is what a
  row of a larger batch does; batches of any size are covered by `DispatchLease`. A second message id for a
  confirmed request is covered by the theorems, which hold for any number of them.
- `payment`: operations share nothing, so one is enough. Two submits race each
  other and the end of the process. Two messages with four clock readings give
  every order of two inbox rows, two receipt rows and two commits, with equal and
  different outcomes.
- `payment_progress`: with two message ids the property would not hold, nor does the
  code claim it: the reconciler may apply one message while `apply_receipt_v1` takes
  the outcome of the other, and `complete_v1` then refuses with
  `payment.evidence_missing`. What must not happen then, a status without evidence, is
  `FinalHasEvidence`.
- `invocation`: two callers meet at one key (adapter twice), at one message under two
  keys (adapter and direct), and at neither; either body. Two faults are enough for a
  swallowed error followed by a timeout, an unanswered commit followed by a caller that
  leaves, and a crash of what the first fault left behind.
- `checkers`: a fault at a time shows which check finds it; the outage scenario takes two,
  because a fault of the retries can hide one of the payments. Four claims let a job of the
  week 2 contract be lost once and fail three times; six let a delivery use up its four
  attempts with two lost leases.

Symmetry is used only in the runs without liveness, for sets the specification
does not tell apart (messages, bodies, senders, workers or dispatchers under one owner name).
Deadlock checking is on, and weak: an idle worker or dispatcher polls, which is
always possible. That nobody waits for ever on somebody else is what the
liveness properties show. Nothing polls in `Payment`, whose processes end, and a checker
exits: those runs do not check deadlock.

What the properties say, shortly: `TablesAgree` process, step and job state match
and one step at most is unfinished. `OneEffect` effect once, exactly if
`SUCCEEDED` (ADR-003). `LeaseExclusive`, of jobs and of deliveries, no two claims with
one version. `RetryBudget` never more failures than `max_attempts`. `NoLostSignal` nobody
waits beside an accepted signal. `OneSignalPerWait` as many applied signals as
completed waits. `FinalIsFinal` nothing reopens a finished process. `NeverGoesBack`
is the refinement of `Delivery`. `SentMeansAccepted` no `SENT` that the provider
has not accepted.

`FinalHasEvidence`, `StatusFollowsProcess`,
`EventsTellStatus`, `OneDecision` and `FinalStatusStays` are the list for payments in
section 1; `ReceiptDecides` and `DecisionDecides` are its last line. The properties of
`invocation` and `checkers` are the last two items there, in that order.

Two properties of `checkers` say less than their names. `NoFalsePass` excepts a candidate
that sends what must not be sent (`sends_stopped`, `redelivers`), unless the provider had it
when the checker read its audit: the count of posts is read once (`3473`), and what is sent
later passes. `StackRestored` speaks of phases of week 2 recorded as passed, of the stages
of week 4 and of paused dispatchers: a phase of week 2 that raises restores no workers
(`3231`), the code promises nothing there, and no property is stated.

Every property of a passing run has a mutant in `PROJECT.json`: a plausible slip in
one mapped definition (a fence without its version, a reclaim that keeps the
version, a read without `FOR UPDATE`) under which the same run fails.

## 5. Fairness

`Workflow!Fairness`: a worker polls in a loop, so a possible claim happens (WF), and
each call it makes has a timeout, so a claimed job moves on (WF). The clock runs
(WF on `TimePasses`). The reconciler polls (WF); its transaction can be aborted, but
not each time for ever (SF on its lock and its commit). No fairness for starts,
manual decisions, senders, crashes, `disable_action`, or arriving receipts.

`Outbox!Fairness`: the same for dispatchers and clock. The provider repeats a
callback it has no answer to, and the calls do not all fail (SF on the three steps
of `receipt_accept_v1`). PostgreSQL breaks a deadlock by aborting one transaction (WF on
`Victim`) and gives a row to a transaction queued for it (SF on `SucceedCommit`). No
fairness for the provider accepting a post or calling back at all.

`Payment!Fairness`: the workers get on with a job (WF on `JobStep`) and are not timed out
each time (SF on `CommitJob`, `FailJob`); both are what `Workflow!RunningSettles` shows
of the engine. The reconciler polls (WF on `ReconcileSelect`) and is not aborted each
time (SF on `ReconcileCommit`). No fairness for requests, submits, decisions, signals
or receipts.

`Invocation!Spec`: the API goes on with a call it has begun, which includes the wait for
another transaction (WF on `Serve`); the provider repeats a callback until it is accepted
(SF on `AdapterPosts`, because both connections may be busy now and then). No fairness for
other clients, activation or faults, of which there are finitely many.

`Checkers!Fairness`: a checker is one thread whose every wait has a deadline (WF on the
steps of the program that runs). None for the candidate: `CheckersEnd` holds against one
that hangs.

## 6. Proofs

All proofs are for every value of the constants under the named assumptions of
`FlowMap` (`MapTypes`, `WaitCovered`, `Acyclic`, `NoAdjacentWaits`), `Workflow`
(`WorkflowTypes`, `BoundLeavesRetries`), `Outbox` (`OutboxTypes`) and `Payment`
(`PaymentTypes`), `Invocation` (`InvocationConstants`) and `Checkers` (`CheckersTypes`): any map, any
number of processes, workers, clients, messages, requests, dispatchers, operations, submits, callers
and faults. `CheckersTypes` asks for at least one claim (a job that starts inline has made one) and one
allowed attempt.

`WorkflowProofs`. `TablesAgree` and `OneEffect` are not inductive alone. `IInv` adds

- `FinishingHolds`: a worker between fence and commit still holds the lease, alone,
  because nobody writes the locked job row: hence its commit finds the job `LEASED`
  and the effect not done;
- `ClaimFacts`: a claim's version is never above its job's, so a new lease is new,
  and its outcome is one of the map's, so the commit can advance;
- `VersionLeft`: a job that can be claimed has a version below the bound left;
- `Ranked`: the current step is the highest entered one, so the step that is entered
  has no instance and no job yet (this is where acyclicity is used);
- `LockedWait`: the wait step that a locked `accept_signal` read is still waiting when
  it commits.

Entering a step is proved once (`EnterStepLands`, `LandedAgrees`, `EnterStepKeeps`)
for any tables that are ready for it (`Landing`) and used for start, finish, manual
decision and signal. Theorems: `Invariance`, `TypeCorrect`, `Agreement`
(`TablesAgree`), `EffectOnce` (`OneEffect`), `LeaseRight` (`LeaseExclusive`).
`Enters` states once what `_enter_step` does to the rows of one process, and is what the
next module uses of it.

`HistoryProofs`, from `IInv`. `EndIsFinal` (`FinalIsFinal`) goes action by action: each that
writes a process finds it open. `WithinBudget` (`RetryBudget`)
needs `HInv`: `RetryBudget` counts rows and is not inductive. `AttemptRows` (a version has
an attempt row exactly when it was claimed, and a `FAILED` one has given its lease up) and `FailedInBudget`
are: a failed version is below `max_attempts` or is the last one of a `DEAD` job, because
`fail_job` compares the number of claims, and only one version can be the last.
`StepsArePath` (`HistoryIsPath`): a step comes to be only by a start or by a completed step whose outcome leads to it
(`ComesTo`), and neither is undone.

The signals, in the same module and from `IInv`. `NoneLost` (`NoLostSignal`) needs `SInv`: while a transaction that
found nobody waiting holds the process lock, nobody waits (`LockedQuiet`), and signals
go to processes that have started (`Started`), so a start finds none.
`ReceiptsReach` (`InboxReachesSignal`) needs `UInv`: an inserted but uncommitted row owns its keys (`KeysAlone`), the reconciler's open row is one
it selected (`ReconcilesSelected`), and message ids are unique in the inbox too (`Tidy`).
`EachMovesOnce` (`OneSignalPerWait`) compares two counts, so it goes step by step: one that
completes a wait step applies one signal of its type (`MovesMatched`), one that enters a wait
step whose signal is there does both at once (`EnterStepMatched`), and all others do neither
(`MatchedKept`). For that, `CInv`: what an open transaction has inserted is not applied yet.

`OutboxProofs`. `IInv` adds to the checked invariants `VersionLeft`, `ClaimFacts` (a
delivering claim holds its lease; an `ok` answer means the provider accepted) and
`OpenFresh` (an open `receipt_accept_v1` owns its message id). Theorems:
`OutboxInvariance`, `DeliveryAgreement`, `MessageOnce`, `SentIsAccepted`, `DispatchLease`, and
`OutboxImplementsDelivery`: `Outbox` implements `Delivery` with the phase of a request
read off `outbox.state` and the kept receipts off `inbox`. `SucceedCommit` is `Send`
(its request is not yet confirmed, because it still holds the lease),
`ReceiptCommit` is `Confirm`, `Prepare` is `Request`, all other steps stutter.

`PaymentProofs`. The checked invariants are not inductive: a commit relies on what was
read before it. `IInv` adds

- `WorkFacts`: while an answer other than an error is pending at a deciding step, its
  evidence is recorded (`Proven`). Evidence is never taken back (`ProvenStays`): an
  `APPLIED` row and a decision stay, so the commit may rely on it;
- `KindFacts`: a process walks the map of its operation's kind;
- `Undecided`: before the deciding step there is no decision, so the one that is
  recorded is the first;
- `CallFacts`: a submit that has read the operation found one, and rows under
  reconciliation are not applied yet.

`SubmitChanges` is the heart of the race of submits: a commit either starts the process
of a `CREATED` operation or leaves operation, events and process alone. Theorems:
`PaymentInvariance`, `PaymentTypeCorrect`, `FinalOnEvidence` (`FinalHasEvidence`),
`StatusAgreement` (`StatusFollowsProcess`), `EventHistory` (`EventsTellStatus`), `DecidedOnce`
(`OneDecision`) and `FinalStays` (`FinalStatusStays`).

`InvocationProofs`. What an answer promises rests on what open transactions hold, so `IInv`
adds

- `Calls`: what the tables say to each call (`Local`): one that has claimed its key finds
  no committed row at it, one that wrote the inbox row finds none committed, one whose
  action has run either wrote the row or found its own body there, and one that has
  passed `StoreResponse` has stored its answer or cannot commit;
- `Exclusive`: one transaction at a key, and one that wrote the row of a message, so a
  commit meets empty rows;
- `ToldIsKept`: what was told is, word for word, the row of the key; `KeyResult`: a row has a
  body. From these `RepeatsAgree` and `SuccessIsDurable` follow.

A step either changes one call and no row (`CallStep`) or is a commit (`CommitStep`); each is
proved once. `CheckedInv` is a second invariant, on top of `IInv`: a call in its transaction
was admitted by a version that was or is the default (`Manifest`); `OnlyWhenSwitched`
follows. Theorems: `InvocationInvariance`, `InvocationTypeCorrect`, `KeyAnswers`
(`KeyIsAnswerable`), `SuccessDurable`, `RepeatsAgreed`, `InboxKept` (`InboxStays`) and
`OnlyWhenSwitched` (`UncheckedOnlyWhenSwitched`).

`RunProofs`. The exit code is decided at the end, from what was recorded on the way, so `RInv`
(`CheckRun`) says at every step what is recorded so far: `AdmissionRecords`, `PhaseRecords` and
`VerdictRecords` name the checks that must have a result by then unless one failed;
`CleanupArmed`: nothing of the project exists before its cleanup is armed; `NoVerdictYet`: until the
verdict the code is that of a run that could not be carried out; `VerdictStands`: a code 0 or 1
stays only while cleanup and report succeed. `SInv` (`StageRun`) adds `StackAsLeft` (which
containers each step may find stopped, and the evidence the later stages need), `LogsRead`
(a secret still in a log at a capture was written since the last one) and `StageVerdict`.
Theorems: `ExitCodesTellVerdicts` (`ExitTellsVerdict`), `RecordedFailuresStay` (`FailureStays`)
and `SecretsAreFound` (`SecretsFound`).

`ProbeProofs`, for any number of faults at once (the runs check one or two).

- `OInv` (outage): one dispatcher at a time holds the delivery until it is paid
  (`OutageDelivery`), and a `RETRY_WAIT` the checker has read was possible only without the
  faults it looks for (`OutageRetry`), whoever moves the row afterwards.
- `CInv` (receipts): the faults that a step has excluded once the checker is past it
  (`ReceiptShown`), the traces that a fault leaves in the rows until then (`ReceiptTraces`:
  no count of 1 where payments are doubled, two rows where a repeat is stored, nothing
  `REJECTED` where the outcome is ignored, ...), and that a delivery which came too early is
  still counted when the audit asks (`ReceiptEarly`).
- `WInv` (workers): no more versions and attempts than claims (`WorkTables`), and a check is
  recorded only on the way to the step that restores the workers (`WorkRecords`).
- `WShow` (workers): the traces that a fault leaves in the tables of the engine until a check
  looks, whoever claims, finishes or loses the lease in between: what a claim and a finish
  write (`WorkClaimTraces`, `WorkFinishTraces`), how many attempts, effects and dispatches there
  can be (`WorkCounts`), which worker holds the job while the other one is paused (`WorkHeld`,
  `WorkWinner`, `WorkDoubled`), and what the steps before have excluded (`WorkReclaimShown`,
  `WorkRecovers`, `WorkResumes`).
- `GInv` and `GShow` (signals): the tables; the traces in processes, signals and history
  (`SignTraces`, `SignRoutes`, `SignRows`, `SignHistory`), and what each step of the two phases
  has excluded (`SignShown`, `SignVersions`).

Theorems: `CheckersKeepTypes` (`TypeOK` of all six programs), `StackIsRestored`
(`StackRestored`, as narrow as section 4 says) and what a pass shows:

- `WeekFourPassesAreEarned`: the part of `NoFalsePass` about the scenarios of week 4, without a
  bound on the faults: no fault hides another. Of `sends_stopped` and `redelivers` it says
  only that the provider did not have the post when its audit was read.
- `WeekTwoPassesAreEarned`: the same for the checks of week 2, again for any number of faults.
  Here two faults can hide another one, and the theorem says which (`WeekTwoVerdicts`): an effect
  written outside the transaction (`effect_outside`) makes up for a finish that loses its own
  (`lost_effect`) in the check of the reclaim, and an engine that takes some transition on an
  outcome its map does not know (`unknown_fallback`) ends the process before it could retry it
  (`unknown_retried`).
- `PassesAreEarned`: `MaxFaults <= 1 => (Spec => []NoFalsePass)`. The bound is that of
  the run (`OutageFaults` stays free) and is needed for week 2 only: with one fault at a time
  neither of the two pairs is there. Without it the two theorems before say what holds.

`VerdictProofs`. `FailuresAreEarned` is the other half of a right verdict, `NoFalseFail`: a
candidate without faults is failed only when a deadline, a lease or a delay passed while
something was still to be done (`late`), or Docker failed. That a wait does not fail means that
the candidate can still move whenever the awaited row is not there, so the invariants say where
it stands at each step of the checker, and hold as long as there is no fault and nothing was late:

- `WFair` (workers): a job has one attempt per claim, numbered by its version, and the last one
  tells its state (`FairAttempts`); effects and claims are those of its mode (`FairOutcome`); a
  busy worker holds the lease or is the winner of the race that is about to be killed
  (`FairLease`), and a lease without a worker occurs only after a kill or a restart, where the
  other worker takes it over (`Orphaned`); which containers run, with which failpoint
  (`FairPhases`); how far the race for the job (`FairRace`) and the crash between action and
  finish (`FairCrash`) have come.
- `GFair` (signals): the rows of each process and its signals, step by step (`FairSignal`,
  `FairEarly`, `FairVersions`).
- `OFair` (outage): a leased delivery has a dispatcher at work, it dies of nothing but its
  attempts (`FairDelivery`), and while the recovery window is open a refused attempt is not the
  last one (`FairOpen`): this is what `_require_recovery_window` makes sure of.
- `RFair` (receipts): operation, delivery, payment and receipt row keep step (`FairPayment`), a
  leased delivery is in the hand of a dispatcher (`FairHands`), and an operation is over before
  the checker goes on to the next (`FairProgress`).

`JobPolls` and its likes for the other scenarios show that a deadline that passes with the
awaited row missing finds the candidate `Busy`, so that it counts as `late`. The theorem has two hypotheses on the
bounds of the model, `WorkerClaims >= 3` and `OutageClaims >= OutageAttempts`, which the run meets:
the race needs three claims of a job, the retries three attempts, and a delivery must not be kept
from its last attempt by the bound; with fewer the model, not the candidate, would stop.

Only model-checked: liveness, which is out of the prover's reach (`CheckersEnd` and the other
temporal properties of section 5). Every invariant and every action property of the passing runs
has its theorem.

## 7. Findings

Each is a run that TLC must find violated, stating what a document of the repository
says.

- `stale_budget`, `StaleKeepsBudget`: a lost lease uses up the failure budget, because
  `fail_job` compares `attempt_count`, which every claim increments, with
  `max_attempts`. The week 2 assignment says it must not.
- `attempt_history`, `SuccessHistory`: the attempts of a `SUCCEEDED` job do not always tell how
  it came about. `claim_jobs` reads the clock in two statements: a lease that ends between them
  (`Expiring`) is taken over while its attempt stays `RUNNING`. This is the trace TLC shows.
  There is a second way, one step longer, which does not need the two clocks: the statement that
  marks attempts takes no lock on the job, so it marks `STALE` the attempt of a `finish_job`
  that has passed its fence, and the job is `SUCCEEDED` without a `SUCCEEDED` attempt. The
  assignment says an expired lease leaves its attempt `STALE`, `WorkflowFencingTests` reads
  `STALE,SUCCEEDED`, and the week 2 checker wants the last attempt, and only it, `SUCCEEDED`.
- `submit_overtaken`, `SubmitAnswered`: a submit that read the operation as `CREATED` and
  is overtaken by another submit and by the end of its process violates the unique
  index on `OPERATION_SUBMITTED` and is answered `internal.error`. The tables stay right
  (`StatusFollowsProcess`, `FinalStatusStays`), and a repeated call is answered
  `PROCESSING`; the test of concurrent submits asserts `ok` for each.
- `returns_after_commit`, `ReturnsAfterCommit`: an error of the dispatch row or of the stored
  answer is swallowed inside the transaction. PostgreSQL then turns the commit into a
  rollback without an error, and the caller is told `RECEIVED` for a receipt that is not
  stored. `SuccessIsDurable` shows that nothing else breaks that promise.
- `unknown_outcome`, `UnknownOutcomeCounts`: the week 2 checker records
  `version-pinning-and-start-idempotency` before it looks at the process with an unknown
  outcome; what it finds there changes no check.

Observed while modelling, without a run of their own:

- The limit of delivery attempts is compared only when a failure is reported; a dispatcher
  that dies after each claim makes more.
- The endpoint and `api.invoke` resolve the default version each for itself:
  `UncheckedOnlyWhenSwitched` says exactly when the two differ.
- Ctrl-C in the week 4 checker ends the run without the containers being removed; the exit
  code says so.
- In the outage scenario a missed window is an environment error, but when pausing the
  dispatcher also fails it is reported as the candidate's.

## 8. Not modelled

- Gateway, authentication, signatures, request and response schemas, OpenAPI
  documents: stateless, one request at a time.
- CLI and migrations: sequential, run by one process.
- Roles, grants and the read-only views.
- The checkers of weeks 1 and 3: week 1 has no workers or dispatchers to race, and week 3
  plays an earlier form of the provider, adapter, review and recreate scenarios of week 4.
  The parts of all checkers that parse compose files, manifests and images, and the tests.
- The validator of maps, `publish_flow` and `activate_flow`: their guarantee is the
  assumption of `FlowMap`.
- The upload of a manifest, one insert.
- Partly modelled components say in `PROJECT.json` what is missing.
- A job whose every attempt ends in a database error is claimed for ever (no limit on
  claims without a reported failure), and so is a delivery. Both are listed as hazards;
  `MaxLease` excludes them.

## 9. Plan

In this order:

1. done: `FlowMap`, `Workflow`, `Outbox`, `Delivery`, with the runs and proofs above.
2. done: `Payment`, request and submit included, with its runs and proofs.
3. done: `Invocation`, with the switch of the default version, its run and its proofs.
4. done: the checkers of weeks 2 and 4.
5. A composition of `Payment` with the wait step of `Workflow` and the receipts of
   `Outbox`: from a submit to a final status through all three.
6. `FlowValidation`: the validator's algorithm (reachability, cycle search, transition
   coverage) against the reference definition that `FlowMap` assumes, over all
   small maps.
7. An abstract specification of a process as a walk through its map, refined by
   `Workflow`, and one of the idempotency store, refined by `Invocation`.
8. done: theorems for the safety properties of `Workflow`.
9. done: theorems for the checkers, `NoFalsePass` and `NoFalseFail` included.
