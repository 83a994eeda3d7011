------------------------------- MODULE Payment -------------------------------
(***************************************************************************)
(* The payment actions on top of the workflow engine: payment.operations,  *)
(* its events and decisions, the receipts of an operation and the place of *)
(* its process in the map payment-processing or payment-review.            *)
(*                                                                         *)
(* The engine is taken at what Workflow shows of it: a job runs once, and  *)
(* its effect is committed together with the transition.  What an action   *)
(* reads, it reads before the commit: Invoke reads, CommitJob writes, and  *)
(* submits, receipts, signals and decisions come in between.  Signals that *)
(* are sent directly have message ids of their own.                        *)
(***************************************************************************)
EXTENDS Naturals, FiniteSets

CONSTANTS
    Ops,            \* operations, one per request id
    Callers,        \* calls of payment.submit, each under its own key
    Msgs,           \* message ids of receipts
    MaxStamp,       \* bound: clock readings told apart
    DirectSignals,  \* whether flow signal is used besides the reconciler
    GiveUps,        \* whether jobs can fail for reasons outside the actions
    None            \* null, and nobody's result

VARIABLES
    op,             \* operations: status, kind, amount within the limit, process_id set
    events,         \* operation_events per operation, counted by the status they tell of
    at,             \* step of the process of an operation
    work,           \* what the running action of the process will answer
    requested,      \* operations with an external_request
    decisions,      \* decisions
    rows,           \* inbox and receipt rows
    selected,       \* rows reconcile_inbox has selected and locked
    ready,          \* processes with a direct signal accepted before the wait
    submit          \* calls of payment.submit: operation and answer

vars == <<op, events, at, work, requested, decisions, rows, selected, ready, submit>>

-----------------------------------------------------------------------------

Final == {"COMPLETED", "REJECTED"}
Status == {"NONE", "CREATED", "PROCESSING"} \cup Final
Kinds == {"PAYMENT_EXECUTION", "PAYMENT_APPROVAL"}

JobSteps == {"validate_operation", "prepare_external_request", "apply_receipt",
             "complete_operation", "reject_operation", "check_limit", "approve_operation"}
WaitSteps == {"wait_receipt", "wait_manual_decision"}
Places == JobSteps \cup WaitSteps \cup {"none", "done", "FAILED"}
Results == {"VALID", "PREPARED", "COMPLETED", "REJECTED", "WITHIN_LIMIT", "REVIEW_REQUIRED",
            "APPROVED", "error"}
Verdicts == {"APPROVED", "REJECTED"}
Stamps == 1..MaxStamp

OpRow == [status : Status, kind : Kinds, within : BOOLEAN, pinned : BOOLEAN]
\* inserting, inserted: the rows of an open receipt_accept_v1.
Row == [msg : Msgs, op : Ops, outcome : Final, inboxAt : Stamps, receiptAt : {0} \cup Stamps,
        state : {"inserting", "inserted", "RECEIVED", "APPLIED"}]
Decision == [op : Ops, step : {"check_limit", "wait_manual_decision"}, outcome : Verdicts]
Answers == {"idle", "read", "PROCESSING", "error"}

ASSUME PaymentTypes ==
    /\ MaxStamp \in Nat
    /\ DirectSignals \in BOOLEAN /\ GiveUps \in BOOLEAN
    /\ None \notin Results

TypeOK ==
    /\ op \in [Ops -> OpRow]
    /\ events \in [Ops -> [Status \ {"NONE"} -> Nat]]
    /\ at \in [Ops -> Places]
    /\ work \in [Ops -> Results \cup {None}]
    /\ requested \subseteq Ops
    /\ decisions \subseteq Decision
    /\ rows \subseteq Row
    /\ selected \subseteq rows
    /\ ready \subseteq Ops
    /\ submit \in [Callers -> [op : Ops, answer : Answers]]

\* The kind and the amount of an operation are in the payload of its request.
Init ==
    /\ op \in [Ops -> [status : {"NONE"}, kind : Kinds, within : BOOLEAN, pinned : {FALSE}]]
    /\ events = [o \in Ops |-> [s \in Status \ {"NONE"} |-> 0]]
    /\ at = [o \in Ops |-> "none"]
    /\ work = [o \in Ops |-> None]
    /\ requested = {} /\ decisions = {} /\ rows = {} /\ selected = {} /\ ready = {}
    /\ submit \in [Callers -> [op : Ops, answer : {"idle"}]]

-----------------------------------------------------------------------------
(* _set_status, request_v1, submit_v1 *)

\* The update and its event, or neither.
\* Mutant: the event is forgotten.
SetStatusNoEvent(o, st, pin) ==
    /\ op' = [op EXCEPT ![o].status = st, ![o].pinned = @ \/ pin]
    /\ UNCHANGED events
SetStatus(o, st, pin) ==
    IF op[o].status = st THEN UNCHANGED <<op, events>>
    ELSE /\ op' = [op EXCEPT ![o].status = st, ![o].pinned = @ \/ pin]
         /\ events' = [events EXCEPT ![o][st] = @ + 1]

\* The key (principal, request_id) makes a request an operation once.
Request(o) ==
    /\ op[o].status = "NONE"
    /\ SetStatus(o, "CREATED", FALSE)
    /\ UNCHANGED <<at, work, requested, decisions, rows, selected, ready, submit>>

\* submit_v1 reads the operation, without a lock.
SubmitRead(x) ==
    LET o == submit[x].op
    IN  /\ submit[x].answer = "idle"
        /\ op[o].status # "NONE"
        /\ submit' = [submit EXCEPT ![x].answer =
                        IF op[o].pinned THEN "PROCESSING"
                        ELSE IF op[o].status = "CREATED" THEN "read" ELSE "error"]
        /\ UNCHANGED <<op, events, at, work, requested, decisions, rows, selected, ready>>

\* ux_operation_events_submit_once: a second OPERATION_SUBMITTED is refused.
\* Mutant: the index is not there.
SubmittedOnceNever(o) == FALSE
SubmittedOnce(o) == op[o].status # "PROCESSING" /\ events[o]["PROCESSING"] > 0

\* start_process creates the process or finds the one of another submit; then
\* the status is set.  A refused event undoes the update: internal.error.
SubmitCommit(x) ==
    LET o == submit[x].op
    IN  /\ submit[x].answer = "read"
        /\ at' = [at EXCEPT ![o] = IF @ = "none" THEN "validate_operation" ELSE @]
        /\ IF SubmittedOnce(o)
           THEN /\ submit' = [submit EXCEPT ![x].answer = "error"]
                /\ UNCHANGED <<op, events>>
           ELSE /\ submit' = [submit EXCEPT ![x].answer = "PROCESSING"]
                /\ SetStatus(o, "PROCESSING", TRUE)
        /\ UNCHANGED <<work, requested, decisions, rows, selected, ready>>

\* A timeout or a lost connection; the client may call again.
SubmitAbort(x) ==
    /\ submit[x].answer = "read"
    /\ submit' = [submit EXCEPT ![x].answer = "idle"]
    /\ UNCHANGED <<op, events, at, work, requested, decisions, rows, selected, ready>>

-----------------------------------------------------------------------------
(* The actions of the automatic steps *)

Stored(o) == {r \in rows : r.op = o /\ r.state \in {"RECEIVED", "APPLIED"}}
\* ORDER BY received_at LIMIT 1, of the receipt rows.
First(S) == {r \in S : \A q \in S : r.receiptAt <= q.receiptAt}
Decided(o, v) == \E d \in decisions : d.op = o /\ d.outcome = v

\* Mutant: a stored receipt is enough.
EvidenceUnapplied(o, v) ==
    IF op[o].kind = "PAYMENT_EXECUTION" THEN \E r \in Stored(o) : r.outcome = v
    ELSE Decided(o, IF v = "COMPLETED" THEN "APPROVED" ELSE v)
Evidence(o, v) ==
    IF op[o].kind = "PAYMENT_EXECUTION"
    THEN \E r \in First({q \in Stored(o) : q.outcome = v}) : r.state = "APPLIED"
    ELSE Decided(o, IF v = "COMPLETED" THEN "APPROVED" ELSE v)

If(cond, r) == {IF cond THEN r ELSE "error"}

\* What the action of the current step answers.
ActionResult(o) ==
    CASE at[o] = "validate_operation" -> If(op[o].status \in {"PROCESSING"} \cup Final, "VALID")
      [] at[o] = "prepare_external_request" -> If(op[o].pinned, "PREPARED")
      [] at[o] = "apply_receipt" ->
            IF Stored(o) = {} THEN {"error"} ELSE {r.outcome : r \in First(Stored(o))}
      [] at[o] = "check_limit" -> {IF op[o].within THEN "WITHIN_LIMIT" ELSE "REVIEW_REQUIRED"}
      [] at[o] = "approve_operation" -> If(Decided(o, "APPROVED"), "APPROVED")
      [] at[o] = "complete_operation" -> If(Evidence(o, "COMPLETED"), "COMPLETED")
      [] at[o] = "reject_operation" -> If(Evidence(o, "REJECTED"), "REJECTED")

\* The transitions of the two maps.
Transition(s, k, r) ==
    CASE s = "validate_operation" -> IF k = "PAYMENT_EXECUTION" THEN "prepare_external_request"
                                     ELSE "check_limit"
      [] s = "prepare_external_request" -> "wait_receipt"
      [] s = "apply_receipt" -> IF r = "COMPLETED" THEN "complete_operation"
                                ELSE "reject_operation"
      [] s = "check_limit" -> IF r = "WITHIN_LIMIT" THEN "approve_operation"
                              ELSE "wait_manual_decision"
      [] OTHER -> "done"

\* The wait step applies a signal that is ready.  No receipt can be: the request
\* is committed with the entry of the wait step.
Enter(o, s) == IF s = "wait_receipt" /\ o \in ready THEN "apply_receipt" ELSE s

FinalSteps == {"complete_operation", "approve_operation", "reject_operation"}

\* Mutant: every final step completes the operation.
FinalStatusCompleted(s) == "COMPLETED"
FinalStatus(s) == IF s = "reject_operation" THEN "REJECTED" ELSE "COMPLETED"

Invoke(o) ==
    /\ at[o] \in JobSteps /\ work[o] = None
    /\ \E r \in ActionResult(o) : work' = [work EXCEPT ![o] = r]
    /\ UNCHANGED <<op, events, at, requested, decisions, rows, selected, ready, submit>>

\* check_limit_v1 records a decision only when the limit decides.
\* Mutant: it records one in any case.
LimitDecisionAlways(o) == {[op |-> o, step |-> "check_limit", outcome |-> "APPROVED"]}
LimitDecision(o) ==
    IF work[o] = "WITHIN_LIMIT"
    THEN {[op |-> o, step |-> "check_limit", outcome |-> "APPROVED"]} ELSE {}

CommitJob(o) ==
    LET s == at[o]
    IN  /\ work[o] \notin {None, "error"}
        /\ IF s \in FinalSteps THEN SetStatus(o, FinalStatus(s), FALSE)
           ELSE UNCHANGED <<op, events>>
        /\ requested' = IF s = "prepare_external_request" THEN requested \cup {o} ELSE requested
        /\ decisions' = IF s = "check_limit" THEN decisions \cup LimitDecision(o) ELSE decisions
        /\ at' = [at EXCEPT ![o] = Enter(o, Transition(s, op[o].kind, work[o]))]
        /\ work' = [work EXCEPT ![o] = None]
        /\ UNCHANGED <<rows, selected, ready, submit>>

\* A domain error is not retryable: fail_job makes the job DEAD.
FailJob(o) ==
    /\ work[o] = "error"
    /\ at' = [at EXCEPT ![o] = "FAILED"]
    /\ work' = [work EXCEPT ![o] = None]
    /\ UNCHANGED <<op, events, requested, decisions, rows, selected, ready, submit>>

\* A timeout, a crash or a lost lease: rolled back and tried again ...
Retry(o) ==
    /\ work[o] # None
    /\ work' = [work EXCEPT ![o] = None]
    /\ UNCHANGED <<op, events, at, requested, decisions, rows, selected, ready, submit>>

\* ... or given up, or the action is disabled.
GiveUp(o) ==
    /\ GiveUps
    /\ at[o] \in JobSteps
    /\ at' = [at EXCEPT ![o] = "FAILED"]
    /\ work' = [work EXCEPT ![o] = None]
    /\ UNCHANGED <<op, events, requested, decisions, rows, selected, ready, submit>>

-----------------------------------------------------------------------------
(* manual_v1: one decision, under the lock of the process *)

ManualDecision(o, v) ==
    /\ at[o] = "wait_manual_decision"
    /\ decisions' = decisions \cup {[op |-> o, step |-> "wait_manual_decision", outcome |-> v]}
    /\ at' = [at EXCEPT ![o] = IF v = "APPROVED" THEN "approve_operation" ELSE "reject_operation"]
    /\ UNCHANGED <<op, events, work, requested, rows, selected, ready, submit>>

-----------------------------------------------------------------------------
(* receipt_accept_v1: the inbox row and the receipt row read the clock each, *)
(* and two receipts of one request may commit in either order.               *)

Now(t) ==
    /\ \A r \in rows : r.inboxAt < t /\ r.receiptAt < t
    /\ \A u \in Stamps : u < t => \E r \in rows : r.inboxAt >= u \/ r.receiptAt >= u

Replace(r, q) == rows' = (rows \ {r}) \cup {q}

\* A message id that is known or being inserted changes nothing.
InsertInbox(m, o, v) ==
    /\ o \in requested
    /\ \A r \in rows : r.msg # m
    /\ \E t \in Stamps :
          /\ Now(t)
          /\ rows' = rows \cup {[msg |-> m, op |-> o, outcome |-> v, inboxAt |-> t,
                                 receiptAt |-> 0, state |-> "inserting"]}
    /\ UNCHANGED <<op, events, at, work, requested, decisions, selected, ready, submit>>

InsertReceipt(r) ==
    /\ r.state = "inserting"
    /\ \E t \in Stamps : Now(t) /\ Replace(r, [r EXCEPT !.receiptAt = t, !.state = "inserted"])
    /\ UNCHANGED <<op, events, at, work, requested, decisions, selected, ready, submit>>

ReceiptCommit(r) ==
    /\ r.state = "inserted"
    /\ Replace(r, [r EXCEPT !.state = "RECEIVED"])
    /\ UNCHANGED <<op, events, at, work, requested, decisions, selected, ready, submit>>

ReceiptAbort(r) ==
    /\ r.state \in {"inserting", "inserted"}
    /\ rows' = rows \ {r}
    /\ UNCHANGED <<op, events, at, work, requested, decisions, selected, ready, submit>>

-----------------------------------------------------------------------------
(* reconcile_inbox and flow signal *)

\* Mutant: rows of processes past the wait step.
WaitingRowsPast == {r \in rows : r.state = "RECEIVED" /\ at[r.op] = "apply_receipt"}
WaitingRows == {r \in rows : r.state = "RECEIVED" /\ at[r.op] = "wait_receipt"}

\* ORDER BY received_at LIMIT p_limit, of the inbox rows.
ReconcileSelect ==
    /\ selected = {}
    /\ \E S \in SUBSET WaitingRows \ {{}} :
          /\ \A r \in S, q \in WaitingRows : q.inboxAt < r.inboxAt => q \in S
          /\ selected' = S
    /\ UNCHANGED <<op, events, at, work, requested, decisions, rows, ready, submit>>

\* Every selected row is APPLIED, and its receipt with it; the first of a
\* process moves it, if nobody else has.
ReconcileCommit ==
    /\ selected # {}
    /\ rows' = (rows \ selected) \cup {[r EXCEPT !.state = "APPLIED"] : r \in selected}
    /\ at' = [o \in Ops |->
                IF at[o] = "wait_receipt" /\ \E r \in selected : r.op = o
                THEN "apply_receipt" ELSE at[o]]
    /\ selected' = {}
    /\ UNCHANGED <<op, events, work, requested, decisions, ready, submit>>

ReconcileAbort ==
    /\ selected # {}
    /\ selected' = {}
    /\ UNCHANGED <<op, events, at, work, requested, decisions, rows, ready, submit>>

\* accept_signal without a receipt, from the command line.
Signal(o) ==
    /\ DirectSignals
    /\ op[o].kind = "PAYMENT_EXECUTION"
    /\ \/ at[o] = "wait_receipt" /\ at' = [at EXCEPT ![o] = "apply_receipt"] /\ UNCHANGED ready
       \/ at[o] \in JobSteps /\ o \notin ready /\ ready' = ready \cup {o} /\ UNCHANGED at
    /\ UNCHANGED <<op, events, work, requested, decisions, rows, selected, submit>>

-----------------------------------------------------------------------------

JobStep(o) == Invoke(o) \/ CommitJob(o) \/ FailJob(o)

Next ==
    \/ \E o \in Ops : Request(o) \/ JobStep(o) \/ Retry(o) \/ GiveUp(o) \/ Signal(o)
    \/ \E x \in Callers : SubmitRead(x) \/ SubmitCommit(x) \/ SubmitAbort(x)
    \/ \E o \in Ops, v \in Verdicts : ManualDecision(o, v)
    \/ \E m \in Msgs, o \in Ops, v \in Final : InsertInbox(m, o, v)
    \/ \E r \in rows : InsertReceipt(r) \/ ReceiptCommit(r) \/ ReceiptAbort(r)
    \/ ReconcileSelect \/ ReconcileCommit \/ ReconcileAbort

Spec == Init /\ [][Next]_vars

-----------------------------------------------------------------------------
(* Safety *)

\* No operation is PROCESSING without a process, no process belongs to a CREATED
\* operation, and an operation is final exactly when its process is done:
\* submits that were overtaken and repeated jobs included.
StatusFollowsProcess ==
    \A o \in Ops :
        /\ op[o].pinned <=> at[o] # "none"
        /\ at[o] = "none" <=> op[o].status \in {"NONE", "CREATED"}
        /\ at[o] = "done" <=> op[o].status \in Final

\* A payment is executed only on an applied receipt with its outcome, and
\* approved or rejected only on a recorded decision, whatever signals were sent
\* and in whatever order receipts were stored.
FinalHasEvidence ==
    \A o \in Ops : op[o].status \in Final =>
        IF op[o].kind = "PAYMENT_EXECUTION"
        THEN \E r \in rows : r.op = o /\ r.outcome = op[o].status /\ r.state = "APPLIED"
        ELSE Decided(o, IF op[o].status = "COMPLETED" THEN "APPROVED" ELSE "REJECTED")

\* The events of an operation are its history: each status it has had, once.
EventsTellStatus ==
    \A o \in Ops :
        /\ events[o]["CREATED"] = IF op[o].status = "NONE" THEN 0 ELSE 1
        /\ events[o]["PROCESSING"] = IF op[o].status \in {"NONE", "CREATED"} THEN 0 ELSE 1
        /\ \A s \in Final : events[o][s] = IF op[o].status = s THEN 1 ELSE 0

\* One operation has one decision: the limit rule and a reviewer never both decide.
OneDecision == \A d, e \in decisions : d.op = e.op => d = e

\* A final operation keeps its status and its events, late submits included.
FinalStatusStays ==
    [][\A o \in Ops : op[o].status \in Final => op'[o] = op[o] /\ events'[o] = events[o]]_vars

\* PaymentSubmitTests.ConcurrentDistinctKeySubmits: every concurrent submit is
\* answered ok with PROCESSING.
SubmitAnswered == \A x \in Callers : submit[x].answer # "error"

-----------------------------------------------------------------------------
(* Liveness.  The workers get on with a job and do not fail at it every time; *)
(* an open receipt_accept_v1 ends; the reconciler polls and is not aborted    *)
(* every time.                                                                *)

Fairness ==
    /\ \A o \in Ops :
          /\ WF_vars(JobStep(o))
          /\ SF_vars(CommitJob(o)) /\ SF_vars(FailJob(o))
    /\ WF_vars(ReconcileSelect)
    /\ SF_vars(ReconcileCommit)

FairSpec == Spec /\ Fairness

\* A stored receipt makes its operation final (one message id per request, and no
\* signal besides the reconciler's).
ReceiptDecides ==
    \A o \in Ops : Stored(o) # {} ~> op[o].status \in Final

\* A decision, of the rule or of a reviewer, becomes the status of its operation.
DecisionDecides ==
    \A o \in Ops, v \in Verdicts :
        Decided(o, v) ~> op[o].status = IF v = "APPROVED" THEN "COMPLETED" ELSE "REJECTED"

==============================================================================
