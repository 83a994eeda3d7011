---------------------------- MODULE PaymentProofs ----------------------------
(***************************************************************************)
(* Proofs about Payment for every value of its constants.                  *)
(*                                                                         *)
(* An action reads its evidence before its commit.  The argument is that   *)
(* evidence is never taken back: an APPLIED row and a decision stay, so    *)
(* what work answers is still true when it is committed.                   *)
(***************************************************************************)
EXTENDS Payment, TLAPS

\* What must be recorded before operation o may have status v.
Proven(o, v) ==
    IF op[o].kind = "PAYMENT_EXECUTION"
    THEN \E r \in rows : r.op = o /\ r.outcome = v /\ r.state = "APPLIED"
    ELSE Decided(o, IF v = "COMPLETED" THEN "APPROVED" ELSE "REJECTED")

\* A process walks the map of its operation's kind.
KindFacts ==
    \A o \in Ops :
        at[o] \notin IF op[o].kind = "PAYMENT_EXECUTION"
                     THEN {"check_limit", "wait_manual_decision", "approve_operation"}
                     ELSE {"prepare_external_request", "wait_receipt", "apply_receipt",
                           "complete_operation"}

\* Until a process has passed its deciding step, nothing is decided.
Undecided ==
    \A o \in Ops :
        \/ op[o].kind = "PAYMENT_EXECUTION"
        \/ at[o] \in {"none", "validate_operation", "check_limit", "wait_manual_decision"}
        => \A d \in decisions : d.op # o

\* What an action answered is still so: its evidence is there until the commit.
WorkFacts ==
    \A o \in Ops : work[o] # None =>
        /\ at[o] \in JobSteps
        /\ at[o] = "complete_operation" /\ work[o] # "error" => Proven(o, "COMPLETED")
        /\ at[o] = "approve_operation" /\ work[o] # "error" => Proven(o, "COMPLETED")
        /\ at[o] = "reject_operation" /\ work[o] # "error" => Proven(o, "REJECTED")

\* A submit that has read the operation found one; rows under reconciliation are
\* not applied yet.
CallFacts ==
    /\ \A x \in Callers : submit[x].answer = "read" => op[submit[x].op].status # "NONE"
    /\ \A r \in selected : r.state = "RECEIVED"

IInv ==
    /\ TypeOK /\ StatusFollowsProcess /\ FinalHasEvidence /\ EventsTellStatus /\ OneDecision
    /\ KindFacts /\ Undecided /\ WorkFacts /\ CallFacts

-----------------------------------------------------------------------------

\* FinalHasEvidence in terms of Proven.
LEMMA EvidenceIsProven ==
    FinalHasEvidence <=> \A o \in Ops : op[o].status \in Final => Proven(o, op[o].status)
    BY DEF FinalHasEvidence, Proven, Final

\* The empty tables satisfy the invariant.
LEMMA InitIInv == Init => IInv
<1> SUFFICES ASSUME Init PROVE IInv
    OBVIOUS
<1>1. TypeOK
    BY PaymentTypes DEF Init, TypeOK, OpRow, Status, Places, Kinds, Answers
<1>2. StatusFollowsProcess /\ FinalHasEvidence
    BY DEF Init, StatusFollowsProcess, FinalHasEvidence, Final
<1>3. EventsTellStatus
    BY DEF Init, EventsTellStatus, Status, Final
<1>4. OneDecision /\ KindFacts /\ Undecided /\ WorkFacts /\ CallFacts
    BY DEF Init, OneDecision, KindFacts, Undecided, WorkFacts, CallFacts
<1> QED
    BY <1>1, <1>2, <1>3, <1>4 DEF IInv

\* Evidence stays while APPLIED rows, decisions and kinds stay.
LEMMA ProvenStays ==
    ASSUME NEW o \in Ops, NEW v,
           op'[o].kind = op[o].kind, decisions \subseteq decisions',
           \A r \in rows : r.state = "APPLIED" => r \in rows',
           Proven(o, v)
    PROVE  Proven(o, v)'
    BY DEF Proven, Decided

\* A step that leaves operations, events, places, answers and decisions alone, and
\* takes no APPLIED row away, keeps what does not speak of calls.
LEMMA RowStep ==
    ASSUME IInv, UNCHANGED <<op, events, at, work, decisions>>,
           \A r \in rows : r.state = "APPLIED" => r \in rows',
           TypeOK', CallFacts'
    PROVE  IInv'
<1> USE DEF IInv
<1>1. \A o \in Ops, v \in Final : Proven(o, v) => Proven(o, v)'
    BY ProvenStays
<1>2. StatusFollowsProcess' /\ EventsTellStatus' /\ OneDecision' /\ KindFacts' /\ Undecided'
    BY DEF StatusFollowsProcess, EventsTellStatus, OneDecision, KindFacts, Undecided
<1>3. FinalHasEvidence'
    <2>1. \A o \in Ops : op[o].status \in Final => Proven(o, op[o].status)'
        BY <1>1, EvidenceIsProven
    <2> QED
        BY <2>1 DEF FinalHasEvidence, Proven, Final
<1>4. WorkFacts'
    BY <1>1 DEF WorkFacts, Final
<1> QED
    BY <1>2, <1>3, <1>4

\* Steps of receipt_accept_v1 and of the reconciler before its commit.
LEMMA ReceiptSteps ==
    ASSUME IInv,
           \/ \E m \in Msgs, o \in Ops, v \in Final : InsertInbox(m, o, v)
           \/ \E r \in rows : InsertReceipt(r) \/ ReceiptCommit(r) \/ ReceiptAbort(r)
           \/ ReconcileSelect \/ ReconcileAbort
    PROVE  IInv'
<1> USE DEF IInv
<1>1. ASSUME NEW m \in Msgs, NEW o \in Ops, NEW v \in Final, InsertInbox(m, o, v) PROVE IInv'
    <2>1. PICK t \in Stamps :
              rows' = rows \cup {[msg |-> m, op |-> o, outcome |-> v, inboxAt |-> t,
                                  receiptAt |-> 0, state |-> "inserting"]}
        BY <1>1 DEF InsertInbox
    <2>a. [msg |-> m, op |-> o, outcome |-> v, inboxAt |-> t, receiptAt |-> 0,
           state |-> "inserting"] \in Row
        BY <1>1 DEF Row
    <2>2. TypeOK'
        BY <1>1, <2>1, <2>a DEF InsertInbox, TypeOK
    <2>3. CallFacts'
        BY <1>1 DEF InsertInbox, CallFacts
    <2> QED
        BY <1>1, <2>1, <2>2, <2>3, RowStep DEF InsertInbox
<1>2. ASSUME NEW r \in rows, InsertReceipt(r) PROVE IInv'
    <2>0. r \in Row /\ r \notin selected
        BY <1>2 DEF TypeOK, CallFacts, InsertReceipt
    <2>1. PICK t \in Stamps :
              rows' = (rows \ {r}) \cup {[r EXCEPT !.receiptAt = t, !.state = "inserted"]}
        BY <1>2 DEF InsertReceipt, Replace
    <2>2. TypeOK'
        BY <1>2, <2>0, <2>1 DEF InsertReceipt, TypeOK, Row
    <2>3. CallFacts'
        BY <1>2 DEF InsertReceipt, CallFacts
    <2> QED
        BY <1>2, <2>1, <2>2, <2>3, RowStep DEF InsertReceipt
<1>3. ASSUME NEW r \in rows, ReceiptCommit(r) PROVE IInv'
    <2>0. r \in Row /\ r \notin selected
        BY <1>3 DEF TypeOK, CallFacts, ReceiptCommit
    <2>1. rows' = (rows \ {r}) \cup {[r EXCEPT !.state = "RECEIVED"]}
        BY <1>3 DEF ReceiptCommit, Replace
    <2>2. TypeOK'
        BY <1>3, <2>0, <2>1 DEF ReceiptCommit, TypeOK, Row
    <2>3. CallFacts'
        BY <1>3 DEF ReceiptCommit, CallFacts
    <2> QED
        BY <1>3, <2>1, <2>2, <2>3, RowStep DEF ReceiptCommit
<1>4. ASSUME NEW r \in rows, ReceiptAbort(r) PROVE IInv'
    <2>0. r \notin selected
        BY <1>4 DEF CallFacts, ReceiptAbort
    <2>1. TypeOK' /\ CallFacts'
        BY <1>4, <2>0 DEF ReceiptAbort, TypeOK, CallFacts
    <2> QED
        BY <1>4, <2>1, RowStep DEF ReceiptAbort
<1>5. ASSUME ReconcileSelect PROVE IInv'
    <2>1. TypeOK' /\ CallFacts'
        BY <1>5 DEF ReconcileSelect, WaitingRows, TypeOK, CallFacts
    <2> QED
        BY <1>5, <2>1, RowStep DEF ReconcileSelect
<1>6. ASSUME ReconcileAbort PROVE IInv'
    <2>1. TypeOK' /\ CallFacts'
        BY <1>6 DEF ReconcileAbort, TypeOK, CallFacts
    <2> QED
        BY <1>6, <2>1, RowStep DEF ReconcileAbort
<1> QED
    BY <1>1, <1>2, <1>3, <1>4, <1>5, <1>6

-----------------------------------------------------------------------------
(* The actions of the automatic steps *)

\* What an action answers is a result, and rests on evidence where it decides.
LEMMA AnswerFacts ==
    ASSUME TypeOK, KindFacts, NEW o \in Ops, at[o] \in JobSteps, NEW r \in ActionResult(o)
    PROVE  /\ r \in Results
           /\ at[o] \in {"complete_operation", "approve_operation"} /\ r # "error"
                => Proven(o, "COMPLETED")
           /\ at[o] = "reject_operation" /\ r # "error" => Proven(o, "REJECTED")
<1>1. CASE at[o] \in {"validate_operation", "prepare_external_request", "check_limit"}
    BY <1>1 DEF ActionResult, If, Results
<1>2. CASE at[o] = "apply_receipt"
    <2>1. r = "error" \/ \E q \in rows : r = q.outcome
        BY <1>2 DEF ActionResult, First, Stored
    <2>2. \A q \in rows : q.outcome \in Final
        BY DEF TypeOK, Row
    <2> QED
        BY <1>2, <2>1, <2>2 DEF Results, Final
<1>3. CASE at[o] = "approve_operation"
    <2>1. r = "error" \/ (r = "APPROVED" /\ Decided(o, "APPROVED"))
        BY <1>3 DEF ActionResult, If
    <2>2. op[o].kind # "PAYMENT_EXECUTION"
        BY <1>3 DEF KindFacts
    <2> QED
        BY <1>3, <2>1, <2>2 DEF Results, Proven
<1>4. \A v \in Final : Evidence(o, v) => Proven(o, v)
    BY DEF Evidence, Proven, First, Stored, Final
<1>5. CASE at[o] = "complete_operation"
    <2>1. r = "error" \/ (r = "COMPLETED" /\ Evidence(o, "COMPLETED"))
        BY <1>5 DEF ActionResult, If
    <2> QED
        BY <1>4, <1>5, <2>1 DEF Results, Final
<1>6. CASE at[o] = "reject_operation"
    <2>1. r = "error" \/ (r = "REJECTED" /\ Evidence(o, "REJECTED"))
        BY <1>6 DEF ActionResult, If
    <2> QED
        BY <1>4, <1>6, <2>1 DEF Results, Final
<1> QED
    BY <1>1, <1>2, <1>3, <1>5, <1>6 DEF JobSteps

\* Steps that change only what a running action has answered.
LEMMA WorkSteps ==
    ASSUME IInv, NEW o \in Ops, Invoke(o) \/ Retry(o)
    PROVE  IInv'
<1> USE DEF IInv
<1>1. PICK r \in Results \cup {None} :
          /\ work' = [work EXCEPT ![o] = r]
          /\ r # None => /\ at[o] \in JobSteps
                         /\ at[o] \in {"complete_operation", "approve_operation"} /\ r # "error"
                               => Proven(o, "COMPLETED")
                         /\ at[o] = "reject_operation" /\ r # "error" => Proven(o, "REJECTED")
    BY AnswerFacts DEF Invoke, Retry
<1>2. UNCHANGED <<op, events, at, requested, decisions, rows, selected, ready, submit>>
    BY DEF Invoke, Retry
<1>3. TypeOK'
    BY <1>1, <1>2 DEF TypeOK
<1>4. StatusFollowsProcess' /\ FinalHasEvidence' /\ EventsTellStatus' /\ OneDecision'
    BY <1>2 DEF StatusFollowsProcess, FinalHasEvidence, EventsTellStatus, OneDecision, Decided
<1>5. KindFacts' /\ Undecided' /\ CallFacts'
    BY <1>2 DEF KindFacts, Undecided, CallFacts
<1>6. \A q \in Ops, v \in Final : Proven(q, v) => Proven(q, v)'
    BY <1>2, ProvenStays
<1>7. WorkFacts'
    BY <1>1, <1>2, <1>6 DEF WorkFacts, TypeOK, Final
<1> QED
    BY <1>3, <1>4, <1>5, <1>7

\* A process moves on, its operation being in progress before and after.
LEMMA MoveStep ==
    ASSUME IInv, NEW o \in Ops, NEW s \in Places,
           UNCHANGED <<op, events, rows>>,
           at[o] \notin {"none", "done"}, s \notin {"none", "done"},
           at' = [at EXCEPT ![o] = s],
           work' = [work EXCEPT ![o] = None],
           decisions \subseteq decisions',
           TypeOK', OneDecision', CallFacts',
           KindFacts', Undecided'
    PROVE  IInv'
<1> USE DEF IInv
<1>1. StatusFollowsProcess'
    BY DEF StatusFollowsProcess, TypeOK
<1>2. EventsTellStatus'
    BY DEF EventsTellStatus
<1>3. \A q \in Ops, v \in Final : Proven(q, v) => Proven(q, v)'
    BY ProvenStays
<1>4. FinalHasEvidence'
    <2>1. \A q \in Ops : op[q].status \in Final => Proven(q, op[q].status)'
        BY <1>3, EvidenceIsProven
    <2> QED
        BY <2>1 DEF FinalHasEvidence, Proven, Final
<1>5. WorkFacts'
    BY <1>3 DEF WorkFacts, TypeOK, Final
<1> QED
    BY <1>1, <1>2, <1>4, <1>5

\* Jobs that fail, and signals.
LEMMA FailSteps ==
    ASSUME IInv, NEW o \in Ops, FailJob(o) \/ GiveUp(o) \/ Signal(o)
    PROVE  IInv'
<1> USE DEF IInv
<1>1. CASE FailJob(o) \/ GiveUp(o)
    <2>1. /\ at[o] \in JobSteps
          /\ at' = [at EXCEPT ![o] = "FAILED"] /\ work' = [work EXCEPT ![o] = None]
          /\ UNCHANGED <<op, events, requested, decisions, rows, selected, ready, submit>>
        BY <1>1, PaymentTypes DEF FailJob, GiveUp, WorkFacts, Results
    <2>2. TypeOK' /\ OneDecision' /\ CallFacts'
        BY <2>1 DEF TypeOK, OneDecision, CallFacts, Places
    <2>3. KindFacts' /\ Undecided'
        BY <2>1 DEF KindFacts, Undecided, TypeOK
    <2> QED
        BY <2>1, <2>2, <2>3, MoveStep DEF JobSteps, Places
<1>2. CASE Signal(o)
    <2>1. UNCHANGED <<op, events, work, requested, decisions, rows, selected, submit>>
        BY <1>2 DEF Signal
    <2>2. CASE /\ at[o] = "wait_receipt" /\ at' = [at EXCEPT ![o] = "apply_receipt"]
               /\ UNCHANGED ready
        <3>1. work' = [work EXCEPT ![o] = None]
            BY <2>1, <2>2 DEF WorkFacts, TypeOK, JobSteps
        <3>2. TypeOK' /\ OneDecision' /\ CallFacts'
            BY <2>1, <2>2 DEF TypeOK, OneDecision, CallFacts, Places, JobSteps
        <3>3. KindFacts' /\ Undecided'
            BY <2>1, <2>2, <1>2 DEF KindFacts, Undecided, TypeOK, Signal
        <3> QED
            BY <2>1, <2>2, <3>1, <3>2, <3>3, MoveStep DEF Places, JobSteps
    <2>3. CASE ready' = ready \cup {o} /\ UNCHANGED at
        <3>1. TypeOK' /\ CallFacts'
            BY <2>1, <2>3 DEF TypeOK, CallFacts
        <3> QED
            BY <2>1, <2>3, <3>1, RowStep
    <2> QED
        BY <1>2, <2>2, <2>3 DEF Signal
<1> QED
    BY <1>1, <1>2

\* A manual decision is the first one of its operation.
LEMMA ManualStep ==
    ASSUME IInv, NEW o \in Ops, NEW v \in Verdicts, ManualDecision(o, v)
    PROVE  IInv'
<1> USE DEF IInv
<1> DEFINE d == [op |-> o, step |-> "wait_manual_decision", outcome |-> v]
<1> DEFINE s == IF v = "APPROVED" THEN "approve_operation" ELSE "reject_operation"
<1>1. /\ at[o] = "wait_manual_decision" /\ at' = [at EXCEPT ![o] = s]
      /\ decisions' = decisions \cup {d}
      /\ UNCHANGED <<op, events, work, requested, rows, selected, ready, submit>>
    BY DEF ManualDecision
<1>2. d \in Decision /\ s \in Places
    BY DEF Decision, Places, JobSteps
<1>3. work' = [work EXCEPT ![o] = None]
    BY <1>1 DEF WorkFacts, TypeOK, JobSteps, WaitSteps
<1>4. TypeOK'
    BY <1>1, <1>2 DEF TypeOK
<1>5. \A e \in decisions : e.op # o
    BY <1>1 DEF Undecided
<1>6. OneDecision' /\ CallFacts'
    BY <1>1, <1>5 DEF OneDecision, CallFacts
<1>7. op[o].kind # "PAYMENT_EXECUTION"
    BY <1>1 DEF KindFacts
<1>8. KindFacts'
    BY <1>1, <1>7 DEF KindFacts, TypeOK
<1>9. Undecided'
    BY <1>1, <1>7 DEF Undecided, TypeOK
<1> QED
    BY <1>1, <1>2, <1>3, <1>4, <1>6, <1>8, <1>9, MoveStep

\* reconcile_inbox applies its rows and moves the processes that still wait.
LEMMA ReconcileStep ==
    ASSUME IInv, ReconcileCommit
    PROVE  IInv'
<1> USE DEF IInv
<1>1. /\ rows' = (rows \ selected) \cup {[r EXCEPT !.state = "APPLIED"] : r \in selected}
      /\ selected' = {}
      /\ at' = [o \in Ops |-> IF at[o] = "wait_receipt" /\ \E r \in selected : r.op = o
                              THEN "apply_receipt" ELSE at[o]]
      /\ UNCHANGED <<op, events, work, requested, decisions, ready, submit>>
    BY DEF ReconcileCommit
<1>2. \A r \in rows : r.state = "APPLIED" => r \in rows'
    BY <1>1 DEF CallFacts
<1>3. \A o \in Ops : at'[o] = at[o] \/ (at[o] = "wait_receipt" /\ at'[o] = "apply_receipt")
    BY <1>1
<1>4. TypeOK'
    <2>1. \A r \in selected : [r EXCEPT !.state = "APPLIED"] \in Row
        BY DEF TypeOK, Row
    <2>2. at' \in [Ops -> Places]
        BY <1>1 DEF TypeOK, Places, JobSteps
    <2> QED
        BY <1>1, <2>1, <2>2 DEF TypeOK
<1>5. StatusFollowsProcess' /\ EventsTellStatus' /\ OneDecision'
    BY <1>1, <1>3 DEF StatusFollowsProcess, EventsTellStatus, OneDecision
<1>6. KindFacts' /\ Undecided' /\ CallFacts'
    BY <1>1, <1>3 DEF KindFacts, Undecided, CallFacts
<1>7. \A o \in Ops, v \in Final : Proven(o, v) => Proven(o, v)'
    BY <1>1, <1>2, ProvenStays
<1>8. FinalHasEvidence'
    <2>1. \A o \in Ops : op[o].status \in Final => Proven(o, op[o].status)'
        BY <1>1, <1>7, EvidenceIsProven
    <2> QED
        BY <1>1, <2>1 DEF FinalHasEvidence, Proven, Final
<1>9. WorkFacts'
    BY <1>1, <1>3, <1>7 DEF WorkFacts, Final, JobSteps
<1> QED
    BY <1>4, <1>5, <1>6, <1>8, <1>9

-----------------------------------------------------------------------------
(* Steps that set a status *)

\* What _set_status does to the tables when the status is new.
StatusRow(o, st, pin) ==
    /\ op' \in [Ops -> OpRow] /\ events' \in [Ops -> [Status \ {"NONE"} -> Nat]]
    /\ op'[o].status = st /\ op'[o].kind = op[o].kind
    /\ op'[o].pinned <=> op[o].pinned \/ pin
    /\ \A q \in Ops \ {o} : op'[q] = op[q] /\ events'[q] = events[q]
    /\ \A t \in Status \ {"NONE"} :
          events'[o][t] = IF t = st THEN events[o][t] + 1 ELSE events[o][t]

\* _set_status writes one row and counts one event.
LEMMA SetStatusRow ==
    ASSUME TypeOK, NEW o \in Ops, NEW st \in Status \ {"NONE"}, NEW pin \in BOOLEAN,
           op[o].status # st, SetStatus(o, st, pin)
    PROVE  StatusRow(o, st, pin)
<1>1. /\ op' = [op EXCEPT ![o].status = st, ![o].pinned = @ \/ pin]
      /\ events' = [events EXCEPT ![o][st] = @ + 1]
    BY Zenon DEF SetStatus
<1>2. op[o] \in OpRow /\ events[o] \in [Status \ {"NONE"} -> Nat]
    BY DEF TypeOK
<1>3. op' \in [Ops -> OpRow]
    BY <1>1, <1>2 DEF TypeOK, OpRow
<1>4. \A q \in Ops \ {o} : op'[q] = op[q]
    BY <1>1 DEF TypeOK
<1>5. op'[o].status = st /\ op'[o].kind = op[o].kind
    BY <1>1, <1>2 DEF TypeOK, OpRow
<1>6. op'[o].pinned <=> op[o].pinned \/ pin
    BY <1>1, <1>2 DEF TypeOK, OpRow
<1>7. /\ events' \in [Ops -> [Status \ {"NONE"} -> Nat]]
      /\ \A q \in Ops \ {o} : events'[q] = events[q]
      /\ \A t \in Status \ {"NONE"} :
            events'[o][t] = IF t = st THEN events[o][t] + 1 ELSE events[o][t]
    BY <1>1, <1>2 DEF TypeOK
<1> QED
    BY <1>3, <1>4, <1>5, <1>6, <1>7 DEF StatusRow

\* A request becomes a CREATED operation.
LEMMA RequestStep ==
    ASSUME IInv, NEW o \in Ops, Request(o)
    PROVE  IInv'
<1> USE DEF IInv
<1>1. /\ op[o].status = "NONE" /\ SetStatus(o, "CREATED", FALSE)
      /\ UNCHANGED <<at, work, requested, decisions, rows, selected, ready, submit>>
    BY DEF Request
<1>a. TypeOK /\ "CREATED" \in Status \ {"NONE"} /\ FALSE \in BOOLEAN /\ op[o].status # "CREATED"
    BY <1>1 DEF Status
<1>2. StatusRow(o, "CREATED", FALSE)
    BY <1>1, <1>a, SetStatusRow
<1>3. TypeOK'
    BY <1>1, <1>2 DEF TypeOK, StatusRow
<1>4. StatusFollowsProcess'
    BY <1>1, <1>2 DEF StatusFollowsProcess, Final, StatusRow
<1>5. EventsTellStatus'
    BY <1>1, <1>2 DEF EventsTellStatus, Status, Final, StatusRow
<1>b. \A q \in Ops : op'[q].kind = op[q].kind /\ (op[q].status # "NONE" => op'[q].status # "NONE")
    BY <1>2 DEF StatusRow
<1>6. OneDecision' /\ KindFacts' /\ Undecided'
    BY <1>1, <1>b DEF OneDecision, KindFacts, Undecided
<1>c. CallFacts'
    BY <1>1, <1>b DEF CallFacts, TypeOK
<1>7. \A q \in Ops, v \in Final : Proven(q, v) => Proven(q, v)'
    BY <1>1, <1>b, ProvenStays
<1>8. FinalHasEvidence'
    <2>1. \A q \in Ops : op'[q].status \in Final => op'[q] = op[q]
        BY <1>2 DEF Final, StatusRow
    <2>2. (\A q \in Ops : op[q].status \in Final => Proven(q, op[q].status))'
        BY <1>7, <2>1, EvidenceIsProven
    <2> QED
        BY <2>2 DEF FinalHasEvidence, Proven, Final
<1>9. WorkFacts'
    BY <1>1, <1>7 DEF WorkFacts, Final
<1> QED
    BY <1>3, <1>4, <1>5, <1>6, <1>8, <1>9, <1>c

\* submit_v1 starts the process of a CREATED operation; one that was overtaken
\* leaves operation and process alone.
LEMMA SubmitChanges ==
    ASSUME IInv, NEW x \in Callers, SubmitCommit(x), NEW o, o = submit[x].op
    PROVE  /\ o \in Ops
           /\ \/ UNCHANGED <<op, events, at>>
              \/ /\ at[o] = "none" /\ op[o].status = "CREATED"
                 /\ at' = [at EXCEPT ![o] = "validate_operation"]
                 /\ SetStatus(o, "PROCESSING", TRUE)
<1> USE DEF IInv
<1>1. o \in Ops /\ op[o].status # "NONE" /\ op[o].status \in Status
    BY DEF SubmitCommit, CallFacts, TypeOK, OpRow
<1>2. CASE at[o] = "none"
    <2>1. op[o].status = "CREATED" /\ events[o]["PROCESSING"] = 0
        BY <1>1, <1>2 DEF StatusFollowsProcess, EventsTellStatus
    <2>2. ~SubmittedOnce(o)
        BY <2>1 DEF SubmittedOnce
    <2> QED
        BY <1>1, <1>2, <2>1, <2>2 DEF SubmitCommit
<1>3. CASE at[o] # "none"
    <2>1. at' = at
        BY <1>1, <1>3 DEF SubmitCommit, TypeOK
    <2>2. op[o].status \in {"PROCESSING"} \cup Final
        BY <1>1, <1>3 DEF StatusFollowsProcess, Status, Final
    <2>3. CASE op[o].status = "PROCESSING"
        BY <1>1, <2>1, <2>3 DEF SubmitCommit, SubmittedOnce, SetStatus
    <2>4. CASE op[o].status \in Final
        <3>1. SubmittedOnce(o)
            BY <1>1, <2>4 DEF SubmittedOnce, EventsTellStatus, Final
        <3> QED
            BY <1>1, <2>1, <3>1 DEF SubmitCommit
    <2> QED
        BY <2>2, <2>3, <2>4
<1> QED
    BY <1>2, <1>3

\* The steps of submit_v1.
LEMMA SubmitSteps ==
    ASSUME IInv, NEW x \in Callers, SubmitRead(x) \/ SubmitCommit(x) \/ SubmitAbort(x)
    PROVE  IInv'
<1> USE DEF IInv
<1>1. CASE SubmitRead(x)
    <2>1. TypeOK'
        BY <1>1 DEF SubmitRead, TypeOK, Answers
    <2>2. CallFacts'
        BY <1>1 DEF SubmitRead, CallFacts, TypeOK
    <2> QED
        BY <1>1, <2>1, <2>2, RowStep DEF SubmitRead
<1>2. CASE SubmitAbort(x)
    <2>1. TypeOK' /\ CallFacts'
        BY <1>2 DEF SubmitAbort, TypeOK, CallFacts, Answers
    <2> QED
        BY <1>2, <2>1, RowStep DEF SubmitAbort
<1>3. CASE SubmitCommit(x)
    <2> DEFINE o == submit[x].op
    <2>1. /\ submit' \in [Callers -> [op : Ops, answer : Answers]]
          /\ \A y \in Callers : submit'[y].op = submit[y].op
                                /\ (submit'[y].answer = "read" => submit[y].answer = "read")
        <3>1. PICK a \in {"PROCESSING", "error"} : submit' = [submit EXCEPT ![x].answer = a]
            BY <1>3 DEF SubmitCommit
        <3> QED
            BY <3>1 DEF TypeOK, Answers
    <2>a. UNCHANGED <<work, requested, decisions, rows, selected, ready>>
        BY <1>3 DEF SubmitCommit
    <2>b. \/ UNCHANGED <<op, events, at>>
          \/ /\ o \in Ops /\ at[o] = "none" /\ op[o].status = "CREATED"
             /\ at' = [at EXCEPT ![o] = "validate_operation"]
             /\ SetStatus(o, "PROCESSING", TRUE)
        BY <1>3, SubmitChanges, Zenon
    <2>2. CASE UNCHANGED <<op, events, at>>
        <3>1. TypeOK' /\ CallFacts'
            BY <2>1, <2>a, <2>2 DEF TypeOK, CallFacts
        <3> QED
            BY <2>1, <2>a, <2>2, <3>1, RowStep
    <2>3. CASE /\ o \in Ops /\ at[o] = "none" /\ op[o].status = "CREATED"
               /\ at' = [at EXCEPT ![o] = "validate_operation"]
               /\ SetStatus(o, "PROCESSING", TRUE)
        <3> HIDE DEF o
        <3>1. /\ TypeOK /\ "PROCESSING" \in Status \ {"NONE"} /\ TRUE \in BOOLEAN
              /\ op[o].status # "PROCESSING"
            BY <2>3 DEF Status
        <3>2. StatusRow(o, "PROCESSING", TRUE)
            BY <2>3, <3>1, SetStatusRow
        <3>3. TypeOK'
            BY <2>1, <2>a, <2>3, <3>2 DEF TypeOK, Places, JobSteps, StatusRow
        <3>4. StatusFollowsProcess'
            BY <2>3, <3>2 DEF StatusFollowsProcess, TypeOK, Final, StatusRow
        <3>5. EventsTellStatus'
            BY <2>3, <3>2 DEF EventsTellStatus, Status, Final, StatusRow
        <3>6. /\ \A q \in Ops : op'[q].kind = op[q].kind
              /\ \A q \in Ops : op[q].status # "NONE" => op'[q].status # "NONE"
              /\ \A q \in Ops : op'[q].status \in Final => op'[q] = op[q]
            BY <3>2 DEF Final, StatusRow
        <3>7. OneDecision' /\ KindFacts' /\ Undecided'
            BY <2>1, <2>a, <2>3, <3>6 DEF OneDecision, KindFacts, Undecided, TypeOK
        <3>8. CallFacts'
            BY <2>1, <2>a, <3>6 DEF CallFacts, TypeOK
        <3>9. \A q \in Ops, v \in Final : Proven(q, v) => Proven(q, v)'
            BY <2>1, <2>a, <3>6, ProvenStays
        <3>10. FinalHasEvidence'
            <4>1. (\A q \in Ops : op[q].status \in Final => Proven(q, op[q].status))'
                BY <3>6, <3>9, EvidenceIsProven
            <4> QED
                BY <4>1 DEF FinalHasEvidence, Proven, Final
        <3>11. WorkFacts'
            BY <2>1, <2>a, <2>3, <3>9 DEF WorkFacts, TypeOK, Final, JobSteps
        <3> QED
            BY <3>3, <3>4, <3>5, <3>7, <3>8, <3>10, <3>11
    <2> QED
        BY <2>2, <2>3, <2>b
<1> QED
    BY <1>1, <1>2, <1>3

\* The commit of an action that does not decide moves the process on its map.
LEMMA MoveCommit ==
    ASSUME IInv, NEW o \in Ops, CommitJob(o), at[o] \notin FinalSteps
    PROVE  IInv'
<1> USE DEF IInv
<1> DEFINE n == Enter(o, Transition(at[o], op[o].kind, work[o]))
<1> DEFINE d == [op |-> o, step |-> "check_limit", outcome |-> "APPROVED"]
<1>1. /\ at[o] \in JobSteps /\ at' = [at EXCEPT ![o] = n] /\ work' = [work EXCEPT ![o] = None]
      /\ UNCHANGED <<op, events, rows, selected, ready, submit>> /\ requested' \subseteq Ops
    BY DEF CommitJob, WorkFacts, TypeOK
<1>2. \/ at[o] = "validate_operation" /\ op[o].kind = "PAYMENT_EXECUTION"
                                      /\ n = "prepare_external_request"
      \/ at[o] = "validate_operation" /\ op[o].kind # "PAYMENT_EXECUTION" /\ n = "check_limit"
      \/ at[o] = "prepare_external_request" /\ n \in {"wait_receipt", "apply_receipt"}
      \/ at[o] = "apply_receipt" /\ n \in {"complete_operation", "reject_operation"}
      \/ at[o] = "check_limit" /\ work[o] = "WITHIN_LIMIT" /\ n = "approve_operation"
      \/ at[o] = "check_limit" /\ work[o] # "WITHIN_LIMIT" /\ n = "wait_manual_decision"
    BY <1>1 DEF Enter, Transition, JobSteps, FinalSteps
<1>3. \/ decisions' = decisions
      \/ /\ at[o] = "check_limit" /\ n = "approve_operation"
         /\ decisions' = decisions \cup {d}
    BY <1>2 DEF CommitJob, LimitDecision
<1> HIDE DEF n
<1>4. n \in Places \ {"none", "done"} /\ d \in Decision
    BY <1>2 DEF Places, JobSteps, WaitSteps, Decision, Verdicts
<1>5. TypeOK' /\ CallFacts'
    <2>1. at' \in [Ops -> Places] /\ work' \in [Ops -> Results \cup {None}]
        BY <1>1, <1>4 DEF TypeOK
    <2>2. decisions' \subseteq Decision
        BY <1>3, <1>4 DEF TypeOK
    <2> QED
        BY <1>1, <2>1, <2>2 DEF TypeOK, CallFacts
<1>6. KindFacts'
    BY <1>1, <1>2 DEF KindFacts, TypeOK
<1>7. OneDecision'
    BY <1>3 DEF OneDecision, Undecided
<1>8. Undecided'
    <2>1. CASE decisions' = decisions
        BY <1>1, <1>2, <2>1 DEF Undecided, TypeOK
    <2>2. CASE /\ at[o] = "check_limit" /\ n = "approve_operation"
               /\ decisions' = decisions \cup {d}
        <3>1. op[o].kind # "PAYMENT_EXECUTION"
            BY <2>2 DEF KindFacts
        <3> QED
            BY <1>1, <2>2, <3>1 DEF Undecided, TypeOK
    <2> QED
        BY <1>3, <2>1, <2>2
<1> QED
    BY <1>1, <1>3, <1>4, <1>5, <1>6, <1>7, <1>8, MoveStep DEF JobSteps

\* The commit of a deciding action: the evidence it found before is still there.
LEMMA FinalCommit ==
    ASSUME IInv, NEW o \in Ops, CommitJob(o), at[o] \in FinalSteps
    PROVE  IInv'
<1> USE DEF IInv
<1>1. PICK v \in Final : v = FinalStatus(at[o]) /\ Proven(o, v)
    BY DEF CommitJob, WorkFacts, FinalSteps, FinalStatus, Final
<1>2. /\ at' = [at EXCEPT ![o] = "done"] /\ work' = [work EXCEPT ![o] = None]
      /\ SetStatus(o, v, FALSE)
      /\ UNCHANGED <<requested, decisions, rows, selected, ready, submit>>
    BY <1>1 DEF CommitJob, FinalSteps, Enter, Transition
<1>3. op[o].status = "PROCESSING" /\ op[o].pinned
    BY DEF StatusFollowsProcess, FinalSteps, Status, Final, TypeOK, OpRow
<1>4. TypeOK /\ v \in Status \ {"NONE"} /\ FALSE \in BOOLEAN /\ op[o].status # v
    BY <1>1, <1>3 DEF Status, Final
<1>5. StatusRow(o, v, FALSE)
    BY <1>2, <1>4, SetStatusRow
<1>6. TypeOK'
    BY <1>2, <1>5 DEF TypeOK, Places, StatusRow
<1>7. StatusFollowsProcess'
    BY <1>1, <1>2, <1>3, <1>5 DEF StatusFollowsProcess, TypeOK, Final, StatusRow
<1>8. EventsTellStatus'
    BY <1>1, <1>3, <1>5 DEF EventsTellStatus, Status, Final, StatusRow
<1>9. /\ \A q \in Ops : op'[q].kind = op[q].kind
      /\ \A q \in Ops : op[q].status # "NONE" => op'[q].status # "NONE"
    BY <1>1, <1>5 DEF Final, StatusRow
<1>10. OneDecision' /\ KindFacts' /\ Undecided'
    BY <1>2, <1>9 DEF OneDecision, KindFacts, Undecided, TypeOK
<1>11. CallFacts'
    BY <1>2, <1>9 DEF CallFacts, TypeOK
<1>12. \A q \in Ops, w \in Final : Proven(q, w) => Proven(q, w)'
    BY <1>2, <1>9, ProvenStays
<1>13. FinalHasEvidence'
    <2>1. (\A q \in Ops : op[q].status \in Final => Proven(q, op[q].status))'
        BY <1>1, <1>5, <1>12, EvidenceIsProven DEF StatusRow
    <2> QED
        BY <2>1 DEF FinalHasEvidence, Proven, Final
<1>14. WorkFacts'
    BY <1>2, <1>12 DEF WorkFacts, TypeOK, Final
<1> QED
    BY <1>6, <1>7, <1>8, <1>10, <1>11, <1>13, <1>14

-----------------------------------------------------------------------------

\* Every step keeps the invariant.
LEMMA NextIInv == IInv /\ [Next]_vars => IInv'
<1> SUFFICES ASSUME IInv, [Next]_vars PROVE IInv'
    OBVIOUS
<1>1. CASE UNCHANGED vars
    <2>1. UNCHANGED <<op, events, at, work, requested, decisions, rows, selected, ready, submit>>
        BY <1>1 DEF vars
    <2>2. TypeOK' /\ CallFacts'
        BY <2>1 DEF IInv, TypeOK, CallFacts
    <2> QED
        BY <2>1, <2>2, RowStep
<1>2. ASSUME NEW o \in Ops, Request(o) \/ JobStep(o) \/ Retry(o) \/ GiveUp(o) \/ Signal(o)
      PROVE  IInv'
    BY <1>2, RequestStep, WorkSteps, FailSteps, MoveCommit, FinalCommit DEF JobStep
<1>3. ASSUME NEW x \in Callers, SubmitRead(x) \/ SubmitCommit(x) \/ SubmitAbort(x)
      PROVE  IInv'
    BY <1>3, SubmitSteps
<1>4. ASSUME NEW o \in Ops, NEW v \in Verdicts, ManualDecision(o, v) PROVE IInv'
    BY <1>4, ManualStep
<1> QED
    BY <1>1, <1>2, <1>3, <1>4, ReceiptSteps, ReconcileStep DEF Next

\* The invariant holds in every reachable state.
THEOREM PaymentInvariance == Spec => []IInv
    BY InitIInv, NextIInv, PTL DEF Spec

\* Every table of the payment domain keeps its type (TypeOK).
THEOREM PaymentTypeCorrect == Spec => []TypeOK
<1>1. IInv => TypeOK
    BY DEF IInv
<1> QED
    BY <1>1, PaymentInvariance, PTL

\* complete_v1, approve_v1 and reject_v1 set a final status only on what is recorded:
\* an applied receipt with that outcome, or a decision (FinalHasEvidence).
THEOREM FinalOnEvidence == Spec => []FinalHasEvidence
<1>1. IInv => FinalHasEvidence
    BY DEF IInv
<1> QED
    BY <1>1, PaymentInvariance, PTL

\* The status of an operation and the place of its process agree, submits at once
\* and overtaken submits included (StatusFollowsProcess).
THEOREM StatusAgreement == Spec => []StatusFollowsProcess
<1>1. IInv => StatusFollowsProcess
    BY DEF IInv
<1> QED
    BY <1>1, PaymentInvariance, PTL

\* operation_events holds each status an operation has had, once (EventsTellStatus).
THEOREM EventHistory == Spec => []EventsTellStatus
<1>1. IInv => EventsTellStatus
    BY DEF IInv
<1> QED
    BY <1>1, PaymentInvariance, PTL

\* check_limit_v1 and manual_v1 never both decide (OneDecision).
THEOREM DecidedOnce == Spec => []OneDecision
<1>1. IInv => OneDecision
    BY DEF IInv
<1> QED
    BY <1>1, PaymentInvariance, PTL

\* No step changes a final operation or its events (FinalStatusStays).
THEOREM FinalStays == Spec => FinalStatusStays
<1> DEFINE Stays(o) == op[o].status \in Final => op'[o] = op[o] /\ events'[o] = events[o]
<1>1. IInv /\ [Next]_vars => [\A o \in Ops : Stays(o)]_vars
    <2> SUFFICES ASSUME IInv, Next, NEW q \in Ops, op[q].status \in Final
                 PROVE  op'[q] = op[q] /\ events'[q] = events[q]
        BY DEF vars
    <2>1. at[q] = "done"
        BY DEF IInv, StatusFollowsProcess
    <2>2. ASSUME NEW o \in Ops, NEW st \in Status, NEW pin \in BOOLEAN, o # q,
                 SetStatus(o, st, pin)
          PROVE  op'[q] = op[q] /\ events'[q] = events[q]
        BY <2>2 DEF SetStatus, IInv, TypeOK
    <2>3. ASSUME NEW o \in Ops, Request(o) PROVE op'[q] = op[q] /\ events'[q] = events[q]
        BY <2>2, <2>3 DEF Request, Status, Final
    <2>4. ASSUME NEW o \in Ops, CommitJob(o) PROVE op'[q] = op[q] /\ events'[q] = events[q]
        <3>1. CASE at[o] \in FinalSteps
            <4>1. o # q /\ FinalStatus(at[o]) \in Status /\ SetStatus(o, FinalStatus(at[o]), FALSE)
                BY <2>1, <2>4, <3>1 DEF CommitJob, FinalSteps, FinalStatus, Status, Final
            <4> QED
                BY <4>1, <2>2
        <3>2. CASE at[o] \notin FinalSteps
            BY <2>4, <3>2 DEF CommitJob
        <3> QED
            BY <3>1, <3>2
    <2>5. ASSUME NEW x \in Callers, SubmitCommit(x)
          PROVE  op'[q] = op[q] /\ events'[q] = events[q]
        <3>1. \/ UNCHANGED <<op, events, at>>
              \/ /\ submit[x].op \in Ops /\ at[submit[x].op] = "none"
                 /\ SetStatus(submit[x].op, "PROCESSING", TRUE)
            BY <2>5, SubmitChanges, Zenon
        <3> QED
            BY <2>1, <2>2, <3>1 DEF Status
    <2>6. ASSUME UNCHANGED <<op, events>> PROVE op'[q] = op[q] /\ events'[q] = events[q]
        BY <2>6
    <2> QED
        BY <2>3, <2>4, <2>5, <2>6
        DEF Next, JobStep, Invoke, FailJob, Retry, GiveUp, Signal, SubmitRead, SubmitAbort,
            ManualDecision, InsertInbox, InsertReceipt, ReceiptCommit, ReceiptAbort,
            ReconcileSelect, ReconcileCommit, ReconcileAbort
<1> QED
    BY <1>1, PaymentInvariance, PTL DEF Spec, FinalStatusStays

=============================================================================
