----------------------------- MODULE ReceiptProbe ----------------------------
(***************************************************************************)
(* The delivery, receipt, review and restart scenarios of the week 4       *)
(* checker against the candidate they watch: which payment is sent and     *)
(* when, which callback is stored, what a repeated callback or decision is *)
(* answered, and what is left after the services and the whole stack were  *)
(* replaced.                                                               *)
(*                                                                         *)
(* The dispatchers, the reconcilers and the workers go on by themselves    *)
(* between any two steps of the checker.  The candidate keeps its contract *)
(* unless a fault is chosen for it.                                        *)
(***************************************************************************)
EXTENDS Naturals, FiniteSets

CONSTANT MaxFaults  \* bound: faults of the candidate

VARIABLES
    faults,         \* what is wrong with the candidate
    op,             \* operations: status
    outbox,         \* deliveries: state
    paid,           \* payments at the provider, per operation
    inbox,          \* rows of receipts and inbox
    decided,        \* decisions, per operation
    extra,          \* evidence rows added by calls that must add none
    hand,           \* what each dispatcher has claimed and not posted yet
    dispatching,    \* whether the dispatchers run
    reconciling,    \* whether the reconcilers run
    pc,             \* step of the checker
    before,         \* the snapshot to compare with
    verdict,        \* "passed" or "ContractError"
    late,           \* whether a deadline passed while the candidate could still move
    early           \* deliveries that reached the provider before it was asked whether they had

candidate == <<op, outbox, paid, inbox, decided, extra, hand, dispatching, reconciling>>
vars == <<faults, candidate, pc, before, verdict, late, early>>

-----------------------------------------------------------------------------
\* The operations of the scenarios, and the ones that end at a reviewer or a limit.
Paying == {"provider", "adapter", "sentinel", "recovery", "resumed"}
Reviewed == {"auto", "manual"}
Ops == Paying \cup Reviewed

\* The operations whose rows the restart must keep.
Kept == {"provider", "adapter", "manual"}

Faults == {"sends_stopped", "unsigned_stored", "invalid_stored", "pays_twice", "capability_ignored",
           "repeat_new", "repeat_row", "conflict_stored", "outcome_ignored", "redelivers", "limit_ignored",
           "decision_repeats", "decision_changes", "inbox_forgets", "state_lost", "replay_writes",
           "stalled_writes", "never_resumes"}

NoRow == [o \in Ops |-> "none"]
Steps == {"p_stop", "p_outbox", "p_receipts", "p_start", "p_completed", "p_evidence",
          "a_stop", "a_wrong", "a_calls", "a_rejected", "a_start", "a_sentinel", "a_audit",
          "v_auto", "v_rule", "v_waits", "v_decide", "v_completed",
          "n_stop", "n_callback", "n_pending", "n_up", "n_applied",
          "s_down", "s_up", "s_kept", "s_replay", "s_resumed", "t_stalled", "done"}
NoSnapshot == [op |-> NoRow, outbox |-> NoRow, inbox |-> {}, decided |-> {}, extra |-> 0]

Message == [msg : Ops \cup {"unsigned", "invalid", "wrong"}, outcome : {"COMPLETED", "REJECTED"},
            state : {"RECEIVED", "APPLIED"}, copy : 1..2]

\* Every variable holds a value the scenarios can give it.
TypeOK ==
    /\ faults \subseteq Faults
    /\ op \in [Ops -> {"none", "SUBMITTED", "WAITING_SIGNAL", "WAITING_MANUAL", "DECIDED", "COMPLETED", "REJECTED"}]
    /\ outbox \in [Ops -> {"none", "PENDING", "LEASED", "DELIVERED", "CONFIRMED"}]
    /\ paid \in [Ops -> 0..2]
    /\ inbox \subseteq Message
    /\ decided \subseteq Reviewed \X {"LIMIT_RULE", "MANUAL"} \X {"APPROVED", "REJECTED"}
    /\ extra \in 0..2
    /\ hand \in [{"a", "b"} -> Ops \cup {"none"}]
    /\ dispatching \in BOOLEAN /\ reconciling \in BOOLEAN
    /\ pc \in Steps
    /\ verdict \in {"none", "passed", "ContractError"}
    /\ late \in BOOLEAN /\ early \subseteq Ops

Init ==
    /\ faults \in {F \in SUBSET Faults : Cardinality(F) <= MaxFaults}
    /\ op = NoRow /\ outbox = NoRow /\ paid = [o \in Ops |-> 0]
    /\ inbox = {} /\ decided = {} /\ extra = 0
    /\ hand = [d \in {"a", "b"} |-> "none"]
    /\ dispatching = TRUE /\ reconciling = TRUE
    /\ pc = "p_stop" /\ before = NoSnapshot /\ verdict = "none" /\ late = FALSE /\ early = {}

-----------------------------------------------------------------------------
(* The candidate and the provider *)

Has(f) == f \in faults
Checking == UNCHANGED <<faults, pc, before, verdict, late, early>>

\* The job of prepare_external: request, delivery and the wait for the receipt at once.
Prepare(o) ==
    /\ o \in Paying /\ op[o] = "SUBMITTED"
    /\ op' = [op EXCEPT ![o] = "WAITING_SIGNAL"]
    /\ outbox' = [outbox EXCEPT ![o] = "PENDING"]
    /\ Checking
    /\ UNCHANGED <<paid, inbox, decided, extra, hand, dispatching, reconciling>>

\* check_limit and the steps after it.
Limit(o) ==
    /\ o \in Reviewed /\ op[o] = "SUBMITTED"
    /\ IF o = "auto" /\ ~Has("limit_ignored")
         THEN /\ op' = [op EXCEPT ![o] = "COMPLETED"]
              /\ decided' = decided \cup {<<o, "LIMIT_RULE", "APPROVED">>}
         ELSE op' = [op EXCEPT ![o] = "WAITING_MANUAL"] /\ UNCHANGED decided
    /\ Checking
    /\ UNCHANGED <<outbox, paid, inbox, extra, hand, dispatching, reconciling>>

\* The step after the decision completes the operation.
Complete(o) ==
    /\ op[o] = "DECIDED"
    /\ op' = [op EXCEPT ![o] = "COMPLETED"]
    /\ Checking
    /\ UNCHANGED <<outbox, paid, inbox, decided, extra, hand, dispatching, reconciling>>

Sendable(o) == outbox[o] = "PENDING" \/ (outbox[o] = "CONFIRMED" /\ paid[o] = 0 /\ Has("redelivers"))

\* What claim_outbox hands out: a delivery that waits and nobody holds.
Free(d, o) ==
    /\ dispatching \/ Has("sends_stopped")
    /\ Has("never_resumes") => o \in {"provider"}
    /\ hand[d] = "none" /\ \A e \in {"a", "b"} : hand[e] # o
    /\ Sendable(o)

\* claim_outbox of either dispatcher.
Claim(d, o) ==
    /\ Free(d, o)
    /\ hand' = [hand EXCEPT ![d] = o]
    /\ outbox' = [outbox EXCEPT ![o] = IF @ = "PENDING" THEN "LEASED" ELSE @]
    /\ Checking
    /\ UNCHANGED <<op, paid, inbox, decided, extra, dispatching, reconciling>>

\* The steps before the checker's questions to the provider, and the deliveries they are about.
Unwanted == {<<"provider", "p_outbox">>}
              \cup ({"adapter"} \X {"a_wrong", "a_calls", "a_rejected", "a_start", "a_sentinel", "a_audit"})

\* The POST, which the provider accepts, and succeed_outbox.
Deliver(d) ==
    /\ hand[d] # "none"
    /\ LET o == hand[d]
       IN /\ paid' = [paid EXCEPT ![o] = IF Has("pays_twice") THEN 2 ELSE 1]
          /\ outbox' = [outbox EXCEPT ![o] = IF @ = "LEASED" THEN "DELIVERED" ELSE @]
          /\ early' = early \cup {x \in {o} : <<x, pc>> \in Unwanted}
    /\ hand' = [hand EXCEPT ![d] = "none"]
    /\ UNCHANGED <<faults, pc, before, verdict, late>>
    /\ UNCHANGED <<op, inbox, decided, extra, dispatching, reconciling>>

\* receipt_accept: the row, and the delivery is confirmed.
Stored(m, outcome) == inbox \cup {[msg |-> m, outcome |-> outcome, state |-> "RECEIVED", copy |-> 1]}
Confirmed(o) == [outbox EXCEPT ![o] = "CONFIRMED"]

\* A payment the provider took and has not called back for.
Answerable(o) == paid[o] > 0 /\ \A m \in inbox : m.msg # o

\* The provider calls back for a payment it took.
Callback(o) ==
    /\ Answerable(o)
    /\ inbox' = Stored(o, "COMPLETED") /\ outbox' = Confirmed(o)
    /\ Checking
    /\ UNCHANGED <<op, paid, decided, extra, hand, dispatching, reconciling>>

\* A row of the inbox that the process waits for.
Awaited(m) == reconciling /\ m.state = "RECEIVED" /\ m.msg \in Ops /\ op[m.msg] = "WAITING_SIGNAL"

\* reconcile_inbox, and the steps of the process after the signal.
Apply(m) ==
    /\ Awaited(m)
    /\ inbox' = (inbox \ {m}) \cup {[m EXCEPT !.state = "APPLIED"]}
    /\ op' = [op EXCEPT ![m.msg] = IF Has("outcome_ignored") THEN "COMPLETED" ELSE m.outcome]
    /\ Checking
    /\ UNCHANGED <<outbox, paid, decided, extra, hand, dispatching, reconciling>>

Candidate ==
    /\ pc # "done"
    /\ \/ \E o \in Ops : Prepare(o) \/ Limit(o) \/ Complete(o) \/ Callback(o)
       \/ \E d \in {"a", "b"}, o \in Ops : Claim(d, o)
       \/ \E d \in {"a", "b"} : Deliver(d)
       \/ \E m \in inbox : Apply(m)

\* The candidate can take a step.
Busy ==
    /\ pc # "done"
    /\ \/ \E o \in Ops : op[o] \in {"SUBMITTED", "DECIDED"} \/ Answerable(o)
       \/ \E d \in {"a", "b"} : hand[d] # "none" \/ \E o \in Ops : Free(d, o)
       \/ \E m \in inbox : Awaited(m)

-----------------------------------------------------------------------------
(* The checker's tools *)

Go(next) == pc' = next
Keep == <<faults, before, verdict, late, early>>
Fails == verdict' = "ContractError" /\ Go("done")

\* _record and the requirements between the checks.
Require(ok, next) == IF ok THEN Go(next) /\ UNCHANGED verdict ELSE Fails

\* Mutant: a poll that does not end.
PollForever(p) == ~p /\ FALSE /\ Fails /\ UNCHANGED <<faults, candidate, before, late, early>>

\* _poll_rows at its deadline.
PollTimeout(p) ==
    /\ ~p /\ Fails
    /\ late' = (late \/ Busy)
    /\ UNCHANGED <<faults, candidate, before, early>>

\* A poll that goes on to the next step, and does nothing else.
Poll(step, p, next) ==
    /\ pc = step
    /\ \/ p /\ Go(next) /\ UNCHANGED <<candidate, Keep>>
       \/ PollTimeout(p)

Submit(o) == op' = [op EXCEPT ![o] = "SUBMITTED"]
Rows(m) == {r \in inbox : r.msg = m}
Audit(o) == paid[o]

\* _restart_snapshot
Snapshot ==
    [op |-> [o \in Ops |-> IF o \in Kept THEN op[o] ELSE "none"],
     outbox |-> [o \in Ops |-> IF o \in Kept THEN outbox[o] ELSE "none"],
     inbox |-> {r \in inbox : r.msg \in Kept},
     decided |-> {x \in decided : x[1] \in Kept},
     extra |-> extra]

\* compose stop: a dispatcher in the middle of a delivery leaves its lease to run out.
StopDispatchers ==
    /\ dispatching' = FALSE
    /\ hand' = [d \in {"a", "b"} |-> "none"]
    /\ outbox' = [o \in Ops |-> IF outbox[o] = "LEASED" THEN "PENDING" ELSE outbox[o]]

-----------------------------------------------------------------------------
(* _check_provider_path *)

\* The dispatchers are stopped with what they held, and the payment is submitted.
ProviderSubmit ==
    /\ pc = "p_stop" /\ Go("p_outbox")
    /\ StopDispatchers
    /\ Submit("provider")
    /\ UNCHANGED <<paid, inbox, decided, extra, reconciling, Keep>>

\* One request, its delivery is waiting, and the provider does not know it.
ProviderOutbox ==
    /\ pc = "p_outbox"
    /\ \/ /\ outbox["provider"] # "none"
          /\ Require(/\ outbox["provider"] \in {"PENDING", "RETRY_WAIT"}
                     /\ Audit("provider") = 0, "p_receipts")
          /\ UNCHANGED <<faults, candidate, before, late, early>>
       \/ PollTimeout(outbox["provider"] # "none")

\* A receipt without a signature and one with a wrong signature leave no row.
ProviderReceipts ==
    /\ pc = "p_receipts"
    /\ inbox' = (IF Has("unsigned_stored") THEN Stored("unsigned", "COMPLETED") ELSE inbox)
                  \cup (IF Has("invalid_stored") THEN Stored("invalid", "COMPLETED") ELSE {})
    /\ Require(\A r \in inbox' : r.msg \notin {"unsigned", "invalid"}, "p_start")
    /\ UNCHANGED <<faults, op, outbox, paid, decided, extra, hand, dispatching, reconciling, before, late,
                   early>>

ProviderStart ==
    /\ pc = "p_start" /\ Go("p_completed")
    /\ dispatching' = TRUE
    /\ UNCHANGED <<op, outbox, paid, inbox, decided, extra, hand, reconciling, Keep>>

ProviderCompleted == Poll("p_completed", op["provider"] = "COMPLETED", "p_evidence")

\* One payment, one receipt of it, applied.
ProviderEvidence ==
    /\ pc = "p_evidence"
    /\ Require(/\ Audit("provider") = 1
               /\ \E r \in Rows("provider") : r.outcome = "COMPLETED" /\ r.state = "APPLIED"
               /\ Cardinality(Rows("provider")) = 1, "a_stop")
    /\ UNCHANGED <<faults, candidate, before, late, early>>

-----------------------------------------------------------------------------
(* _check_adapter_deduplication *)

AdapterSubmit ==
    /\ pc = "a_stop" /\ Go("a_wrong")
    /\ StopDispatchers
    /\ Submit("adapter")
    /\ UNCHANGED <<paid, inbox, decided, extra, reconciling, Keep>>

\* A callback to another path is refused, and leaves no row.
AdapterWrong ==
    /\ pc = "a_wrong"
    /\ \/ /\ outbox["adapter"] # "none"
          /\ inbox' = IF Has("capability_ignored") THEN Stored("wrong", "REJECTED") ELSE inbox
          /\ Require(~Has("capability_ignored"), "a_calls")
          /\ UNCHANGED <<faults, op, outbox, paid, decided, extra, hand, dispatching, reconciling, before,
                         late, early>>
       \/ PollTimeout(outbox["adapter"] # "none")

\* The callback, the same again, and one with the other result.
AdapterCalls ==
    /\ pc = "a_calls"
    /\ inbox' = Stored("adapter", "REJECTED")
                  \cup (IF Has("repeat_row")
                        THEN {[msg |-> "adapter", outcome |-> "REJECTED", state |-> "RECEIVED", copy |-> 2]}
                        ELSE {})
                  \cup (IF Has("conflict_stored")
                        THEN {[msg |-> "adapter", outcome |-> "COMPLETED", state |-> "RECEIVED", copy |-> 2]}
                        ELSE {})
    /\ outbox' = Confirmed("adapter")
    /\ Require(~Has("repeat_new") /\ ~Has("conflict_stored"), "a_rejected")
    /\ UNCHANGED <<faults, op, paid, decided, extra, hand, dispatching, reconciling, before, late, early>>

\* The operation is REJECTED by one row, applied, with the hash of the normalised body.
AdapterRejected ==
    /\ pc = "a_rejected"
    /\ \/ /\ op["adapter"] = "REJECTED"
          /\ Require(\E r \in inbox : Rows("adapter") = {r} /\ r.state = "APPLIED", "a_start")
          /\ UNCHANGED <<faults, candidate, before, late, early>>
       \/ PollTimeout(op["adapter"] = "REJECTED")

\* The dispatchers are started, and one more payment shows that they deliver.
AdapterStart ==
    /\ pc = "a_start" /\ Go("a_sentinel")
    /\ dispatching' = TRUE
    /\ Submit("sentinel")
    /\ UNCHANGED <<outbox, paid, inbox, decided, extra, hand, reconciling, Keep>>

AdapterSentinel == Poll("a_sentinel", op["sentinel"] = "COMPLETED", "a_audit")

\* The confirmed delivery did not reach the provider.
AdapterAudit ==
    /\ pc = "a_audit"
    /\ Require(Audit("sentinel") > 0 /\ Audit("adapter") = 0, "v_auto")
    /\ UNCHANGED <<faults, candidate, before, late, early>>

-----------------------------------------------------------------------------
(* _check_review *)

ReviewSubmit ==
    /\ pc = "v_auto" /\ Go("v_rule")
    /\ Submit("auto")
    /\ UNCHANGED <<outbox, paid, inbox, decided, extra, hand, dispatching, reconciling, Keep>>

\* The limit decides the one, and the other is submitted.
ReviewRule ==
    /\ pc = "v_rule"
    /\ \/ /\ op["auto"] = "COMPLETED"
          /\ IF {x \in decided : x[1] = "auto"} = {<<"auto", "LIMIT_RULE", "APPROVED">>}
               THEN Go("v_waits") /\ Submit("manual") /\ UNCHANGED verdict
               ELSE Fails /\ UNCHANGED op
          /\ UNCHANGED <<faults, outbox, paid, inbox, decided, extra, hand, dispatching, reconciling, before,
                         late, early>>
       \/ PollTimeout(op["auto"] = "COMPLETED")

ReviewWaits == Poll("v_waits", op["manual"] = "WAITING_MANUAL", "v_decide")

\* A decision, the same again, and the other one with the same key.
ReviewDecide ==
    /\ pc = "v_decide"
    /\ op' = [op EXCEPT !["manual"] = "DECIDED"]
    /\ decided' = decided \cup {<<"manual", "MANUAL", "APPROVED">>}
                    \cup (IF Has("decision_changes") THEN {<<"manual", "MANUAL", "REJECTED">>} ELSE {})
    /\ Require(~Has("decision_repeats") /\ ~Has("decision_changes"), "v_completed")
    /\ UNCHANGED <<faults, outbox, paid, inbox, extra, hand, dispatching, reconciling, before, late, early>>

ReviewCompleted ==
    /\ pc = "v_completed"
    /\ \/ /\ op["manual"] = "COMPLETED"
          /\ Require({x \in decided : x[1] = "manual"} = {<<"manual", "MANUAL", "APPROVED">>}, "n_stop")
          /\ UNCHANGED <<faults, candidate, before, late, early>>
       \/ PollTimeout(op["manual"] = "COMPLETED")

-----------------------------------------------------------------------------
(* _check_recreate_and_hygiene *)

\* Dispatchers and reconcilers are stopped before the payment is submitted.
RecreateStop ==
    /\ pc = "n_stop" /\ Go("n_callback")
    /\ StopDispatchers /\ reconciling' = FALSE
    /\ Submit("recovery")
    /\ UNCHANGED <<paid, inbox, decided, extra, Keep>>

RecreateCallback ==
    /\ pc = "n_callback"
    /\ \/ /\ outbox["recovery"] # "none" /\ Go("n_pending")
          /\ inbox' = Stored("recovery", "REJECTED") /\ outbox' = Confirmed("recovery")
          /\ UNCHANGED <<op, paid, decided, extra, hand, dispatching, reconciling, Keep>>
       \/ PollTimeout(outbox["recovery"] # "none")

RecreatePending ==
    Poll("n_pending", \E r \in Rows("recovery") : r.state = "RECEIVED", "n_up")

\* The Python services are replaced: what a dispatcher had in hand goes with it.
RecreateUp ==
    /\ pc = "n_up" /\ Go("n_applied")
    /\ dispatching' = TRUE /\ reconciling' = TRUE
    /\ hand' = [d \in {"a", "b"} |-> "none"]
    /\ inbox' = IF Has("inbox_forgets") THEN inbox \ Rows("recovery") ELSE inbox
    /\ UNCHANGED <<op, outbox, paid, decided, extra, Keep>>

RecreateApplied ==
    Poll("n_applied", op["recovery"] = "REJECTED" /\ \E r \in Rows("recovery") : r.state = "APPLIED", "s_down")

-----------------------------------------------------------------------------
(* _check_full_restart and _check_stalled *)

RestartDown ==
    /\ pc = "s_down" /\ Go("s_up")
    /\ before' = Snapshot
    /\ StopDispatchers /\ reconciling' = FALSE
    /\ UNCHANGED <<faults, op, paid, inbox, decided, extra, verdict, late, early>>

\* The volume of PostgreSQL stays; the provider forgets its payments.
RestartUp ==
    /\ pc = "s_up" /\ Go("s_kept")
    /\ dispatching' = TRUE /\ reconciling' = TRUE
    /\ paid' = [o \in Ops |-> 0]
    /\ op' = IF Has("state_lost") THEN NoRow ELSE op
    /\ UNCHANGED <<outbox, inbox, decided, extra, hand, Keep>>

RestartKept ==
    /\ pc = "s_kept"
    /\ Require(Snapshot = before, "s_replay")
    /\ UNCHANGED <<faults, candidate, before, late, early>>

\* The callback and the decision once more: the same answers, and no new rows.
RestartReplay ==
    /\ pc = "s_replay"
    /\ extra' = IF Has("replay_writes") THEN extra + 1 ELSE extra
    /\ IF extra' = before.extra /\ Snapshot.inbox = before.inbox
         THEN Go("s_resumed") /\ Submit("resumed") /\ UNCHANGED verdict
         ELSE Fails /\ UNCHANGED op
    /\ UNCHANGED <<faults, outbox, paid, inbox, decided, hand, dispatching, reconciling, before, late, early>>

RestartResumed == Poll("s_resumed", op["resumed"] = "COMPLETED", "t_stalled")

\* diagnostics.stalled adds nothing to the evidence.
Stalled ==
    /\ pc = "t_stalled" /\ Go("done")
    /\ extra' = IF Has("stalled_writes") THEN extra + 1 ELSE extra
    /\ verdict' = IF extra' = extra THEN "passed" ELSE "ContractError"
    /\ UNCHANGED <<faults, op, outbox, paid, inbox, decided, hand, dispatching, reconciling, before, late, early>>

Checker ==
    \/ ProviderSubmit \/ ProviderOutbox \/ ProviderReceipts \/ ProviderStart \/ ProviderCompleted
    \/ ProviderEvidence
    \/ AdapterSubmit \/ AdapterWrong \/ AdapterCalls \/ AdapterRejected \/ AdapterStart
    \/ AdapterSentinel \/ AdapterAudit
    \/ ReviewSubmit \/ ReviewRule \/ ReviewWaits \/ ReviewDecide \/ ReviewCompleted
    \/ RecreateStop \/ RecreateCallback \/ RecreatePending \/ RecreateUp \/ RecreateApplied
    \/ RestartDown \/ RestartUp \/ RestartKept \/ RestartReplay \/ RestartResumed \/ Stalled

Next == Candidate \/ Checker

\* Every wait of the checker has a deadline.
Spec == Init /\ [][Next]_vars /\ WF_vars(Checker)

-----------------------------------------------------------------------------
(* Properties *)

\* The scenarios pass no candidate with one of the faults they look for, however its
\* dispatchers, reconcilers and workers interleave with them, those that send what must not
\* be sent excepted: of these they pass none whose provider had it when they asked
\* (_provider_audit), and do pass one that sends it after the count of posts was read.
NoFalsePass == verdict = "passed" => faults \subseteq {"sends_stopped", "redelivers"} /\ early = {}

\* A candidate without faults fails only when a deadline passes while it could still move.
NoFalseFail == faults = {} /\ ~late => verdict # "ContractError"

\* The scenarios are over, with a verdict.
Ended == pc = "done" /\ verdict # "none"

==============================================================================
