-------------------------------- MODULE Outbox --------------------------------
(***************************************************************************)
(* Delivery of external requests: the tables external_request, outbox,     *)
(* inbox and receipt, the dispatchers that lease outbox rows and post them *)
(* to the provider, and the callbacks that the adapter turns into          *)
(* receipt.accept calls.  The provider is external: it may accept a        *)
(* request late or without an answer, and calls back until it is answered. *)
(*                                                                         *)
(* A variable holds what is committed.  succeed_outbox locks the outbox    *)
(* row and then the request row, receipt_accept_v1 the request row and     *)
(* then the outbox row: both are split between their locks, so that they   *)
(* can block each other.  The state between is in claims and in open.      *)
(***************************************************************************)
EXTENDS Naturals, FiniteSets

CONSTANTS
    Requests,       \* external requests, one per operation
    Dispatchers,    \* dispatcher processes
    Owners,         \* lease owner names
    OwnerOf,        \* dispatcher -> its owner name (a restart keeps the name)
    Batch,          \* rows per claim
    MaxAttempts,    \* outbox_policy.max_attempts
    MaxLease,       \* bound: no lease expires, and no claim is lost, at this version
    Msgs,           \* message ids (provider payment ids)
    Bodies,         \* receipt bodies, up to their hash
    None            \* null

ASSUME OutboxTypes ==
    /\ OwnerOf \in [Dispatchers -> Owners] /\ None \notin Owners /\ None # "ok"
    /\ Batch \in Nat \ {0}
    /\ MaxAttempts \in Nat \ {0} /\ MaxLease \in Nat
    /\ MaxAttempts <= MaxLease

VARIABLES
    request,        \* external_request.state
    outbox,         \* outbox: state, lease_owner, lease_version, time due
    inbox,          \* inbox and receipt rows, inserted together
    claims,         \* what the dispatchers hold: claimed rows and their progress
    open,           \* open receipt_accept transactions
    posted,         \* requests the provider has been sent
    accepted,       \* requests the provider has accepted
    callbacks       \* callbacks the provider has no answer to yet

vars == <<request, outbox, inbox, claims, open, posted, accepted, callbacks>>

-----------------------------------------------------------------------------

RequestStates == {"NONE", "CREATED", "SENT", "CONFIRMED"}
OutboxStates == {"NONE", "PENDING", "LEASED", "RETRY_WAIT", "DELIVERED", "DEAD", "CONFIRMED"}
OutboxRow == [state : OutboxStates, owner : Owners \cup {None}, version : 0..MaxLease,
              due : BOOLEAN]
Receipt == [msg : Msgs, req : Requests, body : Bodies]
Answers == {"ok", "retryable", "terminal"}
Claim == [by : Dispatchers, req : Requests, version : 1..MaxLease,
          phase : {"queued", "sending", "answered", "delivering"},
          answer : Answers \cup {None}]
Open == [receipt : Receipt, phase : {"inserted", "confirming"}]

TypeOK ==
    /\ request \in [Requests -> RequestStates]
    /\ outbox \in [Requests -> OutboxRow]
    /\ inbox \subseteq Receipt
    /\ claims \subseteq Claim
    /\ open \subseteq Open
    /\ posted \subseteq Requests
    /\ accepted \subseteq posted
    /\ callbacks \subseteq Receipt

Init ==
    /\ request = [r \in Requests |-> "NONE"]
    /\ outbox = [r \in Requests |->
                    [state |-> "NONE", owner |-> None, version |-> 0, due |-> FALSE]]
    /\ inbox = {} /\ claims = {} /\ open = {}
    /\ posted = {} /\ accepted = {} /\ callbacks = {}

Tables == <<request, outbox, inbox>>
Provider == <<posted, accepted, callbacks>>

\* Row locks.
OutboxLocked(r) == \E c \in claims : c.req = r /\ c.phase = "delivering"
RequestLocked(r) == \E t \in open : t.receipt.req = r /\ t.phase = "confirming"

-----------------------------------------------------------------------------
(* prepare_external_v1, in the transaction of its workflow job.  A repeated  *)
(* call finds the request and its outbox row and writes nothing.             *)

\* Mutant: a repeated call makes the request pending again.
PrepareAgain(r) ==
    /\ request' = [request EXCEPT ![r] = "CREATED"]
    /\ outbox' = [outbox EXCEPT ![r] =
                    [@ EXCEPT !.state = "PENDING", !.owner = None, !.due = TRUE]]
    /\ UNCHANGED <<inbox, claims, open, Provider>>
Prepare(r) ==
    /\ request[r] = "NONE"
    /\ request' = [request EXCEPT ![r] = "CREATED"]
    /\ outbox' = [outbox EXCEPT ![r] =
                    [state |-> "PENDING", owner |-> None, version |-> 0, due |-> TRUE]]
    /\ UNCHANGED <<inbox, claims, open, Provider>>

\* The clock passes lease_until or next_attempt_at.
TimePasses(r) ==
    /\ ~outbox[r].due
    /\ \/ outbox[r].state = "RETRY_WAIT"
       \/ outbox[r].state = "LEASED" /\ outbox[r].version < MaxLease
    /\ outbox' = [outbox EXCEPT ![r].due = TRUE]
    /\ UNCHANGED <<request, inbox, claims, open, Provider>>

-----------------------------------------------------------------------------
(* The dispatcher: claim_outbox, then one attempt after the other. *)

\* Mutant: an expired lease is not claimed again.
ClaimableOnce == {r \in Requests : /\ outbox[r].state \in {"PENDING", "RETRY_WAIT"}
                                   /\ outbox[r].due}
Claimable == {r \in Requests : /\ outbox[r].state \in {"PENDING", "RETRY_WAIT", "LEASED"}
                               /\ outbox[r].due /\ ~OutboxLocked(r)}

\* Mutant: a reclaim keeps the version of the lease it takes over.
NextLeaseKept(r) ==
    IF outbox[r].state = "LEASED" THEN outbox[r].version ELSE outbox[r].version + 1
NextLease(r) == outbox[r].version + 1

\* SKIP LOCKED LIMIT p_limit: everything claimable, or a full batch.
ClaimOutbox(d) ==
    /\ \A c \in claims : c.by # d
    /\ \E S \in SUBSET Claimable :
        /\ S = Claimable \/ Cardinality(S) = Batch
        /\ Cardinality(S) <= Batch
        /\ outbox' = [r \in Requests |->
                IF r \in S THEN [state |-> "LEASED", owner |-> OwnerOf[d],
                                 version |-> NextLease(r), due |-> FALSE]
                ELSE outbox[r]]
        /\ claims' = claims \cup
                {[by |-> d, req |-> r, version |-> NextLease(r), phase |-> "queued",
                  answer |-> None] : r \in S}
    /\ UNCHANGED <<request, inbox, open, Provider>>

Become(c, d) == claims' = (claims \ {c}) \cup {d}
Drop(c) == claims' = claims \ {c}

\* The request is built from the row: the same key and body on every attempt.
Post(c) ==
    /\ c.phase = "queued"
    /\ \A d \in claims : d.by = c.by => d.phase = "queued"
    /\ Become(c, [c EXCEPT !.phase = "sending"])
    /\ posted' = posted \cup {c.req}
    /\ UNCHANGED <<Tables, open, accepted, callbacks>>

\* classify_response: 202 with a valid body is ok; a transport error or timeout
\* (whatever the provider did), 408, 429 and 5xx are retryable; the rest,
\* a malformed 202 included, is terminal.
Answer(c, a) ==
    /\ c.phase = "sending"
    /\ a = "ok" => c.req \in accepted
    /\ Become(c, [c EXCEPT !.phase = "answered", !.answer = a])
    /\ UNCHANGED <<Tables, open, Provider>>

\* A database error is logged and the next row is attempted.
DbError(c) ==
    /\ c.phase \in {"answered", "delivering"} /\ c.version < MaxLease
    /\ Drop(c)
    /\ UNCHANGED <<Tables, open, Provider>>

Crash(d) ==
    /\ \E c \in claims : c.by = d
    /\ \A c \in claims : c.by = d => c.version < MaxLease
    /\ claims' = {c \in claims : c.by # d}
    /\ UNCHANGED <<Tables, open, Provider>>

-----------------------------------------------------------------------------
(* succeed_outbox and fail_outbox *)

HoldsLease(c) ==
    /\ outbox[c.req].state = "LEASED"
    /\ outbox[c.req].owner = OwnerOf[c.by]
    /\ outbox[c.req].version = c.version

\* The fenced UPDATE: the outbox row is locked, or the claim is stale.
\* Mutant: any answer counts as a delivery.
SucceedAnyAnswer(c) ==
    /\ c.phase = "answered" /\ ~OutboxLocked(c.req)
    /\ IF HoldsLease(c) THEN Become(c, [c EXCEPT !.phase = "delivering"]) ELSE Drop(c)
    /\ UNCHANGED <<Tables, open, Provider>>
SucceedOutbox(c) ==
    /\ c.phase = "answered" /\ c.answer = "ok" /\ ~OutboxLocked(c.req)
    /\ IF HoldsLease(c) THEN Become(c, [c EXCEPT !.phase = "delivering"]) ELSE Drop(c)
    /\ UNCHANGED <<Tables, open, Provider>>

\* The UPDATE of the request, and the commit.
SucceedCommit(c) ==
    /\ c.phase = "delivering" /\ ~RequestLocked(c.req)
    /\ outbox' = [outbox EXCEPT ![c.req] =
                    [@ EXCEPT !.state = "DELIVERED", !.owner = None, !.due = FALSE]]
    /\ request' = [request EXCEPT ![c.req] = IF @ = "CREATED" THEN "SENT" ELSE @]
    /\ Drop(c)
    /\ UNCHANGED <<inbox, open, Provider>>

\* attempt_count is incremented with lease_version.
BudgetLeft(c) == c.answer = "retryable" /\ outbox[c.req].version < MaxAttempts

FailState(c) == IF BudgetLeft(c) THEN "RETRY_WAIT" ELSE "DEAD"

FailOutbox(c) ==
    /\ c.phase = "answered" /\ c.answer # "ok" /\ ~OutboxLocked(c.req)
    /\ outbox' = IF HoldsLease(c)
                 THEN [outbox EXCEPT ![c.req] =
                        [@ EXCEPT !.state = FailState(c), !.owner = None, !.due = FALSE]]
                 ELSE outbox
    /\ Drop(c)
    /\ UNCHANGED <<request, inbox, open, Provider>>

-----------------------------------------------------------------------------
(* The provider (external) *)

ProviderAccepts(r) ==
    /\ r \in posted \ accepted
    /\ accepted' = accepted \cup {r}
    /\ UNCHANGED <<Tables, claims, open, posted, callbacks>>

\* A message id belongs to one request; the provider may repeat a callback, or
\* send another body under the same message id.
Callback(x) ==
    /\ x.req \in accepted /\ x \notin callbacks
    /\ \A y \in inbox \cup callbacks : y.msg = x.msg => y.req = x.req
    /\ callbacks' = callbacks \cup {x}
    /\ UNCHANGED <<Tables, claims, open, posted, accepted>>

-----------------------------------------------------------------------------
(* receipt_accept_v1, called by the adapter through the API *)

SameMsg(x, y) == x.msg = y.msg

\* A message id that is being inserted is waited for.
\* Mutants: only a request recorded as sent is confirmed, or the message id is
\* not looked up.
ReceiptInsertSent(x) ==
    /\ x \in callbacks
    /\ \A t \in open : ~SameMsg(t.receipt, x)
    /\ request[x.req] = "SENT"
    /\ \A y \in inbox : ~SameMsg(y, x)
    /\ open' = open \cup {[receipt |-> x, phase |-> "inserted"]}
    /\ UNCHANGED <<Tables, claims, Provider>>
ReceiptInsertAgain(x) ==
    /\ x \in callbacks
    /\ \A t \in open : ~SameMsg(t.receipt, x)
    /\ request[x.req] # "NONE"
    /\ open' = open \cup {[receipt |-> x, phase |-> "inserted"]}
    /\ UNCHANGED <<Tables, claims, Provider>>
ReceiptInsert(x) ==
    /\ x \in callbacks
    /\ \A t \in open : ~SameMsg(t.receipt, x)
    /\ request[x.req] # "NONE"
    /\ \A y \in inbox : ~SameMsg(y, x)
    /\ open' = open \cup {[receipt |-> x, phase |-> "inserted"]}
    /\ UNCHANGED <<Tables, claims, Provider>>

\* A known message: DUPLICATE for the same body, a conflict for another.
ReceiptKnown(x) ==
    /\ x \in callbacks
    /\ \E y \in inbox : SameMsg(y, x)
    /\ callbacks' = callbacks \ {x}
    /\ UNCHANGED <<Tables, claims, open, posted, accepted>>

\* The UPDATE of the request locks its row.
ReceiptConfirm(t) ==
    /\ t.phase = "inserted" /\ ~RequestLocked(t.receipt.req)
    /\ open' = (open \ {t}) \cup {[t EXCEPT !.phase = "confirming"]}
    /\ UNCHANGED <<Tables, claims, Provider>>

\* The UPDATE of the outbox row, whatever its state, and the commit.  The
\* answer may be lost: the provider then calls back again.
\* Mutant: only a delivered row is confirmed.
ConfirmedRowDelivered(r) ==
    IF outbox[r].state = "DELIVERED"
    THEN [outbox[r] EXCEPT !.state = "CONFIRMED", !.owner = None, !.due = FALSE]
    ELSE outbox[r]
ConfirmedRow(r) == [outbox[r] EXCEPT !.state = "CONFIRMED", !.owner = None, !.due = FALSE]

ReceiptCommit(t) ==
    LET x == t.receipt
    IN  /\ t.phase = "confirming" /\ ~OutboxLocked(x.req)
        /\ inbox' = inbox \cup {x}
        /\ request' = [request EXCEPT ![x.req] = "CONFIRMED"]
        /\ outbox' = [outbox EXCEPT ![x.req] = ConfirmedRow(x.req)]
        /\ open' = open \ {t}
        /\ callbacks' \in {callbacks, callbacks \ {x}}
        /\ UNCHANGED <<claims, posted, accepted>>

\* A timeout, a lost connection, or the victim of a deadlock: the adapter answers
\* with an error and the provider calls back again.
ReceiptAbort(t) ==
    /\ open' = open \ {t}
    /\ UNCHANGED <<Tables, claims, Provider>>

-----------------------------------------------------------------------------

DispatcherStep(c) ==
    \/ Post(c) \/ \E a \in Answers : Answer(c, a)
    \/ SucceedOutbox(c) \/ SucceedCommit(c) \/ FailOutbox(c) \/ DbError(c)

Next ==
    \/ \E r \in Requests : Prepare(r) \/ TimePasses(r) \/ ProviderAccepts(r)
    \/ \E d \in Dispatchers : ClaimOutbox(d) \/ Crash(d)
    \/ \E c \in claims : DispatcherStep(c)
    \/ \E x \in Receipt : Callback(x) \/ ReceiptInsert(x) \/ ReceiptKnown(x)
    \/ \E t \in open : ReceiptConfirm(t) \/ ReceiptCommit(t) \/ ReceiptAbort(t)

Spec == Init /\ [][Next]_vars

-----------------------------------------------------------------------------
(* Safety *)

\* Both tables tell the same story of a request, and CONFIRMED means that a
\* receipt is stored: whatever claims, answers and callbacks interleave, no
\* update of one table is left without its counterpart.
DeliveryAgrees ==
    \A r \in Requests :
        /\ request[r] = "NONE" <=> outbox[r].state = "NONE"
        /\ request[r] = "CREATED" <=>
              outbox[r].state \in {"PENDING", "LEASED", "RETRY_WAIT", "DEAD"}
        /\ request[r] = "SENT" <=> outbox[r].state = "DELIVERED"
        /\ request[r] = "CONFIRMED" <=> outbox[r].state = "CONFIRMED"
        /\ request[r] = "CONFIRMED" <=> \E x \in inbox : x.req = r

\* A message id is accepted once: the first body stays, whatever is repeated.
OneReceiptPerMessage == \A x, y \in inbox : x.msg = y.msg => x = y

\* A request is recorded as sent only if the provider has accepted it.
SentMeansAccepted == \A r \in Requests : request[r] = "SENT" => r \in accepted

\* One lease version is one right to finish: no two claims of the dispatchers hold
\* the same version of a request, across reclaims of a row that waits for its turn,
\* restarts and dispatchers that share an owner name (claim_outbox).
LeaseExclusive ==
    \A c, d \in claims : c.req = d.req /\ c.version = d.version => c = d

\* The deliveries of the tables are the abstract ones: no step takes a request
\* back (a conditional finish does not regress a CONFIRMED delivery).
PhaseOf(s) ==
    CASE s = "NONE"      -> "none"
      [] s = "DELIVERED" -> "sent"
      [] s = "CONFIRMED" -> "confirmed"
      [] OTHER           -> "requested"

Abstract == INSTANCE Delivery WITH
    Receipts <- Receipt,
    phase <- [r \in Requests |-> PhaseOf(outbox[r].state)],
    kept <- inbox

NeverGoesBack == Abstract!Spec

-----------------------------------------------------------------------------
(* Liveness.  The dispatchers poll and every post has a timeout; the clock   *)
(* runs; the provider repeats an unanswered callback, and its calls do not   *)
(* fail every time; the database breaks a deadlock by failing one of its     *)
(* two transactions, and gives the row to the other, which waits for it.     *)

Deadlocked(r) == OutboxLocked(r) /\ RequestLocked(r)
Victim(r) ==
    /\ Deadlocked(r)
    /\ \/ \E c \in claims : c.req = r /\ c.phase = "delivering" /\ DbError(c)
       \/ \E t \in open : t.receipt.req = r /\ t.phase = "confirming" /\ ReceiptAbort(t)

Fairness ==
    /\ \A d \in Dispatchers :
          /\ WF_vars(ClaimOutbox(d))
          /\ WF_vars(\E c \in {e \in claims : e.by = d} : DispatcherStep(c))
          /\ SF_vars(\E c \in {e \in claims : e.by = d} : SucceedCommit(c))
    /\ \A r \in Requests : WF_vars(TimePasses(r)) /\ WF_vars(Victim(r))
    /\ \A x \in Receipt :
          /\ SF_vars(ReceiptInsert(x)) /\ WF_vars(ReceiptKnown(x))
          /\ SF_vars(\E t \in open : t.receipt = x /\ ReceiptConfirm(t))
          /\ SF_vars(\E t \in open : t.receipt = x /\ ReceiptCommit(t))

FairSpec == Spec /\ Fairness

\* Every request that was prepared is delivered, given up or confirmed, although
\* dispatchers crash, leases run out and finishes deadlock with callbacks.
DeliverySettles ==
    \A r \in Requests :
        request[r] = "CREATED" ~> outbox[r].state \in {"DELIVERED", "DEAD", "CONFIRMED"}

\* No callback is lost: its message is stored, even if the delivery is DEAD.
CallbackStored ==
    \A x \in Receipt : x \in callbacks ~> \E y \in inbox : SameMsg(y, x)

==============================================================================
