------------------------------ MODULE Invocation -----------------------------
(***************************************************************************)
(* The calls of receipt.accept: the adapter that turns a callback of the   *)
(* provider into a signed call, the endpoint that checks a call against    *)
(* the manifest of its action, and the transaction that claims the         *)
(* idempotency key, runs the action, writes the dispatch row, stores the   *)
(* answer and commits.                                                     *)
(*                                                                         *)
(* A call of the adapter carries the message as its key and version 1; a   *)
(* direct call has a key of its own and takes the default version.  The    *)
(* bytes of a call are its message and result: the text of a callback is   *)
(* dropped when it is normalised.  Calls meet at the key and at the inbox  *)
(* row of their message, where the later one waits for the transaction of  *)
(* the earlier one.                                                        *)
(***************************************************************************)
EXTENDS Naturals, FiniteSets

CONSTANTS
    Callers,    \* connections: threads of the adapter, and direct clients
    Messages,   \* messageId
    Unknown,    \* messages that name no external request
    Narrow,     \* messages that the request schema of version 2 refuses
    MaxFaults   \* bound: timeouts, disconnects, database errors and crashes

ASSUME InvocationConstants ==
    /\ Unknown \subseteq Messages /\ Narrow \subseteq Messages
    /\ MaxFaults \in Nat

VARIABLES
    call,       \* what the API does for each caller
    store,      \* api.idempotency_store, committed rows
    inbox,      \* delivery.inbox, committed rows: the result they carry
    logged,     \* api.action_dispatches: keys with a committed OK row
    default,    \* default version of the action
    answers,    \* successes told; an error tells the caller nothing about the rows
    lost,       \* keys answered as done by a transaction that the server rolled back
    unchecked,  \* calls run by a version whose schema does not admit them
    faults      \* faults so far

vars == <<call, store, inbox, logged, default, answers, lost, unchecked, faults>>

-----------------------------------------------------------------------------
Results == {"COMPLETED", "REJECTED"}
Sources == {"adapter", "direct"}
Keys == Sources \X Messages
Successes == {"RECEIVED", "DUPLICATE"}
NoRow == [result |-> "none", response |-> "none"]
Idle == [pc |-> "idle", key |-> <<>>, result |-> "none", version |-> 0, checked |-> 0, response |-> "none",
         wrote |-> FALSE, kept |-> FALSE, aborted |-> FALSE, cancelled |-> FALSE, left |-> FALSE]

\* The steps at which a call holds a transaction, and those at which it has claimed its key.
Begun == {"begun", "claimed", "invoked", "dispatched", "stored"}
Holding == Begun \ {"begun"}

\* Every variable holds a value the code can give it.
TypeOK ==
    /\ \A c \in Callers :
         \/ call[c] = Idle
         \/ /\ call[c].pc \in {"posted"} \cup Begun
            /\ call[c].key \in Keys /\ call[c].result \in Results
            /\ call[c].version \in 0..2 /\ call[c].checked \in 0..2
            /\ call[c].response \in Successes \cup {"none"}
            /\ {call[c].wrote, call[c].kept, call[c].aborted, call[c].cancelled, call[c].left} \subseteq BOOLEAN
    /\ store \in [Keys -> [result : Results \cup {"none"}, response : Successes \cup {"none"}]]
    /\ inbox \in [Messages -> Results \cup {"none"}]
    /\ logged \subseteq Keys
    /\ default \in 1..2
    /\ answers \subseteq [key : Keys, result : Results, code : Successes]
    /\ lost \subseteq Keys /\ unchecked \subseteq [key : Keys, checked : 0..2]
    /\ faults \in 0..MaxFaults

Init ==
    /\ call = [c \in Callers |-> Idle]
    /\ store = [k \in Keys |-> NoRow]
    /\ inbox = [m \in Messages |-> "none"]
    /\ logged = {} /\ default = 1
    /\ answers = {} /\ lost = {} /\ unchecked = {} /\ faults = 0

-----------------------------------------------------------------------------
(* Answers *)

Message(c) == call[c].key[2]
At(c, pc) == call[c].pc = pc
Go(c, pc) == call' = [call EXCEPT ![c].pc = pc]

\* The caller gets the answer unless it has left; its connection is free again.
Answer(c, code) ==
    /\ call' = [call EXCEPT ![c] = Idle]
    /\ answers' = IF call[c].left \/ code \notin Successes THEN answers
                  ELSE answers \cup {[key |-> call[c].key, result |-> call[c].result, code |-> code]}

Fault == faults < MaxFaults /\ faults' = faults + 1
Rows == <<store, inbox, logged>>

-----------------------------------------------------------------------------
(* The adapter and the endpoint *)

Post(c, k, r, v) == call' = [call EXCEPT ![c] = [Idle EXCEPT !.pc = "posted", !.key = k, !.result = r, !.version = v]]

\* do_POST: the callback is normalised and signed, its message is the key, its version 1.  One
\* with another path, length or shape is answered 404 or 400 here, and changes nothing.
AdapterPosts(c, m, r) ==
    /\ At(c, "idle")
    /\ Post(c, <<"adapter", m>>, r, 1)
    /\ UNCHANGED <<Rows, default, answers, lost, unchecked, faults>>

\* Another client of the action, with a key of its own and no version.
DirectPosts(c, m, r) ==
    /\ At(c, "idle")
    /\ Post(c, <<"direct", m>>, r, 0)
    /\ UNCHANGED <<Rows, default, answers, lost, unchecked, faults>>

Resolved(v) == IF v = 0 THEN default ELSE v
Admits(v, m) == v = 1 \/ m \notin Narrow

\* Mutant: the schema is the one that version 1 had.
HandleFirstSchema(c) ==
    /\ At(c, "posted")
    /\ call' = [call EXCEPT ![c].pc = "begun", ![c].checked = Resolved(call[c].version)]
    /\ UNCHANGED <<Rows, default, answers, lost, unchecked, faults>>

\* ActionEndpoint.Handle: the manifest is read, and the payload checked against its schema.
Handle(c) ==
    /\ At(c, "posted")
    /\ LET v == Resolved(call[c].version)
       IN IF Admits(v, Message(c))
            THEN call' = [call EXCEPT ![c].pc = "begun", ![c].checked = v] /\ UNCHANGED answers
            ELSE Answer(c, "422")
    /\ UNCHANGED <<Rows, default, lost, unchecked, faults>>

\* post_json gives up: the adapter answers 503 and closes its connection to the API.
Leave(c) ==
    /\ Fault /\ call[c].pc \in {"posted"} \cup Begun /\ ~call[c].left
    /\ call' = [call EXCEPT ![c].left = TRUE]
    /\ UNCHANGED <<Rows, default, answers, lost, unchecked>>

-----------------------------------------------------------------------------
(* InvokeAsync *)

Free(k) == \A c \in Callers : call[c].pc \in Holding => call[c].key # k
Unwritten(m) == \A c \in Callers : call[c].wrote => call[c].key[2] # m

\* The token of a call: its timeout, or the abort of the request.
Cancel(c) ==
    /\ Fault /\ call[c].pc \in Begun /\ ~call[c].cancelled
    /\ call' = [call EXCEPT ![c].cancelled = TRUE]
    /\ UNCHANGED <<Rows, default, answers, lost, unchecked>>

\* Mutant: the answer of a timeout leaves the transaction open.
TimeoutHolds(c) ==
    /\ call[c].pc \in Begun \ {"invoked", "dispatched"} /\ call[c].cancelled
    /\ IF At(c, "claimed") THEN UNCHANGED <<call, answers>> ELSE Answer(c, "504")
    /\ UNCHANGED <<Rows, default, lost, unchecked, faults>>

\* The next statement of a cancelled call throws; the transaction is rolled back.
\* The dispatch row and the stored answer swallow it, and leave it to the commit.
Timeout(c) ==
    /\ call[c].pc \in Begun \ {"invoked", "dispatched"} /\ call[c].cancelled
    /\ Answer(c, "504")
    /\ UNCHANGED <<Rows, default, lost, unchecked, faults>>

\* A database error outside the two statements that swallow it.
Unavailable(c) ==
    /\ Fault /\ call[c].pc \in Begun \ {"invoked", "dispatched"}
    /\ Answer(c, "503")
    /\ UNCHANGED <<Rows, default, lost, unchecked>>

\* ClaimAsync: the row of the key is inserted, once no other transaction holds it.
Claim(c) ==
    /\ At(c, "begun") /\ ~call[c].cancelled
    /\ Free(call[c].key) /\ store[call[c].key] = NoRow
    /\ Go(c, "claimed")
    /\ UNCHANGED <<Rows, default, answers, lost, unchecked, faults>>

\* Mutant: the stored answer is given whatever the body is.
ReplayAnyBody(c) ==
    /\ At(c, "begun") /\ ~call[c].cancelled /\ store[call[c].key] # NoRow
    /\ Answer(c, store[call[c].key].response)
    /\ UNCHANGED <<Rows, default, lost, unchecked, faults>>

\* Mutant: a repeated key is answered as a duplicate message.
ReplayDuplicate(c) ==
    /\ At(c, "begun") /\ ~call[c].cancelled /\ store[call[c].key] # NoRow
    /\ Answer(c, IF store[call[c].key].result = call[c].result THEN "DUPLICATE" ELSE "409")
    /\ UNCHANGED <<Rows, default, lost, unchecked, faults>>

\* ClaimOrReplayAsync: the committed row of the key, with the same body and an answer, or a conflict.
Replay(c) ==
    /\ At(c, "begun") /\ ~call[c].cancelled /\ store[call[c].key] # NoRow
    /\ LET row == store[call[c].key]
       IN Answer(c, IF row.result = call[c].result /\ row.response # "none" THEN row.response ELSE "409")
    /\ UNCHANGED <<Rows, default, lost, unchecked, faults>>

\* Mutant: a known message takes the body of the latest call.
AcceptLatest(c) ==
    IF Message(c) \in Unknown THEN Answer(c, "422")
    ELSE /\ call' = [call EXCEPT ![c].pc = "invoked", ![c].wrote = TRUE, ![c].response = "RECEIVED"]
         /\ UNCHANGED answers

\* receipt_accept_v1: a new message, the same again, or another body under a known message.
Accept(c) ==
    LET known == inbox[Message(c)]
    IN IF Message(c) \in Unknown THEN Answer(c, "422")
       ELSE IF known = "none"
         THEN /\ call' = [call EXCEPT ![c].pc = "invoked", ![c].wrote = TRUE, ![c].response = "RECEIVED"]
              /\ UNCHANGED answers
       ELSE IF known = call[c].result
         THEN call' = [call EXCEPT ![c].pc = "invoked", ![c].response = "DUPLICATE"] /\ UNCHANGED answers
       ELSE Answer(c, "409")

\* api.invoke: the version is resolved again, and its function run.  A row of the same message
\* that another transaction has written is waited for.
Invoke(c) ==
    /\ At(c, "claimed") /\ ~call[c].cancelled
    /\ Unwritten(Message(c))
    /\ Accept(c)
    /\ unchecked' = IF Admits(Resolved(call[c].version), Message(c)) THEN unchecked
                    ELSE unchecked \cup {[key |-> call[c].key, checked |-> call[c].checked]}
    /\ UNCHANGED <<Rows, default, lost, faults>>

\* DispatchService.LogAsync: its row, or an error that it swallows.
Dispatch(c) ==
    /\ At(c, "invoked")
    /\ \/ ~call[c].cancelled /\ Go(c, "dispatched") /\ UNCHANGED faults
       \/ call[c].cancelled /\ call' = [call EXCEPT ![c].pc = "dispatched", ![c].aborted = TRUE] /\ UNCHANGED faults
       \/ Fault /\ call' = [call EXCEPT ![c].pc = "dispatched", ![c].aborted = TRUE]
    /\ UNCHANGED <<Rows, default, answers, lost, unchecked>>

\* StoreResponseAsync: the answer, or an error that it swallows.
StoreResponse(c) ==
    /\ At(c, "dispatched")
    /\ \/ /\ ~call[c].cancelled /\ ~call[c].aborted
          /\ call' = [call EXCEPT ![c].pc = "stored", ![c].kept = TRUE] /\ UNCHANGED faults
       \/ call[c].cancelled /\ Go(c, "stored") /\ UNCHANGED faults
       \/ call[c].aborted /\ Go(c, "stored") /\ UNCHANGED faults
       \/ Fault /\ call' = [call EXCEPT ![c].pc = "stored", ![c].aborted = TRUE]
    /\ UNCHANGED <<Rows, default, answers, lost, unchecked>>

\* What the transaction of a call makes durable.
Durable(c) ==
    /\ store' = [store EXCEPT ![call[c].key] =
                   [result |-> call[c].result, response |-> IF call[c].kept THEN call[c].response ELSE "none"]]
    /\ inbox' = IF call[c].wrote THEN [inbox EXCEPT ![Message(c)] = call[c].result] ELSE inbox
    /\ logged' = logged \cup {call[c].key}

\* Mutant: the commit does not look at the token of the call.
CommitAnyway(c) ==
    /\ At(c, "stored") /\ ~call[c].aborted
    /\ Answer(c, call[c].response) /\ Durable(c)
    /\ UNCHANGED <<default, lost, unchecked, faults>>

\* CommitAsync of a transaction without an error.
Commit(c) ==
    /\ At(c, "stored") /\ ~call[c].aborted /\ ~call[c].cancelled
    /\ Answer(c, call[c].response) /\ Durable(c)
    /\ UNCHANGED <<default, lost, unchecked, faults>>

\* CommitAsync after a statement failed: the server rolls back, and reports no error.
CommitAborted(c) ==
    /\ At(c, "stored") /\ call[c].aborted /\ ~call[c].cancelled
    /\ Answer(c, call[c].response)
    /\ lost' = lost \cup {call[c].key}
    /\ UNCHANGED <<Rows, default, unchecked, faults>>

\* The commit reaches the server, and its answer does not come back in time or at all.
CommitUnanswered(c) ==
    /\ Fault /\ At(c, "stored") /\ ~call[c].aborted /\ ~call[c].cancelled
    /\ Answer(c, "503") /\ Durable(c)
    /\ UNCHANGED <<default, lost, unchecked>>

Serve(c) ==
    \/ Handle(c) \/ Timeout(c) \/ Claim(c) \/ Replay(c) \/ Invoke(c) \/ Dispatch(c) \/ StoreResponse(c)
    \/ Commit(c) \/ CommitAborted(c)

\* The API stops: every transaction is rolled back, and the adapter sees its connections close.
Crash ==
    /\ Fault /\ \E c \in Callers : call[c].pc # "idle"
    /\ call' = [c \in Callers |-> Idle]
    /\ UNCHANGED <<Rows, default, answers, lost, unchecked>>

\* action activate: version 2 becomes the default.
Activate ==
    /\ default = 1 /\ default' = 2
    /\ UNCHANGED <<call, Rows, answers, lost, unchecked, faults>>

Next ==
    \/ \E c \in Callers :
         \/ \E m \in Messages, r \in Results :
              AdapterPosts(c, m, r) \/ DirectPosts(c, m, r)
         \/ Serve(c) \/ Leave(c) \/ Cancel(c) \/ Unavailable(c)
         \/ CommitUnanswered(c)
    \/ Crash \/ Activate

\* The API goes on with every call, and the provider repeats a callback that was not accepted.
Spec ==
    /\ Init /\ [][Next]_vars
    /\ \A c \in Callers : WF_vars(Serve(c))
    /\ \A m \in Messages : SF_vars(\E c \in Callers : AdapterPosts(c, m, "COMPLETED"))

-----------------------------------------------------------------------------
(* Properties *)

\* A committed idempotency row has its answer, and stands with the inbox row and the dispatch
\* row of its call: neither a timeout nor an error that ActionInvoker's helpers swallow leaves a
\* key that answers every identical repeat with a conflict.
KeyIsAnswerable ==
    \A k \in Keys : store[k] # NoRow =>
        /\ store[k].response # "none"
        /\ inbox[k[2]] = store[k].result
        /\ k \in logged

\* Whoever was told RECEIVED or DUPLICATE finds exactly that body in the inbox, through timeouts,
\* crashes and repeats.  The exception is a call whose dispatch row or stored answer failed.
SuccessIsDurable ==
    \A a \in answers : a.code \in Successes /\ a.key \notin lost => inbox[a.key[2]] = a.result

\* Identical repeats of a key are told the same outcome (IdempotencyService).
RepeatsAgree ==
    \A a, b \in answers :
        a.key = b.key /\ a.result = b.result /\ {a.code, b.code} \subseteq Successes /\ a.key \notin lost
            => a.code = b.code

\* No call, and no conflicting one in particular, changes the body of an accepted message.
InboxStays == [][\A m \in Messages : inbox[m] # "none" => inbox'[m] = inbox[m]]_vars

\* A callback the provider repeats is accepted in the end: no call keeps its key or its message
\* for ever (the rollbacks of InvokeAsync), whatever happened to the calls before.
CallbackAccepted == \A m \in Messages \ Unknown : <>(inbox[m] # "none")

\* 04-week-3.md: receipt.accept returns after the durable commit.
ReturnsAfterCommit == \A a \in answers : a.code \in Successes => inbox[a.key[2]] = a.result

\* A version runs a payload that its schema refuses only when it became the default after the
\* endpoint had read the manifest of the version before (ActionEndpoint and api.invoke resolve
\* the version each for itself); a call that names its version never does.
UncheckedOnlyWhenSwitched ==
    \A u \in unchecked : u.key[1] = "direct" /\ u.checked = 1 /\ default = 2

==============================================================================
