--------------------------- MODULE InvocationProofs --------------------------
(***************************************************************************)
(* Proofs about Invocation for every value of its constants.               *)
(*                                                                         *)
(* Between its claim and its commit a call is alone at its key, and, once  *)
(* it has written the inbox row, alone at its message.  So what it found   *)
(* when it ran is still so when it commits, and the row it leaves at its   *)
(* key says what it answered and what is in the inbox.                     *)
(***************************************************************************)
EXTENDS Invocation, TLAPS

CallSet ==
    [pc : {"idle", "posted"} \cup Begun, key : Keys \cup {<<>>}, result : Results \cup {"none"},
     version : 0..2, checked : 0..2, response : Successes \cup {"none"}, wrote : BOOLEAN, kept : BOOLEAN,
     aborted : BOOLEAN, cancelled : BOOLEAN, left : BOOLEAN]

Run == [key : Keys, checked : 0..2]
Told == [key : Keys, result : Results, code : Successes]

Tables ==
    /\ store \in [Keys -> [result : Results \cup {"none"}, response : Successes \cup {"none"}]]
    /\ inbox \in [Messages -> Results \cup {"none"}]
    /\ logged \subseteq Keys

Rest ==
    /\ default \in 1..2 /\ answers \subseteq Told /\ lost \subseteq Keys
    /\ unchecked \subseteq Run /\ faults \in 0..MaxFaults

\* The steps of a call whose action has run.
Ran == {"invoked", "dispatched", "stored"}

\* What the tables say to a call with record r.
Local(r) ==
    /\ r.pc = "idle" => r = Idle
    /\ r.pc # "idle" => r.key \in Keys /\ r.result \in Results
    /\ r.pc \in Holding => store[r.key] = NoRow
    /\ r.wrote => r.pc \in Ran /\ inbox[r.key[2]] = "none"
    /\ r.pc \in Ran => r.response \in Successes /\ (r.wrote \/ inbox[r.key[2]] = r.result)
    /\ r.pc = "stored" => r.kept \/ r.cancelled \/ r.aborted

Calls == call \in [Callers -> CallSet] /\ \A c \in Callers : Local(call[c])

\* One transaction at a key, and one that wrote the inbox row of a message.
Exclusive ==
    \A c, d \in Callers : c # d =>
        /\ call[c].pc \in Holding /\ call[d].pc \in Holding => call[c].key # call[d].key
        /\ call[c].wrote /\ call[d].wrote => call[c].key[2] # call[d].key[2]

Row(a) == [result |-> a.result, response |-> a.code]

\* What was told is what the key will answer again.
ToldIsKept == \A a \in answers : a.key \notin lost => store[a.key] = Row(a)

\* A row at a key has a body.
KeyResult == \A k \in Keys : store[k] # NoRow => store[k].result # "none"

IInv == Calls /\ Exclusive /\ Tables /\ Rest /\ KeyIsAnswerable /\ KeyResult /\ ToldIsKept

-----------------------------------------------------------------------------

\* A free connection is a call record that asks nothing of the tables.
LEMMA IdleIsLocal == Idle \in CallSet /\ Local(Idle) /\ Idle.pc = "idle" /\ ~Idle.wrote
    BY DEF Idle, CallSet, Local, Holding, Begun, Ran

\* The empty tables satisfy the invariant.
LEMMA InitIInv == Init => IInv
<1> SUFFICES ASSUME Init PROVE IInv
    OBVIOUS
<1>1. Calls
    BY IdleIsLocal DEF Init, Calls
<1>2. Exclusive
    BY IdleIsLocal DEF Init, Exclusive, Holding, Begun
<1>3. Tables /\ KeyIsAnswerable /\ KeyResult
    BY DEF Init, Tables, NoRow, KeyIsAnswerable, KeyResult
<1>4. Rest /\ ToldIsKept
    BY InvocationConstants DEF Init, Rest, ToldIsKept
<1> QED
    BY <1>1, <1>2, <1>3, <1>4 DEF IInv

\* A step that changes one call and what was told, and no row.
LEMMA CallStep ==
    ASSUME IInv, NEW c \in Callers, NEW n \in CallSet, Local(n),
           call' = [call EXCEPT ![c] = n],
           n.pc \in Holding => \/ call[c].pc \in Holding /\ n.key = call[c].key
                               \/ Free(n.key),
           n.wrote => \/ call[c].wrote /\ n.key = call[c].key
                      \/ Unwritten(n.key[2]),
           UNCHANGED Rows, Rest', lost \subseteq lost',
           \A a \in answers' : a \in answers \/ a.key \in lost' \/ store[a.key] = Row(a)
    PROVE  IInv'
<1>1. UNCHANGED <<store, inbox, logged>>
    BY DEF Rows
<1>2. /\ call \in [Callers -> CallSet] /\ call' \in [Callers -> CallSet]
      /\ call'[c] = n /\ \A d \in Callers : d # c => call'[d] = call[d]
    BY DEF IInv, Calls
<1>3. Calls'
    <2>1. \A d \in Callers : Local(call'[d])
        BY <1>2 DEF IInv, Calls
    <2>2. \A d \in Callers : Local(call[d])'
        BY <1>1, <2>1 DEF Local
    <2> QED
        BY <1>2, <2>2 DEF Calls
<1>4. Exclusive'
    <2>1. \A d \in Callers : d # c =>
            /\ n.pc \in Holding /\ call[d].pc \in Holding => n.key # call[d].key
            /\ n.wrote /\ call[d].wrote => n.key[2] # call[d].key[2]
        BY DEF IInv, Exclusive, Free, Unwritten
    <2> QED
        BY <1>2, <2>1 DEF IInv, Exclusive
<1>5. Tables' /\ KeyIsAnswerable' /\ KeyResult'
    BY <1>1 DEF IInv, Tables, KeyIsAnswerable, KeyResult
<1>6. ToldIsKept'
    BY <1>1 DEF IInv, ToldIsKept, Row
<1> QED
    BY <1>3, <1>4, <1>5, <1>6 DEF IInv

\* A call that ends without a commit: with an error, or with what the row of its key says.
LEMMA EndStep ==
    ASSUME IInv, NEW c \in Callers, call[c].pc # "idle", NEW code, Answer(c, code),
           UNCHANGED <<Rows, default>>, unchecked' \subseteq Run, faults' \in 0..MaxFaults,
           lost' \subseteq Keys, lost \subseteq lost',
           \/ code \notin Successes
           \/ code \in Successes /\ call[c].key \in lost'
           \/ store[call[c].key] = [result |-> call[c].result, response |-> code]
    PROVE  IInv'
<1> DEFINE new == [key |-> call[c].key, result |-> call[c].result, code |-> code]
<1>1. call[c].key \in Keys /\ call[c].result \in Results
    BY DEF IInv, Calls, Local
<1>2. call' = [call EXCEPT ![c] = Idle]
    BY DEF Answer
<1>3. answers' = answers \/ (answers' = answers \cup {new} /\ code \in Successes)
    BY DEF Answer
<1>4. Rest'
    BY <1>1, <1>3 DEF IInv, Rest, Told
<1>5. \A a \in answers' : a \in answers \/ a.key \in lost' \/ store[a.key] = Row(a)
    BY <1>3 DEF Row
<1> QED
    BY <1>2, <1>4, <1>5, IdleIsLocal, CallStep DEF Holding, Begun

\* A commit: the rows of the call and its key become durable, whether or not it is told so.
LEMMA CommitStep ==
    ASSUME IInv, NEW c \in Callers, At(c, "stored"), ~call[c].aborted, ~call[c].cancelled,
           NEW code, code = call[c].response \/ code \notin Successes,
           Answer(c, code), Durable(c), UNCHANGED <<default, lost, unchecked>>,
           faults' \in 0..MaxFaults
    PROVE  /\ IInv'
           /\ \A m \in Messages : inbox[m] # "none" => inbox'[m] = inbox[m]
<1> DEFINE k == call[c].key
           m == call[c].key[2]
           r == call[c].result
           row == [result |-> r, response |-> call[c].response]
           new == [key |-> k, result |-> r, code |-> code]
<1>1. /\ k \in Keys /\ m \in Messages /\ r \in Results
      /\ call[c].response \in Successes /\ call[c].kept
      /\ call[c].pc \in Holding /\ store[k] = NoRow
      /\ call[c].wrote \/ inbox[m] = r
      /\ call[c].wrote => inbox[m] = "none"
    BY DEF IInv, Calls, Local, At, Holding, Begun, Ran, Keys
<1>2. /\ store' = [store EXCEPT ![k] = row]
      /\ inbox' = IF call[c].wrote THEN [inbox EXCEPT ![m] = r] ELSE inbox
      /\ logged' = logged \cup {k}
    BY <1>1 DEF Durable, Message
<1>3. /\ inbox'[m] = r
      /\ \A q \in Messages : inbox[q] # "none" => inbox'[q] = inbox[q]
      /\ \A q \in Messages : q # m => inbox'[q] = inbox[q]
    BY <1>1, <1>2 DEF IInv, Tables
<1>4. /\ store'[k] = row /\ row # NoRow
      /\ \A q \in Keys : q # k => store'[q] = store[q]
    BY <1>1, <1>2 DEF IInv, Tables, NoRow, Successes
<1>5. Tables'
    BY <1>1, <1>2 DEF IInv, Tables
<1>6. KeyIsAnswerable'
    <2>1. ASSUME NEW q \in Keys, store'[q] # NoRow, q # k
          PROVE  store'[q].response # "none" /\ inbox'[q[2]] = store'[q].result /\ q \in logged'
        <3>1. store[q] # NoRow /\ store'[q] = store[q]
            BY <1>4, <2>1
        <3>2. store[q].response # "none" /\ inbox[q[2]] = store[q].result /\ q \in logged
            BY <3>1 DEF IInv, KeyIsAnswerable
        <3>3. q[2] \in Messages /\ inbox[q[2]] # "none"
            <4>1. store[q].result # "none"
                BY <3>1, <3>2 DEF IInv, KeyResult
            <4> QED
                BY <3>2, <4>1 DEF Keys
        <3> QED
            BY <1>2, <1>3, <3>1, <3>2, <3>3
    <2>2. row.response # "none" /\ row.result = r
        BY <1>1 DEF Successes
    <2>3. store'[k].response # "none" /\ inbox'[k[2]] = store'[k].result /\ k \in logged'
        BY <1>2, <1>3, <1>4, <2>2
    <2> QED
        BY <2>1, <2>3 DEF KeyIsAnswerable
<1>13. KeyResult'
    BY <1>1, <1>4 DEF IInv, KeyResult, Results
<1>7. /\ call \in [Callers -> CallSet] /\ call' \in [Callers -> CallSet]
      /\ call'[c] = Idle /\ \A d \in Callers : d # c => call'[d] = call[d]
    BY IdleIsLocal DEF IInv, Calls, Answer
<1>8. Calls'
    <2>1. ASSUME NEW d \in Callers, d # c PROVE Local(call[d])'
        <3> DEFINE s == call[d]
        <3>1. Local(s) /\ call'[d] = s
            BY <1>7, <2>1 DEF IInv, Calls
        <3>2. s.pc # "idle" => s.key \in Keys /\ s.key[2] \in Messages /\ s.result \in Results
            BY <3>1 DEF Local, Keys
        <3>3. s.pc \in Holding => store'[s.key] = NoRow
            BY <1>1, <1>4, <2>1, <3>1, <3>2 DEF IInv, Exclusive, Local, Holding, Begun
        <3>4. s.wrote => s.pc \in Ran /\ inbox'[s.key[2]] = "none"
            BY <1>1, <1>2, <1>3, <2>1, <3>1, <3>2 DEF IInv, Exclusive, Local, Ran
        <3>5. s.pc \in Ran => s.response \in Successes /\ (s.wrote \/ inbox'[s.key[2]] = s.result)
            BY <1>3, <3>1, <3>2 DEF Local, Ran, Results
        <3> QED
            BY <3>1, <3>3, <3>4, <3>5 DEF Local
    <2>2. Local(call[c])'
        BY <1>7, IdleIsLocal DEF Local, Idle, Holding, Begun, Ran
    <2> QED
        BY <1>7, <2>1, <2>2 DEF Calls
<1>9. Exclusive'
    BY <1>7, IdleIsLocal DEF IInv, Exclusive, Holding, Begun
<1>10. answers' = answers \/ (answers' = answers \cup {new} /\ code \in Successes)
    BY DEF Answer
<1>11. Rest'
    BY <1>1, <1>10 DEF IInv, Rest, Told
<1>12. ToldIsKept'
    <2>1. ASSUME NEW a \in answers, a.key \notin lost PROVE store'[a.key] = Row(a)
        <3>1. store[a.key] = Row(a) /\ a.code \in Successes /\ a.key \in Keys
            BY <2>1 DEF IInv, ToldIsKept, Rest, Told
        <3>2. a.key # k
            BY <1>1, <3>1 DEF Row, NoRow, Successes
        <3> QED
            BY <1>4, <3>1, <3>2
    <2>2. code \in Successes => store'[k] = Row(new)
        BY <1>4 DEF Row
    <2> QED
        BY <1>10, <2>1, <2>2 DEF ToldIsKept, Row
<1> QED
    BY <1>3, <1>5, <1>6, <1>8, <1>9, <1>11, <1>12, <1>13 DEF IInv

-----------------------------------------------------------------------------

\* A call is posted, and its manifest read.
LEMMA PostSteps ==
    ASSUME IInv, NEW c \in Callers,
           \/ \E m \in Messages, r \in Results : AdapterPosts(c, m, r) \/ DirectPosts(c, m, r)
           \/ Handle(c)
    PROVE  IInv'
<1>1. ASSUME NEW k \in Keys, NEW r \in Results, NEW v \in 0..2, Post(c, k, r, v),
             UNCHANGED <<Rows, default, answers, lost, unchecked, faults>>
      PROVE  IInv'
    <2> DEFINE n == [Idle EXCEPT !.pc = "posted", !.key = k, !.result = r, !.version = v]
    <2>1. n \in CallSet /\ Local(n) /\ n.pc \notin Holding /\ ~n.wrote
        <3>1. n \in CallSet
            BY IdleIsLocal DEF CallSet
        <3>2. n.pc = "posted" /\ n.key = k /\ n.result = r /\ ~n.wrote
            BY DEF Idle
        <3> HIDE DEF n
        <3> QED
            BY <3>1, <3>2 DEF Local, Holding, Begun, Ran
    <2>2. Rest'
        BY <1>1 DEF IInv, Rest
    <2>3. call' = [call EXCEPT ![c] = n]
        BY <1>1 DEF Post
    <2>4. UNCHANGED Rows /\ lost \subseteq lost' /\ answers' = answers
        BY <1>1
    <2> QED
        BY <2>1, <2>2, <2>3, <2>4, CallStep
<1>2. ASSUME NEW m \in Messages, NEW r \in Results, AdapterPosts(c, m, r) \/ DirectPosts(c, m, r)
      PROVE  IInv'
    BY <1>1, <1>2 DEF AdapterPosts, DirectPosts, Keys, Sources
<1>3. ASSUME Handle(c) PROVE IInv'
    <2> DEFINE v == Resolved(call[c].version)
               n == [call[c] EXCEPT !.pc = "begun", !.checked = v]
    <2>1. call[c] \in CallSet /\ Local(call[c]) /\ call[c].pc = "posted"
        BY <1>3 DEF IInv, Calls, Handle, At
    <2>2. v \in 0..2
        BY <2>1 DEF IInv, Rest, Resolved, CallSet
    <2>3. CASE Admits(v, Message(c))
        <3>1. n \in CallSet /\ Local(n) /\ n.pc \notin Holding /\ ~n.wrote
            BY <2>1, <2>2 DEF CallSet, Local, Holding, Begun, Ran
        <3>2. call' = [call EXCEPT ![c] = n] /\ UNCHANGED <<Rows, answers, lost>> /\ Rest'
            BY <1>3, <2>3 DEF Handle, IInv, Rest, Calls
        <3> QED
            BY <3>1, <3>2, CallStep
    <2>4. CASE ~Admits(v, Message(c))
        <3>1. Answer(c, "422") /\ UNCHANGED <<Rows, default, lost, unchecked, faults>>
            BY <1>3, <2>4 DEF Handle
        <3>2. "422" \notin Successes /\ unchecked' \subseteq Run /\ faults' \in 0..MaxFaults /\ lost' \subseteq Keys
            BY <3>1 DEF Successes, IInv, Rest
        <3> QED
            BY <2>1, <3>1, <3>2, EndStep
    <2> QED
        BY <2>3, <2>4
<1> QED
    BY <1>2, <1>3

\* A call is marked: its client leaves, or its token is cancelled.
LEMMA MarkSteps ==
    ASSUME IInv, NEW c \in Callers, Leave(c) \/ Cancel(c)
    PROVE  IInv'
<1>1. call[c] \in CallSet /\ Local(call[c]) /\ call[c].pc # "idle" /\ Rest'
    BY InvocationConstants DEF IInv, Calls, Rest, Leave, Cancel, Fault, Begun
<1> DEFINE gone == [call[c] EXCEPT !.left = TRUE]
           late == [call[c] EXCEPT !.cancelled = TRUE]
<1>2. \A n \in {gone, late} :
        /\ n \in CallSet /\ Local(n)
        /\ n.pc = call[c].pc /\ n.key = call[c].key /\ n.wrote = call[c].wrote
    BY <1>1 DEF CallSet, Local
<1>3. \E n \in {gone, late} : call' = [call EXCEPT ![c] = n]
    BY DEF Leave, Cancel, IInv, Calls
<1>4. UNCHANGED <<Rows, answers, lost>>
    BY DEF Leave, Cancel
<1> QED
    BY <1>1, <1>2, <1>3, <1>4, CallStep

\* A call ends with an error, or with what the row of its key says.
LEMMA ErrorSteps ==
    ASSUME IInv, NEW c \in Callers,
           Timeout(c) \/ Unavailable(c) \/ Replay(c) \/ CommitAborted(c)
    PROVE  IInv'
<1>1. /\ call[c].pc # "idle" /\ UNCHANGED <<Rows, default>>
      /\ unchecked' \subseteq Run /\ faults' \in 0..MaxFaults
      /\ call[c].key \in Keys /\ lost' \subseteq Keys /\ lost \subseteq lost'
    BY InvocationConstants
    DEF IInv, Calls, Local, Rest, Timeout, Unavailable, Replay, CommitAborted, At, Fault, Begun
<1>2. CASE Timeout(c) \/ Unavailable(c)
    <2>1. PICK code \in {"504", "503"} : Answer(c, code)
        BY <1>2 DEF Timeout, Unavailable
    <2> QED
        BY <1>1, <2>1, EndStep DEF Successes
<1>3. CASE Replay(c)
    <2> DEFINE row == store[call[c].key]
    <2>1. row \in [result : Results \cup {"none"}, response : Successes \cup {"none"}]
        BY <1>1 DEF IInv, Tables
    <2>2. PICK code : /\ Answer(c, code)
                      /\ code = "409" \/ (row.result = call[c].result /\ row.response = code)
        BY <1>3 DEF Replay
    <2>3. code \notin Successes \/ row = [result |-> call[c].result, response |-> code]
        BY <2>1, <2>2 DEF Successes
    <2> QED
        BY <1>1, <2>2, <2>3, EndStep
<1>4. CASE CommitAborted(c)
    <2>1. Answer(c, call[c].response) /\ call[c].key \in lost'
        BY <1>4 DEF CommitAborted
    <2> QED
        BY <1>1, <2>1, EndStep
<1> QED
    BY <1>2, <1>3, <1>4

\* The key is claimed, once it is free.
LEMMA ClaimStep ==
    ASSUME IInv, NEW c \in Callers, Claim(c)
    PROVE  IInv'
<1> DEFINE n == [call[c] EXCEPT !.pc = "claimed"]
<1>1. call[c] \in CallSet /\ Local(call[c]) /\ call[c].pc = "begun" /\ store[call[c].key] = NoRow
    BY DEF IInv, Calls, Claim, At
<1>2. n \in CallSet /\ Local(n) /\ ~n.wrote /\ n.key = call[c].key /\ Free(n.key)
    BY <1>1 DEF CallSet, Local, Holding, Begun, Ran, Claim
<1>3. call' = [call EXCEPT ![c] = n] /\ UNCHANGED <<Rows, answers, lost>> /\ Rest'
    BY DEF Claim, Go, IInv, Rest, Calls
<1> QED
    BY <1>2, <1>3, CallStep

\* The action runs, once nobody else has written the row of its message.
LEMMA InvokeStep ==
    ASSUME IInv, NEW c \in Callers, Invoke(c)
    PROVE  IInv'
<1> DEFINE m == call[c].key[2]
           new == [call[c] EXCEPT !.pc = "invoked", !.wrote = TRUE, !.response = "RECEIVED"]
           dup == [call[c] EXCEPT !.pc = "invoked", !.response = "DUPLICATE"]
<1>1. /\ call[c] \in CallSet /\ Local(call[c]) /\ call[c].pc = "claimed"
      /\ call[c].key \in Keys /\ ~call[c].wrote
    BY DEF IInv, Calls, Invoke, At, Local, Ran
<1>2. /\ UNCHANGED <<Rows, default, lost, faults>> /\ Accept(c) /\ Unwritten(m)
      /\ unchecked' \subseteq Run
    BY <1>1 DEF Invoke, Message, IInv, Rest, Run, CallSet
<1>3. CASE Answer(c, "422") \/ Answer(c, "409")
    <2>1. PICK code \in {"422", "409"} : Answer(c, code)
        BY <1>3
    <2>2. faults' \in 0..MaxFaults /\ lost' \subseteq Keys
        BY <1>2 DEF IInv, Rest
    <2> QED
        BY <1>1, <1>2, <2>1, <2>2, EndStep DEF Successes
<1>4. CASE inbox[m] = "none" /\ call' = [call EXCEPT ![c] = new] /\ UNCHANGED answers
    <2>1. new \in CallSet /\ Local(new) /\ new.key = call[c].key /\ call[c].pc \in Holding
        BY <1>1, <1>4 DEF CallSet, Local, Holding, Begun, Ran, Successes
    <2>2. Rest'
        BY <1>2, <1>4 DEF IInv, Rest
    <2> QED
        BY <1>2, <1>4, <2>1, <2>2, CallStep
<1>5. CASE inbox[m] = call[c].result /\ call' = [call EXCEPT ![c] = dup] /\ UNCHANGED answers
    <2>1. dup \in CallSet /\ Local(dup) /\ dup.key = call[c].key /\ call[c].pc \in Holding /\ ~dup.wrote
        BY <1>1, <1>5 DEF CallSet, Local, Holding, Begun, Ran, Successes
    <2>2. Rest'
        BY <1>2, <1>5 DEF IInv, Rest
    <2> QED
        BY <1>2, <1>5, <2>1, <2>2, CallStep
<1> QED
    BY <1>2, <1>3, <1>4, <1>5 DEF Accept, Message, IInv, Calls

\* The dispatch row and the stored answer, or the errors they swallow.
LEMMA SwallowSteps ==
    ASSUME IInv, NEW c \in Callers, Dispatch(c) \/ StoreResponse(c)
    PROVE  IInv'
<1>1. /\ call[c] \in CallSet /\ Local(call[c]) /\ call[c].pc \in {"invoked", "dispatched"}
      /\ Rest' /\ UNCHANGED <<Rows, answers, lost>>
    BY InvocationConstants DEF IInv, Calls, Rest, Dispatch, StoreResponse, At, Fault
<1>2. PICK n \in CallSet :
        /\ call' = [call EXCEPT ![c] = n] /\ n.pc \in {"dispatched", "stored"}
        /\ n.key = call[c].key /\ n.wrote = call[c].wrote /\ n.result = call[c].result
        /\ n.response = call[c].response
        /\ n.pc = "stored" => n.kept \/ n.cancelled \/ n.aborted
    <2> DEFINE go(p) == [call[c] EXCEPT !.pc = p]
               bad(p) == [call[c] EXCEPT !.pc = p, !.aborted = TRUE]
               good == [call[c] EXCEPT !.pc = "stored", !.kept = TRUE]
    <2>1. \A p \in {"dispatched", "stored"} : go(p) \in CallSet /\ bad(p) \in CallSet
        BY <1>1 DEF CallSet, Begun
    <2>2. good \in CallSet
        BY <1>1 DEF CallSet, Begun
    <2>5. ASSUME NEW n, n \in {go("dispatched"), bad("dispatched"), go("stored"), bad("stored"), good}
          PROVE  /\ n.key = call[c].key /\ n.wrote = call[c].wrote /\ n.result = call[c].result
                 /\ n.response = call[c].response /\ n.cancelled = call[c].cancelled
        BY <1>1, <2>5 DEF CallSet
    <2>6. /\ \A p \in {"dispatched", "stored"} : go(p).pc = p /\ bad(p).pc = p /\ bad(p).aborted
          /\ go("stored").aborted = call[c].aborted
          /\ good.pc = "stored" /\ good.kept
        BY <1>1 DEF CallSet
    <2> HIDE DEF go, bad, good
    <2>3. CASE Dispatch(c)
        <3>1. call' = [call EXCEPT ![c] = go("dispatched")] \/ call' = [call EXCEPT ![c] = bad("dispatched")]
            BY <2>3 DEF Dispatch, Go, IInv, Calls, go, bad
        <3> QED
            BY <2>1, <2>5, <2>6, <3>1
    <2>4. CASE StoreResponse(c)
        <3>1. \/ call' = [call EXCEPT ![c] = good]
              \/ call' = [call EXCEPT ![c] = bad("stored")]
              \/ call' = [call EXCEPT ![c] = go("stored")] /\ (call[c].cancelled \/ call[c].aborted)
            BY <2>4 DEF StoreResponse, Go, IInv, Calls, go, bad, good
        <3> QED
            BY <2>1, <2>2, <2>5, <2>6, <3>1
    <2> QED
        BY <2>3, <2>4
<1>3. Local(n) /\ call[c].pc \in Holding
    BY <1>1, <1>2 DEF Local, Holding, Begun, Ran
<1> QED
    BY <1>1, <1>2, <1>3, CallStep

\* The two commits.
LEMMA CommitSteps ==
    ASSUME IInv, NEW c \in Callers, Commit(c) \/ CommitUnanswered(c)
    PROVE  /\ IInv'
           /\ \A m \in Messages : inbox[m] # "none" => inbox'[m] = inbox[m]
<1>1. PICK code \in {call[c].response, "503"} : Answer(c, code)
    BY DEF Commit, CommitUnanswered
<1>2. /\ At(c, "stored") /\ ~call[c].aborted /\ ~call[c].cancelled /\ Durable(c)
      /\ UNCHANGED <<default, lost, unchecked>> /\ faults' \in 0..MaxFaults
    BY InvocationConstants DEF Commit, CommitUnanswered, Fault, IInv, Rest
<1> QED
    BY <1>1, <1>2, CommitStep DEF Successes

\* The API stops, and its transactions are rolled back.
LEMMA CrashStep == IInv /\ Crash => IInv'
<1> SUFFICES ASSUME IInv, Crash PROVE IInv'
    OBVIOUS
<1>1. call' = [c \in Callers |-> Idle] /\ UNCHANGED <<store, inbox, logged, default, answers, lost, unchecked>>
    BY DEF Crash, Rows
<1>2. Calls' /\ Exclusive'
    BY <1>1, IdleIsLocal DEF Calls, Exclusive, Local, Idle, Holding, Begun, Ran
<1>3. Tables' /\ Rest' /\ KeyIsAnswerable' /\ KeyResult' /\ ToldIsKept'
    BY <1>1, InvocationConstants
    DEF IInv, Tables, Rest, KeyIsAnswerable, KeyResult, ToldIsKept, Row, Crash, Fault
<1> QED
    BY <1>2, <1>3 DEF IInv

\* A switch of the default version, or no step at all, changes no call and no row.
LEMMA ElseStep == IInv /\ (Activate \/ UNCHANGED vars) => IInv'
<1> SUFFICES ASSUME IInv, Activate \/ UNCHANGED vars PROVE IInv'
    OBVIOUS
<1>1. /\ UNCHANGED <<call, store, inbox, logged, answers, lost, unchecked, faults>>
      /\ default' \in 1..2
    BY DEF Activate, vars, Rows, IInv, Rest
<1>2. Calls' /\ Exclusive'
    BY <1>1 DEF IInv, Calls, Exclusive, Local
<1>3. Tables' /\ Rest' /\ KeyIsAnswerable' /\ KeyResult' /\ ToldIsKept'
    BY <1>1 DEF IInv, Tables, Rest, KeyIsAnswerable, KeyResult, ToldIsKept, Row
<1> QED
    BY <1>2, <1>3 DEF IInv

\* Every step keeps the invariant.
LEMMA NextIInv == IInv /\ [Next]_vars => IInv'
<1> SUFFICES ASSUME IInv, [Next]_vars PROVE IInv'
    OBVIOUS
<1>1. ASSUME NEW c \in Callers,
             \/ \E m \in Messages, r \in Results : AdapterPosts(c, m, r) \/ DirectPosts(c, m, r)
             \/ Serve(c) \/ Leave(c) \/ Cancel(c) \/ Unavailable(c) \/ CommitUnanswered(c)
      PROVE  IInv'
    BY <1>1, PostSteps, MarkSteps, ErrorSteps, ClaimStep, InvokeStep, SwallowSteps, CommitSteps
    DEF Serve
<1> QED
    BY <1>1, CrashStep, ElseStep DEF Next

-----------------------------------------------------------------------------

\* The invariant holds in every reachable state.
THEOREM InvocationInvariance == Spec => []IInv
    BY InitIInv, NextIInv, PTL DEF Spec

\* Every variable of the API and its tables keeps its type (TypeOK).
THEOREM InvocationTypeCorrect == Spec => []TypeOK
<1>1. IInv => TypeOK
    <2> SUFFICES ASSUME IInv PROVE TypeOK
        OBVIOUS
    <2>1. ASSUME NEW c \in Callers, call[c].pc # "idle"
          PROVE  /\ call[c].pc \in {"posted"} \cup Begun
                 /\ call[c].key \in Keys /\ call[c].result \in Results
                 /\ call[c].version \in 0..2 /\ call[c].checked \in 0..2
                 /\ call[c].response \in Successes \cup {"none"}
                 /\ {call[c].wrote, call[c].kept, call[c].aborted, call[c].cancelled, call[c].left}
                       \subseteq BOOLEAN
        BY <2>1 DEF IInv, Calls, Local, CallSet
    <2>2. \A c \in Callers : call[c].pc = "idle" => call[c] = Idle
        BY DEF IInv, Calls, Local
    <2> QED
        BY <2>1, <2>2 DEF IInv, TypeOK, Tables, Rest, Told, Run
<1> QED
    BY <1>1, InvocationInvariance, PTL

\* A committed key has an answer, and stands with its inbox row and its dispatch row, whatever
\* was cancelled or swallowed before the commit (KeyIsAnswerable).
THEOREM KeyAnswers == Spec => []KeyIsAnswerable
<1>1. IInv => KeyIsAnswerable
    BY DEF IInv
<1> QED
    BY <1>1, InvocationInvariance, PTL

\* A success that was told is in the inbox, with the body it was told for (SuccessIsDurable).
THEOREM SuccessDurable == Spec => []SuccessIsDurable
<1>1. IInv => SuccessIsDurable
    <2> SUFFICES ASSUME IInv, NEW a \in answers, a.code \in Successes, a.key \notin lost
                 PROVE  inbox[a.key[2]] = a.result
        BY DEF SuccessIsDurable
    <2>1. a.key \in Keys /\ store[a.key] = Row(a)
        BY DEF IInv, Rest, Told, ToldIsKept
    <2>2. store[a.key] # NoRow /\ store[a.key].result = a.result
        BY <2>1 DEF Row, NoRow, Successes
    <2> QED
        BY <2>1, <2>2 DEF IInv, KeyIsAnswerable
<1> QED
    BY <1>1, InvocationInvariance, PTL

\* Identical repeats of a key are told the same (RepeatsAgree).
THEOREM RepeatsAgreed == Spec => []RepeatsAgree
<1>1. IInv => RepeatsAgree
    <2> SUFFICES ASSUME IInv, NEW a \in answers, NEW b \in answers, a.key = b.key, a.key \notin lost
                 PROVE  a.code = b.code
        BY DEF RepeatsAgree
    <2>1. Row(a) = Row(b)
        BY DEF IInv, ToldIsKept
    <2>2. Row(a).response = a.code /\ Row(b).response = b.code
        BY DEF Row
    <2> QED
        BY <2>1, <2>2
<1> QED
    BY <1>1, InvocationInvariance, PTL

\* No call changes the body of an accepted message (InboxStays).
THEOREM InboxKept == Spec => InboxStays
<1> DEFINE Stays == \A m \in Messages : inbox[m] # "none" => inbox'[m] = inbox[m]
<1>1. IInv /\ [Next]_vars => [Stays]_vars
    <2> SUFFICES ASSUME IInv, Next PROVE Stays
        BY DEF vars
    <2>1. ASSUME NEW c \in Callers, Commit(c) \/ CommitUnanswered(c) PROVE Stays
        BY <2>1, CommitSteps
    <2>2. ASSUME UNCHANGED inbox PROVE Stays
        BY <2>2
    <2> QED
        BY <2>1, <2>2
        DEF Next, Serve, AdapterPosts, DirectPosts, Handle, Timeout, Claim, Replay, Invoke, Dispatch,
            StoreResponse, CommitAborted, Leave, Cancel, Unavailable, Crash, Activate, Rows
<1> QED
    BY <1>1, InvocationInvariance, PTL DEF Spec, InboxStays

-----------------------------------------------------------------------------

\* What the version and the checked manifest of a call with record r are.
Manifest(r) ==
    /\ r.pc # "idle" => r.version = 1 \/ (r.version = 0 /\ r.key[1] = "direct")
    /\ r.pc \in Begun =>
         /\ Admits(r.checked, r.key[2])
         /\ r.version = 1 => r.checked = 1
         /\ r.checked \in 1..default

\* Every call in its transaction was admitted by a version that was or is the default.
CheckedInv == (\A c \in Callers : Manifest(call[c])) /\ UncheckedOnlyWhenSwitched

\* A step that frees a connection, or leaves the version and the manifest of its call alone.
LEMMA ManifestStep ==
    ASSUME IInv, CheckedInv, NEW c \in Callers, NEW n, call' = [call EXCEPT ![c] = n],
           \/ n = Idle
           \/ /\ n.key = call[c].key /\ n.version = call[c].version /\ n.checked = call[c].checked
              /\ call[c].pc # "idle" /\ (n.pc \in Begun => call[c].pc \in Begun),
           UNCHANGED <<default, unchecked>>
    PROVE  CheckedInv'
<1>1. call'[c] = n /\ \A d \in Callers : d # c => call'[d] = call[d]
    BY DEF IInv, Calls
<1>2. \A d \in Callers : Manifest(call[d])
    BY DEF CheckedInv
<1>3. Manifest(n)'
    <2>1. CASE n = Idle
        BY <2>1 DEF Manifest, Idle, Begun
    <2>2. CASE n # Idle
        BY <1>2, <2>2 DEF Manifest, Admits
    <2> QED
        BY <2>1, <2>2
<1>4. \A d \in Callers : d # c => Manifest(call[d])'
    BY <1>1, <1>2 DEF Manifest, Admits
<1>5. \A d \in Callers : Manifest(call[d])'
    BY <1>1, <1>3, <1>4 DEF Manifest, Admits
<1> QED
    BY <1>5 DEF CheckedInv, UncheckedOnlyWhenSwitched

\* A call is posted, and the manifest of its version read.
LEMMA ManifestPosts ==
    ASSUME IInv, CheckedInv, NEW c \in Callers,
           \/ \E m \in Messages, r \in Results : AdapterPosts(c, m, r) \/ DirectPosts(c, m, r)
           \/ Handle(c) /\ Admits(Resolved(call[c].version), Message(c))
    PROVE  CheckedInv'
<1>1. ASSUME NEW n, call' = [call EXCEPT ![c] = n], Manifest(n), UNCHANGED <<default, unchecked>>
      PROVE  CheckedInv'
    <2>1. call'[c] = n /\ \A d \in Callers : d # c => call'[d] = call[d]
        BY <1>1 DEF IInv, Calls
    <2>2. \A d \in Callers : Manifest(call[d])'
        BY <1>1, <2>1 DEF CheckedInv, Manifest, Admits
    <2> QED
        BY <1>1, <2>2 DEF CheckedInv, UncheckedOnlyWhenSwitched
<1>2. ASSUME NEW k \in Keys, NEW r \in Results, NEW v \in 0..1, Post(c, k, r, v),
             v = 1 \/ k[1] = "direct", UNCHANGED <<default, unchecked>>
      PROVE  CheckedInv'
    <2> DEFINE n == [Idle EXCEPT !.pc = "posted", !.key = k, !.result = r, !.version = v]
    <2>1. n.pc = "posted" /\ n.key = k /\ n.version = v
        BY DEF Idle
    <2>2. call' = [call EXCEPT ![c] = n]
        BY <1>2 DEF Post
    <2> HIDE DEF n
    <2>4. v = 0 \/ v = 1
        OBVIOUS
    <2>5. n.pc # "idle" /\ n.pc \notin Begun
        BY <2>1 DEF Begun
    <2>6. v = 1 \/ (v = 0 /\ k[1] = "direct")
        BY <1>2, <2>4
    <2>7. n.version = 1 \/ (n.version = 0 /\ n.key[1] = "direct")
        BY <2>1, <2>6, Zenon
    <2>3. Manifest(n)
        BY <2>5, <2>7, Zenon DEF Manifest
    <2> QED
        BY <1>1, <1>2, <2>2, <2>3
<1>4. ASSUME NEW m \in Messages, NEW r \in Results, AdapterPosts(c, m, r) \/ DirectPosts(c, m, r)
      PROVE  CheckedInv'
    <2>1. <<"adapter", m>> \in Keys /\ <<"direct", m>> \in Keys /\ <<"direct", m>>[1] = "direct"
        BY DEF Keys, Sources
    <2>2. CASE AdapterPosts(c, m, r)
        BY <1>2, <2>1, <2>2 DEF AdapterPosts
    <2>3. CASE DirectPosts(c, m, r)
        BY <1>2, <2>1, <2>3 DEF DirectPosts
    <2> QED
        BY <1>4, <2>2, <2>3
<1>3. ASSUME Handle(c), Admits(Resolved(call[c].version), Message(c)) PROVE CheckedInv'
    <2> DEFINE n == [call[c] EXCEPT !.pc = "begun", !.checked = Resolved(call[c].version)]
    <2>1. call' = [call EXCEPT ![c] = n] /\ UNCHANGED <<default, unchecked>>
        BY <1>3 DEF Handle, IInv, Calls
    <2>2. /\ n.pc = "begun" /\ n.key = call[c].key /\ n.version = call[c].version
          /\ n.checked = Resolved(call[c].version)
        BY DEF IInv, Calls, CallSet
    <2>3. call[c].pc # "idle" /\ default \in 1..2
        BY <1>3 DEF Handle, At, IInv, Rest
    <2> HIDE DEF n
    <2>4. Manifest(n)
        BY <1>3, <2>2, <2>3 DEF CheckedInv, Manifest, Resolved, Message
    <2> QED
        BY <1>1, <2>1, <2>4
<1> QED
    BY <1>3, <1>4

\* The action runs: the version that api.invoke resolves admits the call, or has replaced the
\* default that the endpoint checked.
LEMMA ManifestInvoke == ASSUME IInv, CheckedInv, NEW c \in Callers, Invoke(c) PROVE CheckedInv'
<1> DEFINE v == Resolved(call[c].version)
           u == [key |-> call[c].key, checked |-> call[c].checked]
           run == [call[c] EXCEPT !.pc = "invoked", !.wrote = TRUE, !.response = "RECEIVED"]
           dup == [call[c] EXCEPT !.pc = "invoked", !.response = "DUPLICATE"]
<1>1. /\ call[c] \in CallSet /\ call[c].pc = "claimed" /\ Manifest(call[c])
      /\ default \in 1..2 /\ default' = default
    BY DEF Invoke, At, IInv, Calls, Rest, CheckedInv
<1>2. PICK n : call' = [call EXCEPT ![c] = n] /\ n \in {run, dup, Idle}
    BY DEF Invoke, Accept, Answer, IInv, Calls
<1>3. \/ n = Idle
      \/ n.key = call[c].key /\ n.version = call[c].version /\ n.checked = call[c].checked
    BY <1>1, <1>2 DEF CallSet
<1>4. Manifest(n)
    <2>1. CASE n = Idle
        BY <2>1 DEF Manifest, Idle, Begun
    <2>2. CASE n # Idle
        BY <1>1, <1>3, <2>2 DEF Manifest, Begun
    <2> QED
        BY <2>1, <2>2
<1>5. \A d \in Callers : Manifest(call[d])'
    <2>1. call'[c] = n /\ \A d \in Callers : d # c => call'[d] = call[d]
        BY <1>2 DEF IInv, Calls
    <2> QED
        BY <1>1, <1>4, <2>1 DEF CheckedInv, Manifest, Admits
<1>6. ~Admits(v, Message(c)) => u.key[1] = "direct" /\ u.checked = 1 /\ default = 2
    <2> SUFFICES ASSUME ~Admits(v, Message(c))
                 PROVE  call[c].key[1] = "direct" /\ call[c].checked = 1 /\ default = 2
        OBVIOUS
    <2>1. call[c].version = 0 /\ call[c].key[1] = "direct" /\ default = 2
        BY <1>1 DEF Manifest, Admits, Resolved
    <2>2. call[c].checked = 1
        BY <1>1 DEF Manifest, Admits, Begun, Message
    <2> QED
        BY <2>1, <2>2
<1>7. IF Admits(v, Message(c)) THEN unchecked' = unchecked ELSE unchecked' = unchecked \cup {u}
    <2> HIDE DEF u
    <2>1. unchecked' = IF Admits(v, Message(c)) THEN unchecked ELSE unchecked \cup {u}
        BY Zenon DEF Invoke, u
    <2> QED
        BY <2>1
<1> HIDE DEF u
<1>8. UncheckedOnlyWhenSwitched'
    BY <1>1, <1>6, <1>7 DEF CheckedInv, UncheckedOnlyWhenSwitched
<1> QED
    BY <1>5, <1>8 DEF CheckedInv

\* Every step keeps the manifests of the calls.
LEMMA NextChecked == IInv /\ CheckedInv /\ [Next]_vars => CheckedInv'
<1> SUFFICES ASSUME IInv, CheckedInv, [Next]_vars PROVE CheckedInv'
    OBVIOUS
<1>1. ASSUME NEW c \in Callers, Idle = call'[c], call' = [call EXCEPT ![c] = Idle],
             UNCHANGED <<default, unchecked>>
      PROVE  CheckedInv'
    BY <1>1, ManifestStep
<1>2. ASSUME NEW c \in Callers,
             \/ Timeout(c) \/ Unavailable(c) \/ Replay(c) \/ Commit(c) \/ CommitAborted(c) \/ CommitUnanswered(c)
             \/ Handle(c) /\ ~Admits(Resolved(call[c].version), Message(c))
      PROVE  CheckedInv'
    <2>1. call' = [call EXCEPT ![c] = Idle] /\ UNCHANGED <<default, unchecked>>
        BY <1>2 DEF Timeout, Unavailable, Replay, Commit, CommitAborted, CommitUnanswered, Handle, Answer
    <2>2. call'[c] = Idle
        BY <2>1 DEF IInv, Calls
    <2> QED
        BY <1>1, <2>1, <2>2
<1>3. ASSUME NEW c \in Callers, Claim(c) \/ Dispatch(c) \/ StoreResponse(c) \/ Leave(c) \/ Cancel(c)
      PROVE  CheckedInv'
    <2>1. /\ call' = [call EXCEPT ![c] = call'[c]] /\ UNCHANGED <<default, unchecked>>
          /\ call'[c].key = call[c].key /\ call'[c].version = call[c].version
          /\ call'[c].checked = call[c].checked
          /\ call[c].pc # "idle" /\ (call'[c].pc \in Begun => call[c].pc \in Begun)
        <3>1. call \in [Callers -> CallSet]
            BY DEF IInv, Calls
        <3>2. CASE Claim(c)
            BY <3>1, <3>2 DEF Claim, Go, At, Begun, CallSet
        <3>3. CASE Dispatch(c)
            BY <3>1, <3>3 DEF Dispatch, Go, At, Begun, CallSet
        <3>4. CASE StoreResponse(c)
            BY <3>1, <3>4 DEF StoreResponse, Go, At, Begun, CallSet
        <3>5. CASE Leave(c) \/ Cancel(c)
            BY <3>1, <3>5 DEF Leave, Cancel, Begun, CallSet
        <3> QED
            BY <1>3, <3>2, <3>3, <3>4, <3>5
    <2> QED
        BY <2>1, ManifestStep
<1>4. CASE Crash
    BY <1>4 DEF Crash, CheckedInv, Manifest, Idle, Begun, UncheckedOnlyWhenSwitched
<1>5. CASE Activate
    <2>1. UNCHANGED <<call, unchecked>> /\ default = 1 /\ default' = 2
        BY <1>5 DEF Activate
    <2> QED
        BY <2>1 DEF CheckedInv, Manifest, Admits, UncheckedOnlyWhenSwitched
<1>6. CASE UNCHANGED vars
    BY <1>6 DEF vars, CheckedInv, Manifest, Admits, UncheckedOnlyWhenSwitched
<1> QED
    BY <1>2, <1>3, <1>4, <1>5, <1>6, ManifestPosts, ManifestInvoke DEF Next, Serve

\* A payload that the schema of its version refuses runs only across a switch of the default
\* (UncheckedOnlyWhenSwitched).
THEOREM OnlyWhenSwitched == Spec => []UncheckedOnlyWhenSwitched
<1>1. Init => CheckedInv
    BY DEF Init, CheckedInv, Manifest, Idle, Begun, UncheckedOnlyWhenSwitched
<1>2. CheckedInv => UncheckedOnlyWhenSwitched
    BY DEF CheckedInv
<1> QED
    BY <1>1, <1>2, NextChecked, InvocationInvariance, PTL DEF Spec

=============================================================================
