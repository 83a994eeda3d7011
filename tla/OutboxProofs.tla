----------------------------- MODULE OutboxProofs -----------------------------
(***************************************************************************)
(* Proofs about Outbox for every value of its constants.                   *)
(*                                                                         *)
(* The fence is the heart of the invariant: a claim that is delivering     *)
(* still holds its lease, because nobody else may write the locked row;    *)
(* a claim's version is never above the row's, so a new lease is new.      *)
(***************************************************************************)
EXTENDS Outbox, TLAPS

\* Where a row can still be claimed there is a version left for its lease.
VersionLeft ==
    \A r \in Requests :
        /\ outbox[r].state \in {"NONE", "PENDING"} => outbox[r].version = 0
        /\ outbox[r].state = "RETRY_WAIT" => outbox[r].version < MaxAttempts
        /\ outbox[r].state = "LEASED" /\ outbox[r].due => outbox[r].version < MaxLease

\* What a claim knows: its version is not above the row's, an ok answer came
\* from a provider that accepted, a delivering claim holds the lease, alone.
ClaimFacts ==
    \A c \in claims :
        /\ c.version <= outbox[c.req].version
        /\ c.answer = "ok" => c.req \in accepted
        /\ c.phase = "delivering" => c.answer = "ok" /\ HoldsLease(c)

\* An open transaction owns its message id and has found its request.
OpenFresh ==
    /\ \A t \in open : /\ request[t.receipt.req] # "NONE"
                       /\ \A y \in inbox : y.msg # t.receipt.msg
    /\ \A t, u \in open : t.receipt.msg = u.receipt.msg => t = u

IInv ==
    /\ TypeOK /\ DeliveryAgrees /\ OneReceiptPerMessage /\ SentMeansAccepted
    /\ LeaseExclusive /\ VersionLeft /\ ClaimFacts /\ OpenFresh

-----------------------------------------------------------------------------

\* The empty tables satisfy the invariant.
LEMMA InitIInv == Init => IInv
<1> SUFFICES ASSUME Init PROVE IInv
    OBVIOUS
<1>1. TypeOK
    BY OutboxTypes DEF Init, TypeOK, OutboxRow, OutboxStates, RequestStates
<1>2. DeliveryAgrees /\ VersionLeft
    BY DEF Init, DeliveryAgrees, VersionLeft
<1>3. OneReceiptPerMessage /\ SentMeansAccepted /\ LeaseExclusive /\ ClaimFacts /\ OpenFresh
    BY DEF Init, OneReceiptPerMessage, SentMeansAccepted, LeaseExclusive, ClaimFacts, OpenFresh
<1> QED
    BY <1>1, <1>2, <1>3 DEF IInv

\* A new request has no claims: they would be of a version that is not there yet.
LEMMA NoClaimYet ==
    ASSUME IInv, NEW r \in Requests, request[r] = "NONE"
    PROVE  \A c \in claims : c.req # r
<1>1. outbox[r].version = 0
    BY DEF IInv, DeliveryAgrees, VersionLeft
<1> QED
    BY <1>1 DEF IInv, TypeOK, Claim, ClaimFacts

\* prepare_external_v1 keeps the invariant.
LEMMA PrepareStep ==
    ASSUME IInv, NEW r \in Requests, Prepare(r)
    PROVE  IInv'
<1> USE DEF Prepare
<1>0. \A c \in claims : c.req # r
    BY NoClaimYet
<1>1. TypeOK'
    BY OutboxTypes DEF IInv, TypeOK, OutboxRow, OutboxStates, RequestStates, Provider
<1>2. DeliveryAgrees' /\ VersionLeft'
    BY DEF IInv, TypeOK, DeliveryAgrees, VersionLeft, OutboxRow
<1>3. OneReceiptPerMessage' /\ SentMeansAccepted' /\ LeaseExclusive' /\ OpenFresh'
    BY DEF IInv, TypeOK, OneReceiptPerMessage, SentMeansAccepted, LeaseExclusive, OpenFresh, Provider
<1>4. ClaimFacts'
    <2> SUFFICES ASSUME NEW c \in claims
                 PROVE  /\ c.version <= outbox'[c.req].version
                        /\ c.answer = "ok" => c.req \in accepted
                        /\ c.phase = "delivering" => c.answer = "ok" /\ HoldsLease(c)'
        BY DEF ClaimFacts, Provider
    <2>1. c.req \in Requests /\ outbox'[c.req] = outbox[c.req]
        BY <1>0 DEF IInv, TypeOK, Claim
    <2> QED
        BY <2>1 DEF IInv, ClaimFacts, HoldsLease
<1> QED
    BY <1>1, <1>2, <1>3, <1>4 DEF IInv

\* A deadline that passes changes no right: the lease stays with its holder.
LEMMA TimePassesStep ==
    ASSUME IInv, NEW r \in Requests, TimePasses(r)
    PROVE  IInv'
<1> USE DEF TimePasses
<1>0. \A q \in Requests : /\ outbox'[q].state = outbox[q].state
                          /\ outbox'[q].owner = outbox[q].owner
                          /\ outbox'[q].version = outbox[q].version
    BY DEF IInv, TypeOK, OutboxRow
<1>1. TypeOK'
    BY DEF IInv, TypeOK, OutboxRow, Provider
<1>2. DeliveryAgrees'
    BY <1>0 DEF IInv, TypeOK, DeliveryAgrees
<1>3. VersionLeft'
    BY OutboxTypes, <1>0 DEF IInv, TypeOK, VersionLeft, OutboxRow
<1>4. OneReceiptPerMessage' /\ SentMeansAccepted' /\ LeaseExclusive' /\ OpenFresh'
    BY DEF IInv, OneReceiptPerMessage, SentMeansAccepted, LeaseExclusive, OpenFresh, Provider
<1>5. ClaimFacts'
    BY <1>0 DEF IInv, TypeOK, Claim, ClaimFacts, HoldsLease, Provider
<1> QED
    BY <1>1, <1>2, <1>3, <1>4, <1>5 DEF IInv

\* A claim moves from c to d, or is dropped, and no table is written.
LEMMA ClaimMoved ==
    ASSUME IInv, UNCHANGED <<Tables, open, callbacks>>,
           posted \subseteq posted', posted' \subseteq Requests, accepted' = accepted,
           NEW c \in claims, NEW d \in Claim, Become(c, d),
           d.req = c.req, d.version = c.version, d.by = c.by,
           d.answer = "ok" => c.req \in accepted,
           d.phase = "delivering" => d.answer = "ok" /\ HoldsLease(c)
    PROVE  IInv'
<1>1. TypeOK'
    BY DEF IInv, TypeOK, Become, Tables
<1>2. DeliveryAgrees' /\ OneReceiptPerMessage' /\ SentMeansAccepted' /\ VersionLeft' /\ OpenFresh'
    BY DEF IInv, DeliveryAgrees, OneReceiptPerMessage, SentMeansAccepted, VersionLeft,
           OpenFresh, Tables
<1>3. LeaseExclusive'
    BY DEF IInv, LeaseExclusive, Become
<1>4. ClaimFacts'
    BY DEF IInv, ClaimFacts, Become, HoldsLease, Tables
<1> QED
    BY <1>1, <1>2, <1>3, <1>4 DEF IInv

\* Claims are given up and no table is written.
LEMMA ClaimsDropped ==
    ASSUME IInv, UNCHANGED <<Tables, open, Provider>>, claims' \subseteq claims
    PROVE  IInv'
<1>1. TypeOK'
    BY DEF IInv, TypeOK, Tables, Provider
<1>2. DeliveryAgrees' /\ OneReceiptPerMessage' /\ SentMeansAccepted' /\ VersionLeft' /\ OpenFresh'
    BY DEF IInv, DeliveryAgrees, OneReceiptPerMessage, SentMeansAccepted, VersionLeft,
           OpenFresh, Tables, Provider
<1>3. LeaseExclusive'
    BY DEF IInv, LeaseExclusive
<1>4. ClaimFacts'
    BY DEF IInv, ClaimFacts, HoldsLease, Tables, Provider
<1> QED
    BY <1>1, <1>2, <1>3, <1>4 DEF IInv

\* What a dispatcher does between its transactions, and the first half of
\* succeed_outbox, keep the invariant.
LEMMA DispatcherQuietStep ==
    ASSUME IInv, NEW c \in claims,
           Post(c) \/ (\E a \in Answers : Answer(c, a)) \/ DbError(c) \/ SucceedOutbox(c)
    PROVE  IInv'
<1>0. c \in Claim
    BY DEF IInv, TypeOK
<1>1. CASE Post(c)
    <2> DEFINE d == [c EXCEPT !.phase = "sending"]
    <2>1. d \in Claim /\ d.req = c.req /\ d.version = c.version /\ d.by = c.by
          /\ d.answer = c.answer /\ d.phase = "sending"
        BY <1>0 DEF Claim
    <2>2. posted \subseteq posted' /\ posted' \subseteq Requests
        BY <1>1, <1>0 DEF Post, IInv, TypeOK, Claim
    <2>3. c.answer = "ok" => c.req \in accepted
        BY DEF IInv, ClaimFacts
    <2> HIDE DEF d
    <2>4. Become(c, d) /\ UNCHANGED <<Tables, open, callbacks>> /\ accepted' = accepted
        BY <1>1 DEF Post, d
    <2> QED
        BY <2>1, <2>2, <2>3, <2>4, ClaimMoved
<1>2. ASSUME NEW a \in Answers, Answer(c, a)
      PROVE  IInv'
    <2> DEFINE d == [c EXCEPT !.phase = "answered", !.answer = a]
    <2>1. d \in Claim /\ d.req = c.req /\ d.version = c.version /\ d.by = c.by
          /\ d.answer = a /\ d.phase = "answered"
        BY <1>0 DEF Claim
    <2>2. posted \subseteq posted' /\ posted' \subseteq Requests
        BY <1>2 DEF Answer, IInv, TypeOK, Provider
    <2> HIDE DEF d
    <2>3. Become(c, d) /\ UNCHANGED <<Tables, open, callbacks>> /\ accepted' = accepted
          /\ (a = "ok" => c.req \in accepted)
        BY <1>2 DEF Answer, Provider, d
    <2> QED
        BY <2>1, <2>2, <2>3, ClaimMoved
<1>3. CASE DbError(c)
    BY <1>3, ClaimsDropped DEF DbError, Drop
<1>4. CASE SucceedOutbox(c) /\ HoldsLease(c)
    <2> DEFINE d == [c EXCEPT !.phase = "delivering"]
    <2>1. d \in Claim /\ d.req = c.req /\ d.version = c.version /\ d.by = c.by
          /\ d.answer = c.answer
        BY <1>0 DEF Claim
    <2>2. posted \subseteq posted' /\ posted' \subseteq Requests
        BY <1>4 DEF SucceedOutbox, IInv, TypeOK, Provider
    <2>3. c.answer = "ok" /\ c.req \in accepted
        BY <1>4 DEF SucceedOutbox, IInv, ClaimFacts
    <2> HIDE DEF d
    <2>4. Become(c, d) /\ UNCHANGED <<Tables, open, callbacks>> /\ accepted' = accepted
        BY <1>4 DEF SucceedOutbox, Provider, d
    <2> QED
        BY <1>4, <2>1, <2>2, <2>3, <2>4, ClaimMoved
<1>5. CASE SucceedOutbox(c) /\ ~HoldsLease(c)
    BY <1>5, ClaimsDropped DEF SucceedOutbox, Drop
<1> QED
    BY <1>1, <1>2, <1>3, <1>4, <1>5

\* The row of a delivering claim is leased to it, and to no other claim.
LEMMA DeliveringAlone ==
    ASSUME IInv, NEW c \in claims, c.phase = "delivering"
    PROVE  /\ c.req \in Requests /\ outbox[c.req].state = "LEASED"
           /\ request[c.req] = "CREATED" /\ c.req \in accepted
           /\ \A d \in claims : d.req = c.req /\ d.phase = "delivering" => d = c
<1>1. c.req \in Requests /\ outbox[c.req].state = "LEASED" /\ c.req \in accepted
    BY DEF IInv, TypeOK, Claim, ClaimFacts, HoldsLease
<1>2. request[c.req] = "CREATED"
    BY <1>1 DEF IInv, DeliveryAgrees
<1>3. \A d \in claims : d.req = c.req /\ d.phase = "delivering" => d.version = c.version
    BY DEF IInv, ClaimFacts, HoldsLease
<1> QED
    BY <1>1, <1>2, <1>3 DEF IInv, LeaseExclusive

\* The commit of succeed_outbox keeps the invariant.
LEMMA SucceedCommitStep ==
    ASSUME IInv, NEW c \in claims, SucceedCommit(c)
    PROVE  IInv'
<1> DEFINE r == c.req
<1>0. /\ r \in Requests /\ outbox[r].state = "LEASED" /\ request[r] = "CREATED"
      /\ r \in accepted
      /\ \A d \in claims : d.req = r /\ d.phase = "delivering" => d = c
    BY DeliveringAlone DEF SucceedCommit
<1> HIDE DEF r
<1>1. /\ outbox' = [outbox EXCEPT ![r] =
                    [@ EXCEPT !.state = "DELIVERED", !.owner = None, !.due = FALSE]]
      /\ request' = [request EXCEPT ![r] = "SENT"]
      /\ claims' = claims \ {c}
      /\ UNCHANGED <<inbox, open, posted, accepted, callbacks>>
    BY <1>0 DEF SucceedCommit, Drop, Provider, r
<1>2. TypeOK'
    BY <1>0, <1>1 DEF IInv, TypeOK, OutboxRow, OutboxStates, RequestStates
<1>3. /\ outbox'[r].state = "DELIVERED" /\ outbox'[r].version = outbox[r].version
      /\ \A q \in Requests \ {r} : outbox'[q] = outbox[q] /\ request'[q] = request[q]
      /\ request'[r] = "SENT"
    BY <1>0, <1>1 DEF IInv, TypeOK, OutboxRow
<1>4. DeliveryAgrees'
    BY <1>0, <1>1, <1>3 DEF IInv, DeliveryAgrees
<1>5. VersionLeft' /\ SentMeansAccepted'
    BY <1>0, <1>1, <1>3 DEF IInv, VersionLeft, SentMeansAccepted
<1>6. OneReceiptPerMessage' /\ LeaseExclusive' /\ OpenFresh'
    BY <1>1 DEF IInv, OneReceiptPerMessage, LeaseExclusive, OpenFresh
<1>7. ClaimFacts'
    <2> SUFFICES ASSUME NEW d \in claims', d \in claims
                 PROVE  /\ d.version <= outbox'[d.req].version
                        /\ d.answer = "ok" => d.req \in accepted
                        /\ d.phase = "delivering" => d.answer = "ok" /\ HoldsLease(d)'
        BY <1>1 DEF ClaimFacts
    <2>1. d.req \in Requests /\ d # c
        BY <1>1 DEF IInv, TypeOK, Claim
    <2>2. d.version <= outbox'[d.req].version /\ (d.answer = "ok" => d.req \in accepted)
        BY <2>1, <1>3 DEF IInv, ClaimFacts
    <2>3. ASSUME d.phase = "delivering" PROVE d.answer = "ok" /\ HoldsLease(d)'
        <3>1. d.req # r
            BY <2>1, <2>3, <1>0
        <3> QED
            BY <2>1, <2>3, <3>1, <1>3 DEF IInv, ClaimFacts, HoldsLease
    <2> QED
        BY <2>2, <2>3
<1> QED
    BY <1>2, <1>4, <1>5, <1>6, <1>7 DEF IInv

\* fail_outbox keeps the invariant: a stale claim writes nothing, the holder
\* takes the row to RETRY_WAIT or DEAD while nobody delivers it.
LEMMA FailOutboxStep ==
    ASSUME IInv, NEW c \in claims, FailOutbox(c)
    PROVE  IInv'
<1>1. CASE ~HoldsLease(c)
    <2>1. UNCHANGED <<Tables, open, Provider>> /\ claims' \subseteq claims
        BY <1>1 DEF FailOutbox, Drop, Tables
    <2> QED
        BY <2>1, ClaimsDropped
<1>2. CASE HoldsLease(c)
    <2> DEFINE r == c.req
               s == FailState(c)
    <2>0. /\ r \in Requests /\ outbox[r].state = "LEASED" /\ request[r] = "CREATED"
          /\ \A d \in claims : d.req = r => d.phase # "delivering"
          /\ s \in {"RETRY_WAIT", "DEAD"}
          /\ s = "RETRY_WAIT" => outbox[r].version < MaxAttempts
        BY <1>2 DEF IInv, TypeOK, Claim, HoldsLease, DeliveryAgrees, FailOutbox, OutboxLocked,
                    FailState, BudgetLeft
    <2>1. /\ outbox' = [outbox EXCEPT ![r] = [@ EXCEPT !.state = s, !.owner = None, !.due = FALSE]]
          /\ claims' = claims \ {c}
          /\ UNCHANGED <<request, inbox, open, posted, accepted, callbacks>>
        BY <1>2 DEF FailOutbox, Drop, Provider
    <2> HIDE DEF r, s
    <2>2. TypeOK'
        BY <2>0, <2>1 DEF IInv, TypeOK, OutboxRow, OutboxStates
    <2>3. /\ outbox'[r].state = s /\ outbox'[r].version = outbox[r].version
          /\ \A q \in Requests \ {r} : outbox'[q] = outbox[q]
        BY <2>0, <2>1 DEF IInv, TypeOK, OutboxRow
    <2>4. DeliveryAgrees'
        BY <2>0, <2>1, <2>3 DEF IInv, DeliveryAgrees
    <2>5. VersionLeft'
        BY <2>0, <2>3 DEF IInv, VersionLeft
    <2>6. OneReceiptPerMessage' /\ SentMeansAccepted' /\ LeaseExclusive' /\ OpenFresh'
        BY <2>1 DEF IInv, OneReceiptPerMessage, SentMeansAccepted, LeaseExclusive, OpenFresh
    <2>7. ClaimFacts'
        <3> SUFFICES ASSUME NEW d \in claims
                     PROVE  /\ d.version <= outbox'[d.req].version
                            /\ d.answer = "ok" => d.req \in accepted
                            /\ d.phase = "delivering" => d.answer = "ok" /\ HoldsLease(d)'
            BY <2>1 DEF ClaimFacts
        <3>1. d.req \in Requests
            BY DEF IInv, TypeOK, Claim
        <3> QED
            BY <3>1, <2>0, <2>3 DEF IInv, ClaimFacts, HoldsLease
    <2> QED
        BY <2>2, <2>4, <2>5, <2>6, <2>7 DEF IInv
<1> QED
    BY <1>1, <1>2

\* claim_outbox keeps the invariant: a new lease has a version no claim has.
LEMMA ClaimOutboxStep ==
    ASSUME IInv, NEW d \in Dispatchers, ClaimOutbox(d)
    PROVE  IInv'
<1>1. PICK S \in SUBSET Claimable :
        /\ outbox' = [r \in Requests |->
                IF r \in S THEN [state |-> "LEASED", owner |-> OwnerOf[d],
                                 version |-> NextLease(r), due |-> FALSE]
                ELSE outbox[r]]
        /\ claims' = claims \cup
                {[by |-> d, req |-> r, version |-> NextLease(r), phase |-> "queued",
                  answer |-> None] : r \in S}
    BY DEF ClaimOutbox
<1>2. UNCHANGED <<request, inbox, open, posted, accepted, callbacks>>
    BY DEF ClaimOutbox, Provider
<1>3. \A r \in S : /\ r \in Requests
                   /\ outbox[r].state \in {"PENDING", "RETRY_WAIT", "LEASED"} /\ outbox[r].due
                   /\ \A c \in claims : c.req = r => c.phase # "delivering"
    BY DEF Claimable, OutboxLocked
<1>4. \A r \in S : NextLease(r) = outbox[r].version + 1 /\ NextLease(r) \in 1..MaxLease
    <2> SUFFICES ASSUME NEW r \in S PROVE outbox[r].version \in Nat /\ outbox[r].version < MaxLease
        BY OutboxTypes DEF NextLease
    <2>1. r \in Requests /\ outbox[r].version \in 0..MaxLease
        BY <1>3 DEF IInv, TypeOK, OutboxRow
    <2> QED
        BY <2>1, <1>3, OutboxTypes DEF IInv, VersionLeft
<1>5. \A r \in Requests :
        /\ r \in S => /\ outbox'[r].state = "LEASED" /\ ~outbox'[r].due
                      /\ outbox'[r].version = outbox[r].version + 1
        /\ r \notin S => outbox'[r] = outbox[r]
    BY <1>1, <1>3, <1>4
<1>6. TypeOK'
    <2>1. outbox' \in [Requests -> OutboxRow]
        <3> SUFFICES ASSUME NEW r \in Requests PROVE outbox'[r] \in OutboxRow
            BY <1>1
        <3>1. CASE r \in S
            BY <3>1, <1>1, <1>4, OutboxTypes DEF OutboxRow, OutboxStates
        <3>2. CASE r \notin S
            BY <3>2, <1>5 DEF IInv, TypeOK
        <3> QED
            BY <3>1, <3>2
    <2>2. claims' \subseteq Claim
        BY <1>1, <1>3, <1>4 DEF IInv, TypeOK, Claim
    <2> QED
        BY <1>2, <2>1, <2>2 DEF IInv, TypeOK
<1>7. DeliveryAgrees' /\ VersionLeft'
    BY <1>2, <1>3, <1>5 DEF IInv, DeliveryAgrees, VersionLeft
<1>8. OneReceiptPerMessage' /\ SentMeansAccepted' /\ OpenFresh'
    BY <1>2 DEF IInv, OneReceiptPerMessage, SentMeansAccepted, OpenFresh
<1>9. \A c \in claims : /\ c.req \in Requests /\ c.version \in Nat
                        /\ outbox[c.req].version \in Nat
                        /\ c.version <= outbox[c.req].version
    BY OutboxTypes DEF IInv, TypeOK, Claim, OutboxRow, ClaimFacts
<1>10. LeaseExclusive'
    <2> SUFFICES ASSUME NEW c \in claims', NEW e \in claims',
                        c.req = e.req, c.version = e.version
                 PROVE  c = e
        BY DEF LeaseExclusive
    <2>1. \A x \in claims' : x \in claims \/
            (x.req \in S /\ x = [by |-> d, req |-> x.req, version |-> NextLease(x.req),
                                 phase |-> "queued", answer |-> None])
        BY <1>1
    <2>2. CASE c \in claims /\ e \in claims
        BY <2>2 DEF IInv, LeaseExclusive
    <2>3. CASE c \notin claims /\ e \notin claims
        BY <2>1, <2>3
    <2>4. \A x \in claims, y \in claims' \ claims : x.req = y.req => x.version # y.version
        BY <2>1, <1>4, <1>9
    <2> QED
        BY <2>2, <2>3, <2>4
<1>11. ClaimFacts'
    <2> SUFFICES ASSUME NEW c \in claims'
                 PROVE  /\ c.version <= outbox'[c.req].version
                        /\ c.answer = "ok" => c.req \in accepted
                        /\ c.phase = "delivering" => c.answer = "ok" /\ HoldsLease(c)'
        BY <1>2 DEF ClaimFacts
    <2>1. CASE c \in claims
        <3>1. c.version <= outbox'[c.req].version
            BY <2>1, <1>5, <1>9
        <3>2. c.phase = "delivering" => outbox'[c.req] = outbox[c.req]
            BY <2>1, <1>3, <1>5, <1>9
        <3> QED
            BY <2>1, <3>1, <3>2 DEF IInv, ClaimFacts, HoldsLease
    <2>2. CASE c \notin claims
        <3>1. PICK r \in S : c = [by |-> d, req |-> r, version |-> NextLease(r),
                                  phase |-> "queued", answer |-> None]
            BY <2>2, <1>1
        <3> QED
            BY <3>1, <1>3, <1>4, <1>5, OutboxTypes
    <2> QED
        BY <2>1, <2>2
<1> QED
    BY <1>6, <1>7, <1>8, <1>10, <1>11 DEF IInv

\* The provider, the adapter and the open receipt transactions write no table
\* before the commit, and a message id is opened once.
LEMMA OutsideStep ==
    ASSUME IInv, UNCHANGED <<Tables, claims>>,
           accepted \subseteq accepted', accepted' \subseteq posted', posted' \subseteq Requests,
           callbacks' \subseteq Receipt, open' \subseteq Open, OpenFresh'
    PROVE  IInv'
<1>1. TypeOK'
    BY DEF IInv, TypeOK, Tables
<1>2. DeliveryAgrees' /\ OneReceiptPerMessage' /\ SentMeansAccepted' /\ VersionLeft'
      /\ LeaseExclusive'
    BY DEF IInv, DeliveryAgrees, OneReceiptPerMessage, SentMeansAccepted, VersionLeft,
           LeaseExclusive, Tables
<1>3. ClaimFacts'
    BY DEF IInv, ClaimFacts, HoldsLease, Tables
<1> QED
    BY <1>1, <1>2, <1>3 DEF IInv

\* Every step of the provider and of receipt_accept_v1 short of its commit keeps
\* the invariant.
LEMMA OutsideSteps ==
    ASSUME IInv,
           \/ \E r \in Requests : ProviderAccepts(r)
           \/ \E x \in Receipt : Callback(x) \/ ReceiptInsert(x) \/ ReceiptKnown(x)
           \/ \E t \in open : ReceiptConfirm(t) \/ ReceiptAbort(t)
    PROVE  IInv'
<1>0. TypeOK /\ OpenFresh
    BY DEF IInv
<1>1. ASSUME NEW r \in Requests, ProviderAccepts(r) PROVE IInv'
    <2>1. UNCHANGED <<Tables, claims, open, posted, callbacks>> /\ OpenFresh'
          /\ accepted \subseteq accepted' /\ accepted' \subseteq posted'
        BY <1>0, <1>1 DEF ProviderAccepts, TypeOK, OpenFresh, Tables
    <2> QED
        BY <1>0, <2>1, OutsideStep DEF TypeOK
<1>2. ASSUME NEW x \in Receipt, Callback(x) \/ ReceiptKnown(x) PROVE IInv'
    <2>1. UNCHANGED <<Tables, claims, open, posted, accepted>> /\ OpenFresh'
          /\ callbacks' \subseteq Receipt
        BY <1>0, <1>2 DEF Callback, ReceiptKnown, TypeOK, OpenFresh, Tables
    <2> QED
        BY <1>0, <2>1, OutsideStep DEF TypeOK
<1>3. ASSUME NEW x \in Receipt, ReceiptInsert(x) PROVE IInv'
    <2>1. UNCHANGED <<Tables, claims, posted, accepted, callbacks>>
        BY <1>3 DEF ReceiptInsert, Provider
    <2>2. open' \subseteq Open
        BY <1>0, <1>3 DEF ReceiptInsert, TypeOK, Open
    <2>3. OpenFresh'
        BY <1>0, <1>3 DEF ReceiptInsert, OpenFresh, SameMsg, Tables
    <2> QED
        BY <1>0, <2>1, <2>2, <2>3, OutsideStep DEF TypeOK
<1>4. ASSUME NEW t \in open, ReceiptConfirm(t) PROVE IInv'
    <2>1. UNCHANGED <<Tables, claims, posted, accepted, callbacks>>
        BY <1>4 DEF ReceiptConfirm, Provider
    <2> DEFINE u == [t EXCEPT !.phase = "confirming"]
    <2>2. u \in Open /\ u.receipt = t.receipt
        BY <1>0 DEF TypeOK, Open
    <2>3. open' = (open \ {t}) \cup {u}
        BY <1>4 DEF ReceiptConfirm
    <2> HIDE DEF u
    <2>4. open' \subseteq Open
        BY <1>0, <2>2, <2>3 DEF TypeOK
    <2>5. OpenFresh'
        BY <1>0, <2>1, <2>2, <2>3 DEF OpenFresh, Tables
    <2> QED
        BY <1>0, <2>1, <2>4, <2>5, OutsideStep DEF TypeOK
<1>5. ASSUME NEW t \in open, ReceiptAbort(t) PROVE IInv'
    <2>1. UNCHANGED <<Tables, claims, posted, accepted, callbacks>> /\ open' \subseteq open
        BY <1>5 DEF ReceiptAbort, Provider
    <2>2. OpenFresh'
        BY <1>0, <2>1 DEF OpenFresh, Tables
    <2> QED
        BY <1>0, <2>1, <2>2, OutsideStep DEF TypeOK
<1> QED
    BY <1>1, <1>2, <1>3, <1>4, <1>5

\* The commit of receipt_accept_v1 keeps the invariant: it confirms the request
\* in both tables while nobody delivers it, and its message id is new.
LEMMA ReceiptCommitStep ==
    ASSUME IInv, NEW t \in open, ReceiptCommit(t)
    PROVE  IInv'
<1> DEFINE x == t.receipt
           r == t.receipt.req
<1>0. x \in Receipt /\ r \in Requests /\ x.req = r
    BY DEF IInv, TypeOK, Open, Receipt
<1>1. /\ \A c \in claims : c.req = r => c.phase # "delivering"
      /\ inbox' = inbox \cup {x}
      /\ request' = [request EXCEPT ![r] = "CONFIRMED"]
      /\ outbox' = [outbox EXCEPT ![r] =
                    [outbox[r] EXCEPT !.state = "CONFIRMED", !.owner = None, !.due = FALSE]]
      /\ open' = open \ {t}
      /\ callbacks' \subseteq callbacks
      /\ UNCHANGED <<claims, posted, accepted>>
    BY DEF ReceiptCommit, OutboxLocked, ConfirmedRow
<1>2. /\ \A y \in inbox : y.msg # x.msg
      /\ \A u \in open \ {t} : u.receipt.msg # x.msg
    BY DEF IInv, OpenFresh
<1> HIDE DEF x, r
<1>3. /\ outbox'[r].state = "CONFIRMED" /\ outbox'[r].version = outbox[r].version
      /\ request'[r] = "CONFIRMED"
      /\ \A q \in Requests \ {r} : outbox'[q] = outbox[q] /\ request'[q] = request[q]
    BY <1>0, <1>1 DEF IInv, TypeOK, OutboxRow
<1>4. TypeOK'
    <2> DEFINE row == [outbox[r] EXCEPT !.state = "CONFIRMED", !.owner = None, !.due = FALSE]
    <2>1. outbox \in [Requests -> OutboxRow] /\ request \in [Requests -> RequestStates]
        BY DEF IInv, TypeOK
    <2>2. outbox[r] \in OutboxRow
        BY <1>0, <2>1
    <2>3. row \in OutboxRow
        BY <2>2 DEF OutboxRow, OutboxStates
    <2>4. outbox' = [outbox EXCEPT ![r] = row]
        BY <1>1
    <2> HIDE DEF row
    <2>5. outbox' \in [Requests -> OutboxRow]
        BY <2>1, <2>3, <2>4
    <2>6. request' \in [Requests -> RequestStates]
        BY <1>1, <2>1 DEF RequestStates
    <2>7. /\ inbox' \subseteq Receipt /\ open' \subseteq Open /\ callbacks' \subseteq Receipt
          /\ claims' \subseteq Claim /\ posted' \subseteq Requests /\ accepted' \subseteq posted'
        BY <1>0, <1>1 DEF IInv, TypeOK
    <2> QED
        BY <2>5, <2>6, <2>7 DEF TypeOK
<1>5. DeliveryAgrees'
    <2> SUFFICES ASSUME NEW q \in Requests
                 PROVE  /\ request'[q] = "NONE" <=> outbox'[q].state = "NONE"
                        /\ request'[q] = "CREATED" <=>
                              outbox'[q].state \in {"PENDING", "LEASED", "RETRY_WAIT", "DEAD"}
                        /\ request'[q] = "SENT" <=> outbox'[q].state = "DELIVERED"
                        /\ request'[q] = "CONFIRMED" <=> outbox'[q].state = "CONFIRMED"
                        /\ request'[q] = "CONFIRMED" <=> \E y \in inbox' : y.req = q
        BY DEF DeliveryAgrees
    <2>1. CASE q = r
        BY <2>1, <1>0, <1>1, <1>3
    <2>2. CASE q # r
        BY <2>2, <1>0, <1>1, <1>3 DEF IInv, DeliveryAgrees
    <2> QED
        BY <2>1, <2>2
<1>6. VersionLeft' /\ SentMeansAccepted'
    BY <1>0, <1>1, <1>3 DEF IInv, VersionLeft, SentMeansAccepted
<1>7. OneReceiptPerMessage' /\ OpenFresh' /\ LeaseExclusive'
    BY <1>1, <1>2 DEF IInv, OneReceiptPerMessage, OpenFresh, LeaseExclusive
<1>8. ClaimFacts'
    <2> SUFFICES ASSUME NEW c \in claims
                 PROVE  /\ c.version <= outbox'[c.req].version
                        /\ c.answer = "ok" => c.req \in accepted
                        /\ c.phase = "delivering" => c.answer = "ok" /\ HoldsLease(c)'
        BY <1>1 DEF ClaimFacts
    <2>1. c.req \in Requests
        BY DEF IInv, TypeOK, Claim
    <2> QED
        BY <2>1, <1>1, <1>3 DEF IInv, ClaimFacts, HoldsLease
<1> QED
    BY <1>4, <1>5, <1>6, <1>7, <1>8 DEF IInv

\* Every step keeps the invariant.
LEMMA NextIInv == IInv /\ [Next]_vars => IInv'
<1> SUFFICES ASSUME IInv, [Next]_vars PROVE IInv'
    OBVIOUS
<1>1. ASSUME NEW d \in Dispatchers, Crash(d) PROVE IInv'
    BY <1>1, ClaimsDropped DEF Crash
<1>2. ASSUME NEW c \in claims, DispatcherStep(c) PROVE IInv'
    BY <1>2, DispatcherQuietStep, SucceedCommitStep, FailOutboxStep DEF DispatcherStep
<1>3. CASE UNCHANGED vars
    <2>1. UNCHANGED <<Tables, open, Provider>> /\ claims' \subseteq claims
        BY <1>3 DEF vars, Tables, Provider
    <2> QED
        BY <2>1, ClaimsDropped
<1> QED
    BY <1>1, <1>2, <1>3, PrepareStep, TimePassesStep, ClaimOutboxStep, OutsideSteps,
       ReceiptCommitStep DEF Next

-----------------------------------------------------------------------------

\* The invariant holds in every reachable state.
THEOREM OutboxInvariance == Spec => []IInv
<1> QED
    BY InitIInv, NextIInv, PTL DEF Spec

\* external_request and outbox tell the same story of every request, whatever
\* dispatchers, answers, crashes and callbacks interleave, and CONFIRMED means
\* that a receipt is stored.
THEOREM DeliveryAgreement == Spec => []DeliveryAgrees
<1>1. IInv => DeliveryAgrees
    BY DEF IInv
<1> QED
    BY <1>1, OutboxInvariance, PTL

\* receipt_accept_v1 accepts a message id once, whatever is repeated or races.
THEOREM MessageOnce == Spec => []OneReceiptPerMessage
<1>1. IInv => OneReceiptPerMessage
    BY DEF IInv
<1> QED
    BY <1>1, OutboxInvariance, PTL

\* external_request is SENT only when the provider has accepted the request: a late or
\* repeated answer never finishes another claim (SentMeansAccepted).
THEOREM SentIsAccepted == Spec => []SentMeansAccepted
<1>1. IInv => SentMeansAccepted
    BY DEF IInv
<1> QED
    BY <1>1, OutboxInvariance, PTL

\* Two dispatchers, restarted or not, never hold the same lease version of a request
\* (LeaseExclusive).
THEOREM DispatchLease == Spec => []LeaseExclusive
<1>1. IInv => LeaseExclusive
    BY DEF IInv
<1> QED
    BY <1>1, OutboxInvariance, PTL

-----------------------------------------------------------------------------
(* Outbox implements Delivery. *)

\* A step that keeps the phase of every request, and the receipts, is a stutter.
LEMMA SamePhase ==
    ASSUME \A r \in Requests : PhaseOf(outbox'[r].state) = PhaseOf(outbox[r].state),
           UNCHANGED inbox
    PROVE  UNCHANGED Abstract!vars
BY DEF Abstract!vars

\* A step that takes request r to phase p changes the abstract state there only.
LEMMA PhaseMoved ==
    ASSUME NEW r \in Requests, NEW p, PhaseOf(outbox'[r].state) = p,
           \A q \in Requests \ {r} : outbox'[q] = outbox[q]
    PROVE  [q \in Requests |-> PhaseOf(outbox[q].state)]'
             = [[q \in Requests |-> PhaseOf(outbox[q].state)] EXCEPT ![r] = p]
OBVIOUS

\* Every step of Outbox is a step of Delivery or a stutter.
LEMMA StepSimulates == IInv /\ [Next]_vars => [Abstract!Next]_(Abstract!vars)
<1> SUFFICES ASSUME IInv, [Next]_vars PROVE Abstract!Next \/ UNCHANGED Abstract!vars
    OBVIOUS
<1>1. ASSUME NEW r \in Requests, Prepare(r) PROVE Abstract!Request(r)
    <2>1. /\ PhaseOf(outbox[r].state) = "none" /\ PhaseOf(outbox'[r].state) = "requested"
          /\ \A q \in Requests \ {r} : outbox'[q] = outbox[q]
          /\ inbox' = inbox
        BY <1>1 DEF Prepare, IInv, TypeOK, DeliveryAgrees, PhaseOf
    <2> QED
        BY <2>1, PhaseMoved DEF Abstract!Request
<1>2. ASSUME NEW r \in Requests, TimePasses(r) PROVE UNCHANGED Abstract!vars
    <2>1. \A q \in Requests : outbox'[q].state = outbox[q].state
        BY <1>2 DEF TimePasses, IInv, TypeOK, OutboxRow
    <2> QED
        BY <1>2, <2>1, SamePhase DEF TimePasses
<1>3. ASSUME NEW d \in Dispatchers, ClaimOutbox(d) PROVE UNCHANGED Abstract!vars
    <2>1. \A r \in Requests :
            \/ outbox'[r] = outbox[r]
            \/ outbox[r].state \in {"PENDING", "RETRY_WAIT", "LEASED"} /\ outbox'[r].state = "LEASED"
        BY <1>3 DEF ClaimOutbox, Claimable
    <2>2. \A r \in Requests : PhaseOf(outbox'[r].state) = PhaseOf(outbox[r].state)
        BY <2>1 DEF PhaseOf
    <2> QED
        BY <1>3, <2>2, SamePhase DEF ClaimOutbox
<1>4. ASSUME NEW c \in claims, SucceedCommit(c) PROVE Abstract!Send(c.req)
    <2>1. c.req \in Requests /\ outbox[c.req].state = "LEASED"
        BY <1>4, DeliveringAlone DEF SucceedCommit
    <2>2. /\ PhaseOf(outbox[c.req].state) = "requested" /\ PhaseOf(outbox'[c.req].state) = "sent"
          /\ \A q \in Requests \ {c.req} : outbox'[q] = outbox[q]
          /\ inbox' = inbox
        BY <1>4, <2>1 DEF SucceedCommit, IInv, TypeOK, OutboxRow, PhaseOf
    <2> QED
        BY <2>1, <2>2, PhaseMoved DEF Abstract!Send
<1>5. ASSUME NEW c \in claims, FailOutbox(c) PROVE UNCHANGED Abstract!vars
    <2>1. c.req \in Requests
        BY DEF IInv, TypeOK, Claim
    <2>2. \A r \in Requests :
            \/ outbox'[r] = outbox[r]
            \/ outbox[r].state = "LEASED" /\ outbox'[r].state \in {"RETRY_WAIT", "DEAD"}
        BY <1>5, <2>1 DEF FailOutbox, HoldsLease, FailState, IInv, TypeOK, OutboxRow
    <2>3. \A r \in Requests : PhaseOf(outbox'[r].state) = PhaseOf(outbox[r].state)
        BY <2>2 DEF PhaseOf
    <2> QED
        BY <1>5, <2>3, SamePhase DEF FailOutbox
<1>6. ASSUME NEW t \in open, ReceiptCommit(t) PROVE \E x \in Receipt : Abstract!Confirm(x)
    <2> DEFINE x == t.receipt
    <2>1. x \in Receipt /\ x.req \in Requests
        BY DEF IInv, TypeOK, Open, Receipt
    <2>2. PhaseOf(outbox[x.req].state) # "none"
        <3>1. outbox[x.req].state # "NONE"
            BY <2>1 DEF IInv, OpenFresh, DeliveryAgrees
        <3> QED
            BY <3>1 DEF PhaseOf
    <2>3. \A y \in inbox : y.msg # x.msg
        BY DEF IInv, OpenFresh
    <2>4. /\ PhaseOf(outbox'[x.req].state) = "confirmed"
          /\ \A q \in Requests \ {x.req} : outbox'[q] = outbox[q]
          /\ inbox' = inbox \cup {x}
        BY <1>6, <2>1 DEF ReceiptCommit, ConfirmedRow, IInv, TypeOK, OutboxRow, PhaseOf
    <2> HIDE DEF x
    <2>5. Abstract!Confirm(x)
        BY <2>1, <2>2, <2>3, <2>4, PhaseMoved DEF Abstract!Confirm
    <2> QED
        BY <2>1, <2>5
<1>7. CASE UNCHANGED <<outbox, inbox>>
    BY <1>7, SamePhase
<1>8. \A c \in claims : Post(c) \/ (\E a \in Answers : Answer(c, a)) \/ SucceedOutbox(c)
                         \/ DbError(c) => UNCHANGED <<outbox, inbox>>
    BY DEF Post, Answer, SucceedOutbox, DbError, Tables
<1>9. /\ \A r \in Requests : ProviderAccepts(r) => UNCHANGED <<outbox, inbox>>
      /\ \A d \in Dispatchers : Crash(d) => UNCHANGED <<outbox, inbox>>
      /\ \A x \in Receipt : Callback(x) \/ ReceiptInsert(x) \/ ReceiptKnown(x) =>
            UNCHANGED <<outbox, inbox>>
      /\ \A t \in open : ReceiptConfirm(t) \/ ReceiptAbort(t) => UNCHANGED <<outbox, inbox>>
    BY DEF ProviderAccepts, Crash, Callback, ReceiptInsert, ReceiptKnown, ReceiptConfirm,
           ReceiptAbort, Tables
<1>10. UNCHANGED vars => UNCHANGED <<outbox, inbox>>
    BY DEF vars
<1>11. \A c \in claims : c.req \in Requests
    BY DEF IInv, TypeOK, Claim
<1>12. CASE Next
    <2>1. \/ \E r \in Requests : Prepare(r) \/ TimePasses(r)
          \/ \E d \in Dispatchers : ClaimOutbox(d)
          \/ \E c \in claims : SucceedCommit(c) \/ FailOutbox(c)
          \/ \E t \in open : ReceiptCommit(t)
          \/ UNCHANGED <<outbox, inbox>>
        BY <1>12, <1>8, <1>9 DEF Next, DispatcherStep
    <2> QED
        BY <2>1, <1>1, <1>2, <1>3, <1>4, <1>5, <1>6, <1>7, <1>11 DEF Abstract!Next
<1> QED
    BY <1>7, <1>10, <1>12

\* Outbox implements Delivery: no conditional finish, retry, crash or repeated
\* callback takes a request back, and the first receipt of a message stays.
THEOREM OutboxImplementsDelivery == Spec => NeverGoesBack
<1>1. Init => Abstract!Init
    BY DEF Init, Abstract!Init, PhaseOf
<1> QED
    BY <1>1, StepSimulates, OutboxInvariance, PTL DEF Spec, NeverGoesBack, Abstract!Spec
===============================================================================
