----------------------------- MODULE ProbeProofs -----------------------------
(***************************************************************************)
(* What the scenarios of the checkers show of a candidate, and what they   *)
(* leave behind, for every set of faults, every number of claims, attempts *)
(* and Docker failures.                                                    *)
(***************************************************************************)
EXTENDS RunProofs, FiniteSetTheorems

-----------------------------------------------------------------------------
(* The provider outage scenario *)

InWindow == {"window", "record", "restore", "available", "finally"}

\* Dispatcher A is paused only in the window, unless Docker fails.
OutagePaused ==
    /\ disp["b"].run # "paused"
    /\ disp["a"].run = "paused" => pc \in InWindow \/ docker # MaxDocker

\* One dispatcher at a time holds the delivery while B is down and nothing is paid.
OutageDelivery ==
    /\ row.ver = row.count
    /\ row.state = "none" => payments = 0 /\ \A d \in Outa!Dispatchers : disp[d].at = "idle"
    /\ disp["b"].run = "stopped" => disp["b"].at = "idle"
    /\ provider = "down" => payments = 0
    /\ payments = 0 /\ disp["b"].run = "stopped" /\ disp["a"].at # "idle" => Outa!Holds("a")
    /\ operation = "COMPLETED" => payments > 0 /\ row.state = "CONFIRMED"

\* What runs, and what is known, at each step of the checker.
OutageSteps ==
    /\ verdict # "none" <=> pc = "done"
    /\ pc \in {"ready", "submit"} => row.state = "none" /\ operation = "none"
    /\ pc \notin {"wait", "audit", "done"} => disp["b"].run = "stopped"
    /\ provider = "up" => pc \in {"available", "finally", "resume", "wait", "audit", "done"}
    /\ pc \in {"resume", "wait", "audit"} \/ verdict = "passed" => disp["a"].run = "running"
    /\ pc \in {"wait", "audit"} \/ verdict = "passed" => disp["b"].run = "running"
    /\ pending # "none" => pc \in {"finally", "done"} /\ verdict # "passed"
    /\ pc = "audit" \/ verdict = "passed" => operation = "COMPLETED"
    /\ verdict = "passed" => payments = 1

\* The retry the checker has seen was possible only without these faults.
OutageRetry ==
    /\ \A r \in {row, seen} :
          /\ r.state = "RETRY_WAIT" => /\ r.count < OutageAttempts
                                       /\ "gives_up" \notin faults /\ "sent_unseen" \notin faults
          /\ r.error = "retryable" => "not_retryable" \notin faults
    /\ (pc \in {"restore", "available", "resume", "wait", "audit"}
        \/ (pc = "finally" /\ pending = "none") \/ verdict = "passed")
          => seen.state = "RETRY_WAIT" /\ seen.error = "retryable"
    /\ "never_retries" \in faults /\ seen.state = "RETRY_WAIT" =>
          /\ row.state = "RETRY_WAIT" /\ payments = 0
          /\ \A d \in Outa!Dispatchers : disp[d].at = "idle"

\* The other faults show before the scenario is over.
OutageFaultsShow ==
    /\ pc \notin {"ready", "done"} \/ verdict = "passed" => "needs_provider" \notin faults
    /\ pc \notin {"ready", "submit", "metric", "done"} \/ verdict = "passed" =>
          "no_metric" \notin faults /\ "request_lost" \notin faults
    /\ "request_lost" \in faults => row.state = "none"
    /\ "pays_twice" \in faults => payments # 1

OInv ==
    /\ Outa!TypeOK
    /\ OutagePaused /\ OutageDelivery /\ OutageSteps /\ OutageRetry /\ OutageFaultsShow

OutageSchema == [run : {"stopped", "running", "paused"},
                 at : {"idle", "claimed", "accepted", "refused"}, ver : 0..OutageClaims]

LEMMA OutageClaimKeeps ==
    ASSUME OInv, pc # "done", NEW d \in Outa!Dispatchers, Outa!Claim(d)
    PROVE  OInv'
<1> USE CheckersTypes DEF Outa!Dispatchers
<1>1. /\ disp[d].run = "running" /\ disp[d].at = "idle" /\ Outa!Claimable /\ row.count < OutageClaims
      /\ row' = [row EXCEPT !.state = "LEASED", !.owner = d, !.ver = @ + 1, !.count = @ + 1]
      /\ due' = FALSE
      /\ disp' = [disp EXCEPT ![d].at = "claimed", ![d].ver = row.ver + 1]
      /\ UNCHANGED <<faults, pc, seen, pending, verdict, docker, provider, payments, operation, late>>
      BY DEF Outa!Claim, Outa!Checking
<1>2. Outa!TypeOK /\ row.ver = row.count /\ OutageClaims \in Nat
      BY DEF OInv, OutageDelivery
<1>3. row \in Outa!Rows /\ disp \in [Outa!Dispatchers -> OutageSchema]
      BY <1>2 DEF Outa!TypeOK, OutageSchema
<1>4. /\ row' \in Outa!Rows /\ row'.state = "LEASED" /\ row'.owner = d /\ row'.error = row.error
      /\ row'.ver = row.ver + 1 /\ row'.count = row.count + 1
  <2>1. row.ver + 1 \in 0..OutageClaims /\ row.count + 1 \in 0..OutageClaims
        BY <1>1, <1>2, <1>3 DEF Outa!Rows
  <2>2. "LEASED" \in Outa!RowStates
        BY DEF Outa!RowStates
  <2> HIDE DEF Outa!Dispatchers
  <2> QED  BY <1>1, <1>3, <2>1, <2>2 DEF Outa!Rows
<1>5. /\ disp' \in [Outa!Dispatchers -> OutageSchema]
      /\ disp'[d].at = "claimed" /\ disp'[d].ver = row.ver + 1
      /\ \A e \in Outa!Dispatchers : /\ disp'[e].run = disp[e].run
                                     /\ e # d => disp'[e] = disp[e]
      BY <1>1, <1>2, <1>3 DEF OutageSchema, Outa!Rows
<1>6. Outa!TypeOK'
      BY <1>1, <1>2, <1>4, <1>5 DEF Outa!TypeOK, OutageSchema
<1>7. row.state \in {"PENDING", "RETRY_WAIT", "LEASED"}
      /\ (row.state = "RETRY_WAIT" => "never_retries" \notin faults)
      BY <1>1 DEF Outa!Claimable, Outa!Has
<1>8. OutagePaused' /\ OutageDelivery'
      BY <1>1, <1>4, <1>5, <1>7 DEF OInv, OutagePaused, OutageDelivery, Outa!Holds
<1>9. OutageSteps'
      BY <1>1, <1>4, <1>5, <1>7 DEF OInv, OutageSteps, OutageDelivery
<1>10. OutageRetry'
      BY <1>1, <1>4, <1>5, <1>7 DEF OInv, OutageRetry, OutageSteps
<1>11. OutageFaultsShow'
      BY <1>1, <1>4, <1>7 DEF OInv, OutageFaultsShow
<1> QED
    BY <1>6, <1>8, <1>9, <1>10, <1>11 DEF OInv

\* A post, and its answer or the lack of it.
LEMMA OutagePostKeeps ==
    ASSUME OInv, pc # "done", NEW d \in Outa!Dispatchers, Outa!Post(d) \/ Outa!PostTimesOut(d)
    PROVE  OInv'
<1> USE CheckersTypes DEF Outa!Dispatchers
<1>1. PICK at \in {"accepted", "refused"} :
        /\ disp[d].run = "running" /\ disp[d].at = "claimed"
        /\ disp' = [disp EXCEPT ![d].at = at]
        /\ payments' \in {payments, IF Outa!Has("pays_twice") THEN 2 ELSE 1}
        /\ provider = "down" => payments' = payments
        /\ late' \in {late, TRUE}
        /\ UNCHANGED <<faults, pc, seen, pending, verdict, docker, row, due, provider, operation>>
  <2>1. CASE Outa!Post(d)
        BY <2>1 DEF Outa!Post, Outa!Checking
  <2>2. CASE Outa!PostTimesOut(d)
        BY <2>2 DEF Outa!PostTimesOut, Outa!Checking
  <2> QED  BY <2>1, <2>2
<1>2. Outa!TypeOK /\ payments \in 0..2
      BY DEF OInv, Outa!TypeOK
<1>3. disp \in [Outa!Dispatchers -> OutageSchema]
      BY <1>2 DEF Outa!TypeOK, OutageSchema
<1>4. /\ disp' \in [Outa!Dispatchers -> OutageSchema]
      /\ disp'[d].at = at /\ disp'[d].ver = disp[d].ver
      /\ \A e \in Outa!Dispatchers : /\ disp'[e].run = disp[e].run
                                     /\ e # d => disp'[e] = disp[e]
      BY <1>1, <1>3 DEF OutageSchema
<1>5. payments' \in 0..2 /\ (payments > 0 => payments' > 0)
      BY <1>1, <1>2
<1>6. Outa!TypeOK'
      BY <1>1, <1>2, <1>4, <1>5 DEF Outa!TypeOK, OutageSchema
<1>7. OutagePaused' /\ OutageDelivery'
      BY <1>1, <1>2, <1>4, <1>5 DEF OInv, OutagePaused, OutageDelivery, Outa!Holds
<1>8. OutageSteps'
      BY <1>1, <1>4 DEF OInv, OutageSteps
<1>9. OutageRetry'
      BY <1>1, <1>4 DEF OInv, OutageRetry
<1>10. OutageFaultsShow'
      BY <1>1, <1>2 DEF OInv, OutageFaultsShow, Outa!Has
<1> QED
    BY <1>6, <1>7, <1>8, <1>9, <1>10 DEF OInv

\* succeed_outbox, fail_outbox and the reports that change nothing.
LEMMA OutageReportKeeps ==
    ASSUME OInv, pc # "done", NEW d \in Outa!Dispatchers, Outa!Report(d)
    PROVE  OInv'
<1> USE CheckersTypes DEF Outa!Dispatchers
<1>1. /\ disp[d].run = "running" /\ disp[d].at \in {"accepted", "refused"}
      /\ row' = IF ~Outa!Holds(d) THEN row
                ELSE IF disp[d].at = "accepted" THEN [row EXCEPT !.state = "DELIVERED", !.owner = "none"]
                ELSE Outa!Failed
      /\ due' = (due /\ ~Outa!Holds(d))
      /\ disp' = [disp EXCEPT ![d].at = "idle"]
      /\ UNCHANGED <<faults, pc, seen, pending, verdict, docker, provider, payments, operation, late>>
      BY DEF Outa!Report, Outa!Checking
<1>2. Outa!TypeOK /\ row \in Outa!Rows /\ disp \in [Outa!Dispatchers -> OutageSchema]
      /\ due' \in BOOLEAN
      BY <1>1 DEF OInv, Outa!TypeOK, OutageSchema
<1>3. /\ row' \in Outa!Rows /\ row'.ver = row.ver /\ row'.count = row.count
      /\ row' = row \/ row.state = "LEASED"
      /\ row'.state \in {row.state, "DELIVERED", "RETRY_WAIT", "DEAD"}
      /\ row'.state \in {row.state, "DELIVERED", "DEAD"} \/
            (/\ row.count < OutageAttempts /\ "gives_up" \notin faults /\ "sent_unseen" \notin faults)
      /\ row'.error \in {row.error, "final"} \/ "not_retryable" \notin faults
      /\ row'.state = "none" => row' = row
  <2>1. CASE ~Outa!Holds(d)
        BY <1>1, <1>2, <2>1
  <2>2. CASE Outa!Holds(d) /\ disp[d].at = "accepted"
        BY <1>1, <1>2, <2>2 DEF Outa!Holds, Outa!Rows, Outa!RowStates
  <2>3. CASE Outa!Holds(d) /\ disp[d].at # "accepted"
    <3>1. row' = Outa!Failed /\ row.state = "LEASED"
          BY <1>1, <2>3 DEF Outa!Holds
    <3>2. CASE Outa!Has("sent_unseen")
          BY <1>2, <3>1, <3>2 DEF Outa!Failed, Outa!Rows, Outa!RowStates
    <3>3. CASE ~Outa!Has("sent_unseen")
          BY <1>2, <3>1, <3>3 DEF Outa!Failed, Outa!Has, Outa!Rows, Outa!RowStates
    <3> QED  BY <3>2, <3>3
  <2> QED  BY <2>1, <2>2, <2>3
<1>4. /\ disp' \in [Outa!Dispatchers -> OutageSchema]
      /\ disp'[d].at = "idle"
      /\ \A e \in Outa!Dispatchers : /\ disp'[e].run = disp[e].run
                                     /\ e # d => disp'[e] = disp[e]
      BY <1>1, <1>2 DEF OutageSchema
<1>5. Outa!TypeOK'
      BY <1>1, <1>2, <1>3, <1>4 DEF Outa!TypeOK, OutageSchema
<1>6. OutagePaused'
      BY <1>1, <1>4 DEF OInv, OutagePaused
<1>7. OutageDelivery'
      BY <1>1, <1>3, <1>4 DEF OInv, OutageDelivery, Outa!Holds
<1>8. OutageSteps'
      BY <1>1, <1>3, <1>4 DEF OInv, OutageSteps
<1>9. OutageRetry'
      BY <1>1, <1>3, <1>4 DEF OInv, OutageRetry
<1>10. OutageFaultsShow'
      BY <1>1, <1>3 DEF OInv, OutageFaultsShow
<1> QED
    BY <1>5, <1>6, <1>7, <1>8, <1>9, <1>10 DEF OInv

\* The provider's callback, and time.
LEMMA OutageOthersKeep ==
    ASSUME OInv, pc # "done", Outa!Callback \/ Outa!TimePasses
    PROVE  OInv'
<1> USE CheckersTypes DEF Outa!Dispatchers
<1>1. Outa!TypeOK /\ row \in Outa!Rows
      BY DEF OInv, Outa!TypeOK
<1>2. CASE Outa!Callback
  <2>1. /\ provider = "up" /\ payments > 0 /\ operation = "SUBMITTED" /\ operation' = "COMPLETED"
        /\ row' = [row EXCEPT !.state = "CONFIRMED", !.owner = "none"]
        /\ UNCHANGED <<faults, pc, seen, pending, verdict, docker, due, disp, provider, payments, late>>
        BY <1>2 DEF Outa!Callback, Outa!Checking
  <2>2. /\ row' \in Outa!Rows /\ row'.state = "CONFIRMED" /\ row'.error = row.error
        /\ row'.ver = row.ver /\ row'.count = row.count
        BY <1>1, <2>1 DEF Outa!Rows, Outa!RowStates
  <2>3. Outa!TypeOK' /\ OutagePaused'
        BY <1>1, <2>1, <2>2 DEF OInv, Outa!TypeOK, OutagePaused
  <2>4. payments \in Nat
        BY <1>1 DEF Outa!TypeOK
  <2>5. OutageDelivery'
        BY <2>1, <2>2, <2>4 DEF OInv, OutageDelivery, Outa!Holds
  <2>6. OutageSteps'
        BY <2>1, <2>2, <2>4 DEF OInv, OutageSteps
  <2>7. OutageRetry' /\ OutageFaultsShow'
        BY <2>1, <2>2, <2>4 DEF OInv, OutageRetry, OutageFaultsShow, OutageDelivery
  <2> QED  BY <2>3, <2>5, <2>6, <2>7 DEF OInv
<1>3. CASE Outa!TimePasses
  <2>1. /\ due' = TRUE
        /\ UNCHANGED <<faults, pc, seen, pending, verdict, docker, row, disp, provider, payments,
                       operation, late>>
        BY <1>3 DEF Outa!TimePasses, Outa!Checking
  <2>2. Outa!TypeOK'
        BY <1>1, <2>1 DEF Outa!TypeOK
  <2>3. OutagePaused' /\ OutageDelivery' /\ OutageSteps' /\ OutageRetry' /\ OutageFaultsShow'
        BY <2>1 DEF OInv, OutagePaused, OutageDelivery, OutageSteps, OutageRetry, OutageFaultsShow,
           Outa!Holds
  <2> QED  BY <2>2, <2>3 DEF OInv
<1> QED
    BY <1>2, <1>3

\* An exception ends the scenario, in the try block after the finally clause.
LEMMA OutageRaised ==
    ASSUME OInv, pc # "done", NEW kind \in {"ContractError", "environment"},
           \/ pc # "finally" /\ Outa!Raise(kind)
           \/ pc = "finally" /\ verdict' = kind /\ pc' = "done" /\ UNCHANGED pending
              /\ docker' # MaxDocker,
           UNCHANGED <<faults, row, due, disp, provider, payments, operation, seen>>,
           late' \in BOOLEAN, docker' \in 0..MaxDocker, docker' <= docker
    PROVE  OInv'
<1> USE CheckersTypes
<1>1. Outa!TypeOK /\ docker \in 0..MaxDocker /\ verdict = "none" /\ MaxDocker \in Nat
      BY DEF OInv, Outa!TypeOK, OutageSteps
<1>2. \/ /\ pc \in {"window", "record", "restore", "available"} /\ pc' = "finally"
         /\ pending' = kind /\ verdict' = "none"
      \/ /\ pc' = "done" /\ verdict' = kind /\ pending' = pending
         /\ pc \notin InWindow \/ docker' # MaxDocker
      BY <1>1 DEF Outa!Raise, Outa!Go, InWindow, OInv, OutageSteps
<1>3. Outa!TypeOK'
      BY <1>1, <1>2 DEF Outa!TypeOK, Outa!Steps
<1>4. OutagePaused'
      BY <1>1, <1>2 DEF OInv, OutagePaused, InWindow
<1>5. OutageDelivery'
      BY DEF OInv, OutageDelivery, Outa!Holds
<1>6. OutageSteps'
      BY <1>1, <1>2 DEF OInv, OutageSteps
<1>7. OutageRetry' /\ OutageFaultsShow'
      BY <1>1, <1>2 DEF OInv, OutageRetry, OutageFaultsShow
<1> QED
    BY <1>3, <1>4, <1>5, <1>6, <1>7 DEF OInv

\* The requirements and polls of the checker: they go on, or raise.
LEMMA OutageChecksKeep ==
    ASSUME OInv,
           \/ Outa!OutageReady \/ Outa!OutageMetric \/ Outa!OutagePoll \/ Outa!RecoveryWindow
           \/ Outa!OutageRecord \/ Outa!OutageAvailable \/ Outa!OutageWait \/ Outa!OutageAudit
           \/ Outa!DockerFails
    PROVE  OInv'
<1> USE CheckersTypes DEF Outa!candidate
<1>1. /\ Outa!TypeOK /\ docker \in 0..MaxDocker /\ late \in BOOLEAN /\ MaxDocker \in Nat
      /\ pc # "done" => verdict = "none"
      BY DEF OInv, Outa!TypeOK, OutageSteps
<1>2. ASSUME NEW next \in Outa!Steps \ {"done"}, pc' = next, pc # "done",
             UNCHANGED <<faults, row, due, disp, provider, payments, operation, pending, verdict, late,
                         docker>>,
             seen' \in Outa!Rows
      PROVE  Outa!TypeOK' /\ OutageDelivery'
      BY <1>1, <1>2 DEF OInv, Outa!TypeOK, OutageDelivery, Outa!Holds
<1>3. ASSUME NEW p, pc \notin {"done", "finally"}, Outa!PollTimeout(p)
      PROVE  OInv'
  <2>1. /\ Outa!Raise("ContractError") /\ late' = (late \/ Outa!Busy)
        /\ UNCHANGED <<faults, row, due, disp, provider, payments, operation, seen, docker>>
        BY <1>3 DEF Outa!PollTimeout
  <2>2. late' \in BOOLEAN
        BY <2>1
  <2> QED  BY <1>1, <1>3, <2>1, <2>2, OutageRaised
<1>4. ASSUME NEW kind \in {"ContractError", "environment"}, pc \notin {"done", "finally"},
             Outa!Raise(kind),
             UNCHANGED <<faults, row, due, disp, provider, payments, operation, seen, late, docker>>
      PROVE  OInv'
      BY <1>1, <1>4, OutageRaised
<1>5. CASE Outa!DockerFails
  <2>1. /\ docker > 0 /\ docker' = docker - 1 /\ pc # "done"
        /\ UNCHANGED <<faults, row, due, disp, provider, payments, operation, seen, late>>
        BY <1>5 DEF Outa!DockerFails
  <2>2. PICK kind \in {"ContractError", "environment"} :
          IF pc = "finally" THEN verdict' = kind /\ pc' = "done" /\ UNCHANGED pending
                            ELSE Outa!Raise(kind)
        BY <1>5 DEF Outa!DockerFails, Outa!Go
  <2>3. docker' \in 0..MaxDocker /\ docker' <= docker /\ docker' # MaxDocker
        BY <1>1, <2>1
  <2> QED  BY <1>1, <2>1, <2>2, <2>3, OutageRaised
<1>6. CASE Outa!OutageReady
  <2>1. /\ pc = "ready"
        /\ UNCHANGED <<faults, row, due, disp, provider, payments, operation, seen, late, docker>>
        /\ \/ "needs_provider" \notin faults /\ pc' = "submit" /\ UNCHANGED <<pending, verdict>>
           \/ Outa!Raise("ContractError")
        BY <1>6 DEF Outa!OutageReady, Outa!Require, Outa!Has, Outa!Go
  <2>2. CASE "needs_provider" \notin faults /\ pc' = "submit" /\ UNCHANGED <<pending, verdict>>
    <3>1. Outa!TypeOK' /\ OutageDelivery'
          BY <1>1, <1>2, <2>1, <2>2 DEF Outa!Steps, Outa!TypeOK
    <3>2. OutagePaused' /\ OutageSteps' /\ OutageRetry' /\ OutageFaultsShow'
          BY <2>1, <2>2 DEF OInv, OutagePaused, InWindow, OutageSteps, OutageRetry, OutageFaultsShow
    <3> QED  BY <3>1, <3>2 DEF OInv
  <2> QED  BY <1>4, <2>1, <2>2
<1>7. CASE Outa!OutageMetric
  <2>1. CASE pc = "metric" /\ Outa!PollTimeout(row.state # "none")
        BY <1>3, <2>1
  <2>2. CASE pc = "metric" /\ row.state # "none" /\ Outa!Require(~Outa!Has("no_metric"), "start")
    <3>1. /\ UNCHANGED <<faults, row, due, disp, provider, payments, operation, seen, late, docker>>
          /\ \/ "no_metric" \notin faults /\ pc' = "start" /\ UNCHANGED <<pending, verdict>>
             \/ Outa!Raise("ContractError")
          BY <2>2 DEF Outa!Require, Outa!Has, Outa!Go
    <3>2. CASE "no_metric" \notin faults /\ pc' = "start" /\ UNCHANGED <<pending, verdict>>
      <4>1. Outa!TypeOK' /\ OutageDelivery'
            BY <1>1, <1>2, <2>2, <3>1, <3>2 DEF Outa!Steps, Outa!TypeOK
      <4>2. OutagePaused' /\ OutageSteps' /\ OutageRetry' /\ OutageFaultsShow'
            BY <2>2, <3>1, <3>2
            DEF OInv, OutagePaused, InWindow, OutageSteps, OutageRetry, OutageFaultsShow
      <4> QED  BY <4>1, <4>2 DEF OInv
    <3> QED  BY <1>4, <2>2, <3>1, <3>2
  <2> QED  BY <1>7, <2>1, <2>2 DEF Outa!OutageMetric
<1>8. CASE Outa!OutagePoll
  <2>1. CASE pc = "poll" /\ Outa!PollTimeout(Outa!Retried)
        BY <1>3, <2>1
  <2>2. CASE /\ pc = "poll" /\ row.state \in {"RETRY_WAIT", "DEAD"} /\ pc' = "pause" /\ seen' = row
             /\ UNCHANGED <<row, due, disp, provider, payments, operation, faults, pending, verdict,
                            late, docker>>
    <3>1. Outa!TypeOK' /\ OutageDelivery'
          BY <1>1, <1>2, <2>2 DEF Outa!Steps, Outa!TypeOK
    <3>2. OutagePaused' /\ OutageSteps' /\ OutageFaultsShow'
          BY <2>2 DEF OInv, OutagePaused, InWindow, OutageSteps, OutageFaultsShow
    <3>3. payments = 0 /\ \A d \in Outa!Dispatchers : disp[d].at = "idle"
      <4>1. provider = "down"
            BY <1>1, <2>2 DEF OInv, OutageSteps, Outa!TypeOK
      <4>2. disp["b"].run = "stopped" /\ payments = 0 /\ disp["b"].at = "idle"
            BY <2>2, <4>1 DEF OInv, OutageSteps, OutageDelivery
      <4>3. disp["a"].at = "idle"
            BY <2>2, <4>2 DEF OInv, OutageDelivery, Outa!Holds
      <4> QED  BY <4>2, <4>3 DEF Outa!Dispatchers
    <3>4. OutageRetry'
          BY <1>1, <2>2, <3>3 DEF OInv, OutageRetry
    <3> QED  BY <3>1, <3>2, <3>4 DEF OInv
  <2> QED  BY <1>8, <2>1, <2>2 DEF Outa!OutagePoll, Outa!Retried, Outa!Go, Outa!Keep
<1>9. CASE Outa!RecoveryWindow
  <2>1. /\ pc = "window"
        /\ UNCHANGED <<faults, row, due, disp, provider, payments, operation, seen, late, docker>>
        /\ \/ pc' = "record" /\ UNCHANGED <<pending, verdict>>
           \/ \E kind \in {"ContractError", "environment"} : Outa!Raise(kind)
        BY <1>9 DEF Outa!RecoveryWindow, Outa!Go
  <2>2. CASE pc' = "record" /\ UNCHANGED <<pending, verdict>>
    <3>1. Outa!TypeOK' /\ OutageDelivery'
          BY <1>1, <1>2, <2>1, <2>2 DEF Outa!Steps, Outa!TypeOK
    <3>2. OutagePaused' /\ OutageSteps' /\ OutageRetry' /\ OutageFaultsShow'
          BY <1>1, <2>1, <2>2
          DEF OInv, OutagePaused, InWindow, OutageSteps, OutageRetry, OutageFaultsShow
    <3> QED  BY <3>1, <3>2 DEF OInv
  <2> QED  BY <1>4, <2>1, <2>2
<1>10. CASE Outa!OutageRecord
  <2>1. /\ pc = "record"
        /\ UNCHANGED <<faults, row, due, disp, provider, payments, operation, seen, late, docker>>
        /\ \/ /\ seen.state = "RETRY_WAIT" /\ seen.error = "retryable"
              /\ pc' = "restore" /\ UNCHANGED <<pending, verdict>>
           \/ Outa!Raise("ContractError")
        BY <1>10 DEF Outa!OutageRecord, Outa!Require, Outa!Go
  <2>2. CASE /\ seen.state = "RETRY_WAIT" /\ seen.error = "retryable"
             /\ pc' = "restore" /\ UNCHANGED <<pending, verdict>>
    <3>1. Outa!TypeOK' /\ OutageDelivery'
          BY <1>1, <1>2, <2>1, <2>2 DEF Outa!Steps, Outa!TypeOK
    <3>2. OutagePaused' /\ OutageSteps' /\ OutageRetry' /\ OutageFaultsShow'
          BY <1>1, <2>1, <2>2
          DEF OInv, OutagePaused, InWindow, OutageSteps, OutageRetry, OutageFaultsShow
    <3> QED  BY <3>1, <3>2 DEF OInv
  <2> QED  BY <1>4, <2>1, <2>2
<1>11. CASE Outa!OutageAvailable
  <2>1. /\ pc = "available"
        /\ UNCHANGED <<faults, row, due, disp, provider, payments, operation, seen, late, docker>>
        /\ \/ pc' = "finally" /\ UNCHANGED <<pending, verdict>>
           \/ Outa!Raise("environment")
        BY <1>11 DEF Outa!OutageAvailable, Outa!Go
  <2>2. CASE pc' = "finally" /\ UNCHANGED <<pending, verdict>>
    <3>1. Outa!TypeOK' /\ OutageDelivery'
          BY <1>1, <1>2, <2>1, <2>2 DEF Outa!Steps, Outa!TypeOK
    <3>2. OutagePaused' /\ OutageSteps' /\ OutageRetry' /\ OutageFaultsShow'
          BY <1>1, <2>1, <2>2
          DEF OInv, OutagePaused, InWindow, OutageSteps, OutageRetry, OutageFaultsShow
    <3> QED  BY <3>1, <3>2 DEF OInv
  <2> QED  BY <1>4, <2>1, <2>2
<1>12. CASE Outa!OutageWait
  <2>1. CASE pc = "wait" /\ Outa!PollTimeout(operation = "COMPLETED")
        BY <1>3, <2>1
  <2>2. CASE /\ pc = "wait" /\ operation = "COMPLETED" /\ pc' = "audit"
             /\ UNCHANGED <<row, due, disp, provider, payments, operation, seen, faults, pending,
                            verdict, late, docker>>
    <3>1. Outa!TypeOK' /\ OutageDelivery'
          BY <1>1, <1>2, <2>2 DEF Outa!Steps, Outa!TypeOK
    <3>2. OutagePaused' /\ OutageSteps' /\ OutageRetry' /\ OutageFaultsShow'
          BY <1>1, <2>2 DEF OInv, OutagePaused, InWindow, OutageSteps, OutageRetry, OutageFaultsShow
    <3> QED  BY <3>1, <3>2 DEF OInv
  <2> QED  BY <1>12, <2>1, <2>2 DEF Outa!OutageWait, Outa!Go, Outa!Keep
<1>13. CASE Outa!OutageAudit
  <2>1. /\ pc = "audit"
        /\ UNCHANGED <<faults, row, due, disp, provider, payments, operation, seen, late, docker>>
        /\ \/ payments = 1 /\ verdict' = "passed" /\ pc' = "done" /\ UNCHANGED pending
           \/ Outa!Raise("ContractError")
        BY <1>13 DEF Outa!OutageAudit, Outa!Go
  <2>2. CASE payments = 1 /\ verdict' = "passed" /\ pc' = "done" /\ UNCHANGED pending
    <3>1. Outa!TypeOK' /\ OutageDelivery'
          BY <1>1, <2>1, <2>2 DEF OInv, Outa!Steps, Outa!TypeOK, OutageDelivery, Outa!Holds
    <3>2. OutagePaused' /\ OutageSteps' /\ OutageRetry' /\ OutageFaultsShow'
          BY <1>1, <2>1, <2>2
          DEF OInv, OutagePaused, InWindow, OutageSteps, OutageRetry, OutageFaultsShow
    <3> QED  BY <3>1, <3>2 DEF OInv
  <2> QED  BY <1>4, <2>1, <2>2
<1> QED
    BY <1>5, <1>6, <1>7, <1>8, <1>9, <1>10, <1>11, <1>12, <1>13

\* A compose command starts, stops, pauses or unpauses one dispatcher.
LEMMA OutageRun ==
    ASSUME OInv, NEW d \in Outa!Dispatchers, NEW state \in {"stopped", "running", "paused"},
           Outa!Run(d, state)
    PROVE  /\ disp' \in [Outa!Dispatchers -> OutageSchema]
           /\ disp'[d].run = state
           /\ \A e \in Outa!Dispatchers : /\ disp'[e].at = disp[e].at /\ disp'[e].ver = disp[e].ver
                                          /\ e # d => disp'[e].run = disp[e].run
<1>1. disp \in [Outa!Dispatchers -> OutageSchema]
      BY DEF OInv, Outa!TypeOK, OutageSchema
<1> QED
    BY <1>1 DEF Outa!Run, OutageSchema

\* The steps of the checker that change the stack.
LEMMA OutageCommandsKeep ==
    ASSUME OInv,
           \/ Outa!OutageSubmit \/ Outa!OutageStart \/ Outa!OutagePause \/ Outa!OutageRestore
           \/ Outa!OutageFinally \/ Outa!OutageResume
    PROVE  OInv'
<1> USE CheckersTypes DEF Outa!Go, Outa!Keep
<1>1. Outa!TypeOK /\ row \in Outa!Rows /\ "a" \in Outa!Dispatchers /\ "b" \in Outa!Dispatchers
      BY DEF OInv, Outa!TypeOK, Outa!Dispatchers
<1>2. CASE Outa!OutageSubmit
  <2>1. /\ pc = "submit" /\ pc' = "metric" /\ operation' = "SUBMITTED"
        /\ row' = IF "request_lost" \in faults THEN row ELSE [row EXCEPT !.state = "PENDING"]
        /\ UNCHANGED <<due, disp, provider, payments, seen, faults, pending, verdict, late, docker>>
        BY <1>2 DEF Outa!OutageSubmit, Outa!Has
  <2>2. /\ row' \in Outa!Rows /\ row'.state \in {row.state, "PENDING"} /\ row'.error = row.error
        /\ row'.ver = row.ver /\ row'.count = row.count
        /\ "request_lost" \in faults => row' = row
        BY <1>1, <2>1 DEF Outa!Rows, Outa!RowStates
  <2>3. row.state = "none" /\ payments = 0 /\ \A d \in Outa!Dispatchers : disp[d].at = "idle"
        BY <2>1 DEF OInv, OutageSteps, OutageDelivery
  <2>4. Outa!TypeOK' /\ OutagePaused'
        BY <1>1, <2>1, <2>2 DEF OInv, Outa!TypeOK, Outa!Steps, OutagePaused, InWindow
  <2>5. OutageDelivery'
        BY <1>1, <2>1, <2>2, <2>3 DEF OInv, OutageDelivery
  <2>6. OutageSteps' /\ OutageRetry' /\ OutageFaultsShow'
        BY <2>1, <2>2, <2>3 DEF OInv, OutageSteps, OutageRetry, OutageFaultsShow
  <2> QED  BY <2>4, <2>5, <2>6 DEF OInv
<1>3. CASE Outa!OutageStart
  <2>1. /\ pc = "start" /\ pc' = "poll" /\ Outa!Run("a", "running")
        /\ UNCHANGED <<row, due, provider, payments, operation, seen, faults, pending, verdict, late,
                       docker>>
        BY <1>3 DEF Outa!OutageStart
  <2>2. /\ disp' \in [Outa!Dispatchers -> OutageSchema] /\ disp'["a"].run = "running"
        /\ \A e \in Outa!Dispatchers : disp'[e].at = disp[e].at /\ disp'[e].ver = disp[e].ver
        /\ disp'["b"].run = disp["b"].run
        BY <1>1, <2>1, OutageRun
  <2>3. Outa!TypeOK' /\ OutagePaused'
        BY <1>1, <2>1, <2>2 DEF OInv, Outa!TypeOK, Outa!Steps, OutagePaused, InWindow, OutageSchema
  <2>4. OutageDelivery'
        BY <1>1, <2>1, <2>2 DEF OInv, OutageDelivery, Outa!Holds
  <2>5. OutageSteps' /\ OutageRetry' /\ OutageFaultsShow'
        BY <1>1, <2>1, <2>2 DEF OInv, OutageSteps, OutageRetry, OutageFaultsShow
  <2> QED  BY <2>3, <2>4, <2>5 DEF OInv
<1>4. CASE Outa!OutagePause
  <2>1. /\ pc = "pause" /\ pc' = "window" /\ Outa!Run("a", "paused")
        /\ UNCHANGED <<row, due, provider, payments, operation, seen, faults, pending, verdict, late,
                       docker>>
        BY <1>4 DEF Outa!OutagePause
  <2>2. /\ disp' \in [Outa!Dispatchers -> OutageSchema] /\ disp'["a"].run = "paused"
        /\ \A e \in Outa!Dispatchers : disp'[e].at = disp[e].at /\ disp'[e].ver = disp[e].ver
        /\ disp'["b"].run = disp["b"].run
        BY <1>1, <2>1, OutageRun
  <2>3. Outa!TypeOK' /\ OutagePaused'
        BY <1>1, <2>1, <2>2 DEF OInv, Outa!TypeOK, Outa!Steps, OutagePaused, InWindow, OutageSchema
  <2>4. OutageDelivery'
        BY <1>1, <2>1, <2>2 DEF OInv, OutageDelivery, Outa!Holds
  <2>5. OutageSteps' /\ OutageRetry' /\ OutageFaultsShow'
        BY <1>1, <2>1, <2>2 DEF OInv, OutageSteps, OutageRetry, OutageFaultsShow
  <2> QED  BY <2>3, <2>4, <2>5 DEF OInv
<1>5. CASE Outa!OutageRestore
  <2>1. /\ pc = "restore" /\ pc' = "available" /\ provider' = "up"
        /\ UNCHANGED <<row, due, disp, payments, operation, seen, faults, pending, verdict, late,
                       docker>>
        BY <1>5 DEF Outa!OutageRestore
  <2>2. Outa!TypeOK' /\ OutagePaused' /\ OutageDelivery'
        BY <1>1, <2>1
        DEF OInv, Outa!TypeOK, Outa!Steps, OutagePaused, InWindow, OutageDelivery, Outa!Holds
  <2>3. OutageSteps' /\ OutageRetry' /\ OutageFaultsShow'
        BY <2>1 DEF OInv, OutageSteps, OutageRetry, OutageFaultsShow
  <2> QED  BY <2>2, <2>3 DEF OInv
<1>6. CASE Outa!OutageFinally
  <2>1. /\ pc = "finally" /\ Outa!Run("a", "running")
        /\ IF pending = "none" THEN pc' = "resume" /\ verdict' = verdict
                               ELSE verdict' = pending /\ pc' = "done"
        /\ UNCHANGED <<faults, row, due, provider, payments, operation, seen, pending, late, docker>>
        BY <1>6 DEF Outa!OutageFinally
  <2>2. /\ disp' \in [Outa!Dispatchers -> OutageSchema] /\ disp'["a"].run = "running"
        /\ \A e \in Outa!Dispatchers : disp'[e].at = disp[e].at /\ disp'[e].ver = disp[e].ver
        /\ disp'["b"].run = disp["b"].run
        BY <1>1, <2>1, OutageRun
  <2>3. pending \in {"none", "ContractError", "environment"} /\ verdict = "none"
        BY <1>1, <2>1 DEF OInv, Outa!TypeOK, OutageSteps
  <2>4. Outa!TypeOK' /\ OutagePaused'
        BY <1>1, <2>1, <2>2, <2>3
        DEF OInv, Outa!TypeOK, Outa!Steps, OutagePaused, InWindow, OutageSchema
  <2>5. OutageDelivery'
        BY <1>1, <2>1, <2>2 DEF OInv, OutageDelivery, Outa!Holds
  <2>6. OutageSteps' /\ OutageRetry' /\ OutageFaultsShow'
        BY <1>1, <2>1, <2>2, <2>3 DEF OInv, OutageSteps, OutageRetry, OutageFaultsShow
  <2> QED  BY <2>4, <2>5, <2>6 DEF OInv
<1>7. CASE Outa!OutageResume
  <2>1. /\ pc = "resume" /\ pc' = "wait" /\ Outa!Run("b", "running")
        /\ UNCHANGED <<row, due, provider, payments, operation, seen, faults, pending, verdict, late,
                       docker>>
        BY <1>7 DEF Outa!OutageResume
  <2>2. /\ disp' \in [Outa!Dispatchers -> OutageSchema] /\ disp'["b"].run = "running"
        /\ \A e \in Outa!Dispatchers : disp'[e].at = disp[e].at /\ disp'[e].ver = disp[e].ver
        /\ disp'["a"].run = disp["a"].run
        BY <1>1, <2>1, OutageRun
  <2>3. Outa!TypeOK' /\ OutagePaused'
        BY <1>1, <2>1, <2>2 DEF OInv, Outa!TypeOK, Outa!Steps, OutagePaused, InWindow, OutageSchema
  <2>4. OutageDelivery'
        BY <1>1, <2>1, <2>2 DEF OInv, OutageDelivery, Outa!Holds
  <2>5. OutageSteps' /\ OutageRetry' /\ OutageFaultsShow'
        BY <1>1, <2>1, <2>2 DEF OInv, OutageSteps, OutageRetry, OutageFaultsShow
  <2> QED  BY <2>3, <2>4, <2>5 DEF OInv
<1> QED
    BY <1>2, <1>3, <1>4, <1>5, <1>6, <1>7

\* The inductive invariant of the outage scenario, and what follows from it.
LEMMA OutageInvariant ==
    /\ Outa!Init => OInv
    /\ OInv /\ Outa!Next => OInv'
    /\ OInv => Outa!NoFalsePass /\ Outa!PassShowsRecovery /\ Outa!NothingPaused
<1> USE CheckersTypes
<1>1. Outa!Init => OInv
  <2> SUFFICES ASSUME Outa!Init
               PROVE  OInv
      OBVIOUS
  <2>1. Outa!TypeOK
    <3>1. Outa!NoRow \in Outa!Rows
          BY DEF Outa!NoRow, Outa!Rows, Outa!RowStates
    <3>2. faults \subseteq Outa!Faults
          BY DEF Outa!Init
    <3>3. disp \in [Outa!Dispatchers -> OutageSchema]
          BY DEF Outa!Init, OutageSchema
    <3>4. /\ row = Outa!NoRow /\ seen = Outa!NoRow /\ due = FALSE /\ provider = "down" /\ payments = 0
          /\ operation = "none" /\ pc = "ready" /\ pending = "none" /\ verdict = "none"
          /\ late = FALSE /\ docker = MaxDocker /\ MaxDocker \in Nat
          BY DEF Outa!Init
    <3>5. /\ pc \in Outa!Steps /\ late \in BOOLEAN /\ due \in BOOLEAN
          /\ docker \in 0..MaxDocker /\ payments \in 0..2
      <4>1. pc \in Outa!Steps
            BY <3>4 DEF Outa!Steps
      <4>2. late \in BOOLEAN /\ due \in BOOLEAN
            BY <3>4, Zenon
      <4>3. docker \in 0..MaxDocker /\ payments \in 0..2
            BY <3>4, SMT
      <4> QED  BY <4>1, <4>2, <4>3
    <3>6. row \in Outa!Rows /\ seen \in Outa!Rows
          BY <3>1, <3>4
    <3> HIDE CheckersTypes
    <3> QED  BY <3>2, <3>3, <3>4, <3>5, <3>6 DEF Outa!TypeOK, OutageSchema
  <2>2. OutagePaused /\ OutageDelivery /\ OutageSteps /\ OutageRetry /\ OutageFaultsShow
        BY DEF Outa!Init, OutagePaused, OutageDelivery, OutageSteps, OutageRetry, OutageFaultsShow,
           Outa!NoRow, Outa!Dispatchers
  <2> QED  BY <2>1, <2>2 DEF OInv
<1>2. OInv /\ Outa!Next => OInv'
      BY OutageClaimKeeps, OutagePostKeeps, OutageReportKeeps, OutageOthersKeep, OutageChecksKeep,
         OutageCommandsKeep
      DEF Outa!Next, Outa!Candidate, Outa!Checker
<1>3. OInv => Outa!NoFalsePass
  <2> SUFFICES ASSUME OInv, verdict = "passed"
               PROVE  faults = {}
      BY DEF Outa!NoFalsePass
  <2>1. /\ seen.state = "RETRY_WAIT" /\ seen.error = "retryable" /\ payments = 1
        BY DEF OInv, OutageRetry, OutageSteps
  <2>2. \A f \in Outa!Faults : f \notin faults
        BY <2>1 DEF OInv, OutageRetry, OutageFaultsShow, Outa!Faults
  <2> QED  BY <2>2 DEF OInv, Outa!TypeOK
<1>4. OInv => Outa!PassShowsRecovery
      BY DEF OInv, OutageRetry, OutageSteps, OutageDelivery, Outa!PassShowsRecovery, Outa!Dispatchers
<1>5. OInv => Outa!NothingPaused
      BY DEF OInv, OutagePaused, InWindow, Outa!NothingPaused, Outa!Dispatchers
<1> QED
    BY <1>1, <1>2, <1>3, <1>4, <1>5

-----------------------------------------------------------------------------
(* The phases concurrency, recovery and resilience of week 2 *)

WorkerSchema == [up : BOOLEAN, fp : {"", "after_job_claim", "after_action_before_finish"},
                 at : {"idle", "claimed", "acted"}, ver : 0..WorkerClaims]

JobSchema == [state : {"none", "READY", "LEASED", "RETRY_WAIT", "SUCCEEDED", "DEAD"}, id : Nat,
              exec : Nat, owner : Work!Workers \cup {"none"}, ver : 0..WorkerClaims,
              count : 0..WorkerClaims, mode : {"signal", "retry", "error", "invalid"}]

AttemptSchema == [ver : 0..WorkerClaims, status : {"RUNNING", "STALE", "FAILED", "SUCCEEDED"},
                  id : Nat, exec : Nat]

Concurrency == {"c_start", "c_boot", "c_claim", "c_ack", "c_loser", "c_reclaim", "c_attempts",
                "c_stale", "c_restart", "c_final"}
Recovery == {"a_start", "a_boot", "a_ack", "a_crash", "a_final"}
Resilience == {"r_start", "r_wait", "r_ready", "r_resumed", "r_retry", "r_retrywait", "r_recreate",
               "r_failed", "t_error", "t_invalid", "r_verdict"}
Reclaimed == "two-worker-reclaim-and-stale-finish"
RolledBack == "action-finish-rollback-and-recovery"

\* The tables: a job has at most as many versions and attempts as claims.
WorkTables ==
    /\ job \in JobSchema /\ job.ver <= job.count
    /\ attempts \in Seq(AttemptSchema) /\ Len(attempts) <= job.count

WorkChecker ==
    /\ faults \subseteq Work!Faults /\ due \in BOOLEAN /\ waiting \in {"kept", "lost"}
    /\ pc \in Concurrency \cup Recovery \cup Resilience \cup {"c_restore", "a_restore", "done"}
    /\ result \in [Work!Checks -> {"absent", "passed", "failed"}]
    /\ late \in BOOLEAN /\ doubled \in BOOLEAN

\* A check is recorded only on the way to the step that restores the workers.
WorkRecords ==
    /\ pc \in Concurrency => result[Reclaimed] = "absent"
    /\ pc \in Concurrency \cup {"c_restore"} \cup Recovery => result[RolledBack] = "absent"

WInv ==
    /\ WorkTables /\ worker \in [Work!Workers -> WorkerSchema]
    /\ WorkChecker /\ WorkRecords /\ Work!Restored

LEMMA WorkPhaseOf ==
    /\ \A s \in Concurrency \cup {"c_restore"} : Work!PhaseOf(s) = "concurrency"
    /\ \A s \in Recovery \cup {"a_restore"} : Work!PhaseOf(s) = "recovery"
    /\ \A s \in Resilience : Work!PhaseOf(s) = "resilience"
<1>1. /\ Work!StepsOf["concurrency"] = Concurrency \cup {"c_restore"}
      /\ Work!StepsOf["recovery"] = Recovery \cup {"a_restore"}
      /\ Work!StepsOf["resilience"] = Resilience
      BY DEF Work!StepsOf, Work!Phases, Concurrency, Recovery, Resilience
<1>2. /\ \A s \in Concurrency \cup {"c_restore"} : s \notin Recovery \cup {"a_restore"} /\ s \notin Resilience
      /\ \A s \in Recovery \cup {"a_restore"} : s \notin Resilience
      BY DEF Concurrency, Recovery, Resilience
<1> QED
    BY <1>1, <1>2 DEF Work!PhaseOf, Work!Phases

\* A worker's own step changes neither its container nor its failpoint.
LEMMA WorkAt ==
    ASSUME worker \in [Work!Workers -> WorkerSchema], NEW w \in Work!Workers,
           NEW at \in {"idle", "claimed", "acted"}, NEW ver \in 0..WorkerClaims,
           Work!At(w, at, ver)
    PROVE  /\ worker' \in [Work!Workers -> WorkerSchema]
           /\ \A v \in Work!Workers : worker'[v].up = worker[v].up /\ worker'[v].fp = worker[v].fp
<1>1. worker' = [worker EXCEPT ![w] = [worker[w] EXCEPT !.at = at, !.ver = ver]]
      BY DEF Work!At
<1> DEFINE r == [worker[w] EXCEPT !.at = at, !.ver = ver]
<1>2. r \in WorkerSchema /\ r.up = worker[w].up /\ r.fp = worker[w].fp
      BY DEF WorkerSchema
<1> HIDE DEF r
<1>3. worker' = [worker EXCEPT ![w] = r]
      BY <1>1 DEF r
<1> QED
    BY <1>2, <1>3

\* The end of the last attempt keeps the number of attempts.
LEMMA WorkAttempts ==
    ASSUME NEW s \in Seq(AttemptSchema), NEW st \in {"RUNNING", "STALE", "FAILED", "SUCCEEDED"}
    PROVE  /\ [s EXCEPT ![Len(s)].status = st] \in Seq(AttemptSchema)
           /\ Len([s EXCEPT ![Len(s)].status = st]) = Len(s)
<1> DEFINE t == [s EXCEPT ![Len(s)].status = st]
<1>1. s \in [1..Len(s) -> AttemptSchema] /\ Len(s) \in Nat
      OBVIOUS
<1>2. \A r \in AttemptSchema : [r EXCEPT !.status = st] \in AttemptSchema
      BY DEF AttemptSchema
<1>3. t = [i \in 1..Len(s) |-> IF i = Len(s) THEN [s[i] EXCEPT !.status = st] ELSE s[i]]
      BY <1>1
<1>4. t \in [1..Len(s) -> AttemptSchema]
      BY <1>1, <1>2, <1>3
<1> HIDE DEF t
<1>5. t \in Seq(AttemptSchema) /\ Len(t) = Len(s)
      BY <1>1, <1>4
<1> QED
    BY <1>5 DEF t

\* What the engine does to its tables and its workers leaves the checker where it is.
LEMMA WorkEngineKeeps ==
    ASSUME WInv, WorkTables', worker' \in [Work!Workers -> WorkerSchema],
           \A v \in Work!Workers : worker'[v].up = worker[v].up /\ worker'[v].fp = worker[v].fp,
           due' \in BOOLEAN, late' \in BOOLEAN, doubled' \in BOOLEAN,
           UNCHANGED <<faults, waiting, pc, result>>
    PROVE  WInv'
<1>1. WorkChecker' /\ WorkRecords'
      BY DEF WInv, WorkChecker, WorkRecords
<1>2. Work!Restored'
      BY DEF WInv, Work!Restored
<1> QED
    BY <1>1, <1>2 DEF WInv

LEMMA WorkClaimKeeps ==
    ASSUME WInv, NEW w \in Work!Workers, Work!Claim(w)
    PROVE  WInv'
<1> USE CheckersTypes
<1>1. /\ job \in JobSchema /\ job.ver <= job.count /\ attempts \in Seq(AttemptSchema)
      /\ Len(attempts) <= job.count /\ Len(attempts) \in Nat /\ WorkerClaims \in Nat
      BY DEF WInv, WorkTables
<1>2. PICK ver, exec, id :
         /\ ver \in {job.ver, job.ver + 1} /\ exec \in {job.exec, job.exec + 1}
         /\ id \in {job.id, job.id + 1} /\ job.count < WorkerClaims
         /\ job' = [job EXCEPT !.state = "LEASED", !.owner = w, !.ver = ver, !.exec = exec,
                               !.count = @ + 1, !.id = id]
         /\ attempts' = Append(Work!Settled, [ver |-> ver, status |-> "RUNNING", id |-> id, exec |-> exec])
         /\ Work!At(w, "claimed", ver)
      BY DEF Work!Claim
<1>3. due' = FALSE /\ UNCHANGED <<faults, waiting, pc, result, late, doubled>>
      BY DEF Work!Claim, Work!Unseen
<1>4. /\ job.ver \in Nat /\ job.count \in Nat /\ job.exec \in Nat /\ job.id \in Nat
      BY <1>1 DEF JobSchema
<1>5. ver \in 0..WorkerClaims /\ ver <= job.count + 1 /\ exec \in Nat /\ id \in Nat
      /\ job.count + 1 \in 0..WorkerClaims
  <2>1. /\ ver \in {job.ver, job.ver + 1} /\ exec \in {job.exec, job.exec + 1}
        /\ id \in {job.id, job.id + 1} /\ job.count < WorkerClaims
        BY <1>2
  <2>2. exec \in Nat /\ id \in Nat
        BY <1>4, <2>1
  <2>3. ver \in Nat /\ ver <= job.count + 1
        BY <1>1, <1>4, <2>1
  <2>4. job.count + 1 \in 0..WorkerClaims
        BY <1>1, <1>4, <2>1
  <2> QED  BY <1>1, <1>4, <2>1, <2>2, <2>3, <2>4
<1>6. job' \in JobSchema /\ job'.ver = ver /\ job'.count = job.count + 1
  <2> DEFINE n == job.count + 1
  <2>1. /\ job' = [job EXCEPT !.state = "LEASED", !.owner = w, !.ver = ver, !.exec = exec,
                             !.count = n, !.id = id]
        /\ n \in 0..WorkerClaims
        BY <1>2, <1>5
  <2> HIDE DEF n
  <2>2. job' \in JobSchema /\ job'.ver = ver /\ job'.count = n
        BY <1>1, <1>5, <2>1 DEF JobSchema
  <2> QED  BY <2>2 DEF n
<1>7. Work!Settled \in Seq(AttemptSchema) /\ Len(Work!Settled) = Len(attempts)
      BY <1>1, WorkAttempts DEF Work!Settled
<1>8. [ver |-> ver, status |-> "RUNNING", id |-> id, exec |-> exec] \in AttemptSchema
      BY <1>5 DEF AttemptSchema
<1>9. attempts' \in Seq(AttemptSchema) /\ Len(attempts') = Len(attempts) + 1
      BY <1>2, <1>7, <1>8
<1>10. WorkTables'
       BY <1>1, <1>4, <1>5, <1>6, <1>9 DEF WorkTables
<1>11. /\ worker' \in [Work!Workers -> WorkerSchema]
       /\ \A v \in Work!Workers : worker'[v].up = worker[v].up /\ worker'[v].fp = worker[v].fp
       BY <1>2, <1>5, WorkAt DEF WInv
<1>12. late \in BOOLEAN /\ doubled \in BOOLEAN
       BY DEF WInv, WorkChecker
<1> QED
    BY <1>3, <1>10, <1>11, <1>12, WorkEngineKeeps

\* The other steps of a worker, and the clock.
LEMMA WorkOthersKeep ==
    ASSUME WInv, \/ \E w \in Work!Workers :
                       Work!DoubleClaim(w) \/ Work!Act(w) \/ Work!Finish(w) \/ Work!Fail(w)
                 \/ Work!TimePasses
    PROVE  WInv'
<1> USE CheckersTypes
<1>1. /\ job \in JobSchema /\ job.ver <= job.count /\ attempts \in Seq(AttemptSchema)
      /\ Len(attempts) <= job.count /\ WorkerClaims \in Nat /\ due \in BOOLEAN
      /\ worker \in [Work!Workers -> WorkerSchema] /\ late \in BOOLEAN /\ doubled \in BOOLEAN
      BY DEF WInv, WorkTables, WorkChecker
<1>2. /\ job.ver \in 0..WorkerClaims /\ 0 \in 0..WorkerClaims
      /\ \A w \in Work!Workers : worker[w].ver \in 0..WorkerClaims
  <2>1. job.ver \in 0..WorkerClaims /\ 0 \in 0..WorkerClaims
        BY <1>1 DEF JobSchema
  <2>2. \A r \in WorkerSchema : r.ver \in 0..WorkerClaims
        BY DEF WorkerSchema
  <2> QED  BY <1>1, <2>1, <2>2
<1>3. \A s \in {"SUCCEEDED", "RETRY_WAIT", "DEAD"} :
         /\ [job EXCEPT !.state = s] \in JobSchema
         /\ [job EXCEPT !.state = s].ver = job.ver /\ [job EXCEPT !.state = s].count = job.count
      BY <1>1 DEF JobSchema
<1>4. ASSUME NEW st \in {"FAILED", "SUCCEEDED"}, Work!End(st)
      PROVE  attempts' \in Seq(AttemptSchema) /\ Len(attempts') = Len(attempts)
      BY <1>1, <1>4, WorkAttempts DEF Work!End
<1>5. UNCHANGED <<job, attempts>> => WorkTables'
      BY <1>1 DEF WorkTables
<1>6. ASSUME NEW w \in Work!Workers, Work!DoubleClaim(w)
      PROVE  WInv'
  <2>1. /\ Work!At(w, "claimed", job.ver) /\ doubled' = (doubled \/ pc \in Work!StepsOf["concurrency"])
        /\ UNCHANGED <<job, due, attempts, waiting, faults, pc, result, late>>
        BY <1>6 DEF Work!DoubleClaim, Work!engine
  <2>2. doubled' \in BOOLEAN
        BY <1>1, <2>1
  <2>3. /\ worker' \in [Work!Workers -> WorkerSchema]
        /\ \A v \in Work!Workers : worker'[v].up = worker[v].up /\ worker'[v].fp = worker[v].fp
        BY <1>1, <1>2, <2>1, WorkAt
  <2> QED  BY <1>1, <1>5, <2>1, <2>2, <2>3, WorkEngineKeeps
<1>7. ASSUME NEW w \in Work!Workers, Work!Act(w)
      PROVE  WInv'
  <2>1. /\ Work!At(w, "acted", worker[w].ver)
        /\ UNCHANGED <<job, due, attempts, waiting, late, faults, pc, result, doubled>>
        BY <1>7 DEF Work!Act, Work!Unseen
  <2>2. /\ worker' \in [Work!Workers -> WorkerSchema]
        /\ \A v \in Work!Workers : worker'[v].up = worker[v].up /\ worker'[v].fp = worker[v].fp
        BY <1>1, <1>2, <2>1, WorkAt
  <2> QED  BY <1>1, <1>5, <2>1, <2>2, WorkEngineKeeps
<1>8. ASSUME NEW w \in Work!Workers, Work!Finish(w)
      PROVE  WInv'
  <2>1. /\ Work!At(w, "idle", 0)
        /\ \/ job' = [job EXCEPT !.state = "SUCCEEDED"] /\ Work!End("SUCCEEDED")
           \/ UNCHANGED <<job, attempts>>
        /\ UNCHANGED <<due, waiting, late, faults, pc, result, doubled>>
        BY <1>8 DEF Work!Finish, Work!Unseen
  <2>2. /\ worker' \in [Work!Workers -> WorkerSchema]
        /\ \A v \in Work!Workers : worker'[v].up = worker[v].up /\ worker'[v].fp = worker[v].fp
        BY <1>1, <1>2, <2>1, WorkAt
  <2>3. WorkTables'
        BY <1>1, <1>3, <1>4, <1>5, <2>1 DEF WorkTables
  <2> QED  BY <1>1, <2>1, <2>2, <2>3, WorkEngineKeeps
<1>9. ASSUME NEW w \in Work!Workers, Work!Fail(w)
      PROVE  WInv'
  <2>1. /\ Work!At(w, "idle", 0) /\ due' = FALSE
        /\ \/ /\ \E s \in {"RETRY_WAIT", "DEAD"} : job' = [job EXCEPT !.state = s]
              /\ Work!End("FAILED")
           \/ UNCHANGED <<job, attempts>>
        /\ UNCHANGED <<waiting, late, faults, pc, result, doubled>>
        BY <1>9 DEF Work!Fail, Work!Unseen
  <2>2. /\ worker' \in [Work!Workers -> WorkerSchema]
        /\ \A v \in Work!Workers : worker'[v].up = worker[v].up /\ worker'[v].fp = worker[v].fp
        BY <1>1, <1>2, <2>1, WorkAt
  <2>3. WorkTables'
        BY <1>1, <1>3, <1>4, <1>5, <2>1 DEF WorkTables
  <2> QED  BY <1>1, <2>1, <2>2, <2>3, WorkEngineKeeps
<1>10. CASE Work!TimePasses
  <2>1. /\ due' = TRUE /\ late' = (late \/ Work!Hurried \/ Work!Alive)
        /\ UNCHANGED <<job, attempts, worker, waiting, faults, pc, result, doubled>>
        BY <1>10 DEF Work!TimePasses, Work!Unseen
  <2>2. late' \in BOOLEAN
        BY <1>1, <2>1
  <2> QED  BY <1>1, <1>5, <2>1, <2>2, WorkEngineKeeps
<1> QED
    BY <1>6, <1>7, <1>8, <1>9, <1>10

LEMMA WorkStart ==
    ASSUME NEW mode \in {"signal", "retry", "error", "invalid"}, Work!Start(mode)
    PROVE  WorkTables' /\ due' = FALSE /\ waiting' = waiting
<1> USE CheckersTypes
<1>1. \E j \in {[Work!NoJob EXCEPT !.state = "SUCCEEDED", !.count = 1, !.ver = 1],
                [Work!NoJob EXCEPT !.state = "READY", !.mode = mode]} : job' = j
      BY DEF Work!Start
<1>2. job' \in JobSchema /\ job'.ver <= job'.count /\ 0 <= job'.count
  <2>1. WorkerClaims \in Nat /\ WorkerClaims >= 1
        OBVIOUS
  <2>2. CASE job' = [Work!NoJob EXCEPT !.state = "SUCCEEDED", !.count = 1, !.ver = 1]
    <3>1. job' = [state |-> "SUCCEEDED", id |-> 0, exec |-> 0, owner |-> "none", ver |-> 1,
                  count |-> 1, mode |-> "signal"]
          BY <2>2 DEF Work!NoJob
    <3>2. 1 \in 0..WorkerClaims /\ 0 \in Nat
          BY <2>1
    <3> QED  BY <3>1, <3>2 DEF JobSchema
  <2>3. CASE job' = [Work!NoJob EXCEPT !.state = "READY", !.mode = mode]
    <3>1. job' = [state |-> "READY", id |-> 0, exec |-> 0, owner |-> "none", ver |-> 0,
                  count |-> 0, mode |-> mode]
          BY <2>3 DEF Work!NoJob
    <3>2. 0 \in 0..WorkerClaims /\ 0 \in Nat
          BY <2>1
    <3> QED  BY <3>1, <3>2 DEF JobSchema
  <2> QED  BY <1>1, <2>2, <2>3
<1>3. attempts' \in Seq(AttemptSchema) /\ Len(attempts') = 0
      BY DEF Work!Start
<1> QED
    BY <1>2, <1>3 DEF WorkTables, Work!Start

LEMMA ClaimBounds == WorkerClaims \in Nat /\ 0 \in 0..WorkerClaims /\ 1 \in 0..WorkerClaims
<1>1. WorkerClaims \in Nat /\ WorkerClaims # 0
      BY CheckersTypes
<1> QED
    BY <1>1

LEMMA WorkContainers ==
    ASSUME worker \in [Work!Workers -> WorkerSchema], NEW S,
           NEW r \in {Work!Stopped, Work!Started(""), Work!Started("after_job_claim"),
                      Work!Started("after_action_before_finish")},
           Work!Containers(S, r)
    PROVE  worker' \in [Work!Workers -> WorkerSchema]
<1>1. 0 \in 0..WorkerClaims
      BY ClaimBounds
<1>2. r \in WorkerSchema
  <2>1. Work!Stopped \in WorkerSchema
        BY <1>1 DEF WorkerSchema, Work!Stopped
  <2>2. \A fp \in {"", "after_job_claim", "after_action_before_finish"} :
           [up |-> TRUE, fp |-> fp, at |-> "idle", ver |-> 0] \in WorkerSchema
        BY <1>1 DEF WorkerSchema
  <2> QED  BY <2>1, <2>2 DEF Work!Started
<1>3. worker' = [w \in Work!Workers |-> IF w \in S THEN r ELSE worker[w]]
      BY DEF Work!Containers
<1>4. \A w \in Work!Workers : worker[w] \in WorkerSchema
      OBVIOUS
<1> QED
    BY <1>2, <1>3, <1>4, Zenon

\* A ContractError leaves the check of its phase failed.
LEMMA WorkContract ==
    ASSUME WInv, pc \in Concurrency \cup Recovery \cup Resilience,
           result' = [c \in Work!Checks |->
                        IF c \in Work!ChecksOf[Work!PhaseOf(pc)] /\ result[c] = "absent"
                        THEN "failed" ELSE result[c]],
           late' \in BOOLEAN, pc' = Work!Then[Work!PhaseOf(pc)],
           UNCHANGED <<faults, job, due, attempts, waiting, worker, doubled>>
    PROVE  WInv'
<1>1. WorkTables' /\ worker' \in [Work!Workers -> WorkerSchema]
      BY DEF WInv, WorkTables
<1>2. result \in [Work!Checks -> {"absent", "passed", "failed"}]
      BY DEF WInv, WorkChecker
<1>3. result' \in [Work!Checks -> {"absent", "passed", "failed"}]
      BY <1>2
<1>4. Reclaimed \in Work!Checks /\ RolledBack \in Work!Checks /\ Reclaimed # RolledBack
      BY DEF Reclaimed, RolledBack, Work!Checks
<1>5. \/ pc \in Concurrency /\ pc' = "a_start" /\ result'[Reclaimed] = "failed"
           /\ result'[RolledBack] = "absent"
      \/ pc \in Recovery /\ pc' = "r_start" /\ result'[RolledBack] = "failed"
      \/ pc \in Resilience /\ pc' = "done"
  <2>1. CASE pc \in Concurrency
    <3>1. Work!PhaseOf(pc) = "concurrency"
          BY <2>1, WorkPhaseOf
    <3>2. Work!ChecksOf["concurrency"] = {Reclaimed} /\ Work!Then["concurrency"] = "a_start"
          BY DEF Work!ChecksOf, Work!Phases, Reclaimed, Work!Then
    <3>3. result[Reclaimed] = "absent" /\ result[RolledBack] = "absent"
          BY <2>1 DEF WInv, WorkRecords
    <3> QED  BY <1>4, <2>1, <3>1, <3>2, <3>3
  <2>2. CASE pc \in Recovery
    <3>1. Work!PhaseOf(pc) = "recovery"
          BY <2>2, WorkPhaseOf
    <3>2. Work!ChecksOf["recovery"] = {RolledBack} /\ Work!Then["recovery"] = "r_start"
          BY DEF Work!ChecksOf, Work!Phases, RolledBack, Work!Then
    <3>3. result[RolledBack] = "absent"
          BY <2>2 DEF WInv, WorkRecords
    <3> QED  BY <1>4, <2>2, <3>1, <3>2, <3>3
  <2>3. CASE pc \in Resilience
    <3>1. Work!PhaseOf(pc) = "resilience"
          BY <2>3, WorkPhaseOf
    <3>2. Work!Then["resilience"] = "done"
          BY DEF Work!Then
    <3> QED  BY <2>3, <3>1, <3>2
  <2> QED  BY <2>1, <2>2, <2>3
<1>6. WorkChecker'
      BY <1>3, <1>5 DEF WInv, WorkChecker, Recovery, Resilience
<1>7. WorkRecords'
      BY <1>5 DEF WorkRecords, Concurrency, Recovery
<1>8. Work!Restored'
      BY <1>5 DEF Work!Restored, Reclaimed, RolledBack
<1> QED
    BY <1>1, <1>6, <1>7, <1>8 DEF WInv

\* A step within a phase that records nothing.
LEMMA WorkGoes ==
    ASSUME WInv, WorkTables', worker' \in [Work!Workers -> WorkerSchema], due' \in BOOLEAN,
           waiting' \in {"kept", "lost"}, UNCHANGED <<faults, result, late, doubled>>,
           \/ pc \in Concurrency /\ pc' \in Concurrency
           \/ pc \in Recovery /\ pc' \in Recovery \ {"a_start"}
           \/ pc \in Resilience /\ pc' \in Resilience \ {"r_start"}
    PROVE  WInv'
<1>1. WorkChecker'
      BY DEF WInv, WorkChecker
<1>2. WorkRecords'
      BY DEF WInv, WorkRecords, Concurrency, Recovery, Resilience
<1>3. Work!Restored'
      BY DEF Work!Restored, Concurrency, Recovery, Resilience
<1> QED
    BY <1>1, <1>2, <1>3 DEF WInv

LEMMA WorkConcurrencyKeeps ==
    ASSUME WInv,
           \/ Work!ConcurrencyStart \/ Work!ConcurrencyBoot \/ Work!ConcurrencyClaim
           \/ Work!ConcurrencyKill \/ Work!ConcurrencyLoser \/ Work!ConcurrencyReclaim
           \/ Work!ConcurrencyAttempts \/ Work!StaleFinish \/ Work!ConcurrencyRestart
           \/ Work!ConcurrencyVerdict
    PROVE  WInv'
<1> USE DEF Work!Go, Work!Keep, Work!engine
<1>1. /\ worker \in [Work!Workers -> WorkerSchema] /\ due \in BOOLEAN /\ waiting \in {"kept", "lost"}
      /\ late \in BOOLEAN /\ WorkTables
      BY DEF WInv, WorkChecker
<1>2. UNCHANGED <<job, attempts>> => WorkTables'
      BY <1>1 DEF WorkTables
<1>3. ASSUME NEW slow, pc \in Concurrency, Work!Contract(slow)
      PROVE  WInv'
  <2>1. late' \in BOOLEAN
        BY <1>1, <1>3 DEF Work!Contract
  <2> QED  BY <1>3, <2>1, WorkContract DEF Work!Contract
<1>4. ASSUME NEW p, pc \in Concurrency, Work!PollTimeout(p)
      PROVE  WInv'
      BY <1>3, <1>4 DEF Work!PollTimeout
<1>5. ASSUME pc \in Concurrency, pc' \in Concurrency, UNCHANGED <<job, due, attempts, waiting>>,
             worker' \in [Work!Workers -> WorkerSchema], UNCHANGED <<faults, result, late, doubled>>
      PROVE  WInv'
      BY <1>1, <1>2, <1>5, WorkGoes
<1>6. CASE Work!ConcurrencyStart
  <2>1. /\ pc = "c_start" /\ pc' = "c_boot" /\ Work!Containers(Work!Workers, Work!Stopped)
        /\ Work!Start("signal") /\ UNCHANGED <<faults, result, late, doubled>>
        BY <1>6 DEF Work!ConcurrencyStart
  <2>2. worker' \in [Work!Workers -> WorkerSchema]
        BY <1>1, <2>1, WorkContainers
  <2>3. WorkTables' /\ due' = FALSE /\ waiting' = waiting
        BY <2>1, WorkStart
  <2> QED  BY <1>1, <2>1, <2>2, <2>3, WorkGoes DEF Concurrency
<1>7. CASE Work!ConcurrencyBoot
  <2>1. CASE job.state = "READY"
    <3>1. /\ pc = "c_boot" /\ pc' = "c_claim"
          /\ Work!Containers(Work!Workers, Work!Started("after_job_claim"))
          /\ UNCHANGED <<job, due, attempts, waiting>> /\ UNCHANGED <<faults, result, late, doubled>>
          BY <1>7, <2>1 DEF Work!ConcurrencyBoot
    <3>2. worker' \in [Work!Workers -> WorkerSchema]
          BY <1>1, <3>1, WorkContainers
    <3> QED  BY <1>5, <3>1, <3>2 DEF Concurrency
  <2>2. CASE job.state # "READY"
    <3>1. pc = "c_boot" /\ Work!Contract(FALSE)
          BY <1>7, <2>2 DEF Work!ConcurrencyBoot
    <3>2. pc \in Concurrency
          BY <3>1 DEF Concurrency
    <3> QED  BY <1>3, <3>1, <3>2, Zenon
  <2> QED  BY <2>1, <2>2
<1>8. CASE Work!ConcurrencyClaim
  <2>1. CASE pc = "c_claim" /\ Work!PollTimeout(Work!FirstClaim)
        BY <1>4, <2>1 DEF Concurrency
  <2>2. CASE /\ pc = "c_claim" /\ pc' = "c_ack" /\ UNCHANGED <<job, due, attempts, waiting, worker>>
             /\ UNCHANGED <<faults, result, late, doubled>>
        BY <1>1, <1>5, <2>2 DEF Concurrency
  <2> QED  BY <1>8, <2>1, <2>2 DEF Work!ConcurrencyClaim
<1>9. ASSUME pc \in Concurrency, NEW w,
             (acks[w] > 1 /\ Work!Contract(FALSE)) \/ Work!PollTimeout(acks[w] > 0)
      PROVE  WInv'
      BY <1>3, <1>4, <1>9
<1>10. CASE Work!ConcurrencyKill
  <2>1. CASE \/ acks[seen.winner] > 1 /\ Work!Contract(FALSE)
             \/ Work!PollTimeout(acks[seen.winner] > 0)
        BY <1>9, <1>10, <2>1 DEF Work!ConcurrencyKill, Concurrency
  <2>2. CASE /\ pc = "c_ack" /\ Work!Containers({seen.winner}, Work!Stopped) /\ pc' = "c_loser"
             /\ UNCHANGED <<job, due, attempts, waiting>> /\ UNCHANGED <<faults, result, late, doubled>>
    <3>1. worker' \in [Work!Workers -> WorkerSchema]
          BY <1>1, <2>2, WorkContainers
    <3> QED  BY <1>5, <2>2, <3>1 DEF Concurrency
  <2> QED  BY <1>10, <2>1, <2>2 DEF Work!ConcurrencyKill, Work!wait_failpoint
<1>11. CASE Work!ConcurrencyLoser
  <2> DEFINE w == Work!Other(seen.winner)
  <2>1. CASE (acks[w] > 1 /\ Work!Contract(FALSE)) \/ Work!PollTimeout(acks[w] > 0)
        BY <1>9, <1>11, <2>1 DEF Work!ConcurrencyLoser, Concurrency
  <2>2. CASE /\ pc = "c_loser" /\ pc' = "c_reclaim" /\ UNCHANGED <<job, due, attempts, waiting, worker>>
             /\ UNCHANGED <<faults, result, late, doubled>>
        BY <1>1, <1>5, <2>2 DEF Concurrency
  <2> QED  BY <1>11, <2>1, <2>2 DEF Work!ConcurrencyLoser, Work!wait_failpoint
<1>12. CASE Work!ConcurrencyReclaim
  <2>1. CASE pc = "c_reclaim" /\ Work!PollTimeout(Work!SecondClaim)
        BY <1>4, <2>1 DEF Concurrency
  <2>2. CASE /\ pc = "c_reclaim" /\ pc' = "c_attempts"
             /\ UNCHANGED <<job, due, attempts, waiting, worker>> /\ UNCHANGED <<faults, result, late, doubled>>
        BY <1>1, <1>5, <2>2 DEF Concurrency
  <2> QED  BY <1>12, <2>1, <2>2 DEF Work!ConcurrencyReclaim
<1>13. CASE Work!ConcurrencyAttempts
  <2>1. /\ pc = "c_attempts" /\ pc' = "c_stale" /\ UNCHANGED <<job, due, attempts, waiting, worker>>
        /\ UNCHANGED <<faults, result, late, doubled>>
        BY <1>13 DEF Work!ConcurrencyAttempts
  <2> QED  BY <1>1, <1>5, <2>1 DEF Concurrency
<1>14. CASE Work!StaleFinish
  <2>1. /\ pc = "c_stale" /\ pc' = "c_restart"
        /\ \/ job' = [job EXCEPT !.state = "SUCCEEDED"] /\ Work!End("SUCCEEDED")
           \/ UNCHANGED <<job, attempts>>
        /\ UNCHANGED <<due, waiting, worker>> /\ UNCHANGED <<faults, result, late, doubled>>
        BY <1>14 DEF Work!StaleFinish
  <2>2. WorkTables'
    <3>1. CASE job' = [job EXCEPT !.state = "SUCCEEDED"] /\ Work!End("SUCCEEDED")
      <4>1. job' \in JobSchema /\ job'.ver = job.ver /\ job'.count = job.count
            BY <1>1, <3>1 DEF WorkTables, JobSchema
      <4>2. attempts' \in Seq(AttemptSchema) /\ Len(attempts') = Len(attempts)
            BY <1>1, <3>1, WorkAttempts DEF WorkTables, Work!End
      <4> QED  BY <1>1, <4>1, <4>2 DEF WorkTables
    <3> QED  BY <1>2, <2>1, <3>1
  <2> QED  BY <1>1, <2>1, <2>2, WorkGoes DEF Concurrency
<1>15. CASE Work!ConcurrencyRestart
  <2>1. /\ pc = "c_restart" /\ pc' = "c_final"
        /\ Work!Containers({Work!Other(seen.winner)}, Work!Started(""))
        /\ UNCHANGED <<job, due, attempts, waiting>> /\ UNCHANGED <<faults, result, late, doubled>>
        BY <1>15 DEF Work!ConcurrencyRestart
  <2>2. worker' \in [Work!Workers -> WorkerSchema]
        BY <1>1, <2>1, WorkContainers
  <2> QED  BY <1>5, <2>1, <2>2 DEF Concurrency
<1>16. CASE Work!ConcurrencyVerdict
  <2>1. CASE pc = "c_final" /\ Work!PollTimeout(job.state = "SUCCEEDED")
        BY <1>4, <2>1 DEF Concurrency
  <2>2. CASE /\ pc = "c_final" /\ pc' = "c_restore" /\ Work!Record(Reclaimed, Work!ConcurrencyValid)
             /\ UNCHANGED <<job, due, attempts, waiting, worker>> /\ UNCHANGED <<faults, late, doubled>>
    <3>1. /\ result' \in [Work!Checks -> {"absent", "passed", "failed"}]
          /\ result'[RolledBack] = result[RolledBack]
          BY <2>2 DEF WInv, WorkChecker, Work!Record, Work!Checks, Reclaimed, RolledBack
    <3>2. WorkChecker' /\ WorkRecords' /\ Work!Restored'
          BY <2>2, <3>1 DEF WInv, WorkChecker, WorkRecords, Concurrency, Recovery, Work!Restored
    <3> QED  BY <1>1, <1>2, <2>2, <3>2 DEF WInv
  <2> QED  BY <1>16, <2>1, <2>2 DEF Work!ConcurrencyVerdict, Reclaimed
<1> QED
    BY <1>6, <1>7, <1>8, <1>10, <1>11, <1>12, <1>13, <1>14, <1>15, <1>16

LEMMA WorkRecoveryKeeps ==
    ASSUME WInv,
           \/ Work!RecoveryStart \/ Work!RecoveryBoot \/ Work!RecoveryKill \/ Work!RecoveryCrash
           \/ Work!RecoveryVerdict \/ Work!Restore("c_restore") \/ Work!Restore("a_restore")
    PROVE  WInv'
<1> USE DEF Work!Go, Work!Keep, Work!engine
<1>1. /\ worker \in [Work!Workers -> WorkerSchema] /\ due \in BOOLEAN /\ waiting \in {"kept", "lost"}
      /\ late \in BOOLEAN /\ WorkTables
      BY DEF WInv, WorkChecker
<1>2. UNCHANGED <<job, attempts>> => WorkTables'
      BY <1>1 DEF WorkTables
<1>3. ASSUME NEW slow, pc \in Recovery, Work!Contract(slow)
      PROVE  WInv'
  <2>1. late' \in BOOLEAN
        BY <1>1, <1>3 DEF Work!Contract
  <2> QED  BY <1>3, <2>1, WorkContract DEF Work!Contract
<1>4. ASSUME NEW p, pc \in Recovery, Work!PollTimeout(p)
      PROVE  WInv'
      BY <1>3, <1>4 DEF Work!PollTimeout
<1>5. ASSUME pc \in Recovery, pc' \in Recovery \ {"a_start"}, UNCHANGED <<job, due, attempts, waiting>>,
             worker' \in [Work!Workers -> WorkerSchema], UNCHANGED <<faults, result, late, doubled>>
      PROVE  WInv'
      BY <1>1, <1>2, <1>5, WorkGoes
<1>6. CASE Work!RecoveryStart
  <2>1. /\ pc = "a_start" /\ pc' = "a_boot" /\ Work!Containers(Work!Workers, Work!Stopped)
        /\ Work!Start("signal") /\ UNCHANGED <<faults, result, late, doubled>>
        BY <1>6 DEF Work!RecoveryStart
  <2>2. worker' \in [Work!Workers -> WorkerSchema]
        BY <1>1, <2>1, WorkContainers
  <2>3. WorkTables' /\ due' = FALSE /\ waiting' = waiting
        BY <2>1, WorkStart
  <2> QED  BY <1>1, <2>1, <2>2, <2>3, WorkGoes DEF Recovery
<1>7. CASE Work!RecoveryBoot
  <2>1. /\ pc = "a_boot" /\ pc' = "a_ack"
        /\ Work!Containers({"worker-a"}, Work!Started("after_action_before_finish"))
        /\ UNCHANGED <<job, due, attempts, waiting>> /\ UNCHANGED <<faults, result, late, doubled>>
        BY <1>7 DEF Work!RecoveryBoot
  <2>2. worker' \in [Work!Workers -> WorkerSchema]
        BY <1>1, <2>1, WorkContainers
  <2> QED  BY <1>5, <2>1, <2>2 DEF Recovery
<1>8. CASE Work!RecoveryKill
  <2>1. CASE pc = "a_ack" /\ Work!Contract(FALSE)
    <3>1. pc \in Recovery
          BY <2>1 DEF Recovery
    <3> QED  BY <1>3, <2>1, <3>1, Zenon
  <2>2. CASE pc = "a_ack" /\ Work!PollTimeout(acks["worker-a"] > 0)
        BY <1>4, <2>2 DEF Recovery
  <2>3. CASE /\ pc = "a_ack" /\ Work!Containers({"worker-a"}, Work!Stopped) /\ pc' = "a_crash"
             /\ UNCHANGED <<job, due, attempts, waiting>> /\ UNCHANGED <<faults, result, late, doubled>>
    <3>1. worker' \in [Work!Workers -> WorkerSchema]
          BY <1>1, <2>3, WorkContainers
    <3> QED  BY <1>5, <2>3, <3>1 DEF Recovery
  <2> QED  BY <1>8, <2>1, <2>2, <2>3 DEF Work!RecoveryKill, Work!wait_failpoint
<1>9. CASE Work!RecoveryCrash
  <2>1. /\ pc = "a_crash" /\ pc' = "a_final" /\ Work!Containers({"worker-b"}, Work!Started(""))
        /\ UNCHANGED <<job, due, attempts, waiting>> /\ UNCHANGED <<faults, result, late, doubled>>
        BY <1>9 DEF Work!RecoveryCrash
  <2>2. worker' \in [Work!Workers -> WorkerSchema]
        BY <1>1, <2>1, WorkContainers
  <2> QED  BY <1>5, <2>1, <2>2 DEF Recovery
<1>10. CASE Work!RecoveryVerdict
  <2>1. CASE pc = "a_final" /\ Work!PollTimeout(job.state = "SUCCEEDED")
        BY <1>4, <2>1 DEF Recovery
  <2>2. CASE /\ pc = "a_final" /\ pc' = "a_restore" /\ Work!Record(RolledBack, Work!RecoveryValid)
             /\ UNCHANGED <<job, due, attempts, waiting, worker>> /\ UNCHANGED <<faults, late, doubled>>
    <3>1. result' \in [Work!Checks -> {"absent", "passed", "failed"}]
          BY <2>2 DEF WInv, WorkChecker, Work!Record, Work!Checks, RolledBack
    <3>2. WorkChecker' /\ WorkRecords' /\ Work!Restored'
          BY <2>2, <3>1 DEF WInv, WorkChecker, WorkRecords, Concurrency, Recovery, Work!Restored
    <3> QED  BY <1>1, <1>2, <2>2, <3>2 DEF WInv
  <2> QED  BY <1>10, <2>1, <2>2 DEF Work!RecoveryVerdict, RolledBack
<1>11. ASSUME NEW step \in {"c_restore", "a_restore"}, Work!Restore(step)
       PROVE  WInv'
  <2>1. /\ pc = step /\ pc' = Work!Then[Work!PhaseOf(step)]
        /\ Work!Containers(Work!Workers, Work!Started(""))
        /\ UNCHANGED <<job, due, attempts, waiting>> /\ UNCHANGED <<faults, result, late, doubled>>
        BY <1>11 DEF Work!Restore
  <2>2. \/ pc = "c_restore" /\ pc' = "a_start"
        \/ pc = "a_restore" /\ pc' = "r_start"
    <3>1. Work!Then["concurrency"] = "a_start" /\ Work!Then["recovery"] = "r_start"
          BY DEF Work!Then
    <3> QED  BY <2>1, <3>1, WorkPhaseOf
  <2>3. worker' \in [Work!Workers -> WorkerSchema]
        BY <1>1, <2>1, WorkContainers
  <2>4. \A w \in Work!Workers : worker'[w].up /\ worker'[w].fp = ""
        BY <2>1 DEF Work!Containers, Work!Started
  <2>5. WorkChecker' /\ WorkRecords' /\ Work!Restored'
        BY <2>1, <2>2, <2>4
        DEF WInv, WorkChecker, WorkRecords, Concurrency, Recovery, Resilience, Work!Restored
  <2> QED  BY <1>2, <2>1, <2>3, <2>5 DEF WInv
<1> QED
    BY <1>6, <1>7, <1>8, <1>9, <1>10, <1>11

LEMMA WorkResilienceKeeps ==
    ASSUME WInv,
           \/ Work!ResilienceStart \/ Work!ResilienceReady \/ Work!ResilienceRecreate
           \/ Work!ResilienceResumed \/ Work!ResilienceRetry \/ Work!ResilienceRetryWait
           \/ Work!ResilienceRetryRecreate \/ Work!ResilienceRetried \/ Work!ResilienceError
           \/ Work!ResilienceInvalid \/ Work!ResilienceVerdict
    PROVE  WInv'
<1> USE DEF Work!Go, Work!Keep, Work!engine
<1>1. /\ worker \in [Work!Workers -> WorkerSchema] /\ due \in BOOLEAN /\ waiting \in {"kept", "lost"}
      /\ late \in BOOLEAN /\ WorkTables
      BY DEF WInv, WorkChecker
<1>2. UNCHANGED <<job, attempts>> => WorkTables'
      BY <1>1 DEF WorkTables
<1>3. ASSUME NEW slow, pc \in Resilience, Work!Contract(slow)
      PROVE  WInv'
  <2>1. late' \in BOOLEAN
        BY <1>1, <1>3 DEF Work!Contract
  <2> QED  BY <1>3, <2>1, WorkContract DEF Work!Contract
<1>4. ASSUME NEW p, pc \in Resilience, Work!PollTimeout(p)
      PROVE  WInv'
      BY <1>3, <1>4 DEF Work!PollTimeout
<1>5. ASSUME pc \in Resilience, pc' \in Resilience \ {"r_start"}, UNCHANGED <<job, due, attempts>>,
             waiting' \in {"kept", "lost"}, worker' \in [Work!Workers -> WorkerSchema],
             UNCHANGED <<faults, result, late, doubled>>
      PROVE  WInv'
      BY <1>1, <1>2, <1>5, WorkGoes
<1>6. ASSUME NEW mode \in {"signal", "retry", "error", "invalid"}, Work!Start(mode),
             pc \in Resilience, pc' \in Resilience \ {"r_start"},
             worker' \in [Work!Workers -> WorkerSchema], UNCHANGED <<faults, result, late, doubled>>
      PROVE  WInv'
  <2>1. WorkTables' /\ due' = FALSE /\ waiting' = waiting
        BY <1>6, WorkStart
  <2> QED  BY <1>1, <1>6, <2>1, WorkGoes
<1>7. CASE Work!ResilienceStart
  <2>1. /\ pc = "r_start" /\ pc' = "r_wait" /\ Work!Start("signal") /\ worker' = worker
        /\ UNCHANGED <<faults, result, late, doubled>>
        BY <1>7 DEF Work!ResilienceStart
  <2> QED  BY <1>1, <1>6, <2>1 DEF Resilience
<1>8. CASE Work!ResilienceReady
  <2>1. CASE pc = "r_wait" /\ Work!PollTimeout(job.state = "SUCCEEDED")
        BY <1>4, <2>1 DEF Resilience
  <2>2. CASE /\ pc = "r_wait" /\ pc' = "r_ready" /\ Work!Containers(Work!Workers, Work!Stopped)
             /\ Work!Start("signal") /\ UNCHANGED <<faults, result, late, doubled>>
    <3>1. worker' \in [Work!Workers -> WorkerSchema]
          BY <1>1, <2>2, WorkContainers
    <3> QED  BY <1>6, <2>2, <3>1 DEF Resilience
  <2> QED  BY <1>8, <2>1, <2>2 DEF Work!ResilienceReady
<1>9. ASSUME Work!Recreate, pc \in Resilience, pc' \in Resilience \ {"r_start"},
             UNCHANGED <<faults, result, late, doubled>>
      PROVE  WInv'
  <2>1. worker' \in [Work!Workers -> WorkerSchema]
        BY <1>1, <1>9, WorkContainers DEF Work!Recreate
  <2>2. waiting' \in {"kept", "lost"} /\ UNCHANGED <<job, due, attempts>>
        BY <1>1, <1>9 DEF Work!Recreate
  <2> QED  BY <1>5, <1>9, <2>1, <2>2
<1>10. CASE Work!ResilienceRecreate
  <2>1. CASE pc = "r_ready" /\ Work!Contract(FALSE)
    <3>1. pc \in Resilience
          BY <2>1 DEF Resilience
    <3> QED  BY <1>3, <2>1, <3>1, Zenon
  <2>2. CASE /\ pc = "r_ready" /\ Work!Recreate /\ pc' = "r_resumed"
             /\ UNCHANGED <<faults, result, late, doubled>>
        BY <1>9, <2>2 DEF Resilience
  <2> QED  BY <1>10, <2>1, <2>2 DEF Work!ResilienceRecreate
<1>11. CASE Work!ResilienceResumed
  <2>1. CASE pc = "r_resumed" /\ Work!PollTimeout(job.state = "SUCCEEDED")
        BY <1>4, <2>1 DEF Resilience
  <2>2. CASE /\ pc = "r_resumed" /\ pc' = "r_retry" /\ UNCHANGED <<job, due, attempts, waiting, worker>>
             /\ UNCHANGED <<faults, result, late, doubled>>
        BY <1>1, <1>5, <2>2 DEF Resilience
  <2> QED  BY <1>11, <2>1, <2>2 DEF Work!ResilienceResumed
<1>12. CASE Work!ResilienceRetry
  <2>1. /\ pc = "r_retry" /\ pc' = "r_retrywait" /\ Work!Start("retry") /\ worker' = worker
        /\ UNCHANGED <<faults, result, late, doubled>>
        BY <1>12 DEF Work!ResilienceRetry
  <2> QED  BY <1>1, <1>6, <2>1 DEF Resilience
<1>13. CASE Work!ResilienceRetryWait
  <2>1. CASE pc = "r_retrywait" /\ Work!PollTimeout(job.state = "RETRY_WAIT")
        BY <1>4, <2>1 DEF Resilience
  <2>2. CASE /\ pc = "r_retrywait" /\ pc' = "r_recreate"
             /\ UNCHANGED <<job, due, attempts, waiting, worker>>
             /\ UNCHANGED <<faults, result, late, doubled>>
        BY <1>1, <1>5, <2>2 DEF Resilience
  <2> QED  BY <1>13, <2>1, <2>2 DEF Work!ResilienceRetryWait
<1>14. CASE Work!ResilienceRetryRecreate
  <2>1. /\ pc = "r_recreate" /\ pc' = "r_failed" /\ Work!Recreate
        /\ UNCHANGED <<faults, result, late, doubled>>
        BY <1>14 DEF Work!ResilienceRetryRecreate
  <2> QED  BY <1>9, <2>1 DEF Resilience
<1>15. ASSUME NEW step \in Resilience, NEW n, NEW mode \in {"", "error", "invalid"},
              NEW next \in Resilience \ {"r_start"}, Work!Terminal(step, n, mode, next)
       PROVE  WInv'
  <2>1. CASE pc = step /\ Work!PollTimeout(job.state = "DEAD")
        BY <1>4, <1>15, <2>1
  <2>2. CASE /\ pc = step /\ pc' = next /\ UNCHANGED worker /\ UNCHANGED <<faults, result, late, doubled>>
             /\ \/ UNCHANGED <<job, due, attempts, waiting>>
                \/ mode # "" /\ Work!Start(mode)
    <3>1. CASE UNCHANGED <<job, due, attempts, waiting>>
          BY <1>1, <1>5, <1>15, <2>2, <3>1
    <3>2. CASE mode # "" /\ Work!Start(mode)
          BY <1>1, <1>6, <1>15, <2>2, <3>2
    <3> QED  BY <2>2, <3>1, <3>2
  <2> QED  BY <1>15, <2>1, <2>2 DEF Work!Terminal
<1>16. CASE Work!ResilienceRetried \/ Work!ResilienceError \/ Work!ResilienceInvalid
       BY <1>15, <1>16
       DEF Work!ResilienceRetried, Work!ResilienceError, Work!ResilienceInvalid, Resilience
<1>17. CASE Work!ResilienceVerdict
  <2>1. /\ pc = "r_verdict" /\ pc' = "done" /\ UNCHANGED <<job, due, attempts, waiting, worker>>
        /\ UNCHANGED <<faults, late, doubled>>
        BY <1>17 DEF Work!ResilienceVerdict
  <2>2. result' \in [Work!Checks -> {"absent", "passed", "failed"}]
        BY <1>17 DEF Work!ResilienceVerdict, WInv, WorkChecker
  <2>3. WorkChecker' /\ WorkRecords' /\ Work!Restored'
        BY <2>1, <2>2 DEF WInv, WorkChecker, WorkRecords, Concurrency, Recovery, Work!Restored
  <2> QED  BY <1>1, <1>2, <2>1, <2>3 DEF WInv
<1> QED
    BY <1>7, <1>8, <1>10, <1>11, <1>12, <1>13, <1>14, <1>16, <1>17

\* The inductive invariant of the week 2 phases, and what follows from it.
LEMMA WorkInvariant ==
    /\ Work!Init => WInv
    /\ WInv /\ Work!Next => WInv'
    /\ WInv => Work!TypeOK /\ Work!Restored
<1>1. Work!Init => WInv
  <2> SUFFICES ASSUME Work!Init
               PROVE  WInv
      OBVIOUS
  <2>1. Work!NoJob \in JobSchema /\ Work!NoJob.ver = 0 /\ Work!NoJob.count = 0
    <3>1. 0 \in 0..WorkerClaims /\ 0 \in Nat
          BY ClaimBounds
    <3>2. Work!NoJob \in JobSchema
          BY <3>1 DEF Work!NoJob, JobSchema
    <3> QED  BY <3>2 DEF Work!NoJob
  <2>2. WorkTables
    <3>1. job = Work!NoJob /\ attempts = <<>>
          BY DEF Work!Init
    <3>2. <<>> \in Seq(AttemptSchema) /\ Len(<<>>) = 0
          OBVIOUS
    <3> QED  BY <2>1, <3>1, <3>2 DEF WorkTables
  <2>3. worker \in [Work!Workers -> WorkerSchema]
    <3>1. Work!Started("") \in WorkerSchema
          BY ClaimBounds DEF Work!Started, WorkerSchema
    <3> QED  BY <3>1 DEF Work!Init
  <2>4. WorkChecker
        BY DEF Work!Init, WorkChecker, Concurrency
  <2>5. WorkRecords /\ Work!Restored
        BY DEF Work!Init, WorkRecords, Work!Restored, Reclaimed, RolledBack, Work!Checks
  <2> QED  BY <2>2, <2>3, <2>4, <2>5 DEF WInv
<1>2. WInv /\ Work!Next => WInv'
      BY WorkClaimKeeps, WorkOthersKeep, WorkConcurrencyKeeps, WorkRecoveryKeeps, WorkResilienceKeeps
      DEF Work!Next, Work!Engine, Work!Checker
<1>3. WInv => Work!TypeOK
  <2> SUFFICES ASSUME WInv
               PROVE  Work!TypeOK
      OBVIOUS
  <2>1. /\ job.state \in {"none", "READY", "LEASED", "RETRY_WAIT", "SUCCEEDED", "DEAD"}
        /\ job.owner \in Work!Workers \cup {"none"} /\ job.ver \in Work!Rows /\ job.count \in Work!Rows
        BY DEF WInv, WorkTables, JobSchema, Work!Rows
  <2>2. \A i \in DOMAIN attempts :
           /\ attempts[i].ver \in Work!Rows
           /\ attempts[i].status \in {"RUNNING", "STALE", "FAILED", "SUCCEEDED"}
    <3>1. \A r \in AttemptSchema :
             r.ver \in Work!Rows /\ r.status \in {"RUNNING", "STALE", "FAILED", "SUCCEEDED"}
          BY DEF AttemptSchema, Work!Rows
    <3>2. \A i \in DOMAIN attempts : attempts[i] \in AttemptSchema
          BY DEF WInv, WorkTables
    <3> QED  BY <3>1, <3>2
  <2>3. Len(attempts) <= WorkerClaims
        BY <2>1, ClaimBounds DEF WInv, WorkTables, Work!Rows
  <2>4. \A w \in Work!Workers :
           /\ worker[w].at \in {"idle", "claimed", "acted"}
           /\ worker[w].fp \in {"", "after_job_claim", "after_action_before_finish"}
    <3>1. \A r \in WorkerSchema :
             /\ r.at \in {"idle", "claimed", "acted"}
             /\ r.fp \in {"", "after_job_claim", "after_action_before_finish"}
          BY DEF WorkerSchema
    <3> QED  BY <3>1 DEF WInv
  <2>5. pc \in (UNION {Work!StepsOf[p] : p \in Work!Phases}) \cup {"done"}
    <3>1. /\ Work!StepsOf["concurrency"] = Concurrency \cup {"c_restore"}
          /\ Work!StepsOf["recovery"] = Recovery \cup {"a_restore"}
          /\ Work!StepsOf["resilience"] = Resilience
          BY DEF Work!StepsOf, Work!Phases, Concurrency, Recovery, Resilience
    <3>2. \A s \in Concurrency \cup Recovery \cup Resilience \cup {"c_restore", "a_restore"} :
             \E p \in Work!Phases : s \in Work!StepsOf[p]
          BY <3>1 DEF Work!Phases
    <3>3. pc \in Concurrency \cup Recovery \cup Resilience \cup {"c_restore", "a_restore", "done"}
          BY DEF WInv, WorkChecker
    <3> QED  BY <3>2, <3>3
  <2> QED
      BY <2>1, <2>2, <2>3, <2>4, <2>5 DEF WInv, WorkChecker, Work!TypeOK
<1> QED
    BY <1>1, <1>2, <1>3 DEF WInv

-----------------------------------------------------------------------------
(* The phases execution and versioning of week 2 *)

ProcessSchema == [state : {"none", "RUNNING", "WAITING_SIGNAL", "WAITING_MANUAL", "COMPLETED", "FAILED"},
                  ver : 0..2, attempts : 0..2, effects : 0..2, dispatched : SUBSET {1, 2},
                  ended : BOOLEAN]

SignalRow(s) ==
    /\ s = [msg |-> s.msg, proc |-> s.proc, body |-> s.body, n |-> s.n, status |-> s.status]
    /\ s.proc \in Sign!Labels /\ s.status \in {"ACCEPTED", "APPLIED"}

SignTables ==
    /\ faults \subseteq Sign!Faults /\ active \in {{1}, {2}, {1, 2}}
    /\ proc \in [Sign!Labels -> ProcessSchema]
    /\ \A s \in signals : SignalRow(s)
    /\ up \in BOOLEAN

GInv ==
    /\ SignTables
    /\ pc \in Sign!Steps /\ late \in BOOLEAN
    /\ result \in [Sign!Checks -> {"absent", "passed", "failed"}]

LEMMA SignVersion == ASSUME active \in {{1}, {2}, {1, 2}}
                     PROVE  Sign!Version \in 0..2
<1>1. active \subseteq 1..2 /\ \E v \in active : \A u \in active : u <= v
      OBVIOUS
<1>2. (CHOOSE v \in active : \A u \in active : u <= v) \in active
      BY <1>1
<1> QED
    BY <1>1, <1>2 DEF Sign!Version

\* A process that starts.
LEMMA SignStarted ==
    ASSUME NEW v \in 0..2
    PROVE  [Sign!NoProcess EXCEPT !.state = "RUNNING", !.ver = v] \in ProcessSchema
<1>1. Sign!NoProcess \in ProcessSchema
  <2>1. 0 \in 0..2 /\ {} \in SUBSET {1, 2} /\ FALSE \in BOOLEAN
        OBVIOUS
  <2> QED  BY <2>1 DEF ProcessSchema, Sign!NoProcess
<1>2. \A r \in ProcessSchema : [r EXCEPT !.state = "RUNNING", !.ver = v] \in ProcessSchema
      BY DEF ProcessSchema
<1> QED
    BY <1>1, <1>2

LEMMA SignStartKeeps ==
    ASSUME SignTables, NEW l \in Sign!Labels, Sign!Start(l), faults' = faults
    PROVE  SignTables'
<1> DEFINE r == [Sign!NoProcess EXCEPT !.state = "RUNNING", !.ver = Sign!Version]
<1>1. r \in ProcessSchema
      BY SignVersion, SignStarted DEF SignTables
<1>2. proc' = [proc EXCEPT ![l] = r] /\ UNCHANGED <<active, signals, up>>
      BY DEF Sign!Start
<1> HIDE DEF r
<1> QED
    BY <1>1, <1>2 DEF SignTables, SignalRow

\* A worker's step.
LEMMA SignWorkKeeps ==
    ASSUME SignTables, NEW l \in Sign!Labels, Sign!Work(l)
    PROVE  SignTables'
<1>1. /\ proc[l] \in ProcessSchema /\ active \in {{1}, {2}, {1, 2}} /\ \A s \in signals : SignalRow(s)
      BY DEF SignTables
<1>2. Sign!Arrives(l) \in {"WAITING_SIGNAL", "WAITING_MANUAL", "COMPLETED", "FAILED"}
      BY DEF Sign!Arrives
<1>3. PICK st \in {"WAITING_SIGNAL", "WAITING_MANUAL", "COMPLETED", "FAILED"}, a \in 0..2, e \in 0..2,
           d \in SUBSET {1, 2}, b \in BOOLEAN :
         proc' = [proc EXCEPT ![l] = [proc[l] EXCEPT !.state = st, !.attempts = a, !.effects = e,
                                                     !.dispatched = d, !.ended = b]]
  <2> DEFINE apply == Sign!Arrives(l) = "WAITING_SIGNAL" /\ Sign!Stored(l) # {} /\ ~Sign!Has("early_ignored")
             st == IF apply THEN "COMPLETED" ELSE Sign!Arrives(l)
             a == IF l = "unknown" /\ Sign!Has("unknown_retried") THEN 2 ELSE 1
             e == IF l = "unknown" \/ Sign!Has("lost_effect") THEN 0
                  ELSE IF Sign!Has("double_effect") THEN 2 ELSE 1
             d == {IF Sign!Has("action_latest") THEN 2 ELSE 1}
             b == apply /\ ~Sign!Has("no_end")
  <2>1. proc' = [proc EXCEPT ![l] = [proc[l] EXCEPT !.state = st, !.attempts = a, !.effects = e,
                                                    !.dispatched = d, !.ended = b]]
        BY DEF Sign!Work
  <2>2. st \in {"WAITING_SIGNAL", "WAITING_MANUAL", "COMPLETED", "FAILED"}
        BY <1>2
  <2>3. a \in 0..2 /\ e \in 0..2
        OBVIOUS
  <2>4. d \in SUBSET {1, 2}
        OBVIOUS
  <2>5. b \in BOOLEAN
        OBVIOUS
  <2> HIDE DEF st, a, e, d, b
  <2> QED  BY <2>1, <2>2, <2>3, <2>4, <2>5
<1>4. [proc[l] EXCEPT !.state = st, !.attempts = a, !.effects = e, !.dispatched = d, !.ended = b]
         \in ProcessSchema
      BY <1>1 DEF ProcessSchema
<1>5. proc' \in [Sign!Labels -> ProcessSchema]
      BY <1>3, <1>4 DEF SignTables
<1>6. UNCHANGED <<faults, active, up>>
      BY DEF Sign!Work
<1>7. \A s \in signals' : SignalRow(s)
  <2>1. CASE signals' = signals
        BY <1>1, <2>1
  <2>2. CASE signals' = {IF s \in Sign!Stored(l) THEN [s EXCEPT !.status = "APPLIED"] ELSE s : s \in signals}
    <3>1. \A s \in signals : SignalRow([s EXCEPT !.status = "APPLIED"])
      <4> SUFFICES ASSUME NEW s \in signals
                   PROVE  SignalRow([s EXCEPT !.status = "APPLIED"])
          OBVIOUS
      <4>1. [s EXCEPT !.status = "APPLIED"]
              = [msg |-> s.msg, proc |-> s.proc, body |-> s.body, n |-> s.n, status |-> "APPLIED"]
            BY <1>1 DEF SignalRow
      <4> QED  BY <1>1, <4>1 DEF SignalRow
    <3> QED  BY <1>1, <2>2, <3>1
  <2> QED  BY <2>1, <2>2 DEF Sign!Work
<1> QED
    BY <1>5, <1>6, <1>7 DEF SignTables

\* accept_signal
LEMMA SignSignalKeeps ==
    ASSUME SignTables, NEW l \in Sign!Labels, NEW msg, NEW body, Sign!Signal(l, msg, body),
           faults' = faults
    PROVE  SignTables'
<1>1. /\ proc \in [Sign!Labels -> ProcessSchema] /\ proc[l] \in ProcessSchema
      /\ \A s \in signals : SignalRow(s)
      BY DEF SignTables
<1>2. UNCHANGED <<active, up>>
      BY DEF Sign!Signal
<1>3. proc' \in [Sign!Labels -> ProcessSchema]
  <2>1. PICK b \in BOOLEAN :
          proc' = proc \/ proc' = [proc EXCEPT ![l] = [proc[l] EXCEPT !.state = "COMPLETED", !.ended = b]]
        BY DEF Sign!Signal, Sign!Has
  <2>2. [proc[l] EXCEPT !.state = "COMPLETED", !.ended = b] \in ProcessSchema
        BY <1>1 DEF ProcessSchema
  <2> QED  BY <1>1, <2>1, <2>2
<1>4. \A s \in signals' : SignalRow(s)
  <2>1. PICK st \in {"ACCEPTED", "APPLIED"} :
          \/ signals' = signals
          \/ \E k : signals' = signals \cup
                {[msg |-> msg, proc |-> l, body |-> body, n |-> k, status |-> st]}
        BY DEF Sign!Signal
  <2>2. ASSUME NEW n
        PROVE  SignalRow([msg |-> msg, proc |-> l, body |-> body, n |-> n, status |-> st])
    <3> DEFINE r == [msg |-> msg, proc |-> l, body |-> body, n |-> n, status |-> st]
    <3>1. r.msg = msg /\ r.proc = l /\ r.body = body /\ r.n = n /\ r.status = st
          OBVIOUS
    <3>2. r = [msg |-> r.msg, proc |-> r.proc, body |-> r.body, n |-> r.n, status |-> r.status]
          BY <3>1
    <3> QED  BY <3>1, <3>2 DEF SignalRow
  <2> QED  BY <1>1, <2>1, <2>2
<1> QED
    BY <1>2, <1>3, <1>4 DEF SignTables

\* The checks are recorded with a verdict.
LEMMA SignRecords ==
    ASSUME GInv, NEW c, NEW b, Sign!Record(c, b)
    PROVE  result' \in [Sign!Checks -> {"absent", "passed", "failed"}]
    BY DEF GInv, Sign!Record

LEMMA SignChecksKeep ==
    ASSUME GInv, Sign!Checker
    PROVE  GInv'
<1> USE DEF Sign!Go, Sign!Keep, Sign!engine
<1>1. /\ SignTables /\ late \in BOOLEAN /\ result \in [Sign!Checks -> {"absent", "passed", "failed"}]
      BY DEF GInv
<1>2. UNCHANGED <<faults, active, proc, signals, up>> => SignTables'
      BY <1>1 DEF SignTables, SignalRow
<1>3. ASSUME NEW slow, Sign!Contract(slow)
      PROVE  GInv'
  <2>1. late' \in BOOLEAN /\ UNCHANGED <<faults, active, proc, signals, up>>
        BY <1>1, <1>3 DEF Sign!Contract
  <2>2. result' \in [Sign!Checks -> {"absent", "passed", "failed"}]
        BY <1>1, <1>3 DEF Sign!Contract
  <2>3. pc' \in Sign!Steps
        BY <1>3 DEF Sign!Contract, Sign!Steps
  <2> QED  BY <1>2, <2>1, <2>2, <2>3 DEF GInv
<1>4. ASSUME NEW p, Sign!PollTimeout(p)
      PROVE  GInv'
      BY <1>3, <1>4 DEF Sign!PollTimeout
<1>5. ASSUME SignTables', pc' \in Sign!Steps, UNCHANGED <<result, late>>
      PROVE  GInv'
      BY <1>1, <1>5 DEF GInv
<1>6. ASSUME UNCHANGED <<active, proc, signals, up, faults, late>>, pc' \in Sign!Steps,
             NEW c, NEW b, Sign!Record(c, b)
      PROVE  GInv'
      BY <1>1, <1>2, <1>6, SignRecords DEF GInv
<1>7. CASE \/ Sign!ExecutionStart \/ Sign!ExecutionManual \/ Sign!VersioningUnknown
  <2>1. /\ \E l \in {"signal", "manual", "unknown"} : Sign!Start(l)
        /\ UNCHANGED <<faults, result, late>> /\ pc' \in Sign!Steps
        BY <1>7 DEF Sign!ExecutionStart, Sign!ExecutionManual, Sign!VersioningUnknown, Sign!Steps
  <2>2. SignTables'
        BY <1>1, <2>1, SignStartKeeps DEF Sign!Labels
  <2> QED  BY <1>5, <2>1, <2>2
<1>8. CASE \/ Sign!ExecutionSignal \/ Sign!ExecutionRepeat \/ Sign!ExecutionChanged
           \/ Sign!ExecutionEarlySignal
  <2>1. /\ \E l \in {"signal", "early"}, msg \in {"m1", "m2"}, body \in {"body", "changed"} :
              Sign!Signal(l, msg, body)
        /\ UNCHANGED <<faults, result, late>> /\ pc' \in Sign!Steps
        BY <1>8 DEF Sign!ExecutionSignal, Sign!ExecutionRepeat, Sign!ExecutionChanged,
           Sign!ExecutionEarlySignal, Sign!Unchanging, Sign!Steps
  <2>2. SignTables'
        BY <1>1, <2>1, SignSignalKeeps DEF Sign!Labels
  <2> QED  BY <1>5, <2>1, <2>2
<1>9. CASE Sign!ExecutionElsewhere
  <2>1. /\ Sign!Signal("signal", "m2", "body") /\ UNCHANGED <<faults, late>> /\ pc' = "e_manual"
        /\ \E b : Sign!Record("signal-idempotency-and-history", b)
        BY <1>9 DEF Sign!ExecutionElsewhere
  <2>2. SignTables'
        BY <1>1, <2>1, SignSignalKeeps DEF Sign!Labels
  <2> QED  BY <1>1, <2>1, <2>2, SignRecords DEF GInv, Sign!Steps
<1>10. CASE \/ Sign!ExecutionWaiting \/ Sign!ExecutionCompleted \/ Sign!ExecutionApplied
            \/ Sign!VersioningWaiting \/ Sign!VersioningRepeat
  <2>1. \/ /\ UNCHANGED <<faults, active, proc, signals, up>> /\ UNCHANGED <<result, late>>
           /\ pc' \in Sign!Steps
        \/ \E p : Sign!PollTimeout(p)
        BY <1>10 DEF Sign!ExecutionWaiting, Sign!ExecutionCompleted, Sign!ExecutionApplied,
           Sign!VersioningWaiting, Sign!VersioningRepeat, Sign!Steps
  <2> QED  BY <1>2, <1>4, <1>5, <2>1
<1>11. CASE Sign!ExecutionRecord \/ Sign!ExecutionManualWait \/ Sign!ExecutionViews \/ Sign!VersioningRecord
  <2>1. \/ /\ UNCHANGED <<active, proc, signals, up, faults, late>> /\ pc' \in Sign!Steps
           /\ \E c, b : Sign!Record(c, b)
        \/ \E p : Sign!PollTimeout(p)
        BY <1>11 DEF Sign!ExecutionRecord, Sign!ExecutionManualWait, Sign!ExecutionViews,
           Sign!VersioningRecord, Sign!Steps
  <2> QED  BY <1>4, <1>6, <2>1
<1>12. CASE Sign!ExecutionEarly
  <2> DEFINE r == [Sign!NoProcess EXCEPT !.state = "RUNNING", !.ver = Sign!Version]
  <2>1. /\ pc' = "e_stored" /\ up' = FALSE /\ proc' = [proc EXCEPT !["early"] = r]
        /\ UNCHANGED <<active, signals, faults, result, late>>
        BY <1>12 DEF Sign!ExecutionEarly
  <2>2. r \in ProcessSchema
        BY <1>1, SignVersion, SignStarted DEF SignTables
  <2> HIDE DEF r
  <2>3. SignTables'
        BY <1>1, <2>1, <2>2 DEF SignTables, SignalRow, Sign!Labels
  <2> QED  BY <1>5, <2>1, <2>3 DEF Sign!Steps
<1>13. CASE Sign!ExecutionResume
  <2>1. pc' = "e_applied" /\ up' = TRUE /\ UNCHANGED <<active, proc, signals, faults, result, late>>
        BY <1>13 DEF Sign!ExecutionResume
  <2>2. SignTables'
        BY <1>1, <2>1 DEF SignTables, SignalRow
  <2> QED  BY <1>5, <2>1, <2>2 DEF Sign!Steps
<1>14. CASE Sign!VersioningPublish
  <2>1. /\ pc' = "v_waiting" /\ UNCHANGED <<signals, up, faults, result, late>>
        /\ active' \in {{1, 2}, {2}}
        BY <1>14 DEF Sign!VersioningPublish
  <2>2. PICK ver \in {1, 2} :
          proc' = [l \in Sign!Labels |->
                     IF l = "v2" THEN [Sign!NoProcess EXCEPT !.state = "RUNNING", !.ver = ver]
                     ELSE IF Sign!Has("unpinned") /\ proc[l].ver = 1 THEN [proc[l] EXCEPT !.ver = 2]
                     ELSE proc[l]]
        BY <1>14 DEF Sign!VersioningPublish
  <2>3. [Sign!NoProcess EXCEPT !.state = "RUNNING", !.ver = ver] \in ProcessSchema
    <3>1. ver \in 0..2
          OBVIOUS
    <3> QED  BY <3>1, SignStarted
  <2>4. \A q \in ProcessSchema : [q EXCEPT !.ver = 2] \in ProcessSchema
        BY DEF ProcessSchema
  <2>5. proc' \in [Sign!Labels -> ProcessSchema]
    <3>1. \A l \in Sign!Labels : proc[l] \in ProcessSchema
          BY <1>1 DEF SignTables
    <3> DEFINE f(l) == IF l = "v2" THEN [Sign!NoProcess EXCEPT !.state = "RUNNING", !.ver = ver]
                       ELSE IF Sign!Has("unpinned") /\ proc[l].ver = 1 THEN [proc[l] EXCEPT !.ver = 2]
                       ELSE proc[l]
    <3>2. \A l \in Sign!Labels : f(l) \in ProcessSchema
          BY <2>3, <2>4, <3>1
    <3>3. proc' = [l \in Sign!Labels |-> f(l)]
          BY <2>2
    <3> HIDE DEF f
    <3> QED  BY <3>2, <3>3
  <2>6. SignTables'
        BY <1>1, <2>1, <2>5 DEF SignTables, SignalRow
  <2> QED  BY <1>5, <2>1, <2>6 DEF Sign!Steps
<1>15. CASE Sign!VersioningFailed
  <2>1. CASE \E p : Sign!PollTimeout(p)
        BY <1>4, <2>1
  <2>2. CASE /\ pc' = "done" /\ UNCHANGED <<active, proc, signals, up, faults, late>>
             /\ \/ result' = result
                \/ result' = [result EXCEPT !["version-pinning-and-start-idempotency"] = "failed"]
    <3>1. result' \in [Sign!Checks -> {"absent", "passed", "failed"}]
          BY <1>1, <2>2
    <3> QED  BY <1>1, <1>2, <2>2, <3>1 DEF GInv, Sign!Steps
  <2> QED  BY <1>15, <2>1, <2>2 DEF Sign!VersioningFailed
<1>16. CASE Sign!StartRefused
  <2>1. Sign!Contract(FALSE)
        BY <1>16 DEF Sign!StartRefused
  <2> QED  BY <1>3, <2>1, Zenon
<1> QED
    BY <1>7, <1>8, <1>9, <1>10, <1>11, <1>12, <1>13, <1>14, <1>15, <1>16 DEF Sign!Checker

LEMMA SignInvariant ==
    /\ Sign!Init => GInv
    /\ GInv /\ Sign!Next => GInv'
    /\ GInv => Sign!TypeOK
<1>1. Sign!Init => GInv
  <2> SUFFICES ASSUME Sign!Init
               PROVE  GInv
      OBVIOUS
  <2>1. Sign!NoProcess \in ProcessSchema
    <3>1. 0 \in 0..2 /\ {} \in SUBSET {1, 2} /\ FALSE \in BOOLEAN
          OBVIOUS
    <3> QED  BY <3>1 DEF ProcessSchema, Sign!NoProcess
  <2>2. proc \in [Sign!Labels -> ProcessSchema]
        BY <2>1 DEF Sign!Init
  <2>3. SignTables
        BY <2>2 DEF Sign!Init, SignTables
  <2> QED  BY <2>3 DEF GInv, Sign!Init, Sign!Steps
<1>2. GInv /\ Sign!Next => GInv'
  <2> SUFFICES ASSUME GInv, Sign!Next
               PROVE  GInv'
      OBVIOUS
  <2>1. ASSUME NEW l \in Sign!Labels, Sign!Work(l)
        PROVE  GInv'
    <3>1. SignTables'
          BY <2>1, SignWorkKeeps DEF GInv
    <3> QED  BY <2>1, <3>1 DEF GInv, Sign!Work
  <2> QED  BY <2>1, SignChecksKeep DEF Sign!Next, Sign!Engine
<1>3. GInv => Sign!TypeOK
  <2> SUFFICES ASSUME GInv
               PROVE  Sign!TypeOK
      OBVIOUS
  <2>1. \A r \in ProcessSchema : r.state \in {"none", "RUNNING", "WAITING_SIGNAL", "WAITING_MANUAL",
                                              "COMPLETED", "FAILED"}
        BY DEF ProcessSchema
  <2>2. \A s \in signals : s.status \in {"ACCEPTED", "APPLIED"} /\ s.proc \in Sign!Labels
        BY DEF GInv, SignTables, SignalRow
  <2>3. active \subseteq {1, 2}
        BY DEF GInv, SignTables
  <2> QED  BY <2>1, <2>2, <2>3 DEF GInv, SignTables, Sign!TypeOK
<1> QED
    BY <1>1, <1>2, <1>3

-----------------------------------------------------------------------------
(* The delivery, receipt, review and restart scenarios of week 4 *)

\* The steps up to a check, in the order of the checker.
ToOutbox == {"p_stop", "p_outbox"}
ToReceipts == ToOutbox \cup {"p_receipts"}
ToEvidence == ToReceipts \cup {"p_start", "p_completed", "p_evidence"}
ToWrong == ToEvidence \cup {"a_stop", "a_wrong"}
ToCalls == ToWrong \cup {"a_calls"}
ToRejected == ToCalls \cup {"a_rejected"}
ToAudit == ToRejected \cup {"a_start", "a_sentinel", "a_audit"}
ToRule == ToAudit \cup {"v_auto", "v_rule"}
ToDecide == ToRule \cup {"v_waits", "v_decide"}
ToStop == ToDecide \cup {"v_completed", "n_stop"}
ToApplied == ToStop \cup {"n_callback", "n_pending", "n_up", "n_applied"}
ToKept == ToApplied \cup {"s_down", "s_up", "s_kept"}
ToReplay == ToKept \cup {"s_replay"}

\* A scenario that is past these steps, and has not failed.
Past(steps) == pc \notin steps \cup {"done"} \/ verdict = "passed"

\* The faults a check has excluded when the scenario is past it.
ReceiptShown ==
    /\ Past(ToReceipts) => faults \cap {"unsigned_stored", "invalid_stored"} = {}
    /\ Past(ToEvidence) => "pays_twice" \notin faults
    /\ Past(ToWrong) => "capability_ignored" \notin faults
    /\ Past(ToCalls) => faults \cap {"repeat_new", "conflict_stored"} = {}
    /\ Past(ToRejected) => faults \cap {"repeat_row", "outcome_ignored"} = {}
    /\ Past(ToAudit) => "never_resumes" \notin faults
    /\ Past(ToRule) => "limit_ignored" \notin faults
    /\ Past(ToDecide) => faults \cap {"decision_repeats", "decision_changes"} = {}
    /\ Past(ToApplied) => "inbox_forgets" \notin faults
    /\ Past(ToKept) => "state_lost" \notin faults
    /\ Past(ToReplay) => "replay_writes" \notin faults
    /\ verdict = "passed" => "stalled_writes" \notin faults

\* What a fault of the candidate does to its rows as long as it is not seen.
ReceiptTraces ==
    /\ "pays_twice" \in faults => \A o \in Rece!Ops : paid[o] # 1
    /\ "never_resumes" \in faults =>
          /\ \A o \in Rece!Ops \ {"provider"} : paid[o] = 0
          /\ \A d \in {"a", "b"} : hand[d] \in {"none", "provider"}
    /\ "outcome_ignored" \in faults => \A o \in Rece!Ops : op[o] # "REJECTED"
    /\ "limit_ignored" \in faults => \A x \in decided : x[1] # "auto"
    /\ "repeat_row" \in faults /\ pc = "a_rejected" =>
          \A n \in 1..2 : \E r \in inbox : r.msg = "adapter" /\ r.copy = n
    /\ "inbox_forgets" \in faults /\ pc = "n_applied" =>
          op["recovery"] # "REJECTED" /\ \A r \in inbox : r.msg = "recovery" => r.outcome = "COMPLETED"
    /\ "state_lost" \in faults /\ pc = "s_kept" => \A o \in Rece!Ops : op[o] = "none"

\* What runs and what is there at the steps of the checker.
ReceiptSteps ==
    /\ verdict # "none" <=> pc = "done"
    /\ pc \in ToStop => op["recovery"] = "none"
    /\ pc \in {"n_callback", "n_pending", "n_up"} =>
          reconciling = FALSE /\ op["recovery"] \in {"SUBMITTED", "WAITING_SIGNAL"}
    /\ pc \in (ToApplied \ {"p_stop"}) \cup {"s_down", "s_up"} => op["provider"] # "none"
    /\ pc \in {"s_up", "s_kept"} => before.op["provider"] # "none"
    /\ before.extra = 0 /\ (pc # "done" => extra = 0)

\* A delivery that reached the provider too early is seen by the audit after it.
ReceiptEarly ==
    /\ early \subseteq {"provider", "adapter"}
    /\ "provider" \in early => /\ pc \in {"p_outbox", "done"} /\ verdict # "passed"
                               /\ pc = "p_outbox" => paid["provider"] > 0
    /\ "adapter" \in early =>
          /\ pc \in {"a_wrong", "a_calls", "a_rejected", "a_start", "a_sentinel", "a_audit", "done"}
          /\ verdict # "passed" /\ (pc # "done" => paid["adapter"] > 0)

CInv == Rece!TypeOK /\ ReceiptShown /\ ReceiptTraces /\ ReceiptSteps /\ ReceiptEarly

OpStates == {"none", "SUBMITTED", "WAITING_SIGNAL", "WAITING_MANUAL", "DECIDED", "COMPLETED", "REJECTED"}

\* A step that leaves the checker, its faults and its verdict alone shows nothing new.
LEMMA ReceiptUnseen ==
    ASSUME ReceiptShown, UNCHANGED <<faults, pc, verdict>>
    PROVE  ReceiptShown'
    BY DEF ReceiptShown, Past

\* An operation goes on.
LEMMA ReceiptOpMoves ==
    ASSUME CInv, NEW o \in Rece!Ops, NEW s \in OpStates \ {"none"}, op' = [op EXCEPT ![o] = s],
           op[o] # "none",
           s = "REJECTED" => "outcome_ignored" \notin faults,
           o = "recovery" => /\ pc \in {"n_callback", "n_pending", "n_up"} => s = "WAITING_SIGNAL"
                             /\ s = "REJECTED" => ~("inbox_forgets" \in faults /\ pc = "n_applied"),
           inbox' \subseteq Rece!Message,
           \A r \in inbox' : \E q \in inbox : q.msg = r.msg /\ q.outcome = r.outcome,
           \A q \in inbox : \E r \in inbox' : q.msg = r.msg /\ q.copy = r.copy,
           decided' \subseteq Rece!Reviewed \X {"LIMIT_RULE", "MANUAL"} \X {"APPROVED", "REJECTED"},
           "limit_ignored" \in faults => decided' = decided,
           outbox' \in [Rece!Ops -> {"none", "PENDING", "LEASED", "DELIVERED", "CONFIRMED"}],
           UNCHANGED <<faults, pc, before, verdict, late, early, paid, extra, hand, dispatching,
                       reconciling>>
    PROVE  CInv'
<1>1. /\ op \in [Rece!Ops -> OpStates] /\ {"recovery", "provider"} \subseteq Rece!Ops
      BY DEF CInv, Rece!TypeOK, OpStates, Rece!Ops, Rece!Paying
<1>2. /\ op' \in [Rece!Ops -> OpStates]
      /\ \A x \in Rece!Ops : op'[x] = IF x = o THEN s ELSE op[x]
      BY <1>1
<1>3. Rece!TypeOK'
      BY <1>2 DEF CInv, Rece!TypeOK, OpStates
<1>4. ReceiptShown'
      BY ReceiptUnseen DEF CInv
<1>5. ReceiptTraces'
  <2>1. /\ "pays_twice" \in faults => \A x \in Rece!Ops : paid[x] # 1
        /\ "never_resumes" \in faults =>
             /\ \A x \in Rece!Ops \ {"provider"} : paid[x] = 0
             /\ \A d \in {"a", "b"} : hand[d] \in {"none", "provider"}
        /\ "limit_ignored" \in faults => \A x \in decided : x[1] # "auto"
        BY DEF CInv, ReceiptTraces
  <2>2. "outcome_ignored" \in faults => \A x \in Rece!Ops : op'[x] # "REJECTED"
        BY <1>2 DEF CInv, ReceiptTraces
  <2>3. "repeat_row" \in faults /\ pc = "a_rejected" =>
          \A n \in 1..2 : \E r \in inbox' : r.msg = "adapter" /\ r.copy = n
        BY DEF CInv, ReceiptTraces
  <2>4. "inbox_forgets" \in faults /\ pc = "n_applied" =>
          op'["recovery"] # "REJECTED" /\ \A r \in inbox' : r.msg = "recovery" => r.outcome = "COMPLETED"
        BY <1>1, <1>2 DEF CInv, ReceiptTraces
  <2>5. "state_lost" \in faults /\ pc = "s_kept" => FALSE
        BY DEF CInv, ReceiptTraces
  <2> QED  BY <2>1, <2>2, <2>3, <2>4, <2>5 DEF ReceiptTraces
<1>6. ReceiptSteps'
  <2>1. pc \in ToStop => op'["recovery"] = "none"
        BY <1>1, <1>2 DEF CInv, ReceiptSteps
  <2>2. pc \in {"n_callback", "n_pending", "n_up"} => op'["recovery"] \in {"SUBMITTED", "WAITING_SIGNAL"}
        BY <1>1, <1>2 DEF CInv, ReceiptSteps
  <2>3. op["provider"] # "none" => op'["provider"] # "none"
        BY <1>1, <1>2
  <2> QED  BY <2>1, <2>2, <2>3 DEF CInv, ReceiptSteps
<1>7. ReceiptEarly'
      BY DEF CInv, ReceiptEarly
<1> QED
    BY <1>3, <1>4, <1>5, <1>6, <1>7 DEF CInv

\* The steps of the candidate that move an operation.
LEMMA ReceiptProcessKeeps ==
    ASSUME CInv, NEW o \in Rece!Ops, Rece!Prepare(o) \/ Rece!Limit(o) \/ Rece!Complete(o)
    PROVE  CInv'
<1> USE DEF Rece!Checking, Rece!Has
<1>1. /\ op \in [Rece!Ops -> OpStates] /\ inbox \subseteq Rece!Message
      /\ outbox \in [Rece!Ops -> {"none", "PENDING", "LEASED", "DELIVERED", "CONFIRMED"}]
      /\ decided \subseteq Rece!Reviewed \X {"LIMIT_RULE", "MANUAL"} \X {"APPROVED", "REJECTED"}
      BY DEF CInv, Rece!TypeOK, OpStates
<1>2. pc \in {"n_callback", "n_pending", "n_up"} => op["recovery"] \in {"SUBMITTED", "WAITING_SIGNAL"}
      BY DEF CInv, ReceiptSteps
<1>3. CASE Rece!Prepare(o)
  <2>1. /\ op[o] = "SUBMITTED" /\ op' = [op EXCEPT ![o] = "WAITING_SIGNAL"]
        /\ outbox' = [outbox EXCEPT ![o] = "PENDING"]
        /\ UNCHANGED <<faults, pc, before, verdict, late, early, paid, inbox, decided, extra, hand,
                       dispatching, reconciling>>
        BY <1>3 DEF Rece!Prepare
  <2>2. outbox' \in [Rece!Ops -> {"none", "PENDING", "LEASED", "DELIVERED", "CONFIRMED"}]
        BY <1>1, <2>1
  <2>3. "WAITING_SIGNAL" \in OpStates \ {"none"}
        BY DEF OpStates
  <2> QED  BY <1>1, <2>1, <2>2, <2>3, ReceiptOpMoves
<1>4. CASE Rece!Limit(o)
  <2>1. /\ o \in Rece!Reviewed /\ op[o] = "SUBMITTED"
        /\ UNCHANGED <<faults, pc, before, verdict, late, early, outbox, paid, inbox, extra, hand,
                       dispatching, reconciling>>
        BY <1>4 DEF Rece!Limit
  <2>2. o # "recovery"
        BY <2>1 DEF Rece!Reviewed
  <2>3. \/ /\ "limit_ignored" \notin faults /\ op' = [op EXCEPT ![o] = "COMPLETED"]
           /\ decided' = decided \cup {<<o, "LIMIT_RULE", "APPROVED">>}
        \/ op' = [op EXCEPT ![o] = "WAITING_MANUAL"] /\ UNCHANGED decided
        BY <1>4 DEF Rece!Limit
  <2>4. decided' \subseteq Rece!Reviewed \X {"LIMIT_RULE", "MANUAL"} \X {"APPROVED", "REJECTED"}
        BY <1>1, <2>1, <2>3
  <2>5. "COMPLETED" \in OpStates \ {"none"} /\ "WAITING_MANUAL" \in OpStates \ {"none"}
        BY DEF OpStates
  <2>6. CASE op' = [op EXCEPT ![o] = "COMPLETED"] /\ "limit_ignored" \notin faults
        BY <1>1, <2>1, <2>2, <2>4, <2>5, <2>6, ReceiptOpMoves
  <2>7. CASE op' = [op EXCEPT ![o] = "WAITING_MANUAL"] /\ UNCHANGED decided
        BY <1>1, <2>1, <2>2, <2>4, <2>5, <2>7, ReceiptOpMoves
  <2> QED  BY <2>3, <2>6, <2>7
<1>5. CASE Rece!Complete(o)
  <2>1. /\ op[o] = "DECIDED" /\ op' = [op EXCEPT ![o] = "COMPLETED"]
        /\ UNCHANGED <<faults, pc, before, verdict, late, early, outbox, paid, inbox, decided, extra, hand,
                       dispatching, reconciling>>
        BY <1>5 DEF Rece!Complete
  <2>2. "COMPLETED" \in OpStates \ {"none"}
        BY DEF OpStates
  <2> QED  BY <1>1, <1>2, <2>1, <2>2, ReceiptOpMoves
<1> QED
    BY <1>3, <1>4, <1>5

LEMMA ReceiptApplyKeeps ==
    ASSUME CInv, NEW m \in inbox, Rece!Apply(m)
    PROVE  CInv'
<1> USE DEF Rece!Checking, Rece!Has
<1>1. /\ inbox \subseteq Rece!Message /\ op \in [Rece!Ops -> OpStates]
      /\ outbox \in [Rece!Ops -> {"none", "PENDING", "LEASED", "DELIVERED", "CONFIRMED"}]
      /\ decided \subseteq Rece!Reviewed \X {"LIMIT_RULE", "MANUAL"} \X {"APPROVED", "REJECTED"}
      BY DEF CInv, Rece!TypeOK, OpStates
<1> DEFINE a == [m EXCEPT !.state = "APPLIED"]
           s == IF "outcome_ignored" \in faults THEN "COMPLETED" ELSE m.outcome
<1>2. /\ reconciling = TRUE /\ m.msg \in Rece!Ops /\ op[m.msg] = "WAITING_SIGNAL"
      /\ inbox' = (inbox \ {m}) \cup {a} /\ op' = [op EXCEPT ![m.msg] = s]
      /\ UNCHANGED <<faults, pc, before, verdict, late, early, outbox, paid, decided, extra, hand,
                     dispatching, reconciling>>
  <2>1. reconciling = TRUE
        BY DEF Rece!Apply, Rece!Awaited, CInv, Rece!TypeOK
  <2> QED  BY <2>1 DEF Rece!Apply, Rece!Awaited
<1>3. /\ m \in Rece!Message /\ m.outcome \in {"COMPLETED", "REJECTED"}
      /\ a \in Rece!Message /\ a.msg = m.msg /\ a.outcome = m.outcome /\ a.copy = m.copy
      BY <1>1 DEF Rece!Message
<1>4. s \in OpStates \ {"none"} /\ (s = "REJECTED" => "outcome_ignored" \notin faults /\ m.outcome = "REJECTED")
      BY <1>3 DEF OpStates
<1>5. m.msg = "recovery" =>
         /\ pc \in {"n_callback", "n_pending", "n_up"} => FALSE
         /\ s = "REJECTED" => ~("inbox_forgets" \in faults /\ pc = "n_applied")
      BY <1>2, <1>4 DEF CInv, ReceiptSteps, ReceiptTraces
<1> HIDE DEF a, s
<1>6. /\ inbox' \subseteq Rece!Message
      /\ \A r \in inbox' : \E q \in inbox : q.msg = r.msg /\ q.outcome = r.outcome
      /\ \A q \in inbox : \E r \in inbox' : q.msg = r.msg /\ q.copy = r.copy
      BY <1>1, <1>2, <1>3
<1> QED
    BY <1>1, <1>2, <1>4, <1>5, <1>6, ReceiptOpMoves

\* The deliveries, and what the provider makes of them.
LEMMA ReceiptDeliveryKeeps ==
    ASSUME CInv, \/ \E o \in Rece!Ops : Rece!Callback(o)
                 \/ \E d \in {"a", "b"}, o \in Rece!Ops : Rece!Claim(d, o)
                 \/ \E d \in {"a", "b"} : Rece!Deliver(d)
    PROVE  CInv'
<1> USE DEF Rece!Checking, Rece!Has
<1> DEFINE Deliveries == [Rece!Ops -> {"none", "PENDING", "LEASED", "DELIVERED", "CONFIRMED"}]
<1>1. /\ Rece!TypeOK /\ inbox \subseteq Rece!Message /\ outbox \in Deliveries
      /\ hand \in [{"a", "b"} -> Rece!Ops \cup {"none"}] /\ paid \in [Rece!Ops -> 0..2]
      BY DEF CInv, Rece!TypeOK
<1>2. UNCHANGED <<faults, pc, verdict>> => ReceiptShown'
      BY ReceiptUnseen DEF CInv
<1>3. UNCHANGED <<faults, pc, verdict, op, before, extra, reconciling>> => ReceiptSteps'
      BY DEF CInv, ReceiptSteps
<1>4. ASSUME NEW o \in Rece!Ops, Rece!Callback(o)
      PROVE  CInv'
  <2> DEFINE r == [msg |-> o, outcome |-> "COMPLETED", state |-> "RECEIVED", copy |-> 1]
  <2>1. /\ inbox' = inbox \cup {r} /\ outbox' = [outbox EXCEPT ![o] = "CONFIRMED"]
        /\ UNCHANGED <<faults, pc, before, verdict, late, early, op, paid, decided, extra, hand,
                       dispatching, reconciling>>
        BY <1>4 DEF Rece!Callback, Rece!Answerable, Rece!Stored, Rece!Confirmed
  <2>2. r \in Rece!Message /\ r.outcome = "COMPLETED"
        BY DEF Rece!Message
  <2> HIDE DEF r
  <2>3. outbox' \in Deliveries
        BY <1>1, <2>1
  <2>4. Rece!TypeOK'
        BY <1>1, <2>1, <2>2, <2>3 DEF Rece!TypeOK
  <2>5. ReceiptTraces'
        BY <2>1, <2>2 DEF CInv, ReceiptTraces
  <2>6. ReceiptEarly'
        BY <2>1 DEF CInv, ReceiptEarly
  <2> QED  BY <1>2, <1>3, <2>1, <2>4, <2>5, <2>6 DEF CInv
<1>5. ASSUME NEW d \in {"a", "b"}, NEW o \in Rece!Ops, Rece!Claim(d, o)
      PROVE  CInv'
  <2>1. /\ "never_resumes" \in faults => o = "provider"
        /\ hand' = [hand EXCEPT ![d] = o]
        /\ outbox' = [outbox EXCEPT ![o] = IF outbox[o] = "PENDING" THEN "LEASED" ELSE outbox[o]]
        /\ UNCHANGED <<faults, pc, before, verdict, late, early, op, paid, inbox, decided, extra,
                       dispatching, reconciling>>
        BY <1>5 DEF Rece!Claim, Rece!Free
  <2>2. outbox' \in Deliveries /\ hand' \in [{"a", "b"} -> Rece!Ops \cup {"none"}]
        BY <1>1, <2>1
  <2>3. Rece!TypeOK'
        BY <1>1, <2>1, <2>2 DEF Rece!TypeOK
  <2>4. "never_resumes" \in faults => \A e \in {"a", "b"} : hand'[e] \in {"none", "provider"}
        BY <1>1, <2>1 DEF CInv, ReceiptTraces
  <2>5. ReceiptTraces'
        BY <2>1, <2>4 DEF CInv, ReceiptTraces
  <2>6. ReceiptEarly'
        BY <2>1 DEF CInv, ReceiptEarly
  <2> QED  BY <1>2, <1>3, <2>1, <2>3, <2>5, <2>6 DEF CInv
<1>6. ASSUME NEW d \in {"a", "b"}, Rece!Deliver(d)
      PROVE  CInv'
  <2> DEFINE o == hand[d]
             n == IF "pays_twice" \in faults THEN 2 ELSE 1
  <2>1. /\ o # "none" /\ paid' = [paid EXCEPT ![o] = n]
        /\ outbox' = [outbox EXCEPT ![o] = IF outbox[o] = "LEASED" THEN "DELIVERED" ELSE outbox[o]]
        /\ early' = early \cup {x \in {o} : <<x, pc>> \in Rece!Unwanted}
        /\ hand' = [hand EXCEPT ![d] = "none"]
        /\ UNCHANGED <<faults, pc, before, verdict, late, op, inbox, decided, extra, dispatching,
                       reconciling>>
        BY <1>6 DEF Rece!Deliver
  <2>2. o \in Rece!Ops
        BY <1>1, <2>1
  <2>3. n \in 1..2 /\ ("pays_twice" \in faults => n = 2)
        OBVIOUS
  <2>4. ("never_resumes" \in faults => o = "provider")
        BY <2>1 DEF CInv, ReceiptTraces
  <2> HIDE DEF o, n
  <2>5. /\ outbox' \in Deliveries /\ hand' \in [{"a", "b"} -> Rece!Ops \cup {"none"}]
        /\ paid' \in [Rece!Ops -> 0..2]
        BY <1>1, <2>1, <2>2, <2>3
  <2>6. \A x \in Rece!Ops : paid'[x] = IF x = o THEN n ELSE paid[x]
        BY <1>1, <2>1
  <2>7. early' \subseteq early \cup {o} /\ early' \subseteq Rece!Ops
        BY <1>1, <2>1, <2>2 DEF Rece!TypeOK
  <2>8. Rece!TypeOK'
        BY <1>1, <2>1, <2>5, <2>7 DEF Rece!TypeOK
  <2>9. ReceiptTraces'
    <3>1. "pays_twice" \in faults => \A x \in Rece!Ops : paid'[x] # 1
          BY <2>3, <2>6 DEF CInv, ReceiptTraces
    <3>2. "never_resumes" \in faults => \A x \in Rece!Ops \ {"provider"} : paid'[x] = 0
          BY <2>4, <2>6 DEF CInv, ReceiptTraces
    <3>3. "never_resumes" \in faults => \A e \in {"a", "b"} : hand'[e] \in {"none", "provider"}
          BY <1>1, <2>1 DEF CInv, ReceiptTraces
    <3> QED  BY <2>1, <3>1, <3>2, <3>3 DEF CInv, ReceiptTraces
  <2>10. ReceiptEarly'
    <3>1. o \notin early /\ o \in early' =>
             \/ o = "provider" /\ pc = "p_outbox"
             \/ /\ o = "adapter"
                /\ pc \in {"a_wrong", "a_calls", "a_rejected", "a_start", "a_sentinel", "a_audit"}
          BY <2>1 DEF Rece!Unwanted
    <3>2. paid'[o] > 0 /\ \A x \in Rece!Ops : paid[x] > 0 => paid'[x] > 0
          BY <2>2, <2>3, <2>6
    <3>3. {"provider", "adapter"} \subseteq Rece!Ops
          BY DEF Rece!Ops, Rece!Paying
    <3>4. pc # "done" => verdict = "none"
          BY DEF CInv, ReceiptSteps
    <3>5. early' \subseteq {"provider", "adapter"}
          BY <2>7, <3>1 DEF CInv, ReceiptEarly
    <3>6. "provider" \in early' => /\ pc \in {"p_outbox", "done"} /\ verdict # "passed"
                                   /\ pc = "p_outbox" => paid'["provider"] > 0
          BY <2>7, <3>1, <3>2, <3>3, <3>4 DEF CInv, ReceiptEarly
    <3>7. "adapter" \in early' =>
             /\ pc \in {"a_wrong", "a_calls", "a_rejected", "a_start", "a_sentinel", "a_audit", "done"}
             /\ verdict # "passed" /\ (pc # "done" => paid'["adapter"] > 0)
          BY <2>7, <3>1, <3>2, <3>3, <3>4 DEF CInv, ReceiptEarly
    <3> QED  BY <2>1, <3>5, <3>6, <3>7 DEF ReceiptEarly
  <2> QED  BY <1>2, <1>3, <2>1, <2>8, <2>9, <2>10 DEF CInv
<1> QED
    BY <1>4, <1>5, <1>6

\* The steps of the checker that exclude nothing, and those that exclude a fault.
SilentMoves ==
    {<<"p_stop", "p_outbox">>, <<"p_outbox", "p_receipts">>,
     <<"p_start", "p_completed">>, <<"p_completed", "p_evidence">>,
     <<"a_stop", "a_wrong">>, <<"a_start", "a_sentinel">>, <<"a_sentinel", "a_audit">>,
     <<"v_auto", "v_rule">>, <<"v_waits", "v_decide">>, <<"v_completed", "n_stop">>,
     <<"n_stop", "n_callback">>, <<"n_callback", "n_pending">>,
     <<"n_pending", "n_up">>, <<"n_up", "n_applied">>, <<"s_down", "s_up">>,
     <<"s_up", "s_kept">>, <<"s_resumed", "t_stalled">>}

ShowingMove ==
    \/ pc = "p_receipts" /\ pc' = "p_start" /\ faults \cap {"unsigned_stored", "invalid_stored"} = {}
    \/ pc = "p_evidence" /\ pc' = "a_stop" /\ "pays_twice" \notin faults
    \/ pc = "a_wrong" /\ pc' = "a_calls" /\ "capability_ignored" \notin faults
    \/ pc = "a_calls" /\ pc' = "a_rejected" /\ faults \cap {"repeat_new", "conflict_stored"} = {}
    \/ pc = "a_rejected" /\ pc' = "a_start" /\ faults \cap {"repeat_row", "outcome_ignored"} = {}
    \/ pc = "a_audit" /\ pc' = "v_auto" /\ "never_resumes" \notin faults
    \/ pc = "v_rule" /\ pc' = "v_waits" /\ "limit_ignored" \notin faults
    \/ pc = "v_decide" /\ pc' = "v_completed" /\ faults \cap {"decision_repeats", "decision_changes"} = {}
    \/ pc = "n_applied" /\ pc' = "s_down" /\ "inbox_forgets" \notin faults
    \/ pc = "s_kept" /\ pc' = "s_replay" /\ "state_lost" \notin faults
    \/ pc = "s_replay" /\ pc' = "s_resumed" /\ "replay_writes" \notin faults

LEMMA ReceiptShows ==
    ASSUME ReceiptShown, verdict = "none", UNCHANGED <<faults, verdict>>,
           <<pc, pc'>> \in SilentMoves \/ ShowingMove
    PROVE  ReceiptShown'
<1> USE DEF Past, ToOutbox, ToReceipts, ToEvidence, ToWrong, ToCalls, ToRejected, ToAudit, ToRule, ToDecide,
           ToStop, ToApplied, ToKept, ToReplay
<1>1. CASE <<pc, pc'>> \in SilentMoves
      BY <1>1 DEF ReceiptShown, SilentMoves
<1>2. CASE ShowingMove
      BY <1>2 DEF ReceiptShown, ShowingMove
<1> QED
    BY <1>1, <1>2

\* A delivery that came too early is still there when the audit asks for it.
LEMMA ReceiptStillEarly ==
    ASSUME ReceiptEarly, pc # "done", verdict = "none", UNCHANGED <<early, verdict>>,
           pc = "p_outbox" => paid["provider"] = 0,
           \/ /\ pc' \in {"a_calls", "a_rejected", "a_start", "a_sentinel", "a_audit"} /\ paid' = paid
           \/ pc \notin {"a_wrong", "a_calls", "a_rejected", "a_start", "a_sentinel", "a_audit"}
           \/ paid["adapter"] = 0
    PROVE  ReceiptEarly'
<1>1. "provider" \notin early
      BY DEF ReceiptEarly
<1>2. "adapter" \in early =>
         /\ pc' \in {"a_calls", "a_rejected", "a_start", "a_sentinel", "a_audit"}
         /\ paid'["adapter"] > 0
      BY DEF ReceiptEarly
<1> QED
    BY <1>1, <1>2 DEF ReceiptEarly

\* A ContractError ends the scenarios.
LEMMA ReceiptEnds ==
    ASSUME CInv, verdict' = "ContractError", pc' = "done", Rece!TypeOK',
           UNCHANGED <<faults, paid, hand, before, early>>,
           "outcome_ignored" \in faults => \A o \in Rece!Ops : op'[o] # "REJECTED",
           "limit_ignored" \in faults => \A x \in decided' : x[1] # "auto"
    PROVE  CInv'
<1>1. ReceiptShown'
      BY DEF ReceiptShown, Past
<1>2. ReceiptTraces'
      BY DEF CInv, ReceiptTraces
<1>3. ReceiptSteps'
      BY DEF CInv, ReceiptSteps, ToOutbox, ToReceipts, ToEvidence, ToWrong, ToCalls, ToRejected, ToAudit, ToRule, ToDecide,
           ToStop, ToApplied, ToKept, ToReplay
<1>4. ReceiptEarly'
      BY DEF CInv, ReceiptEarly
<1> QED
    BY <1>1, <1>2, <1>3, <1>4 DEF CInv

\* A step that only asks, and goes on.
LEMMA ReceiptGoesOn ==
    ASSUME CInv, <<pc, pc'>> \in SilentMoves \/ ShowingMove,
           pc \in {"p_outbox", "p_completed", "p_evidence", "a_rejected", "a_sentinel", "a_audit",
                   "v_waits", "v_completed", "n_pending", "n_applied", "s_kept", "s_resumed"},
           UNCHANGED <<faults, op, outbox, paid, inbox, decided, extra, hand, dispatching, reconciling,
                       before, verdict, late, early>>,
           pc = "p_outbox" => paid["provider"] = 0,
           pc = "a_audit" => paid["adapter"] = 0
    PROVE  CInv'
<1>1. verdict = "none" /\ pc # "done"
      BY DEF CInv, ReceiptSteps
<1>2. ReceiptShown'
      BY <1>1, ReceiptShows DEF CInv
<1>3. \/ pc = "p_outbox" /\ pc' = "p_receipts"
      \/ pc = "p_completed" /\ pc' = "p_evidence"
      \/ pc = "p_evidence" /\ pc' = "a_stop"
      \/ pc = "a_rejected" /\ pc' = "a_start"
      \/ pc = "a_sentinel" /\ pc' = "a_audit"
      \/ pc = "a_audit" /\ pc' = "v_auto"
      \/ pc = "v_waits" /\ pc' = "v_decide"
      \/ pc = "v_completed" /\ pc' = "n_stop"
      \/ pc = "n_pending" /\ pc' = "n_up"
      \/ pc = "n_applied" /\ pc' = "s_down"
      \/ pc = "s_kept" /\ pc' = "s_replay"
      \/ pc = "s_resumed" /\ pc' = "t_stalled"
      BY DEF SilentMoves, ShowingMove
<1>4. Rece!TypeOK'
      BY <1>3 DEF CInv, Rece!TypeOK, Rece!Steps
<1>5. ReceiptTraces'
      BY <1>3 DEF CInv, ReceiptTraces
<1>6. ReceiptSteps'
      BY <1>3 DEF CInv, ReceiptSteps, ToOutbox, ToReceipts, ToEvidence, ToWrong, ToCalls, ToRejected,
         ToAudit, ToRule, ToDecide, ToStop, ToApplied
<1>7. ReceiptEarly'
      BY <1>1, <1>3, ReceiptStillEarly DEF CInv
<1> QED
    BY <1>2, <1>4, <1>5, <1>6, <1>7 DEF CInv

\* The requirements and the polls.
LEMMA ReceiptAsksKeep ==
    ASSUME CInv,
           \/ Rece!ProviderOutbox \/ Rece!ProviderCompleted \/ Rece!ProviderEvidence
           \/ Rece!AdapterRejected \/ Rece!AdapterSentinel \/ Rece!AdapterAudit
           \/ Rece!ReviewWaits \/ Rece!ReviewCompleted \/ Rece!RecreatePending
           \/ Rece!RecreateApplied \/ Rece!RestartKept \/ Rece!RestartResumed
    PROVE  CInv'
<1> USE DEF Rece!Go, Rece!Keep, Rece!candidate, Rece!Require, Rece!Fails
<1>1. /\ Rece!TypeOK /\ late \in BOOLEAN
      /\ "outcome_ignored" \in faults => \A o \in Rece!Ops : op[o] # "REJECTED"
      /\ "limit_ignored" \in faults => \A x \in decided : x[1] # "auto"
      BY DEF CInv, Rece!TypeOK, ReceiptTraces
<1> DEFINE Same == UNCHANGED <<faults, op, outbox, paid, inbox, decided, extra, hand, dispatching,
                               reconciling, before, early>>
           Ends == verdict' = "ContractError" /\ pc' = "done" /\ Same /\ late' \in BOOLEAN
           Goes == Same /\ UNCHANGED <<verdict, late>>
<1>2. Ends => CInv'
  <2> SUFFICES ASSUME Ends
               PROVE  CInv'
      OBVIOUS
  <2>1. Rece!TypeOK'
        BY <1>1 DEF Rece!TypeOK, Rece!Steps
  <2> QED  BY <1>1, <2>1, ReceiptEnds
<1>3. ASSUME NEW p, Rece!PollTimeout(p)
      PROVE  Ends
      BY <1>1, <1>3 DEF Rece!PollTimeout
<1>4. CASE Rece!ProviderOutbox
  <2>1. \/ /\ pc = "p_outbox" /\ pc' = "p_receipts" /\ Goes /\ paid["provider"] = 0
        \/ Ends
        BY <1>1, <1>3, <1>4 DEF Rece!ProviderOutbox, Rece!Audit
  <2> QED  BY <1>2, <2>1, ReceiptGoesOn DEF SilentMoves
<1>5. CASE Rece!ProviderEvidence
  <2>1. \/ /\ pc = "p_evidence" /\ pc' = "a_stop" /\ Goes /\ paid["provider"] = 1
        \/ Ends
        BY <1>1, <1>5 DEF Rece!ProviderEvidence, Rece!Audit
  <2>2. paid["provider"] = 1 => "pays_twice" \notin faults
        BY DEF CInv, ReceiptTraces, Rece!Ops, Rece!Paying
  <2> QED  BY <1>2, <2>1, <2>2, ReceiptGoesOn DEF ShowingMove
<1>6. CASE Rece!AdapterRejected
  <2>1. \/ /\ pc = "a_rejected" /\ pc' = "a_start" /\ Goes /\ op["adapter"] = "REJECTED"
           /\ \E r \in inbox : Rece!Rows("adapter") = {r}
        \/ Ends
        BY <1>1, <1>3, <1>6 DEF Rece!AdapterRejected
  <2>2. op["adapter"] = "REJECTED" => "outcome_ignored" \notin faults
        BY <1>1 DEF Rece!Ops, Rece!Paying
  <2>3. pc = "a_rejected" /\ (\E r \in inbox : Rece!Rows("adapter") = {r}) => "repeat_row" \notin faults
    <3> SUFFICES ASSUME pc = "a_rejected", NEW r \in inbox, Rece!Rows("adapter") = {r},
                        "repeat_row" \in faults
                 PROVE  FALSE
        OBVIOUS
    <3>1. \A n \in 1..2 : \E q \in inbox : q.msg = "adapter" /\ q.copy = n
          BY DEF CInv, ReceiptTraces
    <3>2. PICK q1 \in inbox, q2 \in inbox :
             q1.msg = "adapter" /\ q2.msg = "adapter" /\ q1.copy = 1 /\ q2.copy = 2
          BY <3>1
    <3>3. q1 \in Rece!Rows("adapter") /\ q2 \in Rece!Rows("adapter")
          BY <3>2 DEF Rece!Rows
    <3> QED  BY <3>2, <3>3
  <2> QED  BY <1>2, <2>1, <2>2, <2>3, ReceiptGoesOn DEF ShowingMove
<1>7. CASE Rece!AdapterAudit
  <2>1. \/ /\ pc = "a_audit" /\ pc' = "v_auto" /\ Goes /\ paid["sentinel"] > 0 /\ paid["adapter"] = 0
        \/ Ends
        BY <1>1, <1>7 DEF Rece!AdapterAudit, Rece!Audit
  <2>2. paid["sentinel"] > 0 => "never_resumes" \notin faults
        BY DEF CInv, ReceiptTraces, Rece!Ops, Rece!Paying
  <2> QED  BY <1>2, <2>1, <2>2, ReceiptGoesOn DEF ShowingMove
<1>8. CASE Rece!ReviewCompleted
  <2>1. \/ pc = "v_completed" /\ pc' = "n_stop" /\ Goes
        \/ Ends
        BY <1>1, <1>3, <1>8 DEF Rece!ReviewCompleted
  <2> QED  BY <1>2, <2>1, ReceiptGoesOn DEF SilentMoves
<1>9. CASE Rece!RestartKept
  <2>1. \/ pc = "s_kept" /\ pc' = "s_replay" /\ Goes /\ Rece!Snapshot = before
        \/ Ends
        BY <1>1, <1>9 DEF Rece!RestartKept
  <2>2. Rece!Snapshot = before /\ pc = "s_kept" => "state_lost" \notin faults
    <3>1. Rece!Snapshot.op = [o \in Rece!Ops |-> IF o \in Rece!Kept THEN op[o] ELSE "none"]
          BY DEF Rece!Snapshot
    <3>2. Rece!Snapshot.op["provider"] = op["provider"]
          BY <3>1 DEF Rece!Ops, Rece!Paying, Rece!Kept
    <3>3. pc = "s_kept" => before.op["provider"] # "none"
          BY DEF CInv, ReceiptSteps
    <3>4. "state_lost" \in faults /\ pc = "s_kept" => op["provider"] = "none"
          BY DEF CInv, ReceiptTraces, Rece!Ops, Rece!Paying
    <3> QED  BY <3>2, <3>3, <3>4
  <2> QED  BY <1>2, <2>1, <2>2, ReceiptGoesOn DEF ShowingMove
<1>10. CASE Rece!ProviderCompleted \/ Rece!AdapterSentinel \/ Rece!ReviewWaits \/ Rece!RecreatePending
            \/ Rece!RestartResumed
  <2>1. \/ /\ <<pc, pc'>> \in {<<"p_completed", "p_evidence">>, <<"a_sentinel", "a_audit">>,
                              <<"v_waits", "v_decide">>, <<"n_pending", "n_up">>,
                              <<"s_resumed", "t_stalled">>}
           /\ Goes
        \/ Ends
        BY <1>1, <1>3, <1>10 DEF Rece!ProviderCompleted, Rece!AdapterSentinel, Rece!ReviewWaits,
           Rece!RecreatePending, Rece!RestartResumed, Rece!Poll
  <2> QED  BY <1>2, <2>1, ReceiptGoesOn DEF SilentMoves
<1>11. CASE Rece!RecreateApplied
  <2>1. \/ pc = "n_applied" /\ pc' = "s_down" /\ Goes /\ op["recovery"] = "REJECTED"
        \/ Ends
        BY <1>1, <1>3, <1>11 DEF Rece!RecreateApplied, Rece!Poll
  <2>2. pc = "n_applied" /\ op["recovery"] = "REJECTED" => "inbox_forgets" \notin faults
        BY DEF CInv, ReceiptTraces
  <2> QED  BY <1>2, <2>1, <2>2, ReceiptGoesOn DEF ShowingMove
<1> QED
    BY <1>4, <1>5, <1>6, <1>7, <1>8, <1>9, <1>10, <1>11

LEMMA ReceiptStopped ==
    ASSUME Rece!TypeOK, Rece!StopDispatchers
    PROVE  /\ outbox' \in [Rece!Ops -> {"none", "PENDING", "LEASED", "DELIVERED", "CONFIRMED"}]
           /\ hand' \in [{"a", "b"} -> Rece!Ops \cup {"none"}] /\ \A d \in {"a", "b"} : hand'[d] = "none"
           /\ dispatching' = FALSE
    BY DEF Rece!TypeOK, Rece!StopDispatchers

\* The steps that submit a payment, or start what delivers it.
LEMMA ReceiptSubmitsKeep ==
    ASSUME CInv,
           \/ Rece!ProviderSubmit \/ Rece!ProviderStart \/ Rece!AdapterSubmit \/ Rece!AdapterStart
           \/ Rece!ReviewSubmit \/ Rece!RecreateStop
    PROVE  CInv'
<1> USE DEF Rece!Go, Rece!Keep, Rece!Submit
<1>1. /\ Rece!TypeOK /\ {"provider", "adapter", "sentinel", "auto", "recovery"} \subseteq Rece!Ops
      /\ op \in [Rece!Ops -> OpStates] /\ paid \in [Rece!Ops -> 0..2]
      /\ outbox \in [Rece!Ops -> {"none", "PENDING", "LEASED", "DELIVERED", "CONFIRMED"}]
      /\ hand \in [{"a", "b"} -> Rece!Ops \cup {"none"}] /\ reconciling \in BOOLEAN
      BY DEF CInv, Rece!TypeOK, OpStates, Rece!Ops, Rece!Paying, Rece!Reviewed
<1> DEFINE Same == UNCHANGED <<faults, paid, inbox, decided, extra, before, verdict, late, early>>
           Held == /\ outbox' \in [Rece!Ops -> {"none", "PENDING", "LEASED", "DELIVERED", "CONFIRMED"}]
                   /\ hand' \in [{"a", "b"} -> Rece!Ops \cup {"none"}]
                   /\ \A d \in {"a", "b"} : hand'[d] \in {hand[d], "none"}
                   /\ dispatching' \in BOOLEAN
<1>2. UNCHANGED <<outbox, hand>> /\ dispatching' \in BOOLEAN => Held
      BY <1>1
<1>3. Rece!StopDispatchers => Held
      BY <1>1, ReceiptStopped
<1>4. \/ /\ pc = "p_stop" /\ pc' = "p_outbox" /\ op' = [op EXCEPT !["provider"] = "SUBMITTED"]
         /\ Held /\ Same /\ UNCHANGED reconciling
      \/ pc = "p_start" /\ pc' = "p_completed" /\ op' = op /\ Held /\ Same /\ UNCHANGED reconciling
      \/ /\ pc = "a_stop" /\ pc' = "a_wrong" /\ op' = [op EXCEPT !["adapter"] = "SUBMITTED"]
         /\ Held /\ Same /\ UNCHANGED reconciling
      \/ /\ pc = "a_start" /\ pc' = "a_sentinel" /\ op' = [op EXCEPT !["sentinel"] = "SUBMITTED"]
         /\ Held /\ Same /\ UNCHANGED reconciling
      \/ /\ pc = "v_auto" /\ pc' = "v_rule" /\ op' = [op EXCEPT !["auto"] = "SUBMITTED"]
         /\ Held /\ Same /\ UNCHANGED reconciling
      \/ /\ pc = "n_stop" /\ pc' = "n_callback" /\ op' = [op EXCEPT !["recovery"] = "SUBMITTED"]
         /\ Held /\ Same /\ reconciling' = FALSE
  <2>1. dispatching \in BOOLEAN
        BY <1>1 DEF Rece!TypeOK
  <2> HIDE DEF Held
  <2> QED
      BY <1>2, <1>3, <2>1 DEF Rece!ProviderSubmit, Rece!ProviderStart, Rece!AdapterSubmit,
         Rece!AdapterStart, Rece!ReviewSubmit, Rece!RecreateStop
<1>5. verdict = "none" /\ pc # "done"
      BY <1>4 DEF CInv, ReceiptSteps
<1>6. ReceiptShown'
      BY <1>4, <1>5, ReceiptShows DEF CInv, SilentMoves
<1>7. op' \in [Rece!Ops -> OpStates] /\ \A o \in Rece!Ops : op'[o] \in {op[o], "SUBMITTED"}
      BY <1>1, <1>4 DEF OpStates
<1>8. Rece!TypeOK'
  <2>1. pc' \in Rece!Steps
        BY <1>4 DEF Rece!Steps
  <2>2. reconciling' \in BOOLEAN
        BY <1>1, <1>4
  <2> QED  BY <1>1, <1>4, <1>7, <2>1, <2>2 DEF Rece!TypeOK, OpStates
<1>9. ReceiptTraces'
  <2>1. "outcome_ignored" \in faults => \A o \in Rece!Ops : op'[o] # "REJECTED"
        BY <1>7 DEF CInv, ReceiptTraces
  <2>2. "never_resumes" \in faults => \A d \in {"a", "b"} : hand'[d] \in {"none", "provider"}
        BY <1>4 DEF CInv, ReceiptTraces
  <2>3. pc' \notin {"a_rejected", "n_applied", "s_kept"} /\ Same
        BY <1>4
  <2> QED  BY <2>1, <2>2, <2>3 DEF CInv, ReceiptTraces
<1>10. ReceiptSteps'
  <2>1. /\ pc # "n_stop" => op'["recovery"] = op["recovery"]
        /\ pc = "n_stop" => op'["recovery"] = "SUBMITTED" /\ reconciling' = FALSE
        /\ pc = "p_stop" => op'["provider"] = "SUBMITTED"
        /\ pc # "p_stop" => op'["provider"] = op["provider"]
        BY <1>1, <1>4
  <2> QED
      BY <1>4, <1>5, <2>1 DEF CInv, ReceiptSteps, ToOutbox, ToReceipts, ToEvidence, ToWrong, ToCalls,
         ToRejected, ToAudit, ToRule, ToDecide, ToStop, ToApplied
<1>11. ReceiptEarly'
       BY <1>4, <1>5, ReceiptStillEarly DEF CInv
<1> QED
    BY <1>6, <1>8, <1>9, <1>10, <1>11 DEF CInv

\* The receipts and callbacks the checker sends itself.
LEMMA ReceiptCallsKeep ==
    ASSUME CInv,
           \/ Rece!ProviderReceipts \/ Rece!AdapterWrong \/ Rece!AdapterCalls \/ Rece!RecreateCallback
    PROVE  CInv'
<1> USE DEF Rece!Go, Rece!Keep, Rece!Require, Rece!Fails, Rece!Has, Rece!candidate
<1>1. /\ Rece!TypeOK /\ {"adapter", "recovery"} \subseteq Rece!Ops /\ inbox \subseteq Rece!Message
      /\ outbox \in [Rece!Ops -> {"none", "PENDING", "LEASED", "DELIVERED", "CONFIRMED"}]
      /\ late \in BOOLEAN
      /\ "outcome_ignored" \in faults => \A o \in Rece!Ops : op[o] # "REJECTED"
      /\ "limit_ignored" \in faults => \A x \in decided : x[1] # "auto"
      BY DEF CInv, Rece!TypeOK, Rece!Ops, Rece!Paying, ReceiptTraces
<1> DEFINE Same == UNCHANGED <<faults, op, paid, decided, extra, hand, dispatching, reconciling, before,
                               early>>
           Kept == /\ inbox \subseteq inbox' /\ inbox' \subseteq Rece!Message /\ late' \in BOOLEAN
                   /\ outbox' \in [Rece!Ops -> {"none", "PENDING", "LEASED", "DELIVERED", "CONFIRMED"}]
           Ends == verdict' = "ContractError" /\ pc' = "done" /\ Same /\ Kept
           Goes == verdict' = verdict /\ Same /\ Kept
<1>2. /\ \A m \in {"unsigned", "invalid"} : Rece!Stored(m, "COMPLETED") \subseteq Rece!Message
      /\ \A m \in {"wrong", "adapter", "recovery"} : Rece!Stored(m, "REJECTED") \subseteq Rece!Message
      /\ \A m, s : inbox \subseteq Rece!Stored(m, s)
  <2>1. /\ \A m \in {"unsigned", "invalid"} :
             [msg |-> m, outcome |-> "COMPLETED", state |-> "RECEIVED", copy |-> 1] \in Rece!Message
        /\ \A m \in {"wrong", "adapter", "recovery"} :
             [msg |-> m, outcome |-> "REJECTED", state |-> "RECEIVED", copy |-> 1] \in Rece!Message
        BY <1>1 DEF Rece!Message
  <2> QED  BY <1>1, <2>1 DEF Rece!Stored
<1>3. \A o \in Rece!Ops :
         Rece!Confirmed(o) \in [Rece!Ops -> {"none", "PENDING", "LEASED", "DELIVERED", "CONFIRMED"}]
      BY <1>1 DEF Rece!Confirmed
<1>4. Ends => CInv'
  <2> SUFFICES ASSUME Ends
               PROVE  CInv'
      OBVIOUS
  <2>1. Rece!TypeOK'
        BY <1>1 DEF Rece!TypeOK, Rece!Steps
  <2> QED  BY <1>1, <2>1, ReceiptEnds
<1>5. ASSUME NEW p, Rece!PollTimeout(p)
      PROVE  Ends
      BY <1>1, <1>5 DEF Rece!PollTimeout
<1>6. ASSUME Goes, ShowingMove \/ <<pc, pc'>> \in SilentMoves,
             pc \in {"p_receipts", "a_wrong", "a_calls", "n_callback"},
             "repeat_row" \in faults /\ pc = "a_calls" =>
                \A n \in 1..2 : \E r \in inbox' : r.msg = "adapter" /\ r.copy = n
      PROVE  CInv'
  <2>1. \/ pc = "p_receipts" /\ pc' = "p_start"
        \/ pc = "a_wrong" /\ pc' = "a_calls"
        \/ pc = "a_calls" /\ pc' = "a_rejected"
        \/ pc = "n_callback" /\ pc' = "n_pending"
        BY <1>6 DEF ShowingMove, SilentMoves
  <2>2. verdict = "none" /\ pc # "done"
        BY <2>1 DEF CInv, ReceiptSteps
  <2>3. ReceiptShown'
        BY <1>6, <2>2, ReceiptShows DEF CInv
  <2>4. Rece!TypeOK'
    <3>1. pc' \in Rece!Steps
          BY <2>1 DEF Rece!Steps
    <3> QED  BY <1>1, <1>6, <3>1 DEF Rece!TypeOK
  <2>5. ReceiptTraces'
        BY <1>6, <2>1 DEF CInv, ReceiptTraces
  <2>6. ReceiptSteps'
        BY <1>6, <2>1 DEF CInv, ReceiptSteps, ToOutbox, ToReceipts, ToEvidence, ToWrong, ToCalls,
           ToRejected, ToAudit, ToRule, ToDecide, ToStop, ToApplied
  <2>7. ReceiptEarly'
        BY <1>6, <2>1, <2>2, ReceiptStillEarly DEF CInv
  <2> QED  BY <2>3, <2>4, <2>5, <2>6, <2>7 DEF CInv
<1>7. CASE Rece!ProviderReceipts
  <2>1. /\ pc = "p_receipts" /\ Same /\ late' = late /\ outbox' = outbox
        /\ inbox' = (IF "unsigned_stored" \in faults THEN Rece!Stored("unsigned", "COMPLETED") ELSE inbox)
                      \cup (IF "invalid_stored" \in faults THEN Rece!Stored("invalid", "COMPLETED") ELSE {})
        BY <1>7 DEF Rece!ProviderReceipts
  <2>2. Kept
        BY <1>1, <1>2, <2>1
  <2>3. \/ verdict' = "ContractError" /\ pc' = "done"
        \/ /\ verdict' = verdict /\ pc' = "p_start"
           /\ \A r \in inbox' : r.msg \notin {"unsigned", "invalid"}
        BY <1>7 DEF Rece!ProviderReceipts
  <2>4. (\A r \in inbox' : r.msg \notin {"unsigned", "invalid"}) =>
           faults \cap {"unsigned_stored", "invalid_stored"} = {}
    <3> DEFINE u == [msg |-> "unsigned", outcome |-> "COMPLETED", state |-> "RECEIVED", copy |-> 1]
               i == [msg |-> "invalid", outcome |-> "COMPLETED", state |-> "RECEIVED", copy |-> 1]
    <3>1. u.msg = "unsigned" /\ i.msg = "invalid"
          OBVIOUS
    <3>2. u \in Rece!Stored("unsigned", "COMPLETED") /\ i \in Rece!Stored("invalid", "COMPLETED")
          BY DEF Rece!Stored
    <3> HIDE DEF u, i
    <3>3. /\ "unsigned_stored" \in faults => u \in inbox'
          /\ "invalid_stored" \in faults => i \in inbox'
          BY <2>1, <3>2
    <3> QED  BY <3>1, <3>3
  <2> QED  BY <1>4, <1>6, <2>1, <2>2, <2>3, <2>4 DEF ShowingMove
<1>8. CASE Rece!AdapterWrong
  <2>1. CASE \E p : Rece!PollTimeout(p)
        BY <1>4, <1>5, <2>1
  <2>2. CASE /\ pc = "a_wrong" /\ Same /\ late' = late /\ outbox' = outbox
             /\ inbox' = IF "capability_ignored" \in faults THEN Rece!Stored("wrong", "REJECTED") ELSE inbox
             /\ IF "capability_ignored" \notin faults THEN pc' = "a_calls" /\ UNCHANGED verdict
                ELSE verdict' = "ContractError" /\ pc' = "done"
    <3>1. Kept
          BY <1>1, <1>2, <2>2
    <3> QED  BY <1>4, <1>6, <2>2, <3>1 DEF ShowingMove
  <2> QED  BY <1>8, <2>1, <2>2 DEF Rece!AdapterWrong
<1>9. CASE Rece!AdapterCalls
  <2> DEFINE r1 == [msg |-> "adapter", outcome |-> "REJECTED", state |-> "RECEIVED", copy |-> 1]
             r2 == [msg |-> "adapter", outcome |-> "REJECTED", state |-> "RECEIVED", copy |-> 2]
             r3 == [msg |-> "adapter", outcome |-> "COMPLETED", state |-> "RECEIVED", copy |-> 2]
  <2>1. /\ pc = "a_calls" /\ Same /\ late' = late /\ outbox' = Rece!Confirmed("adapter")
        /\ inbox' = (inbox \cup {r1}) \cup (IF "repeat_row" \in faults THEN {r2} ELSE {})
                      \cup (IF "conflict_stored" \in faults THEN {r3} ELSE {})
        BY <1>9 DEF Rece!AdapterCalls, Rece!Stored
  <2>2. \/ /\ pc' = "a_rejected" /\ UNCHANGED verdict /\ faults \cap {"repeat_new", "conflict_stored"} = {}
        \/ verdict' = "ContractError" /\ pc' = "done"
        BY <1>9 DEF Rece!AdapterCalls
  <2>3. /\ {r1, r2, r3} \subseteq Rece!Message
        /\ r1.msg = "adapter" /\ r1.copy = 1 /\ r2.msg = "adapter" /\ r2.copy = 2
        BY <1>1 DEF Rece!Message
  <2> HIDE DEF r1, r2, r3
  <2>4. Kept
        BY <1>1, <1>3, <2>1, <2>3
  <2>5. "repeat_row" \in faults => \A n \in 1..2 : \E r \in inbox' : r.msg = "adapter" /\ r.copy = n
    <3> SUFFICES ASSUME "repeat_row" \in faults
                 PROVE  \A n \in 1..2 : \E r \in inbox' : r.msg = "adapter" /\ r.copy = n
        OBVIOUS
    <3>1. r1 \in inbox' /\ r2 \in inbox'
          BY <2>1
    <3> QED  BY <2>3, <3>1
  <2> QED  BY <1>4, <1>6, <2>1, <2>2, <2>4, <2>5 DEF ShowingMove
<1>10. CASE Rece!RecreateCallback
  <2>1. CASE \E p : Rece!PollTimeout(p)
        BY <1>4, <1>5, <2>1
  <2>2. CASE /\ pc = "n_callback" /\ pc' = "n_pending" /\ Same /\ UNCHANGED <<verdict, late>>
             /\ inbox' = Rece!Stored("recovery", "REJECTED") /\ outbox' = Rece!Confirmed("recovery")
    <3>1. Kept
          BY <1>1, <1>2, <1>3, <2>2
    <3> QED  BY <1>6, <2>2, <3>1 DEF SilentMoves
  <2> QED  BY <1>10, <2>1, <2>2 DEF Rece!RecreateCallback
<1> QED
    BY <1>7, <1>8, <1>9, <1>10

\* The decisions of the review, and the second payment.
LEMMA ReceiptReviewKeeps ==
    ASSUME CInv, Rece!ReviewRule \/ Rece!ReviewDecide
    PROVE  CInv'
<1> USE DEF Rece!Go, Rece!Submit, Rece!Fails, Rece!Require, Rece!Has
<1>1. /\ Rece!TypeOK /\ "manual" \in Rece!Ops /\ op \in [Rece!Ops -> OpStates]
      /\ decided \subseteq Rece!Reviewed \X {"LIMIT_RULE", "MANUAL"} \X {"APPROVED", "REJECTED"}
      /\ "outcome_ignored" \in faults => \A o \in Rece!Ops : op[o] # "REJECTED"
      /\ "limit_ignored" \in faults => \A x \in decided : x[1] # "auto"
      BY DEF CInv, Rece!TypeOK, OpStates, Rece!Ops, Rece!Reviewed, ReceiptTraces
<1> DEFINE Same == UNCHANGED <<faults, outbox, paid, inbox, extra, hand, dispatching, reconciling, before,
                               early>>
           Kept == /\ op' \in [Rece!Ops -> OpStates] /\ late' \in BOOLEAN
                   /\ \A o \in Rece!Ops : op'[o] = op[o] \/ (o = "manual" /\ op'[o] # "REJECTED")
                   /\ decided' \subseteq Rece!Reviewed \X {"LIMIT_RULE", "MANUAL"} \X {"APPROVED", "REJECTED"}
                   /\ "limit_ignored" \in faults => \A x \in decided' : x[1] # "auto"
<1>2. ASSUME Same, Kept, verdict' = "ContractError", pc' = "done"
      PROVE  CInv'
  <2>1. Rece!TypeOK'
        BY <1>1, <1>2 DEF Rece!TypeOK, Rece!Steps, OpStates
  <2>2. "outcome_ignored" \in faults => \A o \in Rece!Ops : op'[o] # "REJECTED"
        BY <1>1, <1>2
  <2> QED  BY <1>2, <2>1, <2>2, ReceiptEnds
<1>3. ASSUME Same, Kept, verdict' = verdict, ShowingMove,
             \/ pc = "v_rule" /\ pc' = "v_waits"
             \/ pc = "v_decide" /\ pc' = "v_completed"
      PROVE  CInv'
  <2>1. verdict = "none" /\ pc # "done"
        BY <1>3 DEF CInv, ReceiptSteps
  <2>2. ReceiptShown'
        BY <1>3, <2>1, ReceiptShows DEF CInv
  <2>3. Rece!TypeOK'
    <3>1. pc' \in Rece!Steps
          BY <1>3 DEF Rece!Steps
    <3> QED  BY <1>1, <1>3, <3>1 DEF Rece!TypeOK, OpStates
  <2>4. ReceiptTraces'
    <3>1. "outcome_ignored" \in faults => \A o \in Rece!Ops : op'[o] # "REJECTED"
          BY <1>1, <1>3
    <3> QED  BY <1>3, <3>1 DEF CInv, ReceiptTraces
  <2>5. ReceiptSteps'
    <3>1. op'["recovery"] = op["recovery"] /\ op'["provider"] = op["provider"]
          BY <1>3 DEF Rece!Ops, Rece!Paying
    <3> QED
        BY <1>3, <3>1 DEF CInv, ReceiptSteps, ToOutbox, ToReceipts, ToEvidence, ToWrong, ToCalls,
           ToRejected, ToAudit, ToRule, ToDecide, ToStop, ToApplied
  <2>6. ReceiptEarly'
        BY <1>3, <2>1, ReceiptStillEarly DEF CInv
  <2> QED  BY <2>2, <2>3, <2>4, <2>5, <2>6 DEF CInv
<1>4. CASE Rece!ReviewRule
  <2>1. CASE /\ pc = "v_rule" /\ pc' = "v_waits" /\ UNCHANGED <<verdict, decided, late>> /\ Same
             /\ {x \in decided : x[1] = "auto"} = {<<"auto", "LIMIT_RULE", "APPROVED">>}
             /\ op' = [op EXCEPT !["manual"] = "SUBMITTED"]
    <3>1. \E x \in decided : x[1] = "auto"
          BY <2>1
    <3>2. "limit_ignored" \notin faults
          BY <1>1, <3>1
    <3>3. Kept
          BY <1>1, <2>1 DEF OpStates, Rece!TypeOK
    <3> HIDE DEF Kept
    <3> QED  BY <1>3, <2>1, <3>2, <3>3 DEF ShowingMove
  <2>2. CASE /\ verdict' = "ContractError" /\ pc' = "done" /\ UNCHANGED <<op, decided>> /\ Same
             /\ late' \in BOOLEAN
    <3>1. Kept
          BY <1>1, <2>2
    <3> QED  BY <1>2, <2>2, <3>1
  <2>3. late \in BOOLEAN
        BY <1>1 DEF Rece!TypeOK
  <2>4. ASSUME NEW p, Rece!PollTimeout(p)
        PROVE  /\ verdict' = "ContractError" /\ pc' = "done" /\ UNCHANGED <<op, decided>> /\ Same
               /\ late' \in BOOLEAN
        BY <2>3, <2>4 DEF Rece!PollTimeout, Rece!candidate
  <2> QED  BY <1>4, <2>1, <2>2, <2>3, <2>4 DEF Rece!ReviewRule
<1>5. CASE Rece!ReviewDecide
  <2>1. /\ pc = "v_decide" /\ Same /\ late' = late /\ op' = [op EXCEPT !["manual"] = "DECIDED"]
        /\ decided' = decided \cup {<<"manual", "MANUAL", "APPROVED">>}
                        \cup (IF "decision_changes" \in faults THEN {<<"manual", "MANUAL", "REJECTED">>} ELSE {})
        BY <1>5 DEF Rece!ReviewDecide
  <2>2. \/ verdict' = "ContractError" /\ pc' = "done"
        \/ /\ pc' = "v_completed" /\ verdict' = verdict
           /\ faults \cap {"decision_repeats", "decision_changes"} = {}
        BY <1>5 DEF Rece!ReviewDecide
  <2>3. \A x \in decided' : x \in decided
                              \/ x = <<"manual", "MANUAL", "APPROVED">> \/ x = <<"manual", "MANUAL", "REJECTED">>
        BY <2>1
  <2>4. /\ decided' \subseteq Rece!Reviewed \X {"LIMIT_RULE", "MANUAL"} \X {"APPROVED", "REJECTED"}
        /\ "limit_ignored" \in faults => \A x \in decided' : x[1] # "auto"
        BY <1>1, <2>3 DEF Rece!Reviewed
  <2>5. Kept
        BY <1>1, <2>1, <2>4 DEF OpStates, Rece!TypeOK
  <2> HIDE DEF Kept
  <2> QED  BY <1>2, <1>3, <2>1, <2>2, <2>5 DEF ShowingMove
<1> QED
    BY <1>4, <1>5

\* The services and the stack are replaced.
LEMMA ReceiptRestartKeeps ==
    ASSUME CInv, Rece!RecreateUp \/ Rece!RestartDown \/ Rece!RestartUp
    PROVE  CInv'
<1> USE DEF Rece!Go, Rece!Keep, Rece!Has
<1>1. /\ Rece!TypeOK /\ {"provider", "recovery"} \subseteq Rece!Ops /\ "provider" \in Rece!Kept
      /\ op \in [Rece!Ops -> OpStates] /\ inbox \subseteq Rece!Message
      BY DEF CInv, Rece!TypeOK, OpStates, Rece!Ops, Rece!Paying, Rece!Kept
<1>2. \/ pc = "n_up" /\ pc' = "n_applied"
      \/ pc = "s_down" /\ pc' = "s_up"
      \/ pc = "s_up" /\ pc' = "s_kept"
      BY DEF Rece!RecreateUp, Rece!RestartDown, Rece!RestartUp
<1>3. verdict = "none" /\ pc # "done" /\ pc' \in Rece!Steps /\ UNCHANGED <<faults, verdict, early>>
      BY <1>2 DEF CInv, ReceiptSteps, Rece!Steps, Rece!RecreateUp, Rece!RestartDown, Rece!RestartUp
<1>4. ReceiptShown'
      BY <1>2, <1>3, ReceiptShows DEF CInv, SilentMoves
<1>5. ReceiptEarly'
      BY <1>2, <1>3, ReceiptStillEarly DEF CInv
<1>6. CASE Rece!RecreateUp
  <2>1. /\ pc = "n_up" /\ pc' = "n_applied" /\ dispatching' = TRUE /\ reconciling' = TRUE
        /\ hand' = [d \in {"a", "b"} |-> "none"] /\ inbox' \subseteq inbox
        /\ "inbox_forgets" \in faults => \A r \in inbox' : r.msg # "recovery"
        /\ UNCHANGED <<op, outbox, paid, decided, extra, faults, before, verdict, late, early>>
        BY <1>6 DEF Rece!RecreateUp, Rece!Rows
  <2>2. Rece!TypeOK'
        BY <1>1, <1>3, <2>1 DEF Rece!TypeOK
  <2>3. op["recovery"] \in {"SUBMITTED", "WAITING_SIGNAL"} /\ op["provider"] # "none"
        BY <2>1 DEF CInv, ReceiptSteps, ToOutbox, ToReceipts, ToEvidence, ToWrong, ToCalls, ToRejected,
           ToAudit, ToRule, ToDecide, ToStop, ToApplied
  <2>4. ReceiptTraces'
        BY <2>1, <2>3 DEF CInv, ReceiptTraces
  <2>5. ReceiptSteps'
        BY <1>3, <2>1, <2>3 DEF CInv, ReceiptSteps, ToOutbox, ToReceipts, ToEvidence, ToWrong, ToCalls,
           ToRejected, ToAudit, ToRule, ToDecide, ToStop, ToApplied
  <2> QED  BY <1>4, <1>5, <2>2, <2>4, <2>5 DEF CInv
<1>7. CASE Rece!RestartDown
  <2>1. /\ pc = "s_down" /\ pc' = "s_up" /\ reconciling' = FALSE /\ Rece!StopDispatchers
        /\ before' = Rece!Snapshot
        /\ UNCHANGED <<op, paid, inbox, decided, extra, faults, verdict, late, early>>
        BY <1>7 DEF Rece!RestartDown
  <2>2. Rece!TypeOK'
        BY <1>1, <1>3, <2>1, ReceiptStopped DEF Rece!TypeOK
  <2>3. op["provider"] # "none" /\ extra = 0
        BY <2>1 DEF CInv, ReceiptSteps
  <2>4. before'.extra = 0 /\ before'.op["provider"] # "none"
        BY <1>1, <2>1, <2>3 DEF Rece!Snapshot
  <2>5. ReceiptTraces'
        BY <1>1, <2>1, ReceiptStopped DEF CInv, ReceiptTraces
  <2>6. ReceiptSteps'
        BY <1>3, <2>1, <2>3, <2>4 DEF ReceiptSteps, ToOutbox, ToReceipts, ToEvidence, ToWrong, ToCalls,
           ToRejected, ToAudit, ToRule, ToDecide, ToStop, ToApplied
  <2> QED  BY <1>4, <1>5, <2>2, <2>5, <2>6 DEF CInv
<1>8. CASE Rece!RestartUp
  <2>1. /\ pc = "s_up" /\ pc' = "s_kept" /\ dispatching' = TRUE /\ reconciling' = TRUE
        /\ paid' = [o \in Rece!Ops |-> 0] /\ op' = IF "state_lost" \in faults THEN Rece!NoRow ELSE op
        /\ UNCHANGED <<outbox, inbox, decided, extra, hand, faults, before, verdict, late, early>>
        BY <1>8 DEF Rece!RestartUp
  <2>2. /\ op' \in [Rece!Ops -> OpStates] /\ \A o \in Rece!Ops : op'[o] \in {op[o], "none"}
        /\ "state_lost" \in faults => \A o \in Rece!Ops : op'[o] = "none"
        /\ paid' \in [Rece!Ops -> 0..2] /\ \A o \in Rece!Ops : paid'[o] = 0
        BY <1>1, <2>1 DEF Rece!NoRow, OpStates
  <2>3. Rece!TypeOK'
        BY <1>1, <1>3, <2>1, <2>2 DEF Rece!TypeOK, OpStates
  <2>4. ReceiptTraces'
        BY <2>1, <2>2 DEF CInv, ReceiptTraces
  <2>5. ReceiptSteps'
        BY <1>3, <2>1 DEF CInv, ReceiptSteps, ToOutbox, ToReceipts, ToEvidence, ToWrong, ToCalls,
           ToRejected, ToAudit, ToRule, ToDecide, ToStop, ToApplied
  <2> QED  BY <1>4, <1>5, <2>3, <2>4, <2>5 DEF CInv
<1> QED
    BY <1>6, <1>7, <1>8

\* The repeated calls after the restart, and the diagnostics.
LEMMA ReceiptRepeatsKeep ==
    ASSUME CInv, Rece!RestartReplay \/ Rece!Stalled
    PROVE  CInv'
<1> USE DEF Rece!Go, Rece!Submit, Rece!Fails, Rece!Has
<1>1. /\ Rece!TypeOK /\ "resumed" \in Rece!Ops /\ op \in [Rece!Ops -> OpStates]
      /\ "outcome_ignored" \in faults => \A o \in Rece!Ops : op[o] # "REJECTED"
      /\ "limit_ignored" \in faults => \A x \in decided : x[1] # "auto"
      BY DEF CInv, Rece!TypeOK, OpStates, Rece!Ops, Rece!Paying, ReceiptTraces
<1>2. pc \in {"s_replay", "t_stalled"} => extra = 0 /\ before.extra = 0 /\ verdict = "none"
      BY DEF CInv, ReceiptSteps
<1>3. ASSUME UNCHANGED <<faults, op, outbox, paid, inbox, decided, hand, dispatching, reconciling, before,
                         late, early>>,
             extra' \in 0..2, verdict' = "ContractError", pc' = "done"
      PROVE  CInv'
  <2>1. Rece!TypeOK'
        BY <1>1, <1>3 DEF Rece!TypeOK, Rece!Steps
  <2> QED  BY <1>1, <1>3, <2>1, ReceiptEnds
<1>4. CASE Rece!RestartReplay
  <2>1. /\ pc = "s_replay" /\ extra' = IF "replay_writes" \in faults THEN extra + 1 ELSE extra
        /\ UNCHANGED <<faults, outbox, paid, inbox, decided, hand, dispatching, reconciling, before, late,
                       early>>
        /\ \/ verdict' = "ContractError" /\ pc' = "done" /\ op' = op
           \/ /\ extra' = before.extra /\ pc' = "s_resumed" /\ verdict' = verdict
              /\ op' = [op EXCEPT !["resumed"] = "SUBMITTED"]
        BY <1>4 DEF Rece!RestartReplay
  <2>2. extra' \in 0..2
        BY <1>2, <2>1
  <2>3. CASE verdict' = "ContractError" /\ pc' = "done" /\ op' = op
        BY <1>3, <2>1, <2>2, <2>3
  <2>4. CASE /\ extra' = before.extra /\ pc' = "s_resumed" /\ verdict' = verdict
             /\ op' = [op EXCEPT !["resumed"] = "SUBMITTED"]
    <3>1. extra' = 0 /\ "replay_writes" \notin faults
          BY <1>2, <2>1, <2>4
    <3>2. op' \in [Rece!Ops -> OpStates] /\ \A o \in Rece!Ops : op'[o] \in {op[o], "SUBMITTED"}
          BY <1>1, <2>4 DEF OpStates
    <3>3. ReceiptShown'
          BY <1>2, <2>1, <2>4, <3>1, ReceiptShows DEF CInv, ShowingMove
    <3>4. Rece!TypeOK'
          BY <1>1, <2>1, <2>2, <2>4, <3>2 DEF Rece!TypeOK, Rece!Steps, OpStates
    <3>5. ReceiptTraces'
          BY <1>1, <2>1, <2>4, <3>2 DEF CInv, ReceiptTraces
    <3>6. ReceiptSteps'
          BY <1>2, <2>1, <2>4, <3>1 DEF ReceiptSteps, ToOutbox, ToReceipts, ToEvidence, ToWrong, ToCalls,
             ToRejected, ToAudit, ToRule, ToDecide, ToStop, ToApplied
    <3>7. ReceiptEarly'
          BY <1>2, <2>1, <2>4, ReceiptStillEarly DEF CInv
    <3> QED  BY <3>3, <3>4, <3>5, <3>6, <3>7 DEF CInv
  <2> QED  BY <2>1, <2>3, <2>4
<1>5. CASE Rece!Stalled
  <2>1. /\ pc = "t_stalled" /\ pc' = "done"
        /\ extra' = IF "stalled_writes" \in faults THEN extra + 1 ELSE extra
        /\ verdict' = IF extra' = extra THEN "passed" ELSE "ContractError"
        /\ UNCHANGED <<faults, op, outbox, paid, inbox, decided, hand, dispatching, reconciling, before, late,
                       early>>
        BY <1>5 DEF Rece!Stalled
  <2>2. extra' \in 0..2
        BY <1>2, <2>1
  <2>3. CASE verdict' = "ContractError"
        BY <1>3, <2>1, <2>2, <2>3
  <2>4. CASE verdict' = "passed"
    <3>1. "stalled_writes" \notin faults
          BY <1>2, <2>1, <2>4
    <3>2. ReceiptShown'
          BY <2>1, <2>4, <3>1 DEF CInv, ReceiptShown, Past, ToOutbox, ToReceipts, ToEvidence, ToWrong,
             ToCalls, ToRejected, ToAudit, ToRule, ToDecide, ToStop, ToApplied, ToKept, ToReplay
    <3>3. Rece!TypeOK'
          BY <1>1, <2>1, <2>2, <2>4 DEF Rece!TypeOK, Rece!Steps
    <3>4. ReceiptTraces'
          BY <2>1 DEF CInv, ReceiptTraces
    <3>5. ReceiptSteps'
          BY <2>1, <2>4 DEF CInv, ReceiptSteps, ToOutbox, ToReceipts, ToEvidence, ToWrong, ToCalls,
             ToRejected, ToAudit, ToRule, ToDecide, ToStop, ToApplied
    <3>6. ReceiptEarly'
          BY <2>1 DEF CInv, ReceiptEarly
    <3> QED  BY <3>2, <3>3, <3>4, <3>5, <3>6 DEF CInv
  <2> QED  BY <2>1, <2>3, <2>4
<1> QED
    BY <1>4, <1>5

LEMMA ReceiptInvariant ==
    /\ Rece!Init => CInv
    /\ CInv /\ Rece!Next => CInv'
    /\ CInv => Rece!TypeOK /\ Rece!NoFalsePass
<1> USE DEF ToOutbox, ToReceipts, ToEvidence, ToWrong, ToCalls, ToRejected, ToAudit, ToRule, ToDecide,
            ToStop, ToApplied, ToKept, ToReplay
<1>1. Rece!Init => CInv
  <2> SUFFICES ASSUME Rece!Init
               PROVE  CInv
      OBVIOUS
  <2> USE DEF Rece!Init
  <2>1. Rece!TypeOK
    <3>1. faults \subseteq Rece!Faults
          OBVIOUS
    <3>2. pc \in Rece!Steps
          BY DEF Rece!Steps
    <3>3. /\ op \in [Rece!Ops -> OpStates] /\ paid \in [Rece!Ops -> 0..2]
          /\ outbox \in [Rece!Ops -> {"none", "PENDING", "LEASED", "DELIVERED", "CONFIRMED"}]
          /\ hand \in [{"a", "b"} -> Rece!Ops \cup {"none"}]
          BY DEF Rece!NoRow, OpStates
    <3>4. inbox = {} /\ decided = {} /\ early = {} /\ extra \in 0..2 /\ verdict = "none" /\ late = FALSE
          OBVIOUS
    <3>5. dispatching = TRUE /\ reconciling = TRUE
          OBVIOUS
    <3> HIDE DEF Rece!Init
    <3> QED  BY <3>1, <3>2, <3>3, <3>4, <3>5 DEF Rece!TypeOK, OpStates
  <2>2. ReceiptShown
        BY DEF ReceiptShown, Past
  <2>3. ReceiptTraces
        BY DEF ReceiptTraces, Rece!NoRow
  <2>4. ReceiptSteps
        BY DEF ReceiptSteps, Rece!NoRow, Rece!NoSnapshot, Rece!Ops, Rece!Paying
  <2>5. ReceiptEarly
        BY DEF ReceiptEarly
  <2> QED  BY <2>1, <2>2, <2>3, <2>4, <2>5 DEF CInv
<1>2. CInv /\ Rece!Next => CInv'
  <2> SUFFICES ASSUME CInv, Rece!Next
               PROVE  CInv'
      OBVIOUS
  <2>1. CASE Rece!Candidate
        BY <2>1, ReceiptProcessKeeps, ReceiptDeliveryKeeps, ReceiptApplyKeeps DEF Rece!Candidate
  <2>2. CASE Rece!Checker
        BY <2>2, ReceiptAsksKeep, ReceiptSubmitsKeep, ReceiptCallsKeep, ReceiptReviewKeeps,
           ReceiptRestartKeeps, ReceiptRepeatsKeep DEF Rece!Checker
  <2> QED  BY <2>1, <2>2 DEF Rece!Next
<1>3. CInv => Rece!TypeOK /\ Rece!NoFalsePass
  <2> SUFFICES ASSUME CInv, verdict = "passed"
               PROVE  faults \subseteq {"sends_stopped", "redelivers"} /\ early = {}
      BY DEF CInv, Rece!NoFalsePass
  <2>1. early = {}
        BY DEF CInv, ReceiptEarly
  <2>2. faults \subseteq Rece!Faults
        BY DEF CInv, Rece!TypeOK
  <2>3. \A f \in faults : f \in {"sends_stopped", "redelivers"}
        BY <2>2 DEF CInv, ReceiptShown, Past, Rece!Faults
  <2> QED  BY <2>1, <2>3
<1> QED
    BY <1>1, <1>2, <1>3

-----------------------------------------------------------------------------
(* What the faults of a workflow engine show to the phases execution and versioning *)

\* The steps up to a check, in the order of the checker.
BeforeRepeat == {"e_start", "e_waiting", "e_signal", "e_completed", "e_repeat"}
BeforeElsewhere == BeforeRepeat \cup {"e_changed", "e_record", "e_early", "e_stored", "e_resume",
                                      "e_applied", "e_elsewhere"}
Published == {"v_waiting", "v_repeat", "v_record"}
Entries == {"Started", "StepEntered", "SignalApplied", "Refused"}
SignalEnd == "automatic-signal-end"
Idempotent == "signal-idempotency-and-history"
Pinned == "version-pinning-and-start-idempotency"

SignSeen ==
    /\ seen = [automatic |-> seen.automatic, history |-> seen.history, signals |-> seen.signals,
               ok |-> seen.ok, early |-> seen.early, same |-> seen.same, changed |-> seen.changed]
    /\ seen.history \in Seq(Entries)
    /\ events \in [Sign!Labels -> Seq(Entries)]

\* What a fault of the engine leaves in the rows of a process.
SignTraces ==
    \A l \in Sign!Labels :
       /\ proc[l].effects = 1 => {"lost_effect", "double_effect"} \cap faults = {}
       /\ proc[l].dispatched = {1} => "action_latest" \notin faults
       /\ proc[l].ended => "no_end" \notin faults
       /\ proc[l].state = "WAITING_SIGNAL" => "no_wait" \notin faults

SignRoutes ==
    /\ proc["manual"].state = "WAITING_MANUAL" => "manual_skipped" \notin faults
    /\ proc["unknown"].attempts = 1 => "unknown_retried" \notin faults
    /\ pc = "v_failed" /\ "unknown_fallback" \notin faults => proc["unknown"].state \in {"RUNNING", "FAILED"}
    /\ ~up => pc \in {"e_stored", "e_resume"}
    /\ pc = "e_stored" => ~up /\ proc["early"].state = "RUNNING"
    /\ "start_refused" \in faults => pc \in {"e_start", "v_publish", "done"}

\* The rows of autocheck.signals while the checker compares them.
SignRows ==
    /\ pc = "e_signal" => proc["signal"].state = "WAITING_SIGNAL"
    /\ pc \in {"e_repeat", "e_changed"} => proc["signal"].state = "COMPLETED"
    /\ pc \in BeforeRepeat => \A s \in signals : s.proc = "signal" => s.status = "APPLIED"
    /\ pc \in BeforeRepeat => \A s \in seen.signals : s.status = "APPLIED"
    /\ pc \in BeforeElsewhere => \A s \in signals : s.msg = "m2" => s.proc = "early"
    /\ "early_ignored" \in faults => \A s \in signals : s.proc = "early" => s.status = "ACCEPTED"

\* The history of the process between the reads of the checker.
SignHistory ==
    /\ pc = "e_start" => proc["signal"].state = "none" /\ events["signal"] = <<>>
    /\ pc \in {"e_waiting", "e_signal"} => events["signal"] # <<>> /\ events["signal"][1] = "Started"
    /\ pc \in {"e_signal", "e_completed"} => seen.history # <<>> /\ seen.history[1] = "Started"
    /\ pc = "e_completed" /\ seen.ok /\ "history_rewritten" \in faults =>
          events["signal"] # <<>> /\ events["signal"][1] = "SignalApplied"
    /\ pc = "e_changed" /\ seen.ok => events["signal"] = seen.history

\* What the checker has read rules out the faults that would have shown.
SignShown ==
    /\ seen.automatic => {"lost_effect", "double_effect", "action_latest", "no_wait"} \cap faults = {}
    /\ seen.ok /\ pc \in BeforeElsewhere \ {"e_start", "e_waiting", "e_signal", "e_completed"} =>
          "history_rewritten" \notin faults
    /\ seen.ok /\ pc \in BeforeElsewhere \ BeforeRepeat => {"dup_error", "dup_inserts"} \cap faults = {}
    /\ seen.ok /\ pc \in BeforeElsewhere \ (BeforeRepeat \cup {"e_changed"}) =>
          {"conflict_accepted", "conflict_writes"} \cap faults = {}
    /\ seen.ok /\ pc \in {"e_resume", "e_applied", "e_elsewhere"} => "early_refused" \notin faults
    /\ seen.ok /\ pc = "e_elsewhere" => "early_ignored" \notin faults

SignVersions ==
    /\ active = {2} => "two_active" \notin faults
    /\ pc \in Published /\ "unpinned" \in faults => proc["manual"].ver # 1 /\ proc["signal"].ver # 1
    /\ pc \in Published /\ "start_old" \in faults => proc["v2"].ver = 1
    /\ pc = "v_record" => /\ seen.same => "start_again" \notin faults
                          /\ seen.changed => "start_changed" \notin faults

\* A verdict is earned.  An unknown outcome is tried after the last check is recorded: what it
\* shows may come too late, and an engine that takes some transition anyway shows nothing.
SignEarned ==
    /\ \A c \in Sign!Checks : result[c] = "passed" => faults \cap Sign!Detects[c] \subseteq {"unknown_retried"}
    /\ result[Pinned] = "passed" =>
          /\ pc \in {"v_unknown", "v_failed", "done"}
          /\ pc = "done" /\ "unknown_retried" \in faults => late \/ "unknown_fallback" \in faults

GShow ==
    /\ SignSeen /\ SignTraces /\ SignRoutes /\ SignRows /\ SignHistory /\ SignShown /\ SignVersions
    /\ SignEarned

LEMMA SignDetects ==
    /\ Sign!Detects[SignalEnd]
         = {"start_refused", "lost_effect", "double_effect", "no_wait", "no_end", "action_latest"}
    /\ Sign!Detects[Idempotent]
         = {"dup_inserts", "dup_error", "conflict_accepted", "conflict_writes", "early_refused",
            "early_ignored", "ids_per_process", "history_rewritten"}
    /\ Sign!Detects["manual-wait"] = {"manual_skipped", "manual_no_step"}
    /\ Sign!Detects["stable-views"] = {"view_missing", "view_changed"}
    /\ Sign!Detects[Pinned]
         = {"unpinned", "two_active", "start_old", "start_again", "start_changed", "unknown_retried"}
    BY DEF Sign!Detects, Sign!Checks, SignalEnd, Idempotent, Pinned

\* A check recorded before the last one.
LEMMA SignRecordEarns ==
    ASSUME GInv, SignEarned, NEW c \in Sign!Checks \ {Pinned}, NEW b, Sign!Record(c, b),
           b => faults \cap Sign!Detects[c] = {}, faults' = faults,
           pc \notin {"v_unknown", "v_failed", "done"}
    PROVE  SignEarned'
<1>1. result \in [Sign!Checks -> {"absent", "passed", "failed"}] /\ Pinned \in Sign!Checks
      BY DEF GInv, Pinned, Sign!Checks
<1>2. result' = [result EXCEPT ![c] = IF b THEN "passed" ELSE "failed"]
      BY DEF Sign!Record
<1>3. \A d \in Sign!Checks : d # c => result'[d] = result[d]
      BY <1>1, <1>2
<1>4. result'[c] = "passed" => faults' \cap Sign!Detects[c] \subseteq {"unknown_retried"}
      BY <1>1, <1>2
<1>5. result'[Pinned] # "passed"
      BY <1>1, <1>3 DEF SignEarned
<1> QED
    BY <1>3, <1>4, <1>5 DEF SignEarned

\* Nothing is recorded.
LEMMA SignNothingEarned ==
    ASSUME SignEarned, UNCHANGED <<faults, result, late>>, result[Pinned] = "passed" => pc' = pc \/ pc' = "v_failed"
    PROVE  SignEarned'
    BY DEF SignEarned

\* A ContractError ends a phase, unless it is the last poll that runs out.
LEMMA SignContractShows ==
    ASSUME GInv, GShow, NEW slow, Sign!Contract(slow), pc \notin {"v_unknown", "v_failed", "done"},
           pc \notin {"e_stored", "e_resume"}
    PROVE  GShow'
<1>1. /\ pc' \in {"v_publish", "done"}
      /\ UNCHANGED <<faults, active, proc, signals, events, up, seen>>
      /\ result' = [c \in Sign!Checks |-> IF c \in Sign!ChecksFrom(pc) /\ result[c] = "absent"
                                          THEN "failed" ELSE result[c]]
      BY DEF Sign!Contract, Sign!Go, Sign!engine
<1>2. SignSeen' /\ SignTraces' /\ SignHistory' /\ SignVersions'
      BY <1>1 DEF GShow, SignSeen, SignTraces, SignHistory, SignVersions, Published
<1>3. SignRoutes'
      BY <1>1 DEF GShow, SignRoutes
<1>4. SignRows' /\ SignShown'
      BY <1>1 DEF GShow, SignRows, SignShown, BeforeRepeat, BeforeElsewhere
<1>5. SignEarned'
  <2>1. \A c \in Sign!Checks : result'[c] = "passed" => result[c] = "passed"
        BY <1>1
  <2>2. result'[Pinned] # "passed"
        BY <2>1 DEF GShow, SignEarned, Pinned, Sign!Checks
  <2> QED  BY <1>1, <2>1, <2>2 DEF GShow, SignEarned
<1> QED
    BY <1>2, <1>3, <1>4, <1>5 DEF GShow

\* A worker's step.
LEMMA SignWorkShows ==
    ASSUME GInv, GShow, NEW l \in Sign!Labels, Sign!Work(l)
    PROVE  GShow'
<1> DEFINE apply == Sign!Arrives(l) = "WAITING_SIGNAL" /\ Sign!Stored(l) # {} /\ "early_ignored" \notin faults
           st == IF apply THEN "COMPLETED" ELSE Sign!Arrives(l)
           a == IF l = "unknown" /\ "unknown_retried" \in faults THEN 2 ELSE 1
           e == IF l = "unknown" \/ "lost_effect" \in faults THEN 0
                ELSE IF "double_effect" \in faults THEN 2 ELSE 1
           d == {IF "action_latest" \in faults THEN 2 ELSE 1}
           b == apply /\ "no_end" \notin faults
<1>1. /\ up /\ proc[l].state = "RUNNING"
      /\ proc' = [proc EXCEPT ![l] = [proc[l] EXCEPT !.state = st, !.attempts = a, !.effects = e,
                                                     !.dispatched = d, !.ended = b]]
      /\ UNCHANGED <<faults, active, up, pc, seen, result, late>>
      /\ events' = [events EXCEPT ![l] = Append(@, "StepEntered")]
      BY DEF Sign!Work, Sign!Has, Sign!Log
<1>2. /\ proc \in [Sign!Labels -> ProcessSchema] /\ proc[l] \in ProcessSchema
      BY DEF GInv, SignTables
<1>3. /\ e = 1 => l # "unknown" /\ "lost_effect" \notin faults /\ "double_effect" \notin faults
      /\ d = {1} => "action_latest" \notin faults
      /\ b => "no_end" \notin faults
      /\ a = 1 => l # "unknown" \/ "unknown_retried" \notin faults
      /\ st = "WAITING_SIGNAL" => "no_wait" \notin faults
      /\ l = "manual" /\ st = "WAITING_MANUAL" => "manual_skipped" \notin faults
      /\ l = "unknown" /\ "unknown_fallback" \notin faults => st = "FAILED"
      /\ "early_ignored" \in faults => ~apply
  <2>1. /\ d = {1} => "action_latest" \notin faults
        /\ b => "no_end" \notin faults
        /\ a = 1 => l # "unknown" \/ "unknown_retried" \notin faults
        /\ "early_ignored" \in faults => ~apply
        OBVIOUS
  <2>2. e = 1 => l # "unknown" /\ "lost_effect" \notin faults /\ "double_effect" \notin faults
        OBVIOUS
  <2>3. /\ st = "WAITING_SIGNAL" => "no_wait" \notin faults
        /\ l = "manual" /\ st = "WAITING_MANUAL" => "manual_skipped" \notin faults
        /\ l = "unknown" /\ "unknown_fallback" \notin faults => st = "FAILED"
        BY DEF Sign!Arrives, Sign!Has
  <2> QED  BY <2>1, <2>2, <2>3
<1>4. signals' = IF apply THEN {IF s \in Sign!Stored(l) THEN [s EXCEPT !.status = "APPLIED"] ELSE s : s \in signals}
                 ELSE signals
      BY DEF Sign!Work, Sign!Has
<1> HIDE DEF st, a, e, d, b, apply
<1>5. \E r : /\ proc' = [proc EXCEPT ![l] = r] /\ r.state = st /\ r.attempts = a /\ r.effects = e
             /\ r.dispatched = d /\ r.ended = b /\ r.ver = proc[l].ver
  <2> DEFINE r == [proc[l] EXCEPT !.state = st, !.attempts = a, !.effects = e, !.dispatched = d, !.ended = b]
  <2>1. r.state = st /\ r.attempts = a /\ r.effects = e /\ r.dispatched = d /\ r.ended = b /\ r.ver = proc[l].ver
        BY <1>2 DEF ProcessSchema
  <2> QED  BY <1>1, <2>1
<1>6. PICK r : /\ proc' = [proc EXCEPT ![l] = r] /\ r.state = st /\ r.attempts = a /\ r.effects = e
               /\ r.dispatched = d /\ r.ended = b /\ r.ver = proc[l].ver
      BY <1>5
<1>7. /\ \A k \in Sign!Labels : proc'[k].ver = proc[k].ver
      /\ \A k \in Sign!Labels : k # l => proc'[k] = proc[k]
      /\ proc'[l] = r
      BY <1>2, <1>6
<1>8. SignSeen'
  <2>1. \A q \in Seq(Entries) : Append(q, "StepEntered") \in Seq(Entries)
        BY DEF Entries
  <2>2. events' \in [Sign!Labels -> Seq(Entries)]
        BY <1>1, <2>1 DEF GShow, SignSeen
  <2> QED  BY <1>1, <2>2 DEF GShow, SignSeen
<1>9. SignTraces'
      BY <1>1, <1>3, <1>6, <1>7 DEF GShow, SignTraces
<1>10. SignRoutes'
       BY <1>1, <1>3, <1>6, <1>7 DEF GShow, SignRoutes, Sign!Labels
<1>11. SignRows'
  <2>1. \A s \in signals' : \E t \in signals :
           s.msg = t.msg /\ s.proc = t.proc /\ (s = t \/ (apply /\ s.status = "APPLIED"))
    <3>1. CASE ~apply
          BY <1>4, <3>1
    <3>2. CASE apply
      <4> SUFFICES ASSUME NEW t \in signals
                   PROVE  LET s == [t EXCEPT !.status = "APPLIED"]
                          IN s.msg = t.msg /\ s.proc = t.proc /\ s.status = "APPLIED"
          BY <1>4, <3>2
      <4>1. SignalRow(t)
            BY DEF GInv, SignTables
      <4> QED  BY <4>1 DEF SignalRow
    <3> QED  BY <3>1, <3>2
  <2>2. pc \in {"e_signal", "e_repeat", "e_changed"} => l # "signal"
        BY <1>1 DEF GShow, SignRows
  <2>3. /\ pc' = "e_signal" => proc'["signal"].state = "WAITING_SIGNAL"
        /\ pc' \in {"e_repeat", "e_changed"} => proc'["signal"].state = "COMPLETED"
        BY <1>1, <1>7, <2>2 DEF GShow, SignRows, Sign!Labels
  <2>4. /\ pc' \in BeforeRepeat => \A s \in signals' : s.proc = "signal" => s.status = "APPLIED"
        /\ pc' \in BeforeRepeat => \A s \in seen'.signals : s.status = "APPLIED"
        /\ pc' \in BeforeElsewhere => \A s \in signals' : s.msg = "m2" => s.proc = "early"
        BY <1>1, <2>1 DEF GShow, SignRows
  <2>5. "early_ignored" \in faults => \A s \in signals : s.proc = "early" => s.status = "ACCEPTED"
        BY DEF GShow, SignRows
  <2>6. "early_ignored" \in faults' => \A s \in signals' : s.proc = "early" => s.status = "ACCEPTED"
        BY <1>1, <1>3, <2>1, <2>5
  <2> QED  BY <2>3, <2>4, <2>6 DEF SignRows
<1>12. SignHistory'
  <2>1. /\ l = "signal" => pc \notin {"e_start", "e_signal", "e_repeat", "e_changed"}
        /\ l # "signal" => events'["signal"] = events["signal"] /\ proc'["signal"] = proc["signal"]
        BY <1>1, <1>7 DEF GShow, SignRows, SignHistory, SignSeen, Sign!Labels
  <2>2. \A q \in Seq(Entries) : q # <<>> => Append(q, "StepEntered") # <<>> /\ Append(q, "StepEntered")[1] = q[1]
        OBVIOUS
  <2>3. l = "signal" => events'["signal"] = Append(events["signal"], "StepEntered") /\ events["signal"] \in Seq(Entries)
        BY <1>1 DEF GShow, SignSeen, Sign!Labels
  <2>4. CASE l = "signal"
        BY <1>1, <2>1, <2>2, <2>3, <2>4 DEF GShow, SignHistory
  <2>5. CASE l # "signal"
        BY <1>1, <2>1, <2>5 DEF GShow, SignHistory
  <2> QED  BY <2>4, <2>5
<1>13. SignShown' /\ SignEarned'
       BY <1>1 DEF GShow, SignShown, SignEarned
<1>14. SignVersions'
       BY <1>1, <1>7 DEF GShow, SignVersions, Sign!Labels
<1> QED
    BY <1>8, <1>9, <1>10, <1>11, <1>12, <1>13, <1>14 DEF GShow

\* A process is started, at the start of the phase, for the manual wait or for the unknown outcome.
LEMMA SignStartShows ==
    ASSUME GInv, GShow, NEW l \in {"signal", "manual", "unknown"}, Sign!Start(l),
           UNCHANGED <<faults, seen, result, late>>, "start_refused" \notin faults,
           \/ l = "signal" /\ pc = "e_start" /\ pc' = "e_waiting"
           \/ l = "manual" /\ pc = "e_manual" /\ pc' = "e_manualwait"
           \/ l = "unknown" /\ pc = "v_unknown" /\ pc' = "v_failed"
    PROVE  GShow'
<1> DEFINE r == [Sign!NoProcess EXCEPT !.state = "RUNNING", !.ver = Sign!Version]
<1>1. /\ proc' = [proc EXCEPT ![l] = r] /\ UNCHANGED <<active, signals, up>>
      /\ events' = [events EXCEPT ![l] = Append(@, "Started")]
      BY DEF Sign!Start, Sign!Log
<1>2. r.state = "RUNNING" /\ r.attempts = 0 /\ r.effects = 0 /\ r.dispatched = {} /\ r.ended = FALSE
      BY DEF Sign!NoProcess
<1> HIDE DEF r
<1>3. proc \in [Sign!Labels -> ProcessSchema] /\ l \in Sign!Labels
      BY DEF GInv, SignTables, Sign!Labels
<1>4. proc'[l] = r /\ \A k \in Sign!Labels : k # l => proc'[k] = proc[k]
      BY <1>1, <1>3
<1>5. SignSeen'
  <2>1. \A q \in Seq(Entries) : Append(q, "Started") \in Seq(Entries)
        BY DEF Entries
  <2>2. events' \in [Sign!Labels -> Seq(Entries)]
        BY <1>1, <1>3, <2>1 DEF GShow, SignSeen
  <2> QED  BY <2>2 DEF GShow, SignSeen
<1>6. SignTraces'
      BY <1>2, <1>4 DEF GShow, SignTraces
<1>7. SignRoutes'
      BY <1>1, <1>2, <1>4 DEF GShow, SignRoutes, Sign!Labels
<1>8. SignRows' /\ SignShown'
      BY <1>1 DEF GShow, SignRows, SignShown, BeforeRepeat, BeforeElsewhere
<1>9. SignHistory'
  <2>1. Append(<<>>, "Started") # <<>> /\ Append(<<>>, "Started")[1] = "Started"
        OBVIOUS
  <2>2. l = "signal" => events'["signal"] = Append(<<>>, "Started")
        BY <1>1, <1>3 DEF GShow, SignSeen, SignHistory
  <2> QED  BY <2>1, <2>2 DEF SignHistory
<1>10. SignVersions'
       BY <1>1 DEF GShow, SignVersions, Published
<1>11. SignEarned'
       BY SignNothingEarned DEF GShow, SignEarned
<1> QED
    BY <1>5, <1>6, <1>7, <1>8, <1>9, <1>10, <1>11 DEF GShow

\* A read of the checker, or a step that only moves on.
LEMMA SignReadShows ==
    ASSUME GInv, GShow, UNCHANGED <<faults, active, proc, signals, events, up, result, late>>,
           SignSeen', SignRoutes', SignRows', SignHistory', SignShown',
           pc \notin {"v_unknown", "v_failed", "done"}, SignVersions'
    PROVE  GShow'
<1>1. SignTraces'
      BY DEF GShow, SignTraces
<1>2. SignEarned'
      BY DEF GShow, SignEarned
<1> QED
    BY <1>1, <1>2 DEF GShow

LEMMA SignWaitingShows ==
    ASSUME GInv, GShow, Sign!ExecutionWaiting
    PROVE  GShow'
<1>1. CASE Sign!PollTimeout(proc["signal"].state = "WAITING_SIGNAL")
      BY <1>1, SignContractShows DEF Sign!PollTimeout, Sign!ExecutionWaiting
<1>2. CASE /\ proc["signal"].state = "WAITING_SIGNAL" /\ pc' = "e_signal"
           /\ seen' = [seen EXCEPT !.automatic = Sign!ActionRows("signal"), !.history = events["signal"],
                                   !.ok = Sign!SignalRows("signal") = {}]
           /\ UNCHANGED <<active, proc, signals, events, up, faults, result, late>>
  <2>1. pc = "e_waiting"
        BY DEF Sign!ExecutionWaiting
  <2>2. /\ seen'.automatic = Sign!ActionRows("signal") /\ seen'.history = events["signal"]
        /\ seen'.signals = seen.signals
        /\ SignSeen'
        BY <1>2 DEF GShow, SignSeen, Sign!Labels
  <2>3. SignRoutes' /\ SignRows' /\ SignHistory' /\ SignVersions'
        BY <1>2, <2>1, <2>2 DEF GShow, SignRoutes, SignRows, SignHistory, SignVersions, BeforeRepeat,
           BeforeElsewhere, Published
  <2>4. SignShown'
    <3>1. seen'.automatic => {"lost_effect", "double_effect", "action_latest", "no_wait"} \cap faults = {}
          BY <1>2, <2>2 DEF GShow, SignTraces, Sign!ActionRows, Sign!Labels
    <3> QED  BY <1>2, <3>1 DEF SignShown, BeforeElsewhere, BeforeRepeat
  <2> QED  BY <1>2, <2>1, <2>2, <2>3, <2>4, SignReadShows
<1> QED
    BY <1>1, <1>2 DEF Sign!ExecutionWaiting, Sign!Go, Sign!Keep, Sign!engine

\* What is stored of a signal.
Stores(l, msg, body, st, k) ==
    LET answer == Sign!Answer(l, msg, body)
    IN signals' = IF answer = "accepted" \/ (answer = "duplicate" /\ "dup_inserts" \in faults)
                  THEN signals \cup {[msg |-> msg, proc |-> l, body |-> body, n |-> k, status |-> st]}
                  ELSE signals

\* accept_signal, whatever it answers.
LEMMA SignSignal ==
    ASSUME GInv, GShow, NEW l \in {"signal", "early"}, NEW msg, NEW body, Sign!Signal(l, msg, body)
    PROVE  LET answer == Sign!Answer(l, msg, body)
               waits == proc[l].state = "WAITING_SIGNAL"
           IN /\ UNCHANGED <<active, up>>
              /\ \E k : Stores(l, msg, body, IF waits THEN "APPLIED" ELSE "ACCEPTED", k)
              /\ ~waits => proc' = proc
              /\ \A j \in Sign!Labels :
                    /\ j # l => proc'[j] = proc[j] /\ events'[j] = events[j]
                    /\ proc'[j].ver = proc[j].ver /\ proc'[j].effects = proc[j].effects
                    /\ proc'[j].attempts = proc[j].attempts /\ proc'[j].dispatched = proc[j].dispatched
                    /\ \/ proc'[j].state = proc[j].state /\ proc'[j].ended = proc[j].ended
                       \/ proc'[j].state = "COMPLETED" /\ (proc'[j].ended => "no_end" \notin faults)
              /\ events' \in [Sign!Labels -> Seq(Entries)]
              /\ answer = "accepted" /\ "history_rewritten" \in faults =>
                    events'[l] # <<>> /\ events'[l][1] = "SignalApplied"
              /\ answer = "conflict" /\ "conflict_writes" \in faults => events'[l] # events[l]
<1> DEFINE answer == Sign!Answer(l, msg, body)
           waits == proc[l].state = "WAITING_SIGNAL"
           done == answer = "accepted" /\ waits
           old == events[l]
           news == [i \in 1..Len(old) + 1 |-> "SignalApplied"]
<1>1. l \in Sign!Labels /\ proc \in [Sign!Labels -> ProcessSchema] /\ proc[l] \in ProcessSchema
      BY DEF GInv, SignTables, Sign!Labels
<1>2. events \in [Sign!Labels -> Seq(Entries)] /\ old \in Seq(Entries) /\ Len(old) \in Nat
      BY <1>1 DEF GShow, SignSeen
<1>3. UNCHANGED <<active, up>>
      BY DEF Sign!Signal
<1>4. \E k : Stores(l, msg, body, IF waits THEN "APPLIED" ELSE "ACCEPTED", k)
      BY DEF Sign!Signal, Sign!Has, Stores
<1>5. PICK b \in BOOLEAN :
         /\ b = ("no_end" \notin faults)
         /\ proc' = IF done THEN [proc EXCEPT ![l] = [proc[l] EXCEPT !.state = "COMPLETED", !.ended = b]] ELSE proc
  <2> DEFINE c == "no_end" \notin faults
  <2>1. c \in BOOLEAN
        OBVIOUS
  <2>2. proc' = IF done THEN [proc EXCEPT ![l].state = "COMPLETED", ![l].ended = c] ELSE proc
        BY DEF Sign!Signal, Sign!Has
  <2>3. [proc EXCEPT ![l].state = "COMPLETED", ![l].ended = c]
          = [proc EXCEPT ![l] = [proc[l] EXCEPT !.state = "COMPLETED", !.ended = c]]
        BY <1>1
  <2> QED  BY <2>1, <2>2, <2>3
<1>6. PICK e : /\ events' = [events EXCEPT ![l] = e]
               /\ e = IF answer = "accepted" /\ "history_rewritten" \in faults THEN news
                      ELSE IF answer = "accepted" THEN Append(old, "SignalApplied")
                      ELSE IF answer = "conflict" /\ "conflict_writes" \in faults THEN Append(old, "Refused")
                      ELSE old
  <2> DEFINE e == IF answer = "accepted" /\ "history_rewritten" \in faults THEN news
                  ELSE IF answer = "accepted" THEN Append(old, "SignalApplied")
                  ELSE IF answer = "conflict" /\ "conflict_writes" \in faults THEN Append(old, "Refused")
                  ELSE old
  <2>1. events' = CASE answer = "accepted" -> [events EXCEPT ![l] = IF "history_rewritten" \in faults THEN news
                                                                    ELSE Append(old, "SignalApplied")]
                    [] answer = "conflict" /\ "conflict_writes" \in faults -> [events EXCEPT ![l] = Append(old, "Refused")]
                    [] OTHER -> events
        BY <1>1, <1>2 DEF Sign!Signal, Sign!Has
  <2>2. events = [events EXCEPT ![l] = old]
        BY <1>1, <1>2
  <2> HIDE DEF news, answer, old
  <2>3. CASE answer = "accepted" /\ "history_rewritten" \in faults
        BY <2>1, <2>3
  <2>4. CASE answer = "accepted" /\ "history_rewritten" \notin faults
        BY <2>1, <2>4
  <2>5. CASE answer = "conflict" /\ "conflict_writes" \in faults
        BY <2>1, <2>5
  <2>6. CASE answer # "accepted" /\ ~(answer = "conflict" /\ "conflict_writes" \in faults)
    <3>1. events' = events /\ e = old
          BY <2>1, <2>6
    <3> HIDE DEF e
    <3> QED  BY <2>2, <2>6, <3>1
  <2> QED  BY <2>3, <2>4, <2>5, <2>6
<1>7. /\ news \in Seq(Entries) /\ news # <<>> /\ news[1] = "SignalApplied"
      /\ Append(old, "SignalApplied") \in Seq(Entries)
      /\ Append(old, "Refused") \in Seq(Entries) /\ Append(old, "Refused") # old
  <2>1. news \in Seq(Entries) /\ Len(news) = Len(old) + 1
        BY <1>2 DEF Entries
  <2>2. news[1] = "SignalApplied" /\ news # <<>>
        BY <1>2, <2>1
  <2>3. Append(old, "SignalApplied") \in Seq(Entries)
        BY <1>2 DEF Entries
  <2>4. Append(old, "Refused") \in Seq(Entries) /\ Append(old, "Refused") # old
    <3>1. Append(old, "Refused") \in Seq(Entries) /\ Len(Append(old, "Refused")) = Len(old) + 1
          BY <1>2 DEF Entries
    <3> QED  BY <1>2, <3>1
  <2> QED  BY <2>1, <2>2, <2>3, <2>4
<1> HIDE DEF news, answer, waits, old, done
<1>8. events' \in [Sign!Labels -> Seq(Entries)] /\ events'[l] = e
      /\ \A j \in Sign!Labels : j # l => events'[j] = events[j]
      BY <1>1, <1>2, <1>6, <1>7
<1>9. /\ answer = "accepted" /\ "history_rewritten" \in faults => e = news
      /\ answer = "conflict" /\ "conflict_writes" \in faults => e = Append(old, "Refused")
      BY <1>6
<1>10. \A j \in Sign!Labels :
          /\ j # l => proc'[j] = proc[j]
          /\ proc'[j].ver = proc[j].ver /\ proc'[j].effects = proc[j].effects
          /\ proc'[j].attempts = proc[j].attempts /\ proc'[j].dispatched = proc[j].dispatched
          /\ \/ proc'[j].state = proc[j].state /\ proc'[j].ended = proc[j].ended
             \/ proc'[j].state = "COMPLETED" /\ (proc'[j].ended => "no_end" \notin faults)
  <2>1. CASE ~done
        BY <1>5, <2>1
  <2>2. CASE done
    <3> DEFINE q == [proc[l] EXCEPT !.state = "COMPLETED", !.ended = b]
    <3>1. /\ q.state = "COMPLETED" /\ q.ended = b /\ q.ver = proc[l].ver /\ q.effects = proc[l].effects
          /\ q.attempts = proc[l].attempts /\ q.dispatched = proc[l].dispatched
          BY <1>1 DEF ProcessSchema
    <3>2. proc' = [proc EXCEPT ![l] = q]
          BY <1>5, <2>2
    <3> HIDE DEF q
    <3>3. proc'[l] = q /\ \A j \in Sign!Labels : j # l => proc'[j] = proc[j]
          BY <1>1, <3>2
    <3>4. b => "no_end" \notin faults
          BY <1>5
    <3> QED  BY <3>1, <3>3, <3>4
  <2> QED  BY <2>1, <2>2
<1>11. ~waits => proc' = proc
       BY <1>5 DEF done
<1> QED
    BY <1>3, <1>4, <1>7, <1>8, <1>9, <1>10, <1>11 DEF answer, waits, old

\* The traces that accept_signal cannot disturb.
LEMMA SignSignalTraces ==
    ASSUME GInv, GShow, NEW l \in {"signal", "early"}, NEW msg, NEW body, Sign!Signal(l, msg, body),
           faults' = faults
    PROVE  /\ SignTraces'
           /\ proc'["manual"] = proc["manual"] /\ proc'["unknown"] = proc["unknown"]
<1>1. "manual" \in Sign!Labels \ {l} /\ "unknown" \in Sign!Labels \ {l}
      BY DEF Sign!Labels
<1>2. \A j \in Sign!Labels :
         /\ j # l => proc'[j] = proc[j]
         /\ proc'[j].effects = proc[j].effects /\ proc'[j].dispatched = proc[j].dispatched
         /\ \/ proc'[j].state = proc[j].state /\ proc'[j].ended = proc[j].ended
            \/ proc'[j].state = "COMPLETED" /\ (proc'[j].ended => "no_end" \notin faults)
      BY SignSignal
<1>3. SignTraces'
      BY <1>2 DEF GShow, SignTraces
<1> QED  BY <1>1, <1>2, <1>3

\* A signal, between two reads of the checker.
LEMMA SignSignalShows ==
    ASSUME GInv, GShow, NEW l \in {"signal", "early"}, NEW msg, NEW body, Sign!Signal(l, msg, body),
           UNCHANGED <<faults, result, late>>, seen' = [seen EXCEPT !.ok = seen'.ok],
           \/ pc \in {"e_signal", "e_repeat", "e_changed"} /\ pc' \in {"e_completed", "e_changed", "e_record"}
           \/ pc = "e_stored" /\ pc' = "e_resume",
           SignRows', SignHistory', SignShown'
    PROVE  GShow'
<1>1. /\ UNCHANGED <<active, up>> /\ events' \in [Sign!Labels -> Seq(Entries)]
      /\ \A j \in Sign!Labels : proc'[j].ver = proc[j].ver
      BY SignSignal
<1>2. /\ SignTraces' /\ proc'["manual"] = proc["manual"] /\ proc'["unknown"] = proc["unknown"]
      BY SignSignalTraces
<1>3. SignSeen'
      BY <1>1 DEF GShow, SignSeen
<1>4. SignRoutes'
      BY <1>1, <1>2 DEF GShow, SignRoutes
<1>5. SignVersions'
      BY <1>1, <1>2 DEF GShow, SignVersions, Published
<1>6. SignEarned'
      BY DEF GShow, SignEarned
<1> QED
    BY <1>2, <1>3, <1>4, <1>5, <1>6 DEF GShow

LEMMA SignFirstShows ==
    ASSUME GInv, GShow, Sign!ExecutionSignal
    PROVE  GShow'
<1> DEFINE answer == Sign!Answer("signal", "m1", "body")
<1>1. /\ pc = "e_signal" /\ pc' = "e_completed" /\ Sign!Signal("signal", "m1", "body")
      /\ seen' = [seen EXCEPT !.ok = seen.ok /\ answer = "accepted"]
      /\ UNCHANGED <<faults, result, late>>
      BY DEF Sign!ExecutionSignal, Sign!Go, Sign!Keep
<1> HIDE DEF answer
<1>2. /\ seen'.ok = (seen.ok /\ answer = "accepted")
      /\ seen'.history = seen.history /\ seen'.signals = seen.signals
      /\ seen'.automatic = seen.automatic
      BY <1>1 DEF GShow, SignSeen
<1>3. PICK k : signals' \subseteq signals \cup
                  {[msg |-> "m1", proc |-> "signal", body |-> "body", n |-> k, status |-> "APPLIED"]}
  <2>1. PICK k : Stores("signal", "m1", "body", "APPLIED", k)
        BY <1>1, SignSignal DEF GShow, SignRows
  <2> QED  BY <2>1 DEF Stores
<1>4. /\ proc'["early"] = proc["early"]
      /\ answer = "accepted" /\ "history_rewritten" \in faults =>
           events'["signal"] # <<>> /\ events'["signal"][1] = "SignalApplied"
      BY <1>1, SignSignal DEF Sign!Labels, answer
<1>5. SignRows'
      BY <1>1, <1>2, <1>3 DEF GShow, SignRows, BeforeRepeat, BeforeElsewhere
<1>6. SignHistory'
      BY <1>1, <1>2, <1>4 DEF GShow, SignHistory
<1>7. SignShown'
      BY <1>1, <1>2 DEF GShow, SignShown, BeforeRepeat, BeforeElsewhere
<1> QED
    BY <1>1, <1>2, <1>5, <1>6, <1>7, SignSignalShows

LEMMA SignCompletedShows ==
    ASSUME GInv, GShow, Sign!ExecutionCompleted
    PROVE  GShow'
<1>1. CASE Sign!PollTimeout(proc["signal"].state = "COMPLETED")
      BY <1>1, SignContractShows DEF Sign!PollTimeout, Sign!ExecutionCompleted
<1>2. CASE /\ proc["signal"].state = "COMPLETED" /\ pc' = "e_repeat"
           /\ seen' = [seen EXCEPT !.ok = /\ seen.ok /\ Sign!KeepsHistory(seen.history, events["signal"])
                                          /\ Sign!Cardinality(Sign!SignalRows("signal")) = 1,
                                   !.signals = Sign!SignalRows("signal"), !.history = events["signal"]]
           /\ UNCHANGED <<active, proc, signals, events, up, faults, result, late>>
  <2>1. pc = "e_completed"
        BY DEF Sign!ExecutionCompleted
  <2>2. /\ seen'.ok => seen.ok /\ Sign!KeepsHistory(seen.history, events["signal"])
        /\ seen'.history = events["signal"] /\ seen'.signals = Sign!SignalRows("signal")
        /\ seen'.automatic = seen.automatic
        /\ SignSeen'
        BY <1>2 DEF GShow, SignSeen, Sign!Labels
  <2>3. SignRoutes' /\ SignHistory' /\ SignVersions'
        BY <1>2, <2>1, <2>2 DEF GShow, SignRoutes, SignHistory, SignVersions, Published
  <2>4. SignRows'
        BY <1>2, <2>1, <2>2 DEF GShow, SignRows, Sign!SignalRows, BeforeRepeat, BeforeElsewhere
  <2>5. seen'.ok => "history_rewritten" \notin faults
    <3> SUFFICES ASSUME seen'.ok, "history_rewritten" \in faults
                 PROVE  FALSE
        OBVIOUS
    <3> DEFINE old == seen.history
               new == events["signal"]
    <3>1. /\ old \in Seq(Entries) /\ old # <<>> /\ old[1] = "Started"
          /\ new \in Seq(Entries) /\ new[1] = "SignalApplied"
          BY <2>1, <2>2 DEF GShow, SignSeen, SignHistory, Sign!Labels
    <3>2. Len(new) > Len(old) /\ SubSeq(new, 1, Len(old)) = old
          BY <2>2 DEF Sign!KeepsHistory
    <3> HIDE DEF old, new
    <3>3. SubSeq(new, 1, Len(old))[1] = new[1]
          BY <3>1, <3>2
    <3> QED  BY <3>1, <3>2, <3>3
  <2>6. SignShown'
        BY <1>2, <2>2, <2>5 DEF GShow, SignShown, BeforeRepeat, BeforeElsewhere
  <2> QED  BY <1>2, <2>1, <2>2, <2>3, <2>4, <2>6, SignReadShows
<1> QED
    BY <1>1, <1>2 DEF Sign!ExecutionCompleted, Sign!Go, Sign!Keep, Sign!engine

\* The repeated signal: neither an error nor a row.
LEMMA SignRepeatShows ==
    ASSUME GInv, GShow, Sign!ExecutionRepeat
    PROVE  GShow'
<1> DEFINE answer == Sign!Answer("signal", "m1", "body")
           rows == {s \in signals' : s.proc = "signal"}
<1>1. /\ pc = "e_repeat" /\ pc' = "e_changed" /\ Sign!Signal("signal", "m1", "body")
      /\ seen' = [seen EXCEPT !.ok = /\ seen.ok /\ answer = "duplicate" /\ rows = seen.signals
                                     /\ events'["signal"] = seen.history]
      /\ UNCHANGED <<faults, result, late>>
      BY DEF Sign!ExecutionRepeat, Sign!Unchanging, Sign!Go, Sign!Keep
<1>2. /\ seen'.ok => seen.ok /\ answer = "duplicate" /\ rows = seen.signals /\ events'["signal"] = seen.history
      /\ seen'.history = seen.history /\ seen'.signals = seen.signals
      /\ seen'.automatic = seen.automatic /\ seen' = [seen EXCEPT !.ok = seen'.ok]
  <2> HIDE DEF answer, rows
  <2> QED  BY <1>1 DEF GShow, SignSeen
<1>3. PICK k :
         LET box == [msg |-> "m1", proc |-> "signal", body |-> "body", n |-> k, status |-> "ACCEPTED"]
         IN /\ signals' \subseteq signals \cup {box}
            /\ answer = "duplicate" /\ "dup_inserts" \in faults => box \in signals'
  <2>1. PICK k : Stores("signal", "m1", "body", "ACCEPTED", k)
        BY <1>1, SignSignal DEF GShow, SignRows
  <2> QED  BY <2>1 DEF Stores
<1>4. SignRows'
  <2>1. proc' = proc
        BY <1>1, SignSignal DEF GShow, SignRows
  <2> QED  BY <1>1, <1>2, <1>3, <2>1 DEF GShow, SignRows, BeforeRepeat, BeforeElsewhere
<1>5. SignHistory'
      BY <1>1, <1>2 DEF SignHistory
<1>6. seen'.ok => {"dup_error", "dup_inserts"} \cap faults = {}
  <2> SUFFICES ASSUME seen'.ok
               PROVE  "dup_error" \notin faults /\ "dup_inserts" \notin faults
      OBVIOUS
  <2>1. "dup_error" \notin faults
        BY <1>2 DEF Sign!Answer, Sign!Has
  <2>2. "dup_inserts" \notin faults
    <3>1. \A s \in rows : s.status = "APPLIED"
          BY <1>1, <1>2 DEF GShow, SignRows, BeforeRepeat
    <3> DEFINE box == [msg |-> "m1", proc |-> "signal", body |-> "body", n |-> k, status |-> "ACCEPTED"]
    <3>2. box.proc = "signal" /\ box.status = "ACCEPTED"
          OBVIOUS
    <3>3. "dup_inserts" \in faults => box \in rows
          BY <1>2, <1>3, <3>2
    <3> QED  BY <3>1, <3>2, <3>3
  <2> QED  BY <2>1, <2>2
<1>7. SignShown'
      BY <1>1, <1>2, <1>6 DEF GShow, SignShown, BeforeRepeat, BeforeElsewhere
<1> QED
    BY <1>1, <1>2, <1>4, <1>5, <1>7, SignSignalShows

\* The changed signal under the same message: a conflict that writes nothing.
LEMMA SignChangedShows ==
    ASSUME GInv, GShow, Sign!ExecutionChanged
    PROVE  GShow'
<1> DEFINE answer == Sign!Answer("signal", "m1", "changed")
           rows == {s \in signals' : s.proc = "signal"}
<1>1. /\ pc = "e_changed" /\ pc' = "e_record" /\ Sign!Signal("signal", "m1", "changed")
      /\ seen' = [seen EXCEPT !.ok = /\ seen.ok /\ answer = "conflict" /\ rows = seen.signals
                                     /\ events'["signal"] = seen.history]
      /\ UNCHANGED <<faults, result, late>>
      BY DEF Sign!ExecutionChanged, Sign!Unchanging, Sign!Go, Sign!Keep
<1>2. /\ seen'.ok => seen.ok /\ answer = "conflict" /\ events'["signal"] = seen.history
      /\ seen'.history = seen.history /\ seen'.signals = seen.signals
      /\ seen'.automatic = seen.automatic /\ seen' = [seen EXCEPT !.ok = seen'.ok]
  <2> HIDE DEF answer, rows
  <2> QED  BY <1>1 DEF GShow, SignSeen
<1>3. PICK k, st : signals' \subseteq signals \cup {[msg |-> "m1", proc |-> "signal", body |-> "changed", n |-> k,
                                                     status |-> st]}
  <2>1. PICK k, st : Stores("signal", "m1", "changed", st, k)
        BY <1>1, SignSignal
  <2> QED  BY <2>1 DEF Stores
<1>4. SignRows'
      BY <1>1, <1>2, <1>3 DEF GShow, SignRows, BeforeRepeat, BeforeElsewhere
<1>5. SignHistory'
      BY <1>1 DEF SignHistory
<1>6. seen'.ok => "conflict_accepted" \notin faults /\ "conflict_writes" \notin faults
  <2> SUFFICES ASSUME seen'.ok
               PROVE  "conflict_accepted" \notin faults /\ "conflict_writes" \notin faults
      OBVIOUS
  <2>1. "conflict_accepted" \notin faults
        BY <1>2 DEF Sign!Answer, Sign!Has
  <2>2. events["signal"] = seen.history
        BY <1>1, <1>2 DEF GShow, SignHistory
  <2>3. answer = "conflict" /\ "conflict_writes" \in faults => events'["signal"] # events["signal"]
        BY <1>1, SignSignal
  <2> QED  BY <1>2, <2>1, <2>2, <2>3
<1>7. SignShown'
      BY <1>1, <1>2, <1>6 DEF GShow, SignShown, BeforeRepeat, BeforeElsewhere
<1> QED
    BY <1>1, <1>2, <1>4, <1>5, <1>7, SignSignalShows

\* The early signal is stored until a worker comes to the step that waits for it.
LEMMA SignEarlyShows ==
    ASSUME GInv, GShow, Sign!ExecutionEarlySignal
    PROVE  GShow'
<1> DEFINE answer == Sign!Answer("early", "m2", "body")
<1>1. /\ pc = "e_stored" /\ pc' = "e_resume" /\ Sign!Signal("early", "m2", "body")
      /\ UNCHANGED <<faults, result, late>>
      BY DEF Sign!ExecutionEarlySignal, Sign!Go, Sign!Keep
<1>2. /\ seen'.ok => seen.ok /\ answer = "accepted"
      /\ seen'.history = seen.history /\ seen'.signals = seen.signals
      /\ seen'.automatic = seen.automatic /\ seen' = [seen EXCEPT !.ok = seen'.ok]
  <2> DEFINE rest == /\ Sign!Cardinality({s \in signals' : s.proc = "early"}) = 1
                     /\ \A s \in signals' : s.proc = "early" => s.status = "ACCEPTED"
  <2>1. seen' = [seen EXCEPT !.ok = seen.ok /\ answer = "accepted" /\ rest]
        BY DEF Sign!ExecutionEarlySignal
  <2> HIDE DEF answer, rest
  <2> QED  BY <2>1 DEF GShow, SignSeen
<1>3. /\ proc["early"].state = "RUNNING" /\ proc' = proc
      /\ \E k : signals' \subseteq signals \cup {[msg |-> "m2", proc |-> "early", body |-> "body", n |-> k,
                                                  status |-> "ACCEPTED"]}
  <2>1. proc["early"].state = "RUNNING"
        BY <1>1 DEF GShow, SignRoutes
  <2>2. PICK k : Stores("early", "m2", "body", "ACCEPTED", k)
        BY <1>1, <2>1, SignSignal
  <2> QED  BY <1>1, <2>1, <2>2, SignSignal DEF Stores
<1>4. SignRows'
      BY <1>1, <1>2, <1>3 DEF GShow, SignRows, BeforeRepeat, BeforeElsewhere
<1>5. SignHistory'
      BY <1>1 DEF SignHistory
<1>6. seen'.ok => "early_refused" \notin faults
  <2> SUFFICES ASSUME seen'.ok
               PROVE  "early_refused" \notin faults
      OBVIOUS
  <2>1. "conflict_accepted" \notin faults
        BY <1>1, <1>2 DEF GShow, SignShown, BeforeRepeat, BeforeElsewhere
  <2> QED  BY <1>2, <1>3, <2>1 DEF Sign!Answer, Sign!Has
<1>7. SignShown'
      BY <1>1, <1>2, <1>6 DEF GShow, SignShown, BeforeRepeat, BeforeElsewhere
<1> QED
    BY <1>1, <1>2, <1>4, <1>5, <1>7, SignSignalShows

\* The early process: started with the workers stopped, and completed when they run again.
LEMMA SignStoppedShows ==
    ASSUME GInv, GShow, Sign!ExecutionEarly \/ Sign!ExecutionResume
    PROVE  GShow'
<1>1. CASE Sign!ExecutionEarly
  <2> DEFINE r == [Sign!NoProcess EXCEPT !.state = "RUNNING", !.ver = Sign!Version]
  <2>1. /\ pc = "e_early" /\ pc' = "e_stored" /\ up' = FALSE /\ "start_refused" \notin faults
        /\ proc' = [proc EXCEPT !["early"] = r] /\ events' = [events EXCEPT !["early"] = Append(@, "Started")]
        /\ UNCHANGED <<active, signals, seen, faults, result, late>>
        BY <1>1 DEF Sign!ExecutionEarly, Sign!Go, Sign!Keep, Sign!Log, Sign!Has
  <2>2. r.state = "RUNNING" /\ r.effects = 0 /\ r.dispatched = {} /\ r.ended = FALSE
        BY DEF Sign!NoProcess
  <2> HIDE DEF r
  <2>3. proc \in [Sign!Labels -> ProcessSchema] /\ "early" \in Sign!Labels
        BY DEF GInv, SignTables, Sign!Labels
  <2>4. proc'["early"] = r /\ \A k \in Sign!Labels : k # "early" => proc'[k] = proc[k]
        BY <2>1, <2>3
  <2>5. SignSeen'
    <3>1. \A q \in Seq(Entries) : Append(q, "Started") \in Seq(Entries)
          BY DEF Entries
    <3>2. events' \in [Sign!Labels -> Seq(Entries)]
          BY <2>1, <2>3, <3>1 DEF GShow, SignSeen
    <3> QED  BY <2>1, <3>2 DEF GShow, SignSeen
  <2>6. SignTraces'
        BY <2>1, <2>2, <2>4 DEF GShow, SignTraces
  <2>7. SignRoutes'
        BY <2>1, <2>2, <2>4 DEF GShow, SignRoutes, Sign!Labels
  <2>8. SignRows' /\ SignShown'
        BY <2>1 DEF GShow, SignRows, SignShown, BeforeRepeat, BeforeElsewhere
  <2>9. SignHistory' /\ SignVersions'
        BY <2>1 DEF GShow, SignHistory, SignVersions, Published
  <2>10. SignEarned'
         BY <2>1 DEF GShow, SignEarned
  <2> QED  BY <2>5, <2>6, <2>7, <2>8, <2>9, <2>10 DEF GShow
<1>2. CASE Sign!ExecutionResume
  <2>1. /\ pc = "e_resume" /\ pc' = "e_applied" /\ up' = TRUE
        /\ UNCHANGED <<active, proc, signals, events, seen, faults, result, late>>
        BY <1>2 DEF Sign!ExecutionResume, Sign!Go, Sign!Keep
  <2>2. SignSeen' /\ SignTraces' /\ SignRoutes' /\ SignVersions' /\ SignHistory'
        BY <2>1 DEF GShow, SignSeen, SignTraces, SignRoutes, SignVersions, SignHistory, Published
  <2>3. SignRows' /\ SignShown' /\ SignEarned'
        BY <2>1 DEF GShow, SignRows, SignShown, SignEarned, BeforeRepeat, BeforeElsewhere
  <2> QED  BY <2>2, <2>3 DEF GShow
<1> QED
    BY <1>1, <1>2

LEMMA SignAppliedShows ==
    ASSUME GInv, GShow, Sign!ExecutionApplied
    PROVE  GShow'
<1> DEFINE rows == Sign!SignalRows("early")
<1>1. CASE Sign!PollTimeout(proc["early"].state = "COMPLETED")
      BY <1>1, SignContractShows DEF Sign!PollTimeout, Sign!ExecutionApplied
<1>2. CASE /\ pc' = "e_elsewhere"
           /\ seen' = [seen EXCEPT !.early = rows,
                                   !.ok = /\ seen.ok /\ Sign!Cardinality(rows) = 1
                                          /\ \A s \in rows : s.status = "APPLIED"]
           /\ UNCHANGED <<active, proc, signals, events, up, faults, result, late>>
  <2>1. pc = "e_applied"
        BY DEF Sign!ExecutionApplied
  <2>2. /\ seen'.ok => seen.ok /\ Sign!Cardinality(rows) = 1 /\ \A s \in rows : s.status = "APPLIED"
        /\ seen'.automatic = seen.automatic
        /\ SignSeen'
    <3> HIDE DEF rows
    <3> QED  BY <1>2 DEF GShow, SignSeen
  <2>3. SignRoutes' /\ SignHistory' /\ SignVersions'
        BY <1>2, <2>1 DEF GShow, SignRoutes, SignHistory, SignVersions, Published
  <2>4. SignRows'
        BY <1>2, <2>1 DEF GShow, SignRows, BeforeRepeat, BeforeElsewhere
  <2>5. seen'.ok => "early_ignored" \notin faults
    <3> SUFFICES ASSUME seen'.ok, "early_ignored" \in faults
                 PROVE  FALSE
        OBVIOUS
    <3>1. \A s \in rows : s.status = "ACCEPTED"
          BY DEF GShow, SignRows, Sign!SignalRows
    <3>2. rows = {}
          BY <2>2, <3>1
    <3>3. Sign!Cardinality(rows) = Cardinality(rows)
          BY DEF Sign!Cardinality, Cardinality
    <3>4. Cardinality(rows) = 0
          BY <3>2, FS_EmptySet
    <3> QED  BY <2>2, <3>3, <3>4
  <2>6. SignShown'
        BY <1>2, <2>1, <2>2, <2>5 DEF GShow, SignShown, BeforeRepeat, BeforeElsewhere
  <2> QED  BY <1>2, <2>1, <2>2, <2>3, <2>4, <2>6, SignReadShows
<1> QED
    BY <1>1, <1>2 DEF Sign!ExecutionApplied, Sign!Go, Sign!Keep, Sign!engine

\* The early message again, for the process that never had it.
LEMMA SignElsewhereShows ==
    ASSUME GInv, GShow, Sign!ExecutionElsewhere
    PROVE  GShow'
<1> DEFINE answer == Sign!Answer("signal", "m2", "body")
<1>1. /\ pc = "e_elsewhere" /\ pc' = "e_manual" /\ Sign!Signal("signal", "m2", "body")
      /\ UNCHANGED <<seen, faults, late>>
      BY DEF Sign!ExecutionElsewhere, Sign!Go
<1>2. PICK b : Sign!Record(Idempotent, b) /\ (b => seen.ok /\ answer = "conflict")
  <2> DEFINE same == /\ {s \in signals' : s.proc = "early"} = seen.early
                     /\ {s \in signals' : s.proc = "signal"} = seen.signals
             b == seen.ok /\ answer = "conflict" /\ same
  <2>1. Sign!Record(Idempotent, b)
        BY DEF Sign!ExecutionElsewhere, Idempotent
  <2>2. b => seen.ok /\ answer = "conflict"
        OBVIOUS
  <2> HIDE DEF b
  <2> QED  BY <2>1, <2>2
<1>3. /\ SignTraces' /\ proc'["manual"] = proc["manual"] /\ proc'["unknown"] = proc["unknown"]
      /\ UNCHANGED <<active, up>> /\ events' \in [Sign!Labels -> Seq(Entries)]
      BY <1>1, SignSignalTraces, SignSignal
<1>4. SignSeen'
      BY <1>1, <1>3 DEF GShow, SignSeen
<1>5. SignRoutes'
      BY <1>1, <1>3 DEF GShow, SignRoutes
<1>6. SignRows'
  <2>1. PICK k, st : Stores("signal", "m2", "body", st, k)
        BY <1>1, SignSignal
  <2> DEFINE r == [msg |-> "m2", proc |-> "signal", body |-> "body", n |-> k, status |-> st]
  <2>2. signals' \subseteq signals \cup {r} /\ r.proc = "signal"
        BY <2>1 DEF Stores
  <2> HIDE DEF r
  <2> QED  BY <1>1, <2>2 DEF GShow, SignRows, BeforeRepeat, BeforeElsewhere
<1>7. SignHistory' /\ SignShown' /\ SignVersions'
      BY <1>1, <1>3 DEF GShow, SignHistory, SignShown, SignVersions, BeforeRepeat, BeforeElsewhere, Published
<1>8. SignEarned'
  <2>1. ASSUME b
        PROVE  faults \cap Sign!Detects[Idempotent] = {}
    <3>1. seen.ok /\ answer = "conflict"
          BY <1>2, <2>1
    <3>2. {"history_rewritten", "dup_error", "dup_inserts", "conflict_accepted", "conflict_writes",
           "early_refused", "early_ignored"} \cap faults = {}
          BY <1>1, <3>1 DEF GShow, SignShown, BeforeRepeat, BeforeElsewhere
    <3>3. Sign!Known("signal", "m2") # {}
          BY <3>1 DEF Sign!Answer
    <3>4. "ids_per_process" \notin faults
          BY <1>1, <3>3 DEF GShow, SignRows, Sign!Known, Sign!Has, BeforeElsewhere, BeforeRepeat
    <3> QED  BY <3>2, <3>4, SignDetects
  <2>2. Idempotent \in Sign!Checks \ {Pinned}
        BY DEF Idempotent, Pinned, Sign!Checks
  <2> QED  BY <1>1, <1>2, <2>1, <2>2, SignRecordEarns DEF GShow
<1> QED
    BY <1>3, <1>4, <1>5, <1>6, <1>7, <1>8 DEF GShow

\* A check is recorded from what was read.
LEMMA SignRecordShows ==
    ASSUME GInv, GShow, Sign!ExecutionRecord \/ Sign!ExecutionManualWait \/ Sign!ExecutionViews
    PROVE  GShow'
<1> USE DEF Sign!Go, Sign!engine
<1>1. ASSUME UNCHANGED <<active, proc, signals, events, up, seen, faults, late>>,
             \/ pc = "e_record" /\ pc' = "e_early"
             \/ pc = "e_manualwait" /\ pc' = "e_views"
             \/ pc = "e_views" /\ pc' = "v_publish",
             SignEarned'
      PROVE  GShow'
  <2>1. SignSeen' /\ SignTraces' /\ SignRoutes' /\ SignVersions' /\ SignHistory'
        BY <1>1 DEF GShow, SignSeen, SignTraces, SignRoutes, SignVersions, SignHistory, Published
  <2>2. SignRows' /\ SignShown'
        BY <1>1 DEF GShow, SignRows, SignShown, BeforeRepeat, BeforeElsewhere
  <2> QED  BY <1>1, <2>1, <2>2 DEF GShow
<1>2. CASE Sign!ExecutionRecord
  <2> DEFINE b == seen.automatic /\ proc["signal"].ended
  <2>1. /\ pc = "e_record" /\ pc' = "e_early" /\ Sign!Record(SignalEnd, b)
        /\ UNCHANGED <<active, proc, signals, events, up, seen, faults, late>>
        BY <1>2 DEF Sign!ExecutionRecord, SignalEnd
  <2>2. b => faults \cap Sign!Detects[SignalEnd] = {}
    <3>1. b => {"lost_effect", "double_effect", "action_latest", "no_wait", "no_end", "start_refused"} \cap faults = {}
          BY <2>1 DEF GShow, SignShown, SignTraces, SignRoutes, Sign!Labels
    <3> QED  BY <3>1, SignDetects
  <2>3. SignalEnd \in Sign!Checks \ {Pinned}
        BY DEF SignalEnd, Pinned, Sign!Checks
  <2> HIDE DEF b
  <2>4. SignEarned'
        BY <2>1, <2>2, <2>3, SignRecordEarns DEF GShow
  <2> QED  BY <1>1, <2>1, <2>4
<1>3. CASE Sign!ExecutionManualWait
  <2> DEFINE b == "manual_no_step" \notin faults
  <2>1. CASE Sign!PollTimeout(proc["manual"].state = "WAITING_MANUAL")
        BY <1>3, <2>1, SignContractShows DEF Sign!PollTimeout, Sign!ExecutionManualWait
  <2>2. CASE /\ proc["manual"].state = "WAITING_MANUAL" /\ pc' = "e_views" /\ Sign!Record("manual-wait", b)
             /\ UNCHANGED <<active, proc, signals, events, up, seen, faults, late>>
    <3>1. pc = "e_manualwait"
          BY <1>3 DEF Sign!ExecutionManualWait
    <3>2. b => faults \cap Sign!Detects["manual-wait"] = {}
          BY <2>2, SignDetects DEF GShow, SignRoutes
    <3>3. "manual-wait" \in Sign!Checks \ {Pinned}
          BY DEF Pinned, Sign!Checks
    <3> HIDE DEF b
    <3>4. SignEarned'
          BY <2>2, <3>1, <3>2, <3>3, SignRecordEarns DEF GShow
    <3> QED  BY <1>1, <2>2, <3>1, <3>4
  <2> QED  BY <1>3, <2>1, <2>2 DEF Sign!ExecutionManualWait, Sign!Has
<1>4. CASE Sign!ExecutionViews
  <2> DEFINE b == "view_missing" \notin faults /\ "view_changed" \notin faults
  <2>1. /\ pc = "e_views" /\ pc' = "v_publish" /\ Sign!Record("stable-views", b)
        /\ UNCHANGED <<active, proc, signals, events, up, seen, faults, late>>
        BY <1>4 DEF Sign!ExecutionViews, Sign!Has
  <2>2. b => faults \cap Sign!Detects["stable-views"] = {}
        BY SignDetects
  <2>3. "stable-views" \in Sign!Checks \ {Pinned}
        BY DEF Pinned, Sign!Checks
  <2> HIDE DEF b
  <2>4. SignEarned'
        BY <2>1, <2>2, <2>3, SignRecordEarns DEF GShow
  <2> QED  BY <1>1, <2>1, <2>4
<1> QED
    BY <1>2, <1>3, <1>4

\* Version 2 is published and activated.
LEMMA SignPublishShows ==
    ASSUME GInv, GShow, Sign!VersioningPublish
    PROVE  GShow'
<1> DEFINE ver == IF "start_old" \in faults THEN 1 ELSE 2
           new == [Sign!NoProcess EXCEPT !.state = "RUNNING", !.ver = ver]
<1>1. /\ pc = "v_publish" /\ pc' = "v_waiting" /\ "start_refused" \notin faults
      /\ active' = IF "two_active" \in faults THEN {1, 2} ELSE {2}
      /\ proc' = [l \in Sign!Labels |->
                    IF l = "v2" THEN new
                    ELSE IF "unpinned" \in faults /\ proc[l].ver = 1 THEN [proc[l] EXCEPT !.ver = 2]
                    ELSE proc[l]]
      /\ events' = [events EXCEPT !["v2"] = Append(@, "Started")]
      /\ UNCHANGED <<signals, up, seen, faults, result, late>>
      BY DEF Sign!VersioningPublish, Sign!Go, Sign!Keep, Sign!Log, Sign!Has
<1>2. /\ new.state = "RUNNING" /\ new.ver = ver /\ new.effects = 0 /\ new.dispatched = {} /\ new.ended = FALSE
      BY DEF Sign!NoProcess
<1> HIDE DEF new
<1>3. /\ proc'["v2"] = new
      /\ \A l \in Sign!Labels \ {"v2"} :
            /\ proc'[l].state = proc[l].state /\ proc'[l].effects = proc[l].effects
            /\ proc'[l].attempts = proc[l].attempts
            /\ proc'[l].dispatched = proc[l].dispatched /\ proc'[l].ended = proc[l].ended
            /\ "unpinned" \in faults => proc'[l].ver # 1
  <2>1. proc'["v2"] = new
        BY <1>1 DEF Sign!Labels
  <2>2. ASSUME NEW l \in Sign!Labels \ {"v2"}
        PROVE  /\ proc'[l].state = proc[l].state /\ proc'[l].effects = proc[l].effects
               /\ proc'[l].attempts = proc[l].attempts
               /\ proc'[l].dispatched = proc[l].dispatched /\ proc'[l].ended = proc[l].ended
               /\ "unpinned" \in faults => proc'[l].ver # 1
    <3>1. proc[l] \in ProcessSchema
          BY DEF GInv, SignTables
    <3>2. proc'[l] = IF "unpinned" \in faults /\ proc[l].ver = 1 THEN [proc[l] EXCEPT !.ver = 2] ELSE proc[l]
          BY <1>1
    <3> QED  BY <3>1, <3>2 DEF ProcessSchema
  <2> QED  BY <2>1, <2>2
<1>4. SignSeen'
  <2>1. \A q \in Seq(Entries) : Append(q, "Started") \in Seq(Entries)
        BY DEF Entries
  <2>2. events' \in [Sign!Labels -> Seq(Entries)]
        BY <1>1, <2>1 DEF GShow, SignSeen
  <2> QED  BY <1>1, <2>2 DEF GShow, SignSeen
<1>5. SignTraces'
  <2>1. ASSUME NEW l \in Sign!Labels
        PROVE  /\ proc'[l].effects = 1 => {"lost_effect", "double_effect"} \cap faults = {}
               /\ proc'[l].dispatched = {1} => "action_latest" \notin faults
               /\ proc'[l].ended => "no_end" \notin faults
               /\ proc'[l].state = "WAITING_SIGNAL" => "no_wait" \notin faults
    <3>1. CASE l = "v2"
          BY <1>2, <1>3, <3>1
    <3>2. CASE l # "v2"
          BY <1>3, <3>2 DEF GShow, SignTraces
    <3> QED  BY <3>1, <3>2
  <2> QED  BY <1>1, <2>1 DEF SignTraces
<1>6. SignRoutes'
      BY <1>1, <1>3 DEF GShow, SignRoutes, Sign!Labels
<1>7. SignRows' /\ SignShown'
      BY <1>1 DEF GShow, SignRows, SignShown, BeforeRepeat, BeforeElsewhere
<1>8. SignHistory'
      BY <1>1 DEF SignHistory
<1>9. SignVersions'
  <2>1. active' = {2} => "two_active" \notin faults
        BY <1>1
  <2>2. "unpinned" \in faults => proc'["manual"].ver # 1 /\ proc'["signal"].ver # 1
        BY <1>3 DEF Sign!Labels
  <2>3. "start_old" \in faults => proc'["v2"].ver = 1
        BY <1>2, <1>3
  <2> QED  BY <1>1, <2>1, <2>2, <2>3 DEF SignVersions
<1>10. SignEarned'
       BY <1>1 DEF GShow, SignEarned
<1> QED
    BY <1>4, <1>5, <1>6, <1>7, <1>8, <1>9, <1>10 DEF GShow

\* The starts that are repeated and changed, and the record.
LEMMA SignVersionsShow ==
    ASSUME GInv, GShow, Sign!VersioningWaiting \/ Sign!VersioningRepeat \/ Sign!VersioningRecord
    PROVE  GShow'
<1> USE DEF Sign!Go, Sign!Keep, Sign!engine
<1>1. CASE Sign!VersioningWaiting
  <2>1. CASE Sign!PollTimeout(proc["v2"].state = "WAITING_MANUAL")
        BY <1>1, <2>1, SignContractShows DEF Sign!PollTimeout, Sign!VersioningWaiting
  <2>2. CASE pc' = "v_repeat" /\ UNCHANGED <<active, proc, signals, events, up, seen, faults, result, late>>
    <3>1. pc = "v_waiting"
          BY <1>1 DEF Sign!VersioningWaiting
    <3>2. SignSeen' /\ SignRoutes' /\ SignHistory' /\ SignVersions'
          BY <2>2, <3>1 DEF GShow, SignSeen, SignRoutes, SignHistory, SignVersions, Published
    <3>3. SignRows' /\ SignShown'
          BY <2>2, <3>1 DEF GShow, SignRows, SignShown, BeforeRepeat, BeforeElsewhere
    <3> QED  BY <2>2, <3>1, <3>2, <3>3, SignReadShows
  <2> QED  BY <1>1, <2>1, <2>2 DEF Sign!VersioningWaiting
<1>2. CASE Sign!VersioningRepeat
  <2>1. /\ pc = "v_repeat" /\ pc' = "v_record"
        /\ seen' = [seen EXCEPT !.same = "start_again" \notin faults, !.changed = "start_changed" \notin faults]
        /\ UNCHANGED <<active, proc, signals, events, up, faults, result, late>>
        BY <1>2 DEF Sign!VersioningRepeat, Sign!Has
  <2>2. /\ seen'.same = ("start_again" \notin faults) /\ seen'.changed = ("start_changed" \notin faults)
        /\ seen'.automatic = seen.automatic /\ seen'.signals = seen.signals
        /\ SignSeen'
        BY <2>1 DEF GShow, SignSeen
  <2>3. SignRoutes' /\ SignHistory' /\ SignVersions'
        BY <2>1, <2>2 DEF GShow, SignRoutes, SignHistory, SignVersions, Published
  <2>4. SignRows' /\ SignShown'
        BY <2>1, <2>2 DEF GShow, SignRows, SignShown, BeforeRepeat, BeforeElsewhere
  <2> QED  BY <2>1, <2>2, <2>3, <2>4, SignReadShows
<1>3. CASE Sign!VersioningRecord
  <2>1. /\ pc = "v_record" /\ pc' = "v_unknown" /\ Sign!Record(Pinned, Sign!VersioningValid)
        /\ UNCHANGED <<active, proc, signals, events, up, seen, faults, late>>
        BY <1>3 DEF Sign!VersioningRecord, Pinned
  <2>2. SignSeen' /\ SignTraces' /\ SignRoutes' /\ SignVersions' /\ SignHistory'
        BY <2>1 DEF GShow, SignSeen, SignTraces, SignRoutes, SignVersions, SignHistory, Published
  <2>3. SignRows' /\ SignShown'
        BY <2>1 DEF GShow, SignRows, SignShown, BeforeRepeat, BeforeElsewhere
  <2>4. Sign!VersioningValid => {"unpinned", "two_active", "start_old", "start_again", "start_changed"} \cap faults = {}
    <3> SUFFICES ASSUME Sign!VersioningValid
                 PROVE  {"unpinned", "two_active", "start_old", "start_again", "start_changed"} \cap faults = {}
        OBVIOUS
    <3>1. /\ active = {2} /\ proc[Sign!OldProcess].ver = 1 /\ proc["v2"].ver = 2 /\ seen.same /\ seen.changed
          BY DEF Sign!VersioningValid
    <3>2. Sign!OldProcess \in {"manual", "signal"}
          BY DEF Sign!OldProcess
    <3> QED  BY <2>1, <3>1, <3>2 DEF GShow, SignVersions, Published
  <2>5. SignEarned'
    <3>1. /\ result \in [Sign!Checks -> {"absent", "passed", "failed"}] /\ Pinned \in Sign!Checks
          BY DEF GInv, Pinned, Sign!Checks
    <3>2. result' = [result EXCEPT ![Pinned] = IF Sign!VersioningValid THEN "passed" ELSE "failed"]
          BY <2>1 DEF Sign!Record
    <3>3. result'[Pinned] = "passed" => faults \cap Sign!Detects[Pinned] \subseteq {"unknown_retried"}
          BY <2>4, <3>1, <3>2, SignDetects
    <3>4. \A c \in Sign!Checks : c # Pinned => result'[c] = result[c]
          BY <3>1, <3>2
    <3> QED  BY <2>1, <3>3, <3>4 DEF GShow, SignEarned
  <2> QED  BY <2>2, <2>3, <2>5 DEF GShow
<1> QED
    BY <1>1, <1>2, <1>3

\* The last poll: either the process failed and its rows are looked at, or a worker still had to
\* run it, unless the engine took some transition.
LEMMA SignFailedShows ==
    ASSUME GInv, GShow, Sign!VersioningFailed
    PROVE  GShow'
<1> USE DEF Sign!Go, Sign!engine
<1>1. /\ pc = "v_failed" /\ pc' = "done"
      /\ UNCHANGED <<active, proc, signals, events, up, seen, faults>>
      BY DEF Sign!VersioningFailed, Sign!PollTimeout, Sign!Contract, Sign!ChecksFrom
<1>2. /\ result \in [Sign!Checks -> {"absent", "passed", "failed"}] /\ Pinned \in Sign!Checks
      BY DEF GInv, Pinned, Sign!Checks
<1>3. SignSeen' /\ SignTraces' /\ SignRoutes' /\ SignVersions' /\ SignHistory'
      BY <1>1 DEF GShow, SignSeen, SignTraces, SignRoutes, SignVersions, SignHistory, Published
<1>4. SignRows' /\ SignShown'
      BY <1>1 DEF GShow, SignRows, SignShown, BeforeRepeat, BeforeElsewhere
<1>5. CASE /\ result' = IF proc["unknown"].attempts = 1 /\ proc["unknown"].effects = 0 THEN result
                        ELSE [result EXCEPT ![Pinned] = "failed"]
  <2>1. \A c \in Sign!Checks : result'[c] = "passed" => result[c] = "passed"
        BY <1>2, <1>5
  <2>2. result'[Pinned] = "passed" => "unknown_retried" \notin faults
        BY <1>2, <1>5 DEF GShow, SignRoutes
  <2>3. SignEarned'
        BY <1>1, <2>1, <2>2 DEF GShow, SignEarned
  <2> QED  BY <1>3, <1>4, <2>3 DEF GShow
<1>6. CASE Sign!PollTimeout(proc["unknown"].state = "FAILED")
  <2>1. /\ proc["unknown"].state # "FAILED" /\ late' = (late \/ Sign!Busy)
        /\ \A c \in Sign!Checks : result'[c] = "passed" => result[c] = "passed"
        BY <1>2, <1>6 DEF Sign!PollTimeout, Sign!Contract
  <2>2. Sign!Busy \/ "unknown_fallback" \in faults
        BY <1>1, <2>1 DEF GShow, SignRoutes, Sign!Busy, Sign!Labels, GInv, SignTables
  <2>3. SignEarned'
        BY <1>1, <2>1, <2>2 DEF GShow, SignEarned
  <2> QED  BY <1>3, <1>4, <2>3 DEF GShow
<1> QED
    BY <1>5, <1>6 DEF Sign!VersioningFailed, Pinned

LEMMA SignShows ==
    /\ Sign!Init => GShow
    /\ GInv /\ GShow /\ Sign!Next => GShow'
<1>1. Sign!Init => GShow
  <2> SUFFICES ASSUME Sign!Init
               PROVE  GShow
      OBVIOUS
  <2>1. /\ pc = "e_start" /\ active = {1} /\ signals = {} /\ up = TRUE /\ late = FALSE
        /\ proc = [l \in Sign!Labels |-> Sign!NoProcess] /\ events = [l \in Sign!Labels |-> <<>>]
        /\ result = [c \in Sign!Checks |-> "absent"] /\ seen = Sign!Nothing
        BY DEF Sign!Init
  <2>2. \A l \in Sign!Labels : /\ proc[l].state = "none" /\ proc[l].effects = 0 /\ proc[l].attempts = 0
                               /\ proc[l].dispatched = {} /\ proc[l].ended = FALSE
        BY <2>1 DEF Sign!NoProcess
  <2>3. SignSeen
        BY <2>1 DEF SignSeen, Sign!Nothing
  <2>4. SignTraces /\ SignRoutes
    <3>1. {} # {1}
          OBVIOUS
    <3>2. SignTraces
          BY <2>2, <3>1 DEF SignTraces
    <3>3. SignRoutes
          BY <2>1, <2>2 DEF SignRoutes, Sign!Labels
    <3> QED  BY <3>2, <3>3
  <2>5. SignRows /\ SignHistory
        BY <2>1, <2>2 DEF SignRows, SignHistory, Sign!Nothing, Sign!Labels
  <2>6. SignShown /\ SignVersions
        BY <2>1 DEF SignShown, SignVersions, Sign!Nothing, BeforeRepeat, BeforeElsewhere, Published
  <2>7. SignEarned
        BY <2>1 DEF SignEarned, Pinned, Sign!Checks
  <2> QED  BY <2>3, <2>4, <2>5, <2>6, <2>7 DEF GShow
<1>2. ASSUME GInv, GShow, Sign!Next
      PROVE  GShow'
  <2>1. ASSUME NEW l \in Sign!Labels, Sign!Work(l)
        PROVE  GShow'
        BY <1>2, <2>1, SignWorkShows
  <2>2. CASE Sign!ExecutionStart \/ Sign!ExecutionManual \/ Sign!VersioningUnknown
        BY <1>2, <2>2, SignStartShows DEF Sign!ExecutionStart, Sign!ExecutionManual,
           Sign!VersioningUnknown, Sign!Go, Sign!Keep, Sign!Has
  <2>3. CASE Sign!StartRefused
    <3>1. pc \in {"e_start", "v_publish"} /\ Sign!Contract(FALSE)
          BY <1>2, <2>3 DEF GShow, SignRoutes, Sign!StartRefused, Sign!Has
    <3> QED  BY <1>2, <3>1, SignContractShows, Zenon
  <2> QED  BY <1>2, <2>1, <2>2, <2>3, SignWaitingShows, SignFirstShows, SignCompletedShows,
              SignRepeatShows, SignChangedShows, SignEarlyShows, SignStoppedShows, SignAppliedShows,
              SignElsewhereShows, SignRecordShows, SignPublishShows, SignVersionsShow, SignFailedShows
           DEF Sign!Next, Sign!Engine, Sign!Checker
<1> QED
    BY <1>1, <1>2

-----------------------------------------------------------------------------
(* What the faults of a workflow engine leave behind, phase by phase *)

\* The steps with both workers at the failpoint after the claim, in the order of the checker.
Claiming == {"c_claim", "c_ack", "c_loser", "c_reclaim"}
Held == Claiming \cup {"c_attempts", "c_stale", "c_restart"}
Persisting == {"r_retry", "r_retrywait", "r_recreate", "r_failed", "t_error", "t_invalid", "r_verdict"}
Bounded == "bounded-retry-and-terminal-failures"
Recreated == "worker-recreate-persistence"

WorkSeen == [job : JobSchema, winner : Work!Workers \cup {"none"}, lease : Nat, ok : BOOLEAN,
             preserved : BOOLEAN]

WorkCounts ==
    /\ effects \in Nat /\ dispatches \in Nat /\ events \in Nat
    /\ acks \in [Work!Workers -> Nat] /\ seen \in WorkSeen

\* A job that was not claimed has no history, and one that is leased has an owner.
WorkFresh ==
    /\ job.state = "READY" => job.count = 0 /\ attempts = <<>> /\ job.id = 0 /\ job.exec = 0
    /\ job.state = "LEASED" => job.owner \in Work!Workers
    /\ job.mode = "signal" => job.state \notin {"RETRY_WAIT", "DEAD"}

\* What a fault of claim_jobs shows in the rows of a job whose action succeeds.
WorkClaimTraces ==
    /\ "not_stale" \in faults => \A i \in DOMAIN attempts : attempts[i].status # "STALE"
    /\ job.mode = "signal" =>
          /\ "no_reclaim" \in faults => job.count <= 1
          /\ "same_version" \in faults => \A i \in DOMAIN attempts : attempts[i].ver = job.ver
          /\ job.count >= 2 => /\ "new_execution" \in faults => job.exec >= 1
                               /\ "new_job" \in faults => job.id >= 1

\* What a fault of finish_job or fail_job shows.
WorkFinishTraces ==
    /\ job.mode = "signal" /\ "effect_outside" \notin faults =>
          /\ job.state # "SUCCEEDED" => effects = 0
          /\ "double_effect" \in faults \/ "lost_effect" \in faults => effects \in {0, 2}
    /\ job.state = "DEAD" =>
          /\ "failure_effect" \in faults => effects >= 1
          /\ "retries_error" \in faults => job.count >= 3
          /\ "unbounded_retry" \in faults => job.mode # "retry"
          /\ "invalid_accepted" \in faults => job.mode # "invalid"

\* The phase concurrency: nothing acts before the loser is restarted, and the loser can claim
\* only what it did not claim twice.
WorkHeld ==
    /\ pc = "c_start" => job.state = "none"
    /\ pc \in {"c_boot", "c_final"} \cup Held => job.mode = "signal"
    /\ pc = "c_boot" => /\ \A w \in Work!Workers : ~worker[w].up
                        /\ "inline_start" \in faults => job.state = "SUCCEEDED"
    /\ pc \in Held =>
          /\ \A w \in Work!Workers :
                worker[w].at # "acted" /\ (worker[w].up => worker[w].fp = "after_job_claim")
          /\ job.state = "LEASED" /\ worker[job.owner].up => worker[job.owner].at = "claimed"
    /\ pc \in {"c_claim", "c_ack"} => \A w \in Work!Workers : worker[w].up
    /\ pc \in Held \cup {"c_final"} => "inline_start" \notin faults
    /\ pc = "c_claim" => job.state \in {"READY", "LEASED"}
    /\ pc \in Held \ {"c_claim", "c_restart"} => job.state = "LEASED"
    /\ pc = "c_restart" /\ seen.ok => job.state = "LEASED"
    /\ pc = "c_restore" => job.state = "SUCCEEDED"

WorkWinner ==
    /\ pc \in Claiming \cup {"c_attempts"} => seen.job.id = 0 /\ seen.job.exec = 0
    /\ pc \in (Held \ {"c_claim"}) \cup {"c_final"} => seen.winner \in Work!Workers
    /\ pc = "c_ack" => worker[seen.winner].at = "claimed"
    /\ pc \in (Held \ {"c_claim", "c_ack"}) \cup {"c_final"} => ~worker[seen.winner].up
    /\ pc \in {"c_attempts", "c_stale", "c_restart", "c_final"} => job.owner = Work!Other(seen.winner)

WorkReclaimShown ==
    /\ pc \in {"c_stale", "c_restart", "c_final"} /\ seen.ok =>
          {"same_version", "not_stale", "new_execution", "new_job"} \cap faults = {}
    /\ pc \in {"c_restart", "c_final"} /\ seen.ok =>
          /\ {"no_fence", "fence_writes"} \cap faults = {}
          /\ job.state = "SUCCEEDED" /\ "double_effect" \in faults => effects >= 2

\* A lease that two workers held leaves the loser at its failpoint: it cannot reclaim the job.
WorkDoubled ==
    doubled =>
       /\ pc # "c_restore" /\ result[Reclaimed] # "passed"
       /\ pc \in Concurrency =>
             /\ pc \in Claiming /\ job.state = "LEASED"
             /\ worker[Work!Other(job.owner)].at = "claimed"
             /\ pc # "c_claim" => seen.winner = job.owner

\* The phase recovery: worker-a has done the action and is killed; only a reclaim goes on.
WorkRecovers ==
    /\ pc \in {"a_boot", "a_ack", "a_crash", "a_final"} => job.mode = "signal"
    /\ pc = "a_boot" => job.state # "LEASED" /\ \A w \in Work!Workers : ~worker[w].up
    /\ pc = "a_ack" =>
          /\ ~worker["worker-b"].up /\ worker["worker-a"].fp = "after_action_before_finish"
          /\ job.state = "LEASED" => job.owner = "worker-a"
          /\ worker["worker-a"].at # "idle" => job.state = "LEASED" /\ job.owner = "worker-a"
          /\ acks["worker-a"] > 0 => worker["worker-a"].at = "acted"
    /\ pc \in {"a_ack", "a_crash"} /\ (pc = "a_ack" => worker["worker-a"].at = "acted") =>
          /\ "effect_outside" \in faults => effects >= 1
          /\ "dispatch_outside" \in faults => dispatches >= 1
    /\ pc = "a_crash" => ~worker["worker-b"].up
    /\ pc \in {"a_crash", "a_final"} =>
          /\ ~worker["worker-a"].up
          /\ \/ /\ job.state = "LEASED" /\ job.owner = "worker-a"
                /\ job.exec = seen.job.exec /\ job.id = seen.job.id
             \/ /\ "no_reclaim" \notin faults /\ job.owner = "worker-b"
                /\ "new_execution" \in faults => job.exec > seen.job.exec
                /\ "new_job" \in faults => job.id > seen.job.id
    /\ pc = "a_final" /\ seen.ok => {"effect_outside", "dispatch_outside"} \cap faults = {}

\* The phase resilience: what was READY, in RETRY_WAIT or waiting when the workers were recreated.
WorkResumes ==
    /\ pc = "r_resumed" => /\ seen.job.id = 0
                           /\ "ready_lost" \in faults => job.state = "READY" \/ job.id >= 1
    /\ pc \in Persisting /\ seen.preserved => "ready_lost" \notin faults
    /\ pc \in {"r_retrywait", "r_recreate", "r_failed"} => job.mode = "retry"
    /\ pc = "t_invalid" => job.mode = "invalid"
    /\ pc \in {"r_recreate", "r_failed"} /\ "retry_lost" \in faults =>
          (job.state = "RETRY_WAIT" /\ job.id = seen.job.id) \/ job.id > seen.job.id
    /\ pc \in Persisting \cup {"r_resumed"} /\ "wait_lost" \in faults => waiting = "lost"
    /\ pc \in {"t_error", "t_invalid", "r_verdict"} =>
          /\ "unbounded_retry" \notin faults
          /\ seen.preserved => "retry_lost" \notin faults
          /\ seen.ok => "failure_effect" \notin faults
    /\ pc \in {"t_invalid", "r_verdict"} /\ seen.ok => "retries_error" \notin faults
    /\ pc = "r_verdict" => "invalid_accepted" \notin faults

\* A verdict is earned: the one fault that hides another is an effect outside the transaction,
\* which makes up for a finish that loses its own.
WorkEarned ==
    \A c \in Work!Checks : result[c] = "passed" =>
        faults \cap Work!Detects[c] \subseteq
            (IF doubled THEN {} ELSE {"double_claim"})
              \cup (IF c = Reclaimed /\ "effect_outside" \in faults THEN {"lost_effect"} ELSE {})

WShow ==
    /\ WorkCounts /\ WorkFresh /\ WorkClaimTraces /\ WorkFinishTraces
    /\ WorkHeld /\ WorkWinner /\ WorkReclaimShown /\ WorkDoubled
    /\ WorkRecovers /\ WorkResumes /\ WorkEarned

\* What a step of a worker does to the workers and their logs.
LEMMA WorkMoves ==
    ASSUME worker \in [Work!Workers -> WorkerSchema], acks \in [Work!Workers -> Nat],
           NEW w \in Work!Workers, NEW at, NEW ver, Work!At(w, at, ver)
    PROVE  /\ worker'[w].at = at /\ worker'[w].up = worker[w].up /\ worker'[w].fp = worker[w].fp
           /\ \A v \in Work!Workers : v # w => worker'[v] = worker[v] /\ acks'[v] = acks[v]
           /\ acks' \in [Work!Workers -> Nat]
           /\ acks'[w] = acks[w] \/ (worker[w].fp = "after_job_claim" /\ at = "claimed")
                \/ (worker[w].fp = "after_action_before_finish" /\ at = "acted")
<1> DEFINE r == [worker[w] EXCEPT !.at = at, !.ver = ver]
           paused == Work!Paused(w)'
<1>1. r.at = at /\ r.up = worker[w].up /\ r.fp = worker[w].fp
      BY DEF WorkerSchema
<1>2. worker' = [worker EXCEPT ![w] = r] /\ acks' = [acks EXCEPT ![w] = acks[w] + (IF paused THEN 1 ELSE 0)]
      BY DEF Work!At
<1> HIDE DEF r
<1>3. worker'[w] = r /\ \A v \in Work!Workers : v # w => worker'[v] = worker[v]
      BY <1>2
<1>4. paused => (worker[w].fp = "after_job_claim" /\ at = "claimed")
                \/ (worker[w].fp = "after_action_before_finish" /\ at = "acted")
      BY <1>1, <1>3 DEF Work!Paused
<1> HIDE DEF paused
<1>5. /\ acks' \in [Work!Workers -> Nat] /\ (~paused => acks'[w] = acks[w])
      /\ \A v \in Work!Workers : v # w => acks'[v] = acks[v]
      BY <1>2
<1> QED
    BY <1>1, <1>3, <1>4, <1>5

\* Each of the two workers is the other one of the other.
LEMMA WorkTwo ==
    /\ Work!Workers = {"worker-a", "worker-b"}
    /\ \A v, w \in Work!Workers : v # w <=> v = Work!Other(w)
    /\ \A w \in Work!Workers : Work!Other(w) \in Work!Workers
<1>1. Work!Workers = {"worker-a", "worker-b"}
      BY DEF Work!Workers
<1>2. Work!Other("worker-a") = "worker-b" /\ Work!Other("worker-b") = "worker-a"
      BY <1>1 DEF Work!Other
<1> QED
    BY <1>1, <1>2

\* The status of the last attempt alone changes when it ends.
LEMMA WorkAttemptRows ==
    ASSUME NEW s \in Seq(AttemptSchema), NEW st
    PROVE  LET t == [s EXCEPT ![Len(s)].status = st]
           IN /\ DOMAIN t = DOMAIN s
              /\ \A i \in DOMAIN s : t[i].ver = s[i].ver /\ t[i].status \in {s[i].status, st}
<1> DEFINE t == [s EXCEPT ![Len(s)].status = st]
<1>1. s \in [1..Len(s) -> AttemptSchema] /\ Len(s) \in Nat /\ DOMAIN s = 1..Len(s)
      OBVIOUS
<1>2. t = [i \in 1..Len(s) |-> IF i = Len(s) THEN [s[i] EXCEPT !.status = st] ELSE s[i]]
      BY <1>1
<1>3. ASSUME NEW i \in DOMAIN s
      PROVE  t[i].ver = s[i].ver /\ t[i].status \in {s[i].status, st}
  <2>1. s[i] \in AttemptSchema
        BY <1>1
  <2>2. [s[i] EXCEPT !.status = st].ver = s[i].ver /\ [s[i] EXCEPT !.status = st].status = st
        BY <2>1 DEF AttemptSchema
  <2> QED  BY <1>1, <1>2, <1>3, <2>2
<1>4. DOMAIN t = DOMAIN s
      BY <1>1, <1>2
<1> QED
    BY <1>3, <1>4

\* The row a claim leaves.
Claimed(w) ==
    /\ worker[w].up /\ worker[w].at = "idle"
    /\ job.state \in {"READY", "LEASED", "RETRY_WAIT"}
    /\ job'.state = "LEASED" /\ job'.owner = w /\ job'.mode = job.mode /\ job'.count = job.count + 1
    /\ job'.exec >= job.exec /\ job'.id >= job.id
    /\ job.state = "LEASED" =>
          /\ "no_reclaim" \notin faults
          /\ "same_version" \in faults => job'.ver = job.ver
          /\ "new_execution" \in faults => job'.exec = job.exec + 1
          /\ "new_job" \in faults => job'.id = job.id + 1
    /\ job.state = "READY" /\ "ready_lost" \in faults => job'.id = job.id + 1
    /\ job.state = "RETRY_WAIT" /\ "retry_lost" \in faults => job'.id = job.id + 1
    /\ UNCHANGED <<effects, dispatches, events, waiting, faults, pc, seen, result, doubled>>
    /\ \E ver : Work!At(w, "claimed", ver)

LEMMA WorkClaimed ==
    ASSUME WInv, NEW w \in Work!Workers, Work!Claim(w)
    PROVE  /\ Claimed(w)
           /\ \E a : attempts' = Append(Work!Settled, a) /\ a.ver = job'.ver /\ a.status = "RUNNING"
<1> DEFINE ver == IF Work!Reclaim /\ "same_version" \in faults THEN job.ver ELSE job.ver + 1
           exec == IF Work!Reclaim /\ "new_execution" \in faults THEN job.exec + 1 ELSE job.exec
           changed == \/ Work!Reclaim /\ "new_job" \in faults
                      \/ job.state = "READY" /\ "ready_lost" \in faults
                      \/ job.state = "RETRY_WAIT" /\ "retry_lost" \in faults
           id == IF changed THEN job.id + 1 ELSE job.id
           n == job.count + 1
<1>1. /\ worker[w].up /\ worker[w].at = "idle" /\ Work!Claimable
      /\ job' = [job EXCEPT !.state = "LEASED", !.owner = w, !.ver = ver, !.exec = exec,
                            !.count = n, !.id = id]
      /\ attempts' = Append(Work!Settled, [ver |-> ver, status |-> "RUNNING", id |-> id, exec |-> exec])
      /\ Work!At(w, "claimed", ver)
      /\ UNCHANGED <<effects, dispatches, events, waiting, faults, pc, seen, result, doubled>>
      BY DEF Work!Claim, Work!Unseen, Work!Has
<1>2. job \in JobSchema /\ job.exec \in Nat /\ job.id \in Nat /\ job.ver \in Nat
      BY DEF WInv, WorkTables, JobSchema
<1>3. /\ job.state = "READY" \/ (job.state = "LEASED" /\ Work!Reclaim) \/ job.state = "RETRY_WAIT"
      /\ job.state = "LEASED" => "no_reclaim" \notin faults
      BY <1>1 DEF Work!Claimable, Work!Reclaim, Work!Has
<1>4. /\ exec >= job.exec /\ id >= job.id
      /\ Work!Reclaim /\ "same_version" \in faults => ver = job.ver
      /\ Work!Reclaim /\ "new_execution" \in faults => exec = job.exec + 1
      /\ changed => id = job.id + 1
      BY <1>2
<1> DEFINE a == [ver |-> ver, status |-> "RUNNING", id |-> id, exec |-> exec]
<1>5. a.ver = ver /\ a.status = "RUNNING" /\ attempts' = Append(Work!Settled, a)
      BY <1>1
<1> HIDE DEF ver, exec, id, n, a
<1>6. /\ job'.state = "LEASED" /\ job'.owner = w /\ job'.mode = job.mode /\ job'.count = n
      /\ job'.exec = exec /\ job'.id = id /\ job'.ver = ver
      BY <1>1, <1>2 DEF JobSchema
<1>7. Claimed(w)
  <2>1. job'.count = job.count + 1
        BY <1>6 DEF n
  <2>2. /\ job.state = "READY" /\ "ready_lost" \in faults => job'.id = job.id + 1
        /\ job.state = "RETRY_WAIT" /\ "retry_lost" \in faults => job'.id = job.id + 1
        BY <1>4, <1>6
  <2>3. job.state = "LEASED" =>
          /\ "no_reclaim" \notin faults
          /\ "same_version" \in faults => job'.ver = job.ver
          /\ "new_execution" \in faults => job'.exec = job.exec + 1
          /\ "new_job" \in faults => job'.id = job.id + 1
        BY <1>3, <1>4, <1>6
  <2> QED  BY <1>1, <1>3, <1>4, <1>6, <2>1, <2>2, <2>3 DEF Claimed
<1> QED
    BY <1>5, <1>6, <1>7

LEMMA WorkClaimShows ==
    ASSUME WInv, WShow, NEW w \in Work!Workers, Work!Claim(w)
    PROVE  WShow'
<1>1. Claimed(w) /\ \E a : attempts' = Append(Work!Settled, a) /\ a.ver = job'.ver /\ a.status = "RUNNING"
      BY WorkClaimed
<1>2. PICK ver : Work!At(w, "claimed", ver)
      BY <1>1 DEF Claimed
<1>3. /\ worker \in [Work!Workers -> WorkerSchema] /\ acks \in [Work!Workers -> Nat]
      /\ job \in JobSchema /\ job.count \in Nat /\ job.exec \in Nat /\ job.id \in Nat
      /\ attempts \in Seq(AttemptSchema)
      BY DEF WInv, WorkTables, WShow, WorkCounts, JobSchema
<1>4. /\ worker'[w].at = "claimed" /\ worker'[w].up /\ worker'[w].fp = worker[w].fp
      /\ \A v \in Work!Workers : v # w => worker'[v] = worker[v] /\ acks'[v] = acks[v]
      /\ acks' \in [Work!Workers -> Nat]
      /\ worker[w].fp = "after_action_before_finish" => acks'[w] = acks[w]
      BY <1>1, <1>2, <1>3, WorkMoves DEF Claimed
<1>5. WInv'
      BY WorkClaimKeeps
<1>6. job'.exec \in Nat /\ job'.id \in Nat
      BY <1>5 DEF WInv, WorkTables, JobSchema
<1>7. WorkCounts'
      BY <1>1, <1>4 DEF WShow, WorkCounts, Claimed
<1>8. WorkFresh'
      BY <1>1 DEF WorkFresh, Claimed
<1>9. WorkClaimTraces'
  <2>1. PICK a : attempts' = Append(Work!Settled, a) /\ a.ver = job'.ver /\ a.status = "RUNNING"
        BY <1>1
  <2>2. /\ Work!Settled \in Seq(AttemptSchema) /\ Len(Work!Settled) = Len(attempts)
        /\ \A i \in DOMAIN attempts : /\ Work!Settled[i].ver = attempts[i].ver
                                      /\ Work!Settled[i].status = attempts[i].status
                                           \/ (Work!Settled[i].status = "STALE" /\ "not_stale" \notin faults)
    <3>1. CASE job.state = "LEASED" /\ "not_stale" \notin faults
      <4>1. Work!Settled = [attempts EXCEPT ![Len(attempts)].status = "STALE"]
            BY <3>1 DEF Work!Settled, Work!Has
      <4> QED  BY <1>3, <3>1, <4>1, WorkAttempts, WorkAttemptRows
    <3>2. CASE ~(job.state = "LEASED" /\ "not_stale" \notin faults)
          BY <1>3, <3>2 DEF Work!Settled, Work!Has
    <3> QED  BY <3>1, <3>2
  <2> DEFINE old == Work!Settled
  <2> HIDE DEF old
  <2>3. /\ DOMAIN attempts' = 1..Len(attempts) + 1 /\ DOMAIN attempts = 1..Len(attempts) /\ Len(attempts) \in Nat
        /\ \A i \in 1..Len(attempts) : attempts'[i] = old[i]
        /\ attempts'[Len(attempts) + 1] = a
    <3>1. old \in Seq(AttemptSchema) /\ Len(old) = Len(attempts) /\ attempts' = Append(old, a)
          BY <2>1, <2>2 DEF old
    <3> QED  BY <1>3, <3>1
  <2>4. \A i \in DOMAIN attempts' :
           \/ attempts'[i] = a
           \/ i \in DOMAIN attempts /\ attempts'[i] = old[i]
        BY <2>3
  <2>5. "not_stale" \in faults' => \A i \in DOMAIN attempts' : attempts'[i].status # "STALE"
        BY <1>1, <2>1, <2>2, <2>4 DEF WShow, WorkClaimTraces, Claimed, old
  <2>6. ASSUME job'.mode = "signal"
        PROVE  /\ "no_reclaim" \in faults => job'.count <= 1
               /\ "same_version" \in faults => \A i \in DOMAIN attempts' : attempts'[i].ver = job'.ver
               /\ job'.count >= 2 => /\ "new_execution" \in faults => job'.exec >= 1
                                     /\ "new_job" \in faults => job'.id >= 1
    <3>1. CASE job.state = "READY"
      <4>1. job'.count = 1 /\ DOMAIN attempts = {}
            BY <1>1, <1>3, <3>1 DEF WShow, WorkFresh, Claimed
      <4> QED  BY <2>1, <2>4, <4>1
    <3>2. CASE job.state = "LEASED"
      <4>1. "same_version" \in faults => \A i \in DOMAIN attempts' : attempts'[i].ver = job'.ver
            BY <1>1, <2>1, <2>2, <2>4, <2>6, <3>2 DEF WShow, WorkClaimTraces, Claimed, old
      <4> QED  BY <1>1, <1>3, <3>2, <4>1 DEF Claimed
    <3> QED  BY <1>1, <2>6, <3>1, <3>2 DEF WShow, WorkFresh, Claimed
  <2> QED  BY <1>1, <2>5, <2>6 DEF WorkClaimTraces, Claimed
<1>10. WorkFinishTraces'
       BY <1>1 DEF WShow, WorkFinishTraces, Claimed
<1>11. WorkHeld'
       BY <1>1, <1>4 DEF WShow, WorkHeld, Claimed
<1>12. WorkWinner'
  <2>1. ASSUME pc \in (Held \ {"c_claim"}) \cup {"c_final"}
        PROVE  /\ seen.winner \in Work!Workers /\ w # seen.winner /\ worker'[seen.winner] = worker[seen.winner]
               /\ w = Work!Other(seen.winner)
    <3>1. seen.winner \in Work!Workers
          BY <2>1 DEF WShow, WorkWinner
    <3>2. w # seen.winner
          BY <1>1, <2>1 DEF WShow, WorkWinner, Claimed, Held, Claiming
    <3> QED  BY <1>4, <3>1, <3>2, WorkTwo
  <2>2. pc' \in Claiming \cup {"c_attempts"} => seen'.job.id = 0 /\ seen'.job.exec = 0
        BY <1>1 DEF WShow, WorkWinner, Claimed
  <2>3. /\ pc' \in (Held \ {"c_claim"}) \cup {"c_final"} => seen'.winner \in Work!Workers
        /\ pc' = "c_ack" => worker'[seen'.winner].at = "claimed"
        /\ pc' \in (Held \ {"c_claim", "c_ack"}) \cup {"c_final"} => ~worker'[seen'.winner].up
        BY <1>1, <2>1 DEF WShow, WorkWinner, Claimed, Held, Claiming
  <2>4. pc' \in {"c_attempts", "c_stale", "c_restart", "c_final"} => job'.owner = Work!Other(seen'.winner)
        BY <1>1, <2>1 DEF Claimed, Held
  <2> QED  BY <2>2, <2>3, <2>4 DEF WorkWinner
<1>13. WorkReclaimShown'
       BY <1>1 DEF WShow, WorkReclaimShown, Claimed
<1>14. WorkDoubled'
  <2>1. ~(doubled /\ pc \in Concurrency)
    <3> SUFFICES ASSUME doubled, pc \in Concurrency
                 PROVE  FALSE
        OBVIOUS
    <3>1. pc \in Held /\ job.state = "LEASED" /\ worker[Work!Other(job.owner)].at = "claimed"
          BY DEF WShow, WorkDoubled, Held
    <3>2. worker[job.owner].up => worker[job.owner].at = "claimed"
          BY <3>1 DEF WShow, WorkHeld
    <3>3. job.owner \in Work!Workers
          BY <3>1 DEF WShow, WorkFresh
    <3> QED  BY <1>1, <3>1, <3>2, <3>3, WorkTwo DEF Claimed
  <2> QED  BY <1>1, <2>1 DEF WShow, WorkDoubled, Claimed
<1>15. WorkRecovers'
  <2>1. pc \notin {"a_boot", "a_crash"} /\ (pc = "a_ack" => w = "worker-a") /\ (pc = "a_final" => w = "worker-b")
        BY <1>1, WorkTwo DEF WShow, WorkRecovers, Claimed
  <2>2. CASE pc = "a_ack"
    <3>1. acks'["worker-a"] = 0
      <4>1. worker["worker-a"].fp = "after_action_before_finish" /\ ~(acks["worker-a"] > 0) /\ acks["worker-a"] \in Nat
            BY <1>1, <1>3, <2>1, <2>2, WorkTwo DEF WShow, WorkRecovers, Claimed
      <4> QED  BY <1>4, <2>1, <2>2, <4>1
    <3> QED  BY <1>1, <1>4, <2>1, <2>2, <3>1, WorkTwo DEF WShow, WorkRecovers, Claimed
  <2>3. CASE pc = "a_final"
    <3>1. worker'["worker-a"] = worker["worker-a"]
          BY <1>4, <2>1, <2>3, WorkTwo
    <3>2. seen.job.exec \in Nat /\ seen.job.id \in Nat
          BY DEF WShow, WorkCounts, WorkSeen, JobSchema
    <3>6. \/ job.state = "LEASED" /\ job.exec = seen.job.exec /\ job.id = seen.job.id
          \/ /\ "no_reclaim" \notin faults
             /\ "new_execution" \in faults => job.exec > seen.job.exec
             /\ "new_job" \in faults => job.id > seen.job.id
          BY <2>3 DEF WShow, WorkRecovers
    <3>7. "no_reclaim" \notin faults' /\ job'.owner = "worker-b" /\ seen' = seen /\ faults' = faults
          BY <1>1, <2>1, <2>3, <3>6 DEF Claimed
    <3>8. /\ job'.exec >= job.exec /\ job'.id >= job.id
          /\ job.state = "LEASED" => /\ "new_execution" \in faults => job'.exec = job.exec + 1
                                     /\ "new_job" \in faults => job'.id = job.id + 1
          BY <1>1 DEF Claimed
    <3> DEFINE x == job.exec y == job.id u == job'.exec v == job'.id p == seen.job.exec q == seen.job.id
    <3>9. x \in Nat /\ y \in Nat /\ u \in Nat /\ v \in Nat /\ p \in Nat /\ q \in Nat
          BY <1>3, <1>6, <3>2
    <3>10. /\ "new_execution" \in faults => u > p
           /\ "new_job" \in faults => v > q
      <4>1. /\ u >= x /\ v >= y
            /\ \/ /\ x = p /\ y = q
                  /\ "new_execution" \in faults => u = x + 1
                  /\ "new_job" \in faults => v = y + 1
               \/ /\ "new_execution" \in faults => x > p
                  /\ "new_job" \in faults => y > q
            BY <3>6, <3>8
      <4> HIDE DEF x, y, u, v, p, q
      <4> QED  BY <3>9, <4>1
    <3>3. /\ "no_reclaim" \notin faults' /\ job'.owner = "worker-b"
          /\ "new_execution" \in faults' => job'.exec > seen'.job.exec
          /\ "new_job" \in faults' => job'.id > seen'.job.id
          BY <3>7, <3>10
    <3>4. ~worker'["worker-a"].up /\ job'.mode = "signal"
          BY <1>1, <2>3, <3>1 DEF WShow, WorkRecovers, Claimed
    <3>5. seen'.ok => {"effect_outside", "dispatch_outside"} \cap faults' = {}
          BY <1>1, <2>3 DEF WShow, WorkRecovers, Claimed
    <3> QED  BY <1>1, <2>3, <3>3, <3>4, <3>5 DEF WorkRecovers, Claimed
  <2> QED  BY <1>1, <2>1, <2>2, <2>3 DEF WorkRecovers, Claimed
<1>16. WorkResumes'
  <2>1. seen.job.id \in Nat
        BY DEF WShow, WorkCounts, WorkSeen, JobSchema
  <2>2. pc' = "r_resumed" => seen'.job.id = 0 /\ ("ready_lost" \in faults' => job'.state = "READY" \/ job'.id >= 1)
        BY <1>1, <1>3, <1>6 DEF WShow, WorkResumes, Claimed
  <2>3. pc' \in {"r_recreate", "r_failed"} /\ "retry_lost" \in faults' =>
           (job'.state = "RETRY_WAIT" /\ job'.id = seen'.job.id) \/ job'.id > seen'.job.id
        BY <1>1, <1>3, <1>6, <2>1 DEF WShow, WorkResumes, Claimed
  <2> QED  BY <1>1, <2>2, <2>3 DEF WShow, WorkResumes, Claimed
<1>17. WorkEarned'
       BY <1>1 DEF WShow, WorkEarned, Claimed
<1> QED
    BY <1>7, <1>8, <1>9, <1>10, <1>11, <1>12, <1>13, <1>14, <1>15, <1>16, <1>17 DEF WShow

\* A second worker takes a valid lease.
LEMMA WorkDoubleShows ==
    ASSUME WInv, WShow, NEW w \in Work!Workers, Work!DoubleClaim(w)
    PROVE  WShow'
<1>1. /\ "double_claim" \in faults /\ worker[w].up /\ worker[w].at = "idle"
      /\ job.state = "LEASED" /\ job.owner # w
      /\ Work!At(w, "claimed", job.ver) /\ doubled' = (doubled \/ pc \in Work!StepsOf["concurrency"])
      /\ UNCHANGED <<job, attempts, effects, dispatches, events, waiting, faults, pc, seen, result>>
      BY DEF Work!DoubleClaim, Work!engine, Work!Has
<1>2. /\ worker \in [Work!Workers -> WorkerSchema] /\ acks \in [Work!Workers -> Nat]
      BY DEF WInv, WShow, WorkCounts
<1>3. /\ worker'[w].at = "claimed" /\ worker'[w].up = worker[w].up /\ worker'[w].fp = worker[w].fp
      /\ \A v \in Work!Workers : v # w => worker'[v] = worker[v] /\ acks'[v] = acks[v]
      /\ acks' \in [Work!Workers -> Nat]
      BY <1>1, <1>2, WorkMoves
<1>4. job.owner \in Work!Workers /\ w = Work!Other(job.owner)
      BY <1>1, WorkTwo DEF WShow, WorkFresh
<1>5. WorkCounts' /\ WorkFresh' /\ WorkClaimTraces' /\ WorkFinishTraces'
      BY <1>1, <1>3 DEF WShow, WorkCounts, WorkFresh, WorkClaimTraces, WorkFinishTraces
<1>6. WorkHeld'
      BY <1>1, <1>3, <1>4 DEF WShow, WorkHeld
<1>7. WorkWinner' /\ WorkReclaimShown'
  <2>1. ASSUME pc \in (Held \ {"c_claim"}) \cup {"c_final"}
        PROVE  /\ seen.winner \in Work!Workers
               /\ worker'[seen.winner].up = worker[seen.winner].up
               /\ worker[seen.winner].at = "claimed" => worker'[seen.winner].at = "claimed"
    <3>1. seen.winner \in Work!Workers
          BY <2>1 DEF WShow, WorkWinner
    <3>2. CASE seen.winner = w
          BY <1>1, <1>3, <3>2
    <3>3. CASE seen.winner # w
          BY <1>3, <3>1, <3>3
    <3> QED  BY <3>2, <3>3
  <2>2. WorkReclaimShown'
        BY <1>1 DEF WShow, WorkReclaimShown
  <2>3. pc' \in Claiming \cup {"c_attempts"} => seen'.job.id = 0 /\ seen'.job.exec = 0
        BY <1>1 DEF WShow, WorkWinner
  <2>4. /\ pc' \in (Held \ {"c_claim"}) \cup {"c_final"} => seen'.winner \in Work!Workers
        /\ pc' = "c_ack" => worker'[seen'.winner].at = "claimed"
        /\ pc' \in (Held \ {"c_claim", "c_ack"}) \cup {"c_final"} => ~worker'[seen'.winner].up
        BY <1>1, <2>1 DEF WShow, WorkWinner, Held, Claiming
  <2>5. pc' \in {"c_attempts", "c_stale", "c_restart", "c_final"} => job'.owner = Work!Other(seen'.winner)
        BY <1>1 DEF WShow, WorkWinner
  <2> QED  BY <2>2, <2>3, <2>4, <2>5 DEF WorkWinner
<1>8. ASSUME pc \in Concurrency
      PROVE  pc \in Claiming /\ (pc # "c_claim" => seen.winner = job.owner)
  <2>1. pc \notin {"c_start", "c_boot"}
        BY <1>1 DEF WShow, WorkHeld
  <2>2. pc \notin {"c_attempts", "c_stale", "c_restart", "c_final"}
    <3> SUFFICES ASSUME pc \in {"c_attempts", "c_stale", "c_restart", "c_final"}
                 PROVE  FALSE
        OBVIOUS
    <3>1. seen.winner \in Work!Workers /\ ~worker[seen.winner].up /\ job.owner = Work!Other(seen.winner)
          BY DEF WShow, WorkWinner, Held, Claiming
    <3> QED  BY <1>1, <3>1, WorkTwo
  <2>3. pc \in {"c_ack", "c_loser", "c_reclaim"} => seen.winner \in Work!Workers /\ seen.winner # w
        BY <1>1 DEF WShow, WorkWinner, Held, Claiming
  <2> QED  BY <1>4, <1>8, <2>1, <2>2, <2>3, WorkTwo DEF Concurrency, Claiming
<1>9. WorkDoubled'
  <2>1. pc # "c_restore"
        BY <1>1 DEF WShow, WorkHeld
  <2>2. CASE pc \in Concurrency
    <3>1. result[Reclaimed] # "passed"
          BY <2>2 DEF WInv, WorkRecords
    <3> QED  BY <1>1, <1>3, <1>4, <1>8, <2>1, <2>2, <3>1 DEF WorkDoubled
  <2>3. CASE pc \notin Concurrency
    <3>1. Work!StepsOf["concurrency"] = Concurrency \cup {"c_restore"}
          BY DEF Work!StepsOf, Work!Phases, Concurrency
    <3>2. doubled' = doubled \/ ~doubled'
          BY <1>1, <2>1, <2>3, <3>1
    <3> QED  BY <1>1, <2>1, <2>3, <3>1 DEF WShow, WorkDoubled
  <2> QED  BY <2>2, <2>3
<1>10. WorkRecovers'
  <2>1. pc \notin {"a_boot", "a_ack", "a_crash"}
        BY <1>1, WorkTwo DEF WShow, WorkRecovers
  <2>2. pc = "a_final" => w = "worker-b"
        BY <1>1, WorkTwo DEF WShow, WorkRecovers
  <2> QED  BY <1>1, <1>3, <2>1, <2>2, WorkTwo DEF WShow, WorkRecovers
<1>11. WorkResumes'
       BY <1>1 DEF WShow, WorkResumes
<1>12. WorkEarned'
  <2>1. doubled' /\ ~doubled => result[Reclaimed] # "passed"
    <3>1. Work!StepsOf["concurrency"] = Concurrency \cup {"c_restore"}
          BY DEF Work!StepsOf, Work!Phases, Concurrency
    <3>2. pc # "c_restore"
          BY <1>1 DEF WShow, WorkHeld
    <3> QED  BY <1>1, <3>1, <3>2 DEF WInv, WorkRecords
  <2>2. \A c \in Work!Checks : c # Reclaimed => "double_claim" \notin Work!Detects[c]
        BY DEF Work!Detects, Work!Checks, Reclaimed
  <2>3. CASE doubled' = doubled
        BY <1>1, <2>3 DEF WShow, WorkEarned
  <2>4. CASE doubled' /\ ~doubled
        BY <1>1, <2>1, <2>2, <2>4 DEF WShow, WorkEarned
  <2>5. doubled \in BOOLEAN
        BY DEF WInv, WorkChecker
  <2> QED  BY <1>1, <2>3, <2>4, <2>5
<1> QED
    BY <1>5, <1>6, <1>7, <1>9, <1>10, <1>11, <1>12 DEF WShow

\* A worker that is up and free to go on is not one that the checker holds.
LEMMA WorkFree ==
    ASSUME WInv, WShow, NEW w \in Work!Workers, worker[w].up, worker[w].at # "idle",
           ~Work!Paused(w)
    PROVE  /\ pc \notin Held \cup {"c_boot", "a_boot", "a_crash"} /\ ~(doubled /\ pc \in Concurrency)
           /\ pc = "a_ack" => w = "worker-a" /\ worker[w].fp = "after_action_before_finish"
                                /\ worker[w].at = "claimed"
           /\ pc = "a_final" => w = "worker-b"
<1>1. pc \notin Held \cup {"c_boot"}
  <2>1. pc \notin Held
    <3> SUFFICES ASSUME pc \in Held
                 PROVE  FALSE
        OBVIOUS
    <3>1. worker[w].at # "acted" /\ worker[w].fp = "after_job_claim"
          BY DEF WShow, WorkHeld
    <3>2. worker[w].at \in {"idle", "claimed", "acted"}
          BY DEF WInv, WorkerSchema
    <3> QED  BY <3>1, <3>2 DEF Work!Paused
  <2> QED  BY <2>1 DEF WShow, WorkHeld
<1>2. ~(doubled /\ pc \in Concurrency)
      BY <1>1 DEF WShow, WorkDoubled, Held
<1>3. pc \notin {"a_boot", "a_crash"} /\ (pc = "a_final" => w = "worker-b")
      BY WorkTwo DEF WShow, WorkRecovers
<1>4. pc = "a_ack" => w = "worker-a" /\ worker[w].fp = "after_action_before_finish"
                        /\ worker[w].at = "claimed"
  <2>1. worker[w].at \in {"idle", "claimed", "acted"}
        BY DEF WInv, WorkerSchema
  <2> QED  BY <2>1, WorkTwo DEF WShow, WorkRecovers, Work!Paused
<1> QED
    BY <1>1, <1>2, <1>3, <1>4

\* The action of a worker that is not held.
LEMMA WorkActShows ==
    ASSUME WInv, WShow, NEW w \in Work!Workers, Work!Act(w)
    PROVE  WShow'
<1>1. /\ worker[w].up /\ worker[w].at = "claimed" /\ ~Work!Paused(w)
      /\ Work!At(w, "acted", worker[w].ver)
      /\ effects' = effects + (IF "effect_outside" \in faults THEN 1 ELSE 0)
      /\ dispatches' = dispatches + (IF "dispatch_outside" \in faults THEN 1 ELSE 0)
      /\ UNCHANGED <<job, attempts, events, waiting, faults, pc, seen, result, doubled>>
      BY DEF Work!Act, Work!Unseen, Work!Has
<1>2. /\ worker \in [Work!Workers -> WorkerSchema] /\ acks \in [Work!Workers -> Nat]
      /\ effects \in Nat /\ dispatches \in Nat
      BY DEF WInv, WShow, WorkCounts
<1>3. /\ worker'[w].at = "acted" /\ worker'[w].up = worker[w].up /\ worker'[w].fp = worker[w].fp
      /\ \A v \in Work!Workers : v # w => worker'[v] = worker[v] /\ acks'[v] = acks[v]
      /\ acks' \in [Work!Workers -> Nat]
  <2>1. PICK ver : Work!At(w, "acted", ver)
        BY <1>1
  <2> QED  BY <1>2, <2>1, WorkMoves
<1>4. /\ pc \notin Held \cup {"c_boot", "a_boot", "a_crash"} /\ ~(doubled /\ pc \in Concurrency)
      /\ pc = "a_ack" => w = "worker-a" /\ worker[w].fp = "after_action_before_finish"
      /\ pc = "a_final" => w = "worker-b"
      BY <1>1, WorkFree
<1>5. /\ effects' \in Nat /\ dispatches' \in Nat /\ effects' >= effects
      /\ "effect_outside" \in faults => effects' >= 1
      /\ "effect_outside" \notin faults => effects' = effects
      /\ "dispatch_outside" \in faults => dispatches' >= 1
      BY <1>1, <1>2
<1>6. WorkCounts' /\ WorkFresh' /\ WorkClaimTraces'
      BY <1>1, <1>3, <1>5 DEF WShow, WorkCounts, WorkFresh, WorkClaimTraces
<1>7. WorkFinishTraces'
      BY <1>1, <1>2, <1>5 DEF WShow, WorkFinishTraces
<1>8. WorkHeld'
      BY <1>1, <1>4 DEF WShow, WorkHeld, Held, Claiming
<1>9. WorkWinner'
  <2>1. \A v \in Work!Workers : worker'[v].up = worker[v].up
        BY <1>1, <1>3
  <2> QED  BY <1>1, <1>4, <2>1 DEF WShow, WorkWinner, Held, Claiming
<1>10. WorkReclaimShown'
       BY <1>1, <1>2, <1>5 DEF WShow, WorkReclaimShown
<1>11. WorkDoubled'
       BY <1>1, <1>4 DEF WShow, WorkDoubled
<1>12. WorkRecovers'
  <2>1. CASE pc = "a_ack"
    <3>1. job.state = "LEASED" /\ job.owner = "worker-a"
          BY <1>1, <1>4, <2>1 DEF WShow, WorkRecovers
    <3> QED  BY <1>1, <1>3, <1>4, <1>5, <2>1, <3>1, WorkTwo DEF WShow, WorkRecovers
  <2>2. CASE pc = "a_final"
    <3>1. worker'["worker-a"] = worker["worker-a"]
          BY <1>3, <1>4, <2>2, WorkTwo
    <3> QED  BY <1>1, <2>2, <3>1 DEF WShow, WorkRecovers
  <2> QED  BY <1>1, <1>4, <2>1, <2>2 DEF WShow, WorkRecovers
<1>13. WorkResumes'
       BY <1>1 DEF WShow, WorkResumes
<1>14. WorkEarned'
       BY <1>1 DEF WShow, WorkEarned
<1> QED
    BY <1>6, <1>7, <1>8, <1>9, <1>10, <1>11, <1>12, <1>13, <1>14 DEF WShow

\* What a worker that held its lease writes at the end of its attempt.
Settles(w, st) ==
    /\ job.state = "LEASED" /\ job.owner = w
    /\ Work!End(st)
    /\ job'.id = job.id /\ job'.exec = job.exec /\ job'.owner = job.owner /\ job'.mode = job.mode
    /\ job'.count = job.count /\ job'.ver = job.ver

\* The end of an attempt adds neither a stale row nor a version.
LEMMA WorkSettles ==
    ASSUME WInv, WShow, NEW w \in Work!Workers, NEW st \in {"FAILED", "SUCCEEDED"}, Settles(w, st),
           UNCHANGED faults
    PROVE  WorkClaimTraces'
<1>1. /\ DOMAIN attempts' = DOMAIN attempts
      /\ \A i \in DOMAIN attempts : attempts'[i].ver = attempts[i].ver
                                    /\ attempts'[i].status \in {attempts[i].status, st}
  <2>1. attempts \in Seq(AttemptSchema) /\ attempts' = [attempts EXCEPT ![Len(attempts)].status = st]
        BY DEF WInv, WorkTables, Settles, Work!End
  <2> QED  BY <2>1, WorkAttemptRows
<1> QED
    BY <1>1 DEF WShow, WorkClaimTraces, Settles

LEMMA WorkFinishShows ==
    ASSUME WInv, WShow, NEW w \in Work!Workers, Work!Finish(w)
    PROVE  WShow'
<1> DEFINE gain == IF "double_effect" \in faults THEN 2
                   ELSE IF "lost_effect" \in faults \/ "effect_outside" \in faults THEN 0 ELSE 1
<1>1. /\ worker[w].up /\ worker[w].at = "acted" /\ ~Work!Paused(w)
      /\ Work!At(w, "idle", 0)
      /\ \/ /\ Work!Holds(w) /\ job' = [job EXCEPT !.state = "SUCCEEDED"] /\ Work!End("SUCCEEDED")
            /\ effects' = effects + gain
            /\ dispatches' = dispatches + (IF "dispatch_outside" \in faults THEN 0 ELSE 1)
         \/ UNCHANGED <<job, attempts, effects, dispatches>>
      /\ UNCHANGED <<events, waiting, faults, pc, seen, result, doubled>>
      BY DEF Work!Finish, Work!Unseen, Work!Has
<1>2. /\ worker \in [Work!Workers -> WorkerSchema] /\ acks \in [Work!Workers -> Nat]
      /\ effects \in Nat /\ dispatches \in Nat /\ job \in JobSchema
      BY DEF WInv, WShow, WorkCounts, WorkTables
<1>3. /\ worker'[w].at = "idle" /\ worker'[w].up = worker[w].up /\ worker'[w].fp = worker[w].fp
      /\ \A v \in Work!Workers : v # w => worker'[v] = worker[v] /\ acks'[v] = acks[v]
      /\ acks' \in [Work!Workers -> Nat]
      BY <1>1, <1>2, WorkMoves
<1>4. /\ pc \notin Held \cup {"c_boot", "a_boot", "a_crash", "a_ack"} /\ ~(doubled /\ pc \in Concurrency)
      /\ pc = "a_final" => w = "worker-b"
      BY <1>1, WorkFree
<1>5. \/ Settles(w, "SUCCEEDED") /\ job'.state = "SUCCEEDED"
           /\ effects' = effects + gain /\ dispatches' \in Nat
      \/ UNCHANGED <<job, attempts, effects, dispatches>>
      BY <1>1, <1>2 DEF Settles, Work!Holds, JobSchema
<1>6. gain \in 0..2 /\ ("double_effect" \in faults => gain = 2)
      /\ ("lost_effect" \in faults /\ "double_effect" \notin faults => gain = 0)
      OBVIOUS
<1> HIDE DEF gain
<1>7. effects' \in Nat /\ dispatches' \in Nat /\ effects' >= effects
      BY <1>2, <1>5, <1>6
<1>8. WorkCounts' /\ WorkFresh'
      BY <1>1, <1>3, <1>5, <1>7 DEF WShow, WorkCounts, WorkFresh, Settles
<1>9. WorkClaimTraces'
      BY <1>1, <1>5, WorkSettles DEF WShow, WorkClaimTraces
<1>10. WorkFinishTraces'
  <2>1. CASE Settles(w, "SUCCEEDED") /\ job'.state = "SUCCEEDED" /\ effects' = effects + gain
    <3>1. job.mode = "signal" /\ "effect_outside" \notin faults => effects = 0
          BY <2>1 DEF WShow, WorkFinishTraces, Settles
    <3>2. ("double_effect" \in faults \/ "lost_effect" \in faults) /\ effects = 0 => effects' \in {0, 2}
          BY <1>6, <2>1
    <3> QED  BY <1>1, <2>1, <3>1, <3>2 DEF WorkFinishTraces, Settles
  <2>2. CASE UNCHANGED <<job, effects>>
        BY <1>1, <2>2 DEF WShow, WorkFinishTraces
  <2> QED  BY <1>5, <2>1, <2>2
<1>11. WorkHeld'
       BY <1>1, <1>4, <1>5 DEF WShow, WorkHeld, Settles, Held, Claiming
<1>12. WorkWinner'
  <2>1. \A v \in Work!Workers : worker'[v].up = worker[v].up
        BY <1>1, <1>3
  <2> QED  BY <1>1, <1>4, <1>5, <2>1 DEF WShow, WorkWinner, Held, Claiming, Settles
<1>13. WorkReclaimShown'
  <2>1. CASE Settles(w, "SUCCEEDED") /\ effects' = effects + gain
    <3>1. "double_effect" \in faults => effects' >= 2
          BY <1>2, <1>6, <2>1
    <3> QED  BY <1>1, <3>1 DEF WShow, WorkReclaimShown
  <2>2. CASE UNCHANGED <<job, effects>>
        BY <1>1, <2>2 DEF WShow, WorkReclaimShown
  <2> QED  BY <1>5, <2>1, <2>2
<1>14. WorkDoubled'
       BY <1>1, <1>4 DEF WShow, WorkDoubled
<1>15. WorkRecovers'
  <2>1. CASE pc = "a_final"
    <3>1. worker'["worker-a"] = worker["worker-a"]
          BY <1>3, <1>4, <2>1, WorkTwo
    <3>2. \/ UNCHANGED job
          \/ /\ job.owner = "worker-b" /\ job'.id = job.id /\ job'.exec = job.exec
             /\ job'.owner = job.owner /\ job'.mode = job.mode
          BY <1>4, <1>5, <2>1 DEF Settles
    <3> QED  BY <1>1, <2>1, <3>1, <3>2 DEF WShow, WorkRecovers
  <2> QED  BY <1>1, <1>4, <2>1 DEF WShow, WorkRecovers
<1>16. WorkResumes'
       BY <1>1, <1>5 DEF WShow, WorkResumes, Settles
<1>17. WorkEarned'
       BY <1>1 DEF WShow, WorkEarned
<1> QED
    BY <1>8, <1>9, <1>10, <1>11, <1>12, <1>13, <1>14, <1>15, <1>16, <1>17 DEF WShow

\* Only an action that is not accepted fails, which the job of a signal never is.
LEMMA WorkFailShows ==
    ASSUME WInv, WShow, NEW w \in Work!Workers, Work!Fail(w)
    PROVE  WShow'
<1> DEFINE next == IF Work!Retryable /\ (job.count < Work!MaxAttempts \/ "unbounded_retry" \in faults)
                   THEN "RETRY_WAIT" ELSE "DEAD"
           gain == IF "failure_effect" \in faults THEN 1 ELSE 0
<1>1. /\ worker[w].up /\ worker[w].at = "acted" /\ ~Work!Paused(w)
      /\ ~Work!Accepted /\ Work!At(w, "idle", 0)
      /\ \/ /\ Work!Holds(w) /\ job' = [job EXCEPT !.state = next] /\ Work!End("FAILED")
            /\ effects' = effects + gain
         \/ UNCHANGED <<job, attempts, effects>>
      /\ UNCHANGED <<dispatches, events, waiting, faults, pc, seen, result, doubled>>
      BY DEF Work!Fail, Work!Unseen, Work!Has
<1>2. /\ worker \in [Work!Workers -> WorkerSchema] /\ acks \in [Work!Workers -> Nat]
      /\ effects \in Nat /\ job \in JobSchema /\ job.count \in Nat
      BY DEF WInv, WShow, WorkCounts, WorkTables, JobSchema
<1>3. /\ worker'[w].at = "idle" /\ worker'[w].up = worker[w].up /\ worker'[w].fp = worker[w].fp
      /\ \A v \in Work!Workers : v # w => worker'[v] = worker[v] /\ acks'[v] = acks[v]
      /\ acks' \in [Work!Workers -> Nat]
      BY <1>1, <1>2, WorkMoves
<1>4. /\ job.mode # "signal" /\ ("invalid_accepted" \in faults => job.mode # "invalid")
      BY <1>1 DEF Work!Accepted, Work!Has
<1>5. /\ next = "DEAD" => /\ "retries_error" \in faults => job.count >= 3
                          /\ "unbounded_retry" \in faults => job.mode # "retry"
      /\ next \in {"RETRY_WAIT", "DEAD"}
      BY <1>2 DEF Work!Retryable, Work!MaxAttempts, Work!Has
<1>6. gain \in {0, 1} /\ ("failure_effect" \in faults => gain = 1)
      OBVIOUS
<1> HIDE DEF next, gain
<1>7. \/ Settles(w, "FAILED") /\ job'.state = next /\ effects' = effects + gain
      \/ UNCHANGED <<job, attempts, effects>>
      BY <1>1, <1>2 DEF Settles, Work!Holds, JobSchema
<1>8. effects' \in Nat /\ ("failure_effect" \in faults /\ job'.state = "DEAD" => effects' >= 1)
  <2>1. "failure_effect" \in faults /\ job.state = "DEAD" => effects >= 1
        BY DEF WShow, WorkFinishTraces
  <2> QED  BY <1>2, <1>6, <1>7, <2>1
<1>9. WorkCounts' /\ WorkFresh'
      BY <1>1, <1>3, <1>4, <1>5, <1>7, <1>8 DEF WShow, WorkCounts, WorkFresh, Settles
<1>10. WorkClaimTraces'
       BY <1>1, <1>7, WorkSettles DEF WShow, WorkClaimTraces
<1>11. WorkFinishTraces'
       BY <1>1, <1>4, <1>5, <1>7, <1>8 DEF WShow, WorkFinishTraces, Settles
<1>12. pc \notin Held \cup {"c_boot", "c_final"} /\ ~(doubled /\ pc \in Concurrency)
       BY <1>4 DEF WShow, WorkHeld, WorkDoubled, Held
<1>13. WorkHeld'
       BY <1>1, <1>7, <1>12 DEF WShow, WorkHeld, Settles, Held, Claiming
<1>14. WorkWinner' /\ WorkReclaimShown'
       BY <1>1, <1>12 DEF WorkWinner, WorkReclaimShown, Held, Claiming
<1>15. WorkDoubled'
       BY <1>1, <1>12 DEF WShow, WorkDoubled
<1>16. WorkRecovers'
       BY <1>1, <1>4 DEF WShow, WorkRecovers
<1>17. WorkResumes'
       BY <1>1, <1>7 DEF WShow, WorkResumes, Settles
<1>18. WorkEarned'
       BY <1>1 DEF WShow, WorkEarned
<1> QED
    BY <1>9, <1>10, <1>11, <1>13, <1>14, <1>15, <1>16, <1>17, <1>18 DEF WShow

\* The engine's steps, with the passage of time.
LEMMA WorkEngineShows ==
    ASSUME WInv, WShow, Work!Engine
    PROVE  WShow'
<1>1. CASE Work!TimePasses
  <2>1. UNCHANGED <<job, attempts, effects, dispatches, events, waiting, worker, acks, faults, pc, seen,
                    result, doubled>>
        BY <1>1 DEF Work!TimePasses, Work!Unseen
  <2> QED  BY <2>1
           DEF WShow, WorkCounts, WorkFresh, WorkClaimTraces, WorkFinishTraces, WorkHeld, WorkWinner,
               WorkReclaimShown, WorkDoubled, WorkRecovers, WorkResumes, WorkEarned
<1> QED
    BY <1>1, WorkClaimShows, WorkDoubleShows, WorkActShows, WorkFinishShows, WorkFailShows
    DEF Work!Engine

\* The row a process is started with.
LEMMA WorkStarted ==
    ASSUME NEW mode \in {"signal", "retry", "error", "invalid"}, Work!Start(mode), UNCHANGED faults
    PROVE  /\ WorkFresh' /\ WorkClaimTraces' /\ WorkFinishTraces'
           /\ effects' = 0 /\ dispatches' = 0 /\ events' = 0 /\ waiting' = waiting
           /\ job'.mode = mode /\ job'.state \in {"READY", "SUCCEEDED"}
           /\ mode = "signal" /\ "inline_start" \in faults => job'.state = "SUCCEEDED"
<1>1. /\ attempts' = <<>> /\ effects' = 0 /\ dispatches' = 0 /\ events' = 0 /\ waiting' = waiting
      /\ \/ /\ "inline_start" \in faults /\ mode = "signal"
            /\ job' = [Work!NoJob EXCEPT !.state = "SUCCEEDED", !.count = 1, !.ver = 1]
         \/ /\ ~("inline_start" \in faults /\ mode = "signal")
            /\ job' = [Work!NoJob EXCEPT !.state = "READY", !.mode = mode]
      BY DEF Work!Start, Work!Has
<1>2. \/ /\ "inline_start" \in faults /\ mode = "signal" /\ job'.mode = "signal"
         /\ job'.state = "SUCCEEDED" /\ job'.count = 1
      \/ /\ ~("inline_start" \in faults /\ mode = "signal")
         /\ job'.state = "READY" /\ job'.mode = mode /\ job'.count = 0 /\ job'.id = 0 /\ job'.exec = 0
      BY <1>1 DEF Work!NoJob
<1>3. DOMAIN attempts' = {}
      BY <1>1
<1>4. WorkFresh'
      BY <1>1, <1>2 DEF WorkFresh
<1>5. WorkClaimTraces'
      BY <1>2, <1>3 DEF WorkClaimTraces
<1>6. WorkFinishTraces'
      BY <1>1, <1>2 DEF WorkFinishTraces
<1> QED
    BY <1>1, <1>2, <1>4, <1>5, <1>6

\* The containers that are replaced, and those that are not.
LEMMA WorkRows ==
    ASSUME NEW S, NEW box, Work!Containers(S, box), acks \in [Work!Workers -> Nat]
    PROVE  /\ acks' \in [Work!Workers -> Nat]
           /\ \A w \in Work!Workers : /\ worker'[w] = IF w \in S THEN box ELSE worker[w]
                                      /\ w \in S /\ box.up => acks'[w] = 0
<1>1. /\ worker' = [w \in Work!Workers |-> IF w \in S THEN box ELSE worker[w]]
      /\ acks' = [w \in Work!Workers |-> IF w \in S /\ box.up THEN 0 ELSE acks[w]]
      BY DEF Work!Containers
<1> QED
    BY <1>1

LEMMA WorkRowsOf ==
    /\ Work!Stopped.up = FALSE /\ Work!Stopped.at = "idle"
    /\ \A fp : Work!Started(fp).up /\ Work!Started(fp).fp = fp /\ Work!Started(fp).at = "idle"
BY DEF Work!Stopped, Work!Started

LEMMA WorkNothing == Work!Nothing \in WorkSeen /\ Work!Nothing.preserved /\ Work!Nothing.ok
<1>1. Work!NoJob \in JobSchema
  <2>1. 0 \in 0..WorkerClaims /\ 0 \in Nat
        BY ClaimBounds
  <2> QED  BY <2>1 DEF Work!NoJob, JobSchema
<1> QED
    BY <1>1 DEF Work!Nothing, WorkSeen

\* Between its phases, and at the steps that hold no worker, the checker relies on nothing.
Idle == {"a_start", "a_restore", "r_start", "r_wait", "r_ready", "done"}

LEMMA WorkIdle ==
    ASSUME pc' \in Idle, doubled' => result'[Reclaimed] # "passed"
    PROVE  WorkHeld' /\ WorkWinner' /\ WorkReclaimShown' /\ WorkDoubled' /\ WorkRecovers' /\ WorkResumes'
BY DEF Idle, WorkHeld, WorkWinner, WorkReclaimShown, WorkRecovers, WorkResumes, WorkDoubled,
       Held, Claiming, Persisting, Concurrency

\* A ContractError records no check as passed.
LEMMA WorkContractShows ==
    ASSUME WInv, WShow, NEW slow, Work!Contract(slow), pc \in Concurrency \cup Recovery \cup Resilience
    PROVE  WShow'
<1>1. /\ result' = [c \in Work!Checks |-> IF c \in Work!ChecksOf[Work!PhaseOf(pc)] /\ result[c] = "absent"
                                         THEN "failed" ELSE result[c]]
      /\ pc' = Work!Then[Work!PhaseOf(pc)]
      /\ UNCHANGED <<faults, job, attempts, effects, dispatches, events, waiting, worker, acks, seen, doubled>>
      BY DEF Work!Contract, Work!Go, Work!engine
<1>2. pc' \in Idle
  <2>1. /\ Work!Then["concurrency"] = "a_start" /\ Work!Then["recovery"] = "r_start"
        /\ Work!Then["resilience"] = "done"
        BY DEF Work!Then
  <2> QED  BY <1>1, <2>1, WorkPhaseOf DEF Idle
<1>3. \A c \in Work!Checks : result'[c] = "passed" => result[c] = "passed"
      BY <1>1
<1>4. WorkCounts' /\ WorkFresh' /\ WorkClaimTraces' /\ WorkFinishTraces'
      BY <1>1 DEF WShow, WorkCounts, WorkFresh, WorkClaimTraces, WorkFinishTraces
<1>5. Reclaimed \in Work!Checks
      BY DEF Reclaimed, Work!Checks
<1>6. doubled => result'[Reclaimed] # "passed"
      BY <1>3, <1>5 DEF WShow, WorkDoubled
<1>7. /\ WorkHeld' /\ WorkWinner' /\ WorkReclaimShown' /\ WorkRecovers' /\ WorkResumes'
      /\ WorkDoubled'
      BY <1>1, <1>2, <1>6, WorkIdle
<1>8. WorkEarned'
      BY <1>1, <1>3 DEF WShow, WorkEarned
<1> QED
    BY <1>4, <1>7, <1>8 DEF WShow

\* A step that changes only what the checker knows.
LEMMA WorkKeepsTables ==
    ASSUME WShow, UNCHANGED <<faults, job, attempts, effects, dispatches, events>>,
           acks' \in [Work!Workers -> Nat], seen' \in WorkSeen
    PROVE  WorkCounts' /\ WorkFresh' /\ WorkClaimTraces' /\ WorkFinishTraces'
BY DEF WShow, WorkCounts, WorkFresh, WorkClaimTraces, WorkFinishTraces

\* The checks that a step does not record stay earned.
LEMMA WorkKeepsEarned ==
    ASSUME WShow, UNCHANGED <<faults, result, doubled>>
    PROVE  WorkEarned' /\ (doubled' => result'[Reclaimed] # "passed")
BY DEF WShow, WorkEarned, WorkDoubled

\* The checker's steps of the phase concurrency.
LEMMA WorkConcurrencyShows ==
    ASSUME WInv, WShow,
           \/ Work!ConcurrencyStart \/ Work!ConcurrencyBoot \/ Work!ConcurrencyClaim
           \/ Work!ConcurrencyKill \/ Work!ConcurrencyLoser \/ Work!ConcurrencyReclaim
           \/ Work!ConcurrencyAttempts \/ Work!StaleFinish \/ Work!ConcurrencyRestart
           \/ Work!ConcurrencyVerdict
    PROVE  WShow'
<1> USE DEF Work!Go, Work!Keep, Work!engine
<1>1. /\ acks \in [Work!Workers -> Nat] /\ seen \in WorkSeen /\ events \in Nat
      /\ job \in JobSchema /\ attempts \in Seq(AttemptSchema) /\ Len(attempts) <= job.count
      BY DEF WInv, WorkTables, WShow, WorkCounts
<1>2. ASSUME NEW slow, pc \in Concurrency, Work!Contract(slow)
      PROVE  WShow'
      BY <1>2, WorkContractShows
<1>3. ASSUME NEW p, pc \in Concurrency, Work!PollTimeout(p)
      PROVE  WShow'
      BY <1>2, <1>3 DEF Work!PollTimeout
<1>4. ASSUME NEW w, pc \in Concurrency,
             (acks[w] > 1 /\ Work!Contract(FALSE)) \/ Work!PollTimeout(acks[w] > 0)
      PROVE  WShow'
      BY <1>2, <1>3, <1>4
<1>5. ASSUME pc' \in Concurrency, ~(doubled /\ pc \in Concurrency) \/ WorkDoubled', pc \in Concurrency,
             UNCHANGED <<faults, result, doubled>>,
             WorkCounts' /\ WorkFresh' /\ WorkClaimTraces' /\ WorkFinishTraces',
             WorkHeld' /\ WorkWinner' /\ WorkReclaimShown'
      PROVE  WShow'
  <2>1. WorkEarned' /\ (doubled' => result'[Reclaimed] # "passed")
        BY <1>5, WorkKeepsEarned
  <2>2. WorkDoubled'
        BY <1>5, <2>1 DEF WorkDoubled, Concurrency
  <2>3. WorkRecovers' /\ WorkResumes'
        BY <1>5 DEF WorkRecovers, WorkResumes, Concurrency, Persisting
  <2> QED  BY <1>5, <2>1, <2>2, <2>3 DEF WShow
<1>6. pc \in Concurrency /\ pc \notin Claiming => ~doubled
      BY DEF WShow, WorkDoubled
<1>7. CASE Work!ConcurrencyStart
  <2>1. /\ pc = "c_start" /\ pc' = "c_boot" /\ Work!Containers(Work!Workers, Work!Stopped)
        /\ seen' = Work!Nothing /\ Work!Start("signal")
        /\ UNCHANGED <<faults, result, doubled>>
        BY <1>7 DEF Work!ConcurrencyStart
  <2>2. /\ acks' \in [Work!Workers -> Nat] /\ \A w \in Work!Workers : worker'[w] = Work!Stopped
        BY <1>1, <2>1, WorkRows
  <2>3. /\ WorkFresh' /\ WorkClaimTraces' /\ WorkFinishTraces' /\ effects' = 0 /\ dispatches' = 0
        /\ events' = 0 /\ job'.mode = "signal"
        /\ "inline_start" \in faults => job'.state = "SUCCEEDED"
        BY <2>1, WorkStarted
  <2>4. WorkCounts'
        BY <2>1, <2>2, <2>3, WorkNothing DEF WorkCounts
  <2>5. WorkHeld'
        BY <2>1, <2>2, <2>3, WorkRowsOf DEF WorkHeld, Held, Claiming
  <2>6. WorkWinner' /\ WorkReclaimShown'
        BY <2>1 DEF WorkWinner, WorkReclaimShown, Held, Claiming
  <2> QED  BY <1>5, <1>6, <2>1, <2>3, <2>4, <2>5, <2>6 DEF Concurrency, Claiming
<1>8. CASE Work!ConcurrencyBoot
  <2>1. CASE job.state = "READY"
    <3>1. /\ pc = "c_boot" /\ pc' = "c_claim"
          /\ Work!Containers(Work!Workers, Work!Started("after_job_claim"))
          /\ seen' = [seen EXCEPT !.job = job]
          /\ UNCHANGED <<job, attempts, effects, dispatches, events, faults, result, doubled>>
          BY <1>8, <2>1 DEF Work!ConcurrencyBoot
    <3>2. /\ acks' \in [Work!Workers -> Nat]
          /\ \A w \in Work!Workers : worker'[w] = Work!Started("after_job_claim")
          BY <1>1, <3>1, WorkRows
    <3>3. seen' \in WorkSeen /\ seen'.job = job
          BY <1>1, <3>1 DEF WorkSeen
    <3>4. job.id = 0 /\ job.exec = 0 /\ job.mode = "signal" /\ "inline_start" \notin faults
          BY <2>1, <3>1 DEF WShow, WorkFresh, WorkHeld
    <3>5. WorkHeld'
          BY <2>1, <3>1, <3>2, <3>4, WorkRowsOf DEF WorkHeld, Held, Claiming
    <3>6. WorkWinner' /\ WorkReclaimShown'
          BY <3>1, <3>3, <3>4 DEF WorkWinner, WorkReclaimShown, Held, Claiming
    <3> QED  BY <1>5, <1>6, <3>1, <3>2, <3>3, <3>5, <3>6, WorkKeepsTables DEF Concurrency, Claiming
  <2>2. CASE job.state # "READY"
    <3>1. pc = "c_boot" /\ Work!Contract(FALSE)
          BY <1>8, <2>2 DEF Work!ConcurrencyBoot
    <3>2. pc \in Concurrency
          BY <3>1 DEF Concurrency
    <3> QED  BY <1>2, <3>1, <3>2, Zenon
  <2> QED  BY <2>1, <2>2
<1>9. CASE Work!ConcurrencyClaim
  <2>1. CASE pc = "c_claim" /\ Work!PollTimeout(Work!FirstClaim)
        BY <1>3, <2>1 DEF Concurrency
  <2>2. CASE /\ pc = "c_claim" /\ pc' = "c_ack" /\ Work!FirstClaim
             /\ seen' = [seen EXCEPT !.winner = job.owner]
             /\ UNCHANGED <<job, attempts, effects, dispatches, events, worker, acks, faults, result, doubled>>
    <3>1. job.state = "LEASED" /\ job.owner \in Work!Workers
          BY <2>2 DEF Work!FirstClaim
    <3>2. seen' \in WorkSeen /\ seen'.winner = job.owner /\ seen'.job = seen.job
          BY <1>1, <2>2, <3>1 DEF WorkSeen
    <3>3. worker[job.owner].at = "claimed"
          BY <2>2, <3>1 DEF WShow, WorkHeld, Held, Claiming
    <3>4. WorkHeld'
          BY <2>2, <3>1 DEF WShow, WorkHeld, Held, Claiming
    <3>5. WorkWinner' /\ WorkReclaimShown'
          BY <2>2, <3>1, <3>2, <3>3 DEF WShow, WorkWinner, WorkReclaimShown, Held, Claiming
    <3>6. WorkDoubled'
          BY <2>2, <3>1, <3>2 DEF WShow, WorkDoubled, Concurrency, Claiming
    <3> QED  BY <1>1, <1>5, <2>2, <3>2, <3>4, <3>5, <3>6, WorkKeepsTables DEF Concurrency
  <2> QED  BY <1>9, <2>1, <2>2 DEF Work!ConcurrencyClaim
<1>10. CASE Work!ConcurrencyKill
  <2>1. CASE \/ acks[seen.winner] > 1 /\ Work!Contract(FALSE)
             \/ Work!PollTimeout(acks[seen.winner] > 0)
    <3>1. pc \in Concurrency
          BY <1>10 DEF Work!ConcurrencyKill, Concurrency
    <3> QED  BY <1>4, <2>1, <3>1
  <2>2. CASE /\ pc = "c_ack" /\ Work!Containers({seen.winner}, Work!Stopped) /\ pc' = "c_loser"
             /\ UNCHANGED <<job, attempts, effects, dispatches, events, seen, faults, result, doubled>>
    <3>1. /\ acks' \in [Work!Workers -> Nat]
          /\ \A w \in Work!Workers : worker'[w] = IF w = seen.winner THEN Work!Stopped ELSE worker[w]
          BY <1>1, <2>2, WorkRows
    <3>2. seen.winner \in Work!Workers
          BY <2>2 DEF WShow, WorkWinner, Held, Claiming
    <3>3. WorkHeld'
      <4>1. \A w \in Work!Workers : worker'[w].at # "acted" /\ (worker'[w].up => worker'[w].fp = "after_job_claim")
            BY <2>2, <3>1, WorkRowsOf DEF WShow, WorkHeld, Held, Claiming
      <4>2. job.state = "LEASED" /\ job.owner \in Work!Workers
            BY <2>2 DEF WShow, WorkHeld, WorkFresh, Held, Claiming
      <4>3. worker'[job.owner].up => worker'[job.owner].at = "claimed"
            BY <2>2, <3>1, <4>2, WorkRowsOf DEF WShow, WorkHeld, Held, Claiming
      <4> QED  BY <2>2, <4>1, <4>2, <4>3 DEF WShow, WorkHeld, Held, Claiming
    <3>4. WorkWinner' /\ WorkReclaimShown'
          BY <2>2, <3>1, <3>2, WorkRowsOf DEF WShow, WorkWinner, WorkReclaimShown, Held, Claiming
    <3>5. WorkDoubled'
      <4>1. CASE doubled
        <5>1. /\ seen.winner = job.owner /\ job.state = "LEASED" /\ worker[Work!Other(job.owner)].at = "claimed"
              /\ result[Reclaimed] # "passed"
              BY <2>2, <4>1 DEF WShow, WorkDoubled, Concurrency
        <5>2. Work!Other(seen.winner) \in Work!Workers /\ Work!Other(seen.winner) # seen.winner
              BY <3>2, WorkTwo
        <5> QED  BY <2>2, <3>1, <5>1, <5>2 DEF WorkDoubled, Claiming
      <4>2. CASE ~doubled
            BY <2>2, <4>2 DEF WorkDoubled
      <4> QED  BY <4>1, <4>2
    <3> QED  BY <1>1, <1>5, <2>2, <3>1, <3>3, <3>4, <3>5, WorkKeepsTables DEF Concurrency
  <2> QED  BY <1>10, <2>1, <2>2 DEF Work!ConcurrencyKill, Work!wait_failpoint
<1>11. CASE Work!ConcurrencyLoser
  <2> DEFINE w == Work!Other(seen.winner)
  <2>1. CASE (acks[w] > 1 /\ Work!Contract(FALSE)) \/ Work!PollTimeout(acks[w] > 0)
    <3>1. pc \in Concurrency
          BY <1>11 DEF Work!ConcurrencyLoser, Concurrency
    <3> QED  BY <1>4, <2>1, <3>1
  <2>2. CASE /\ pc = "c_loser" /\ pc' = "c_reclaim"
             /\ UNCHANGED <<job, attempts, effects, dispatches, events, worker, acks, seen, faults, result, doubled>>
    <3>1. WorkHeld'
          BY <2>2 DEF WShow, WorkHeld, Held, Claiming
    <3>2. WorkWinner' /\ WorkReclaimShown'
          BY <2>2 DEF WShow, WorkWinner, WorkReclaimShown, Held, Claiming
    <3>3. WorkDoubled'
          BY <2>2 DEF WShow, WorkDoubled, Concurrency, Claiming
    <3> QED  BY <1>1, <1>5, <2>2, <3>1, <3>2, <3>3, WorkKeepsTables DEF Concurrency
  <2> QED  BY <1>11, <2>1, <2>2 DEF Work!ConcurrencyLoser, Work!wait_failpoint
<1>12. CASE Work!ConcurrencyReclaim
  <2>1. CASE pc = "c_reclaim" /\ Work!PollTimeout(Work!SecondClaim)
        BY <1>3, <2>1 DEF Concurrency
  <2>2. CASE /\ pc = "c_reclaim" /\ Work!SecondClaim /\ pc' = "c_attempts"
             /\ UNCHANGED <<job, attempts, effects, dispatches, events, worker, acks, seen, faults, result, doubled>>
    <3>1. job.state = "LEASED" /\ job.owner = Work!Other(seen.winner) /\ seen.winner \in Work!Workers
          BY <2>2 DEF Work!SecondClaim, WShow, WorkWinner, Held, Claiming
    <3>2. ~doubled
          BY <2>2, <3>1, WorkTwo DEF WShow, WorkDoubled, Concurrency
    <3>3. WorkHeld'
          BY <2>2 DEF WShow, WorkHeld, Held, Claiming
    <3>4. WorkWinner' /\ WorkReclaimShown'
          BY <2>2, <3>1 DEF WShow, WorkWinner, WorkReclaimShown, Held, Claiming
    <3> QED  BY <1>1, <1>5, <2>2, <3>2, <3>3, <3>4, WorkKeepsTables DEF Concurrency
  <2> QED  BY <1>12, <2>1, <2>2 DEF Work!ConcurrencyReclaim
<1>13. CASE Work!ConcurrencyAttempts
  <2> DEFINE lease == IF attempts = <<>> THEN 0 ELSE attempts[1].ver
  <2>1. /\ pc = "c_attempts" /\ pc' = "c_stale"
        /\ seen' = [seen EXCEPT !.ok = Work!ClaimRows, !.job = job, !.lease = lease]
        /\ UNCHANGED <<job, attempts, effects, dispatches, events, worker, acks, faults, result, doubled>>
        BY <1>13 DEF Work!ConcurrencyAttempts
  <2>2. lease \in Nat
    <3>1. CASE attempts # <<>>
      <4>1. attempts[1] \in AttemptSchema
            BY <1>1, <3>1
      <4>2. attempts[1].ver \in Nat
            BY <4>1, ClaimBounds DEF AttemptSchema
      <4> QED  BY <3>1, <4>2
    <3> QED  BY <3>1
  <2> HIDE DEF lease
  <2>3. Work!ClaimRows \in BOOLEAN
        BY DEF Work!ClaimRows
  <2>4. seen' \in WorkSeen /\ seen'.ok = Work!ClaimRows /\ seen'.winner = seen.winner
        BY <1>1, <2>1, <2>2, <2>3 DEF WorkSeen
  <2>5. WorkHeld'
        BY <2>1 DEF WShow, WorkHeld, Held, Claiming
  <2>6. WorkWinner'
        BY <2>1, <2>4 DEF WShow, WorkWinner, Held, Claiming
  <2>7. Work!ClaimRows => {"same_version", "not_stale", "new_execution", "new_job"} \cap faults = {}
    <3> SUFFICES ASSUME Work!ClaimRows
                 PROVE  {"same_version", "not_stale", "new_execution", "new_job"} \cap faults = {}
        OBVIOUS
    <3>1. /\ Len(attempts) = 2 /\ attempts[1].status = "STALE" /\ job.ver > attempts[1].ver
          /\ job.id = seen.job.id /\ job.exec = seen.job.exec
          BY DEF Work!ClaimRows
    <3>2. 1 \in DOMAIN attempts /\ attempts[1] \in AttemptSchema
      <4>1. Len(attempts) = 2
            BY <3>1
      <4> QED  BY <1>1, <4>1
    <3>3. job.ver # attempts[1].ver
      <4>1. attempts[1].ver \in Nat /\ job.ver \in Nat
            BY <1>1, <3>2, ClaimBounds DEF AttemptSchema, JobSchema
      <4> QED  BY <3>1, <4>1
    <3>4. job.count >= 2 /\ job.id = 0 /\ job.exec = 0 /\ job.mode = "signal"
      <4>1. seen.job.id = 0 /\ seen.job.exec = 0 /\ job.mode = "signal"
            BY <2>1 DEF WShow, WorkWinner, WorkHeld, Held
      <4> QED  BY <1>1, <3>1, <4>1
    <3>5. "not_stale" \notin faults
          BY <3>1, <3>2 DEF WShow, WorkClaimTraces
    <3>6. "same_version" \notin faults
          BY <3>2, <3>3, <3>4 DEF WShow, WorkClaimTraces
    <3>7. "new_execution" \notin faults /\ "new_job" \notin faults
          BY <3>4 DEF WShow, WorkClaimTraces
    <3> QED  BY <3>5, <3>6, <3>7
  <2>8. WorkReclaimShown'
        BY <2>1, <2>4, <2>7 DEF WorkReclaimShown
  <2> QED  BY <1>1, <1>5, <1>6, <2>1, <2>4, <2>5, <2>6, <2>8, WorkKeepsTables DEF Concurrency, Claiming
<1>14. CASE Work!StaleFinish
  <2> DEFINE held == job.owner = seen.winner /\ job.ver = seen.lease
             accepted == job.state = "LEASED" /\ (held \/ "no_fence" \in faults)
             n == IF accepted \/ "fence_writes" \in faults THEN 1 ELSE 0
             quiet == seen.ok /\ ~accepted /\ events' = events
  <2>1. /\ pc = "c_stale" /\ pc' = "c_restart"
        /\ IF accepted THEN job' = [job EXCEPT !.state = "SUCCEEDED"] /\ Work!End("SUCCEEDED")
                       ELSE UNCHANGED <<job, attempts>>
        /\ events' = events + n
        /\ seen' = [seen EXCEPT !.ok = quiet]
        /\ UNCHANGED <<effects, dispatches, worker, acks, faults, result, doubled>>
        BY <1>14 DEF Work!StaleFinish, Work!Has
  <2>2. n \in {0, 1} /\ ("fence_writes" \in faults => n = 1)
        OBVIOUS
  <2>3. job.state = "LEASED" /\ ("no_fence" \in faults => accepted)
        BY <2>1 DEF WShow, WorkHeld, Held
  <2> HIDE DEF held, n
  <2>4. seen' \in WorkSeen /\ seen'.ok = quiet /\ seen'.winner = seen.winner
        BY <1>1, <2>1 DEF WorkSeen
  <2>5. events' \in Nat /\ (quiet => n = 0)
        BY <1>1, <2>1, <2>2
  <2> HIDE DEF n
  <2>6. quiet => ~accepted /\ seen.ok /\ "no_fence" \notin faults /\ "fence_writes" \notin faults
        BY <2>2, <2>3, <2>5
  <2>7. /\ job.owner \in Work!Workers
        /\ \/ Settles(job.owner, "SUCCEEDED") /\ job'.state = "SUCCEEDED" /\ accepted
           \/ UNCHANGED <<job, attempts>>
    <3>1. job.owner \in Work!Workers
          BY <2>3 DEF WShow, WorkFresh
    <3> QED  BY <1>1, <2>1, <2>3, <3>1 DEF Settles, JobSchema
  <2> HIDE DEF accepted, quiet
  <2>8. WorkCounts' /\ WorkFresh'
        BY <1>1, <2>1, <2>4, <2>5, <2>7 DEF WShow, WorkCounts, WorkFresh, Settles
  <2>9. WorkClaimTraces'
        BY <2>1, <2>7, WorkSettles DEF WShow, WorkClaimTraces
  <2>10. WorkFinishTraces'
         BY <2>1, <2>3, <2>7 DEF WShow, WorkFinishTraces, Settles
  <2>11. WorkHeld'
         BY <2>1, <2>3, <2>4, <2>6, <2>7 DEF WShow, WorkHeld, Held, Claiming, Settles
  <2>12. WorkWinner'
         BY <2>1, <2>4, <2>7 DEF WShow, WorkWinner, Held, Claiming, Settles
  <2>13. WorkReclaimShown'
         BY <2>1, <2>3, <2>4, <2>6, <2>7 DEF WShow, WorkReclaimShown, Settles
  <2> QED  BY <1>5, <1>6, <2>1, <2>8, <2>9, <2>10, <2>11, <2>12, <2>13 DEF Concurrency, Claiming
<1>15. CASE Work!ConcurrencyRestart
  <2>1. /\ pc = "c_restart" /\ pc' = "c_final"
        /\ Work!Containers({Work!Other(seen.winner)}, Work!Started(""))
        /\ UNCHANGED <<job, attempts, effects, dispatches, events, seen, faults, result, doubled>>
        BY <1>15 DEF Work!ConcurrencyRestart
  <2>2. /\ acks' \in [Work!Workers -> Nat]
        /\ \A w \in Work!Workers : w # Work!Other(seen.winner) => worker'[w] = worker[w]
    <3> DEFINE S == {Work!Other(seen.winner)} box == Work!Started("")
    <3>1. Work!Containers(S, box)
          BY <2>1
    <3>2. \A w \in Work!Workers : w # Work!Other(seen.winner) => w \notin S
          OBVIOUS
    <3> HIDE DEF S, box
    <3> QED  BY <1>1, <3>1, <3>2, WorkRows
  <2>3. seen.winner \in Work!Workers /\ seen.winner # Work!Other(seen.winner)
        BY <2>1, WorkTwo DEF WShow, WorkWinner, Held
  <2>4. WorkHeld'
        BY <2>1 DEF WShow, WorkHeld, Held, Claiming
  <2>5. WorkWinner'
        BY <2>1, <2>2, <2>3 DEF WShow, WorkWinner, Held, Claiming
  <2>6. WorkReclaimShown'
        BY <2>1 DEF WShow, WorkReclaimShown
  <2> QED  BY <1>1, <1>5, <1>6, <2>1, <2>2, <2>4, <2>5, <2>6, WorkKeepsTables DEF Concurrency, Claiming
<1>16. CASE Work!ConcurrencyVerdict
  <2>1. CASE pc = "c_final" /\ Work!PollTimeout(job.state = "SUCCEEDED")
        BY <1>3, <2>1 DEF Concurrency
  <2>2. CASE /\ pc = "c_final" /\ job.state = "SUCCEEDED" /\ pc' = "c_restore"
             /\ Work!Record(Reclaimed, Work!ConcurrencyValid)
             /\ UNCHANGED <<job, attempts, effects, dispatches, events, worker, acks, seen, faults, doubled>>
    <3>1. ~doubled
          BY <1>6, <2>2 DEF Concurrency, Claiming
    <3>2. /\ \A c \in Work!Checks \ {Reclaimed} : result'[c] = result[c]
          /\ result'[Reclaimed] = "passed" => Work!ConcurrencyValid
      <4>1. result \in [Work!Checks -> {"absent", "passed", "failed"}] /\ Reclaimed \in Work!Checks
            BY DEF WInv, WorkChecker, Reclaimed, Work!Checks
      <4> QED  BY <2>2, <4>1 DEF Work!Record
    <3>3. Work!ConcurrencyValid =>
             faults \cap Work!Detects[Reclaimed] \subseteq
                {"double_claim"} \cup (IF "effect_outside" \in faults THEN {"lost_effect"} ELSE {})
      <4> SUFFICES ASSUME Work!ConcurrencyValid
                   PROVE  faults \cap Work!Detects[Reclaimed] \subseteq
                            {"double_claim"} \cup (IF "effect_outside" \in faults THEN {"lost_effect"} ELSE {})
          OBVIOUS
      <4>1. seen.ok /\ effects = 1 /\ Len(attempts) >= 3
            BY DEF Work!ConcurrencyValid
      <4>2. job.mode = "signal" /\ "inline_start" \notin faults
            BY <2>2 DEF WShow, WorkHeld
      <4>3. {"same_version", "not_stale", "new_execution", "new_job", "no_fence", "fence_writes",
             "double_effect"} \cap faults = {}
            BY <2>2, <4>1 DEF WShow, WorkReclaimShown
      <4>4. "no_reclaim" \notin faults
        <5>1. job.count \in Nat /\ Len(attempts) \in Nat
              BY <1>1, ClaimBounds DEF JobSchema
        <5>2. ~(job.count <= 1)
              BY <1>1, <4>1, <5>1
        <5> QED  BY <4>2, <5>2 DEF WShow, WorkClaimTraces
      <4>5. "effect_outside" \notin faults => "lost_effect" \notin faults
            BY <4>1, <4>2 DEF WShow, WorkFinishTraces
      <4>6. Work!Detects[Reclaimed] =
              {"inline_start", "double_claim", "no_reclaim", "same_version", "not_stale",
               "new_execution", "new_job", "no_fence", "fence_writes", "double_effect", "lost_effect"}
            BY DEF Work!Detects, Work!Checks, Reclaimed
      <4> QED  BY <4>2, <4>3, <4>4, <4>5, <4>6
    <3>4. WorkEarned'
          BY <2>2, <3>1, <3>2, <3>3 DEF WShow, WorkEarned
    <3>5. WorkCounts' /\ WorkFresh' /\ WorkClaimTraces' /\ WorkFinishTraces'
          BY <1>1, <2>2, WorkKeepsTables
    <3>6. WorkHeld' /\ WorkWinner' /\ WorkReclaimShown' /\ WorkRecovers' /\ WorkResumes'
          BY <2>2 DEF WorkHeld, WorkWinner, WorkReclaimShown, WorkRecovers, WorkResumes, Held, Claiming, Persisting
    <3>7. WorkDoubled'
          BY <2>2, <3>1 DEF WorkDoubled
    <3> QED  BY <3>4, <3>5, <3>6, <3>7 DEF WShow
  <2> QED  BY <1>16, <2>1, <2>2 DEF Work!ConcurrencyVerdict, Reclaimed
<1> QED
    BY <1>7, <1>8, <1>9, <1>10, <1>11, <1>12, <1>13, <1>14, <1>15, <1>16

\* The checker's steps of the phase recovery, and those that restore the workers.
LEMMA WorkRecoveryShows ==
    ASSUME WInv, WShow,
           \/ Work!RecoveryStart \/ Work!RecoveryBoot \/ Work!RecoveryKill \/ Work!RecoveryCrash
           \/ Work!RecoveryVerdict \/ Work!Restore("c_restore") \/ Work!Restore("a_restore")
    PROVE  WShow'
<1> USE DEF Work!Go, Work!Keep, Work!engine
<1>1. /\ acks \in [Work!Workers -> Nat] /\ seen \in WorkSeen /\ effects \in Nat /\ dispatches \in Nat
      /\ job \in JobSchema
      BY DEF WInv, WorkTables, WShow, WorkCounts
<1>2. ASSUME NEW slow, pc \in Recovery, Work!Contract(slow)
      PROVE  WShow'
      BY <1>2, WorkContractShows
<1>3. ASSUME NEW p, pc \in Recovery, Work!PollTimeout(p)
      PROVE  WShow'
      BY <1>2, <1>3 DEF Work!PollTimeout
<1>4. ASSUME pc' \in Recovery, UNCHANGED <<faults, result, doubled>>,
             WorkCounts' /\ WorkFresh' /\ WorkClaimTraces' /\ WorkFinishTraces', WorkRecovers'
      PROVE  WShow'
  <2>1. WorkEarned' /\ (doubled' => result'[Reclaimed] # "passed")
        BY <1>4, WorkKeepsEarned
  <2>2. WorkHeld' /\ WorkWinner' /\ WorkReclaimShown' /\ WorkResumes'
        BY <1>4 DEF WorkHeld, WorkWinner, WorkReclaimShown, WorkResumes, Recovery, Held, Claiming, Persisting
  <2>3. WorkDoubled'
        BY <1>4, <2>1 DEF WorkDoubled, Recovery, Concurrency
  <2> QED  BY <1>4, <2>1, <2>2, <2>3 DEF WShow
<1>5. "worker-a" \in Work!Workers /\ "worker-b" \in Work!Workers
      BY WorkTwo
<1>6. CASE Work!RecoveryStart
  <2>1. /\ pc = "a_start" /\ pc' = "a_boot" /\ Work!Containers(Work!Workers, Work!Stopped)
        /\ seen' = Work!Nothing /\ Work!Start("signal")
        /\ UNCHANGED <<faults, result, doubled>>
        BY <1>6 DEF Work!RecoveryStart
  <2>2. /\ acks' \in [Work!Workers -> Nat] /\ \A w \in Work!Workers : worker'[w] = Work!Stopped
        BY <1>1, <2>1, WorkRows
  <2>3. /\ WorkFresh' /\ WorkClaimTraces' /\ WorkFinishTraces' /\ effects' = 0 /\ dispatches' = 0
        /\ events' = 0 /\ job'.mode = "signal" /\ job'.state \in {"READY", "SUCCEEDED"}
        BY <2>1, WorkStarted
  <2>4. WorkCounts'
        BY <2>1, <2>2, <2>3, WorkNothing DEF WorkCounts
  <2>5. WorkRecovers'
        BY <2>1, <2>2, <2>3, WorkRowsOf DEF WorkRecovers
  <2> QED  BY <1>4, <2>1, <2>3, <2>4, <2>5 DEF Recovery
<1>7. CASE Work!RecoveryBoot
  <2> DEFINE box == Work!Started("after_action_before_finish")
  <2>1. /\ pc = "a_boot" /\ pc' = "a_ack" /\ Work!Containers({"worker-a"}, box)
        /\ UNCHANGED <<job, attempts, effects, dispatches, events, seen, faults, result, doubled>>
        BY <1>7 DEF Work!RecoveryBoot
  <2>2. box.up /\ box.fp = "after_action_before_finish" /\ box.at = "idle"
        BY WorkRowsOf
  <2> HIDE DEF box
  <2>3. /\ acks' \in [Work!Workers -> Nat] /\ acks'["worker-a"] = 0
        /\ worker'["worker-a"] = box /\ worker'["worker-b"] = worker["worker-b"]
        BY <1>1, <1>5, <2>1, <2>2, WorkRows
  <2>4. job.mode = "signal" /\ job.state # "LEASED" /\ ~worker["worker-b"].up
        BY <1>5, <2>1 DEF WShow, WorkRecovers
  <2>5. WorkRecovers'
        BY <2>1, <2>2, <2>3, <2>4 DEF WorkRecovers
  <2> QED  BY <1>1, <1>4, <2>1, <2>3, <2>5, WorkKeepsTables DEF Recovery
<1>8. CASE Work!RecoveryKill
  <2>1. CASE pc = "a_ack" /\ Work!Contract(FALSE)
    <3>1. pc \in Recovery
          BY <2>1 DEF Recovery
    <3> QED  BY <1>2, <2>1, <3>1, Zenon
  <2>2. CASE pc = "a_ack" /\ Work!PollTimeout(acks["worker-a"] > 0)
        BY <1>3, <2>2 DEF Recovery
  <2>3. CASE /\ pc = "a_ack" /\ acks["worker-a"] = 1 /\ Work!Containers({"worker-a"}, Work!Stopped)
             /\ pc' = "a_crash" /\ seen' = [seen EXCEPT !.job = job]
             /\ UNCHANGED <<job, attempts, effects, dispatches, events, faults, result, doubled>>
    <3>1. /\ acks' \in [Work!Workers -> Nat]
          /\ worker'["worker-a"] = Work!Stopped /\ worker'["worker-b"] = worker["worker-b"]
          BY <1>1, <1>5, <2>3, WorkRows
    <3>2. seen' \in WorkSeen /\ seen'.job = job
          BY <1>1, <2>3 DEF WorkSeen
    <3>3. worker["worker-a"].at = "acted"
          BY <2>3 DEF WShow, WorkRecovers
    <3>4. /\ job.mode = "signal" /\ job.state = "LEASED" /\ job.owner = "worker-a"
          /\ "effect_outside" \in faults => effects >= 1
          /\ "dispatch_outside" \in faults => dispatches >= 1
          /\ ~worker["worker-b"].up
          BY <2>3, <3>3 DEF WShow, WorkRecovers
    <3>5. WorkRecovers'
          BY <2>3, <3>1, <3>2, <3>4, WorkRowsOf DEF WorkRecovers
    <3> QED  BY <1>1, <1>4, <2>3, <3>1, <3>2, <3>5, WorkKeepsTables DEF Recovery
  <2> QED  BY <1>8, <2>1, <2>2, <2>3 DEF Work!RecoveryKill, Work!wait_failpoint
<1>9. CASE Work!RecoveryCrash
  <2> DEFINE ok == effects = 0 /\ dispatches = 0
             box == Work!Started("")
  <2>1. /\ pc = "a_crash" /\ pc' = "a_final" /\ Work!Containers({"worker-b"}, box)
        /\ seen' = [seen EXCEPT !.ok = ok]
        /\ UNCHANGED <<job, attempts, effects, dispatches, events, faults, result, doubled>>
        BY <1>9 DEF Work!RecoveryCrash
  <2> HIDE DEF box
  <2>2. /\ acks' \in [Work!Workers -> Nat] /\ worker'["worker-a"] = worker["worker-a"]
        BY <1>1, <1>5, <2>1, WorkRows
  <2>3. ok => {"effect_outside", "dispatch_outside"} \cap faults = {}
    <3>1. /\ "effect_outside" \in faults => effects >= 1
          /\ "dispatch_outside" \in faults => dispatches >= 1
          BY <2>1 DEF WShow, WorkRecovers
    <3>2. /\ effects = 0 => ~(effects >= 1)
          /\ dispatches = 0 => ~(dispatches >= 1)
          OBVIOUS
    <3> QED  BY <3>1, <3>2
  <2>4. ok \in BOOLEAN
        OBVIOUS
  <2> HIDE DEF ok
  <2>5. seen' \in WorkSeen /\ seen'.ok = ok /\ seen'.job = seen.job
        BY <1>1, <2>1, <2>4 DEF WorkSeen
  <2>6. WorkRecovers'
        BY <2>1, <2>2, <2>3, <2>5 DEF WShow, WorkRecovers
  <2> QED  BY <1>1, <1>4, <2>1, <2>2, <2>5, <2>6, WorkKeepsTables DEF Recovery
<1>10. CASE Work!RecoveryVerdict
  <2>1. CASE pc = "a_final" /\ Work!PollTimeout(job.state = "SUCCEEDED")
        BY <1>3, <2>1 DEF Recovery
  <2>2. CASE /\ pc = "a_final" /\ job.state = "SUCCEEDED" /\ pc' = "a_restore"
             /\ Work!Record(RolledBack, Work!RecoveryValid)
             /\ UNCHANGED <<job, attempts, effects, dispatches, events, worker, acks, seen, faults, doubled>>
    <3>1. /\ \A c \in Work!Checks \ {RolledBack} : result'[c] = result[c]
          /\ result'[RolledBack] = "passed" => Work!RecoveryValid
      <4>1. result \in [Work!Checks -> {"absent", "passed", "failed"}] /\ RolledBack \in Work!Checks
            BY DEF WInv, WorkChecker, RolledBack, Work!Checks
      <4> QED  BY <2>2, <4>1 DEF Work!Record
    <3>2. Work!RecoveryValid => faults \cap Work!Detects[RolledBack] = {}
      <4> SUFFICES ASSUME Work!RecoveryValid
                   PROVE  faults \cap Work!Detects[RolledBack] = {}
          OBVIOUS
      <4>1. seen.ok /\ effects = 1 /\ job.id = seen.job.id /\ job.exec = seen.job.exec
            BY DEF Work!RecoveryValid
      <4>2. "effect_outside" \notin faults /\ "dispatch_outside" \notin faults /\ job.mode = "signal"
            BY <2>2, <4>1 DEF WShow, WorkRecovers
      <4>3. "double_effect" \notin faults /\ "lost_effect" \notin faults
            BY <4>1, <4>2 DEF WShow, WorkFinishTraces
      <4>4. /\ "no_reclaim" \notin faults
            /\ "new_execution" \in faults => job.exec > seen.job.exec
            /\ "new_job" \in faults => job.id > seen.job.id
            BY <2>2 DEF WShow, WorkRecovers
      <4>5. job.exec \in Nat /\ job.id \in Nat
            BY <1>1 DEF JobSchema
      <4>6. "new_execution" \notin faults /\ "new_job" \notin faults
            BY <4>1, <4>4, <4>5
      <4>7. Work!Detects[RolledBack] =
              {"effect_outside", "dispatch_outside", "no_reclaim", "new_execution", "new_job",
               "double_effect", "lost_effect"}
            BY DEF Work!Detects, Work!Checks, RolledBack
      <4> QED  BY <4>2, <4>3, <4>4, <4>6, <4>7
    <3>3. WorkEarned'
          BY <2>2, <3>1, <3>2 DEF WShow, WorkEarned
    <3>4. WorkCounts' /\ WorkFresh' /\ WorkClaimTraces' /\ WorkFinishTraces'
          BY <1>1, <2>2, WorkKeepsTables
    <3>5. doubled' => result'[Reclaimed] # "passed"
          BY <2>2, <3>1 DEF WShow, WorkDoubled, Reclaimed, RolledBack, Work!Checks
    <3>6. WorkHeld' /\ WorkWinner' /\ WorkReclaimShown' /\ WorkDoubled' /\ WorkRecovers' /\ WorkResumes'
          BY <2>2, <3>5, WorkIdle DEF Idle
    <3> QED  BY <3>3, <3>4, <3>6 DEF WShow
  <2> QED  BY <1>10, <2>1, <2>2 DEF Work!RecoveryVerdict, RolledBack
<1>11. ASSUME NEW step \in {"c_restore", "a_restore"}, Work!Restore(step)
       PROVE  WShow'
  <2>1. /\ pc = step /\ pc' = Work!Then[Work!PhaseOf(step)]
        /\ Work!Containers(Work!Workers, Work!Started(""))
        /\ UNCHANGED <<job, attempts, effects, dispatches, events, seen, faults, result, doubled>>
        BY <1>11 DEF Work!Restore
  <2>2. pc' \in {"a_start", "r_start"}
    <3>1. Work!Then["concurrency"] = "a_start" /\ Work!Then["recovery"] = "r_start"
          BY DEF Work!Then
    <3> QED  BY <2>1, <3>1, WorkPhaseOf
  <2>3. acks' \in [Work!Workers -> Nat]
        BY <1>1, <2>1, WorkRows
  <2>4. WorkEarned' /\ (doubled' => result'[Reclaimed] # "passed")
        BY <2>1, WorkKeepsEarned
  <2>5. WorkHeld' /\ WorkWinner' /\ WorkReclaimShown' /\ WorkDoubled' /\ WorkRecovers' /\ WorkResumes'
        BY <2>2, <2>4, WorkIdle DEF Idle
  <2>6. WorkCounts' /\ WorkFresh' /\ WorkClaimTraces' /\ WorkFinishTraces'
        BY <1>1, <2>1, <2>3, WorkKeepsTables
  <2> QED  BY <2>4, <2>5, <2>6 DEF WShow
<1> QED
    BY <1>6, <1>7, <1>8, <1>9, <1>10, <1>11

\* The checker's steps of the phase resilience.
LEMMA WorkResilienceShows ==
    ASSUME WInv, WShow,
           \/ Work!ResilienceStart \/ Work!ResilienceReady \/ Work!ResilienceRecreate
           \/ Work!ResilienceResumed \/ Work!ResilienceRetry \/ Work!ResilienceRetryWait
           \/ Work!ResilienceRetryRecreate \/ Work!ResilienceRetried \/ Work!ResilienceError
           \/ Work!ResilienceInvalid \/ Work!ResilienceVerdict
    PROVE  WShow'
<1> USE DEF Work!Go, Work!Keep, Work!engine
<1>1. /\ acks \in [Work!Workers -> Nat] /\ seen \in WorkSeen /\ job \in JobSchema
      BY DEF WInv, WorkTables, WShow, WorkCounts
<1>2. ASSUME NEW slow, pc \in Resilience, Work!Contract(slow)
      PROVE  WShow'
      BY <1>2, WorkContractShows
<1>3. ASSUME NEW p, pc \in Resilience, Work!PollTimeout(p)
      PROVE  WShow'
      BY <1>2, <1>3 DEF Work!PollTimeout
<1>4. ASSUME pc' \in Resilience, UNCHANGED <<faults, result, doubled>>,
             WorkCounts' /\ WorkFresh' /\ WorkClaimTraces' /\ WorkFinishTraces', WorkResumes'
      PROVE  WShow'
  <2>1. WorkEarned' /\ (doubled' => result'[Reclaimed] # "passed")
        BY <1>4, WorkKeepsEarned
  <2>2. WorkHeld' /\ WorkWinner' /\ WorkReclaimShown' /\ WorkRecovers'
        BY <1>4 DEF WorkHeld, WorkWinner, WorkReclaimShown, WorkRecovers, Resilience, Held, Claiming
  <2>3. WorkDoubled'
        BY <1>4, <2>1 DEF WorkDoubled, Resilience, Concurrency
  <2> QED  BY <1>4, <2>1, <2>2, <2>3 DEF WShow
<1>5. ASSUME NEW mode \in {"signal", "retry", "error", "invalid"}, Work!Start(mode), UNCHANGED faults,
             acks' \in [Work!Workers -> Nat], seen' \in WorkSeen
      PROVE  /\ WorkCounts' /\ WorkFresh' /\ WorkClaimTraces' /\ WorkFinishTraces'
             /\ job'.mode = mode /\ waiting' = waiting
  <2>1. /\ WorkFresh' /\ WorkClaimTraces' /\ WorkFinishTraces' /\ effects' = 0 /\ dispatches' = 0
        /\ events' = 0 /\ job'.mode = mode /\ waiting' = waiting
        BY <1>5, WorkStarted
  <2>2. WorkCounts'
        BY <1>5, <2>1 DEF WorkCounts
  <2> QED  BY <2>1, <2>2
<1>6. CASE Work!ResilienceStart
  <2>1. /\ pc' = "r_wait" /\ Work!Start("signal") /\ seen' = Work!Nothing /\ UNCHANGED acks
        /\ UNCHANGED <<faults, result, doubled>>
        BY <1>6 DEF Work!ResilienceStart
  <2>2. WorkResumes'
        BY <2>1 DEF WorkResumes, Persisting
  <2> QED  BY <1>1, <1>4, <1>5, <2>1, <2>2, WorkNothing DEF Resilience
<1>7. CASE Work!ResilienceReady
  <2>1. CASE pc = "r_wait" /\ Work!PollTimeout(job.state = "SUCCEEDED")
        BY <1>3, <2>1 DEF Resilience
  <2>2. CASE /\ pc' = "r_ready" /\ Work!Containers(Work!Workers, Work!Stopped) /\ Work!Start("signal")
             /\ UNCHANGED <<seen, faults, result, doubled>>
    <3>1. acks' \in [Work!Workers -> Nat]
          BY <1>1, <2>2, WorkRows
    <3>2. WorkResumes'
          BY <2>2 DEF WorkResumes, Persisting
    <3> QED  BY <1>1, <1>4, <1>5, <2>2, <3>1, <3>2 DEF Resilience
  <2> QED  BY <1>7, <2>1, <2>2 DEF Work!ResilienceReady
<1>8. ASSUME Work!Recreate
      PROVE  /\ acks' \in [Work!Workers -> Nat] /\ ("wait_lost" \in faults => waiting' = "lost")
             /\ UNCHANGED <<job, attempts, effects, dispatches, events>>
  <2>1. /\ Work!Containers(Work!Workers, Work!Started(""))
        /\ waiting' = IF "wait_lost" \in faults THEN "lost" ELSE waiting
        /\ UNCHANGED <<job, attempts, effects, dispatches, events>>
        BY <1>8 DEF Work!Recreate, Work!Has
  <2> QED  BY <1>1, <2>1, WorkRows
<1>9. CASE Work!ResilienceRecreate
  <2>1. CASE pc = "r_ready" /\ Work!Contract(FALSE)
    <3>1. pc \in Resilience
          BY <2>1 DEF Resilience
    <3> QED  BY <1>2, <2>1, <3>1, Zenon
  <2>2. CASE /\ pc' = "r_resumed" /\ job.state = "READY" /\ Work!Recreate
             /\ seen' = [seen EXCEPT !.job = job] /\ UNCHANGED <<faults, result, doubled>>
    <3>1. seen' \in WorkSeen /\ seen'.job = job
          BY <1>1, <2>2 DEF WorkSeen
    <3>2. job.id = 0
          BY <2>2 DEF WShow, WorkFresh
    <3>3. WorkResumes'
          BY <1>8, <2>2, <3>1, <3>2 DEF WorkResumes, Persisting
    <3> QED  BY <1>1, <1>4, <1>8, <2>2, <3>1, <3>3, WorkKeepsTables DEF Resilience
  <2> QED  BY <1>9, <2>1, <2>2 DEF Work!ResilienceRecreate
<1>10. CASE Work!ResilienceResumed
  <2>1. CASE pc = "r_resumed" /\ Work!PollTimeout(job.state = "SUCCEEDED")
        BY <1>3, <2>1 DEF Resilience
  <2>2. CASE /\ pc = "r_resumed" /\ pc' = "r_retry" /\ job.state = "SUCCEEDED"
             /\ seen' = [seen EXCEPT !.preserved = Work!SameJob]
             /\ UNCHANGED <<job, attempts, effects, dispatches, events, waiting, acks, faults, result, doubled>>
    <3>1. Work!SameJob \in BOOLEAN
          BY DEF Work!SameJob
    <3>2. seen' \in WorkSeen /\ seen'.preserved = Work!SameJob
          BY <1>1, <2>2, <3>1 DEF WorkSeen
    <3>3. Work!SameJob => "ready_lost" \notin faults
      <4>1. seen.job.id = 0 /\ ("ready_lost" \in faults => job.id >= 1)
            BY <2>2 DEF WShow, WorkResumes
      <4> QED  BY <4>1 DEF Work!SameJob
    <3>4. WorkResumes'
          BY <2>2, <3>2, <3>3 DEF WShow, WorkResumes, Persisting
    <3> QED  BY <1>1, <1>4, <2>2, <3>2, <3>4, WorkKeepsTables DEF Resilience
  <2> QED  BY <1>10, <2>1, <2>2 DEF Work!ResilienceResumed
<1>11. CASE Work!ResilienceRetry
  <2>1. /\ pc = "r_retry" /\ pc' = "r_retrywait" /\ Work!Start("retry")
        /\ UNCHANGED <<acks, seen, faults, result, doubled>>
        BY <1>11 DEF Work!ResilienceRetry
  <2>2. /\ WorkCounts' /\ WorkFresh' /\ WorkClaimTraces' /\ WorkFinishTraces'
        /\ job'.mode = "retry" /\ waiting' = waiting
        BY <1>1, <1>5, <2>1
  <2>3. WorkResumes'
        BY <2>1, <2>2 DEF WShow, WorkResumes, Persisting
  <2> QED  BY <1>4, <2>1, <2>2, <2>3 DEF Resilience
<1>12. CASE Work!ResilienceRetryWait
  <2>1. CASE pc = "r_retrywait" /\ Work!PollTimeout(job.state = "RETRY_WAIT")
        BY <1>3, <2>1 DEF Resilience
  <2>2. CASE /\ pc = "r_retrywait" /\ pc' = "r_recreate" /\ job.state = "RETRY_WAIT"
             /\ seen' = [seen EXCEPT !.job = job]
             /\ UNCHANGED <<job, attempts, effects, dispatches, events, waiting, acks, faults, result, doubled>>
    <3>1. seen' \in WorkSeen /\ seen'.job = job /\ seen'.preserved = seen.preserved
          BY <1>1, <2>2 DEF WorkSeen
    <3>2. WorkResumes'
          BY <2>2, <3>1 DEF WShow, WorkResumes, Persisting
    <3> QED  BY <1>1, <1>4, <2>2, <3>1, <3>2, WorkKeepsTables DEF Resilience
  <2> QED  BY <1>12, <2>1, <2>2 DEF Work!ResilienceRetryWait
<1>13. CASE Work!ResilienceRetryRecreate
  <2>1. /\ pc = "r_recreate" /\ pc' = "r_failed" /\ Work!Recreate
        /\ UNCHANGED <<seen, faults, result, doubled>>
        BY <1>13 DEF Work!ResilienceRetryRecreate
  <2>2. WorkResumes'
        BY <1>8, <2>1 DEF WShow, WorkResumes, Persisting
  <2> QED  BY <1>1, <1>4, <1>8, <2>1, <2>2, WorkKeepsTables DEF Resilience
<1>14. ASSUME NEW step \in Resilience, NEW n, NEW mode, NEW next, Work!Terminal(step, n, mode, next)
       PROVE  \/ WShow'
              \/ /\ pc = step /\ pc' = next /\ job.state = "DEAD"
                 /\ IF mode = "" THEN UNCHANGED <<job, attempts, effects, dispatches, events, waiting>>
                                 ELSE Work!Start(mode)
                 /\ UNCHANGED <<acks, faults, result, doubled>>
                 /\ seen' \in WorkSeen
                 /\ seen'.ok => seen.ok /\ effects = 0 /\ job.count = n
                 /\ seen'.preserved => seen.preserved /\ (step = "r_failed" => job.id = seen.job.id)
  <2> DEFINE ok == seen.ok /\ Work!terminal_failure_consistent(n)
             kept == seen.preserved /\ (step = "r_failed" => Work!SameJob)
  <2>1. CASE pc = step /\ Work!PollTimeout(job.state = "DEAD")
        BY <1>3, <1>14, <2>1
  <2>2. CASE /\ pc = step /\ pc' = next /\ job.state = "DEAD"
             /\ seen' = [seen EXCEPT !.ok = ok, !.preserved = kept]
             /\ IF mode = "" THEN UNCHANGED <<job, due, attempts, effects, dispatches, events, waiting>>
                             ELSE Work!Start(mode)
             /\ UNCHANGED <<acks, faults, result, doubled>>
    <3>1. ok \in BOOLEAN /\ kept \in BOOLEAN
          OBVIOUS
    <3>2. /\ ok => seen.ok /\ effects = 0 /\ job.count = n
          /\ kept => seen.preserved /\ (step = "r_failed" => job.id = seen.job.id)
          BY DEF Work!terminal_failure_consistent, Work!SameJob
    <3> HIDE DEF ok, kept
    <3>3. seen' \in WorkSeen /\ seen'.ok = ok /\ seen'.preserved = kept
          BY <1>1, <2>2, <3>1 DEF WorkSeen
    <3> QED  BY <2>2, <3>2, <3>3
  <2> QED  BY <1>14, <2>1, <2>2 DEF Work!Terminal
<1>15. "r_failed" \in Resilience /\ "t_error" \in Resilience /\ "t_invalid" \in Resilience
       BY DEF Resilience
<1>16. CASE Work!ResilienceRetried
  <2>1. CASE /\ pc = "r_failed" /\ pc' = "t_error" /\ job.state = "DEAD" /\ Work!Start("error")
             /\ UNCHANGED <<acks, faults, result, doubled>> /\ seen' \in WorkSeen
             /\ seen'.ok => effects = 0
             /\ seen'.preserved => seen.preserved /\ job.id = seen.job.id
    <3>1. WorkCounts' /\ WorkFresh' /\ WorkClaimTraces' /\ WorkFinishTraces' /\ waiting' = waiting
          BY <1>1, <1>5, <2>1
    <3>2. "unbounded_retry" \notin faults /\ (seen'.ok => "failure_effect" \notin faults)
      <4>1. /\ "unbounded_retry" \in faults => job.mode # "retry"
            /\ "failure_effect" \in faults => effects >= 1
            BY <2>1 DEF WShow, WorkFinishTraces
      <4>2. job.mode = "retry"
            BY <2>1 DEF WShow, WorkResumes
      <4> QED  BY <2>1, <4>1, <4>2
    <3>3. seen'.preserved => "retry_lost" \notin faults
      <4>1. "retry_lost" \in faults => job.id > seen.job.id
            BY <2>1 DEF WShow, WorkResumes
      <4>2. job.id \in Nat
            BY <1>1 DEF JobSchema
      <4> QED  BY <2>1, <4>1, <4>2
    <3>4. WorkResumes'
          BY <2>1, <3>1, <3>2, <3>3 DEF WShow, WorkResumes, Persisting
    <3> QED  BY <1>4, <2>1, <3>1, <3>4 DEF Resilience
  <2> QED  BY <1>14, <1>15, <1>16, <2>1 DEF Work!ResilienceRetried
<1>17. CASE Work!ResilienceError
  <2>1. CASE /\ pc = "t_error" /\ pc' = "t_invalid" /\ job.state = "DEAD" /\ Work!Start("invalid")
             /\ UNCHANGED <<acks, faults, result, doubled>> /\ seen' \in WorkSeen
             /\ seen'.ok => seen.ok /\ job.count = 1
             /\ seen'.preserved => seen.preserved
    <3>1. /\ WorkCounts' /\ WorkFresh' /\ WorkClaimTraces' /\ WorkFinishTraces' /\ waiting' = waiting
          /\ job'.mode = "invalid"
          BY <1>1, <1>5, <2>1
    <3>2. seen'.ok => "retries_error" \notin faults
      <4>1. "retries_error" \in faults => job.count >= 3
            BY <2>1 DEF WShow, WorkFinishTraces
      <4> QED  BY <2>1, <4>1
    <3>3. WorkResumes'
          BY <2>1, <3>1, <3>2 DEF WShow, WorkResumes, Persisting
    <3> QED  BY <1>4, <2>1, <3>1, <3>3 DEF Resilience
  <2>2. Work!Terminal("t_error", 1, "invalid", "t_invalid")
        BY <1>17 DEF Work!ResilienceError
  <2>3. \/ WShow'
        \/ /\ pc = "t_error" /\ pc' = "t_invalid" /\ job.state = "DEAD"
           /\ IF "invalid" = "" THEN UNCHANGED <<job, attempts, effects, dispatches, events, waiting>>
                                ELSE Work!Start("invalid")
           /\ UNCHANGED <<acks, faults, result, doubled>>
           /\ seen' \in WorkSeen
           /\ seen'.ok => seen.ok /\ effects = 0 /\ job.count = 1
           /\ seen'.preserved => seen.preserved /\ ("t_error" = "r_failed" => job.id = seen.job.id)
        BY <1>14, <1>15, <2>2, Zenon
  <2> QED  BY <2>1, <2>3
<1>18. CASE Work!ResilienceInvalid
  <2>1. CASE /\ pc = "t_invalid" /\ pc' = "r_verdict" /\ job.state = "DEAD"
             /\ UNCHANGED <<job, attempts, effects, dispatches, events, waiting>>
             /\ UNCHANGED <<acks, faults, result, doubled>> /\ seen' \in WorkSeen
             /\ seen'.ok => seen.ok
             /\ seen'.preserved => seen.preserved
    <3>1. "invalid_accepted" \notin faults
          BY <2>1 DEF WShow, WorkFinishTraces, WorkResumes
    <3>2. WorkResumes'
          BY <2>1, <3>1 DEF WShow, WorkResumes, Persisting
    <3> QED  BY <1>1, <1>4, <2>1, <3>2, WorkKeepsTables DEF Resilience
  <2> QED  BY <1>14, <1>15, <1>18, <2>1 DEF Work!ResilienceInvalid
<1>19. CASE Work!ResilienceVerdict
  <2>1. /\ pc = "r_verdict" /\ pc' = "done"
        /\ result' = [result EXCEPT ![Bounded] = IF seen.ok THEN "passed" ELSE "failed",
                                    ![Recreated] = IF Work!Persistence THEN "passed" ELSE "failed"]
        /\ UNCHANGED <<job, attempts, effects, dispatches, events, acks, seen, faults, doubled>>
        BY <1>19 DEF Work!ResilienceVerdict, Bounded, Recreated
  <2>2. /\ Bounded \in Work!Checks /\ Recreated \in Work!Checks /\ Bounded # Recreated
        /\ Reclaimed \in Work!Checks /\ Reclaimed # Bounded /\ Reclaimed # Recreated
        /\ Work!Detects[Bounded] = {"unbounded_retry", "retries_error", "invalid_accepted", "failure_effect"}
        /\ Work!Detects[Recreated] = {"ready_lost", "retry_lost", "wait_lost"}
        BY DEF Bounded, Recreated, Reclaimed, Work!Checks, Work!Detects
  <2>3. result \in [Work!Checks -> {"absent", "passed", "failed"}]
        BY DEF WInv, WorkChecker
  <2>4. /\ result'[Bounded] = "passed" => seen.ok
        /\ result'[Recreated] = "passed" => seen.preserved /\ waiting = "kept"
        /\ \A c \in Work!Checks \ {Bounded, Recreated} : result'[c] = result[c]
    <3>1. Work!Persistence => seen.preserved /\ waiting = "kept"
          BY DEF Work!Persistence
    <3> QED  BY <2>1, <2>2, <2>3, <3>1
  <2>5. seen.ok => faults \cap Work!Detects[Bounded] = {}
        BY <2>1, <2>2 DEF WShow, WorkResumes
  <2>6. seen.preserved /\ waiting = "kept" => faults \cap Work!Detects[Recreated] = {}
        BY <2>1, <2>2 DEF WShow, WorkResumes, Persisting
  <2>7. WorkEarned'
        BY <2>1, <2>4, <2>5, <2>6 DEF WShow, WorkEarned
  <2>8. doubled' => result'[Reclaimed] # "passed"
        BY <2>1, <2>2, <2>4 DEF WShow, WorkDoubled
  <2>9. WorkHeld' /\ WorkWinner' /\ WorkReclaimShown' /\ WorkDoubled' /\ WorkRecovers' /\ WorkResumes'
        BY <2>1, <2>8, WorkIdle DEF Idle
  <2> QED  BY <1>1, <2>1, <2>7, <2>9, WorkKeepsTables DEF WShow
<1> QED
    BY <1>6, <1>7, <1>9, <1>10, <1>11, <1>12, <1>13, <1>16, <1>17, <1>18, <1>19

\* The traces hold at the start, and every step of the phases keeps them.
LEMMA WorkShows ==
    /\ Work!Init => WShow
    /\ WInv /\ WShow /\ Work!Next => WShow'
<1>1. ASSUME Work!Init
      PROVE  WShow
  <2>1. /\ job = Work!NoJob /\ attempts = <<>> /\ effects = 0 /\ dispatches = 0 /\ events = 0
        /\ acks = [w \in Work!Workers |-> 0] /\ pc = "c_start" /\ seen = Work!Nothing
        /\ result = [c \in Work!Checks |-> "absent"] /\ doubled = FALSE
        BY <1>1 DEF Work!Init
  <2>2. job.state = "none" /\ job.mode = "signal" /\ job.count = 0 /\ DOMAIN attempts = {}
        BY <2>1 DEF Work!NoJob
  <2>3. WorkCounts
        BY <2>1, WorkNothing DEF WorkCounts
  <2>4. WorkFresh /\ WorkClaimTraces /\ WorkFinishTraces
        BY <2>1, <2>2 DEF WorkFresh, WorkClaimTraces, WorkFinishTraces
  <2>5. WorkHeld /\ WorkWinner /\ WorkReclaimShown
        BY <2>1, <2>2 DEF WorkHeld, WorkWinner, WorkReclaimShown, Held, Claiming
  <2>6. WorkDoubled /\ WorkRecovers /\ WorkResumes /\ WorkEarned
        BY <2>1 DEF WorkDoubled, WorkRecovers, WorkResumes, WorkEarned, Persisting
  <2> QED  BY <2>3, <2>4, <2>5, <2>6 DEF WShow
<1>2. WInv /\ WShow /\ Work!Next => WShow'
      BY WorkEngineShows, WorkConcurrencyShows, WorkRecoveryShows, WorkResilienceShows
      DEF Work!Next, Work!Checker
<1> QED
    BY <1>1, <1>2

-----------------------------------------------------------------------------
(* One fault at a time *)

\* The faults of a candidate do not change while it is checked.
LEMMA WorkFaultsFixed ==
    ASSUME Work!Next
    PROVE  UNCHANGED faults
<1> USE DEF Work!Keep, Work!Unseen
<1>1. ASSUME NEW p, Work!PollTimeout(p)
      PROVE  UNCHANGED faults
      BY <1>1 DEF Work!PollTimeout, Work!Contract
<1>2. CASE Work!Engine
      BY <1>2 DEF Work!Engine, Work!Claim, Work!DoubleClaim, Work!Act, Work!Finish, Work!Fail, Work!TimePasses
<1>3. CASE \/ Work!ConcurrencyStart \/ Work!ConcurrencyBoot \/ Work!ConcurrencyAttempts \/ Work!StaleFinish
           \/ Work!ConcurrencyRestart \/ Work!Restore("c_restore") \/ Work!RecoveryStart \/ Work!RecoveryBoot
           \/ Work!RecoveryCrash \/ Work!Restore("a_restore") \/ Work!ResilienceStart
           \/ Work!ResilienceRecreate \/ Work!ResilienceRetry \/ Work!ResilienceRetryRecreate
           \/ Work!ResilienceVerdict
      BY <1>3 DEF Work!ConcurrencyStart, Work!ConcurrencyBoot, Work!ConcurrencyAttempts, Work!StaleFinish,
         Work!ConcurrencyRestart, Work!Restore, Work!RecoveryStart, Work!RecoveryBoot, Work!RecoveryCrash,
         Work!ResilienceStart, Work!ResilienceRecreate, Work!ResilienceRetry,
         Work!ResilienceRetryRecreate, Work!ResilienceVerdict, Work!Contract
<1>4. CASE Work!ConcurrencyKill \/ Work!ConcurrencyLoser \/ Work!RecoveryKill
      BY <1>1, <1>4 DEF Work!ConcurrencyKill, Work!ConcurrencyLoser, Work!RecoveryKill, Work!wait_failpoint,
         Work!Contract
<1>5. CASE Work!ConcurrencyClaim \/ Work!ConcurrencyReclaim \/ Work!ConcurrencyVerdict \/ Work!RecoveryVerdict
      BY <1>1, <1>5 DEF Work!ConcurrencyClaim, Work!ConcurrencyReclaim, Work!ConcurrencyVerdict,
         Work!RecoveryVerdict
<1>6. CASE Work!ResilienceReady \/ Work!ResilienceResumed \/ Work!ResilienceRetryWait
      BY <1>1, <1>6 DEF Work!ResilienceReady, Work!ResilienceResumed, Work!ResilienceRetryWait
<1>7. CASE Work!ResilienceRetried \/ Work!ResilienceError \/ Work!ResilienceInvalid
      BY <1>1, <1>7 DEF Work!ResilienceRetried, Work!ResilienceError, Work!ResilienceInvalid, Work!Terminal
<1> QED
    BY <1>2, <1>3, <1>4, <1>5, <1>6, <1>7 DEF Work!Next, Work!Checker

LEMMA SignFaultsFixed ==
    ASSUME Sign!Next
    PROVE  UNCHANGED faults
<1> USE DEF Sign!Keep
<1>1. ASSUME NEW p, Sign!PollTimeout(p)
      PROVE  UNCHANGED faults
      BY <1>1 DEF Sign!PollTimeout, Sign!Contract
<1>2. CASE Sign!Engine \/ Sign!StartRefused
      BY <1>2 DEF Sign!Engine, Sign!Work, Sign!StartRefused, Sign!Contract
<1>3. CASE \/ Sign!ExecutionStart \/ Sign!ExecutionSignal \/ Sign!ExecutionRepeat \/ Sign!ExecutionChanged
           \/ Sign!ExecutionRecord \/ Sign!ExecutionEarly \/ Sign!ExecutionEarlySignal \/ Sign!ExecutionResume
           \/ Sign!ExecutionElsewhere \/ Sign!ExecutionManual \/ Sign!ExecutionViews
      BY <1>3 DEF Sign!ExecutionStart, Sign!ExecutionSignal, Sign!ExecutionRepeat, Sign!ExecutionChanged,
         Sign!ExecutionRecord, Sign!ExecutionEarly, Sign!ExecutionEarlySignal, Sign!ExecutionResume,
         Sign!ExecutionElsewhere, Sign!ExecutionManual, Sign!ExecutionViews, Sign!Unchanging
<1>4. CASE \/ Sign!ExecutionWaiting \/ Sign!ExecutionCompleted \/ Sign!ExecutionApplied
           \/ Sign!ExecutionManualWait
      BY <1>1, <1>4 DEF Sign!ExecutionWaiting, Sign!ExecutionCompleted, Sign!ExecutionApplied,
         Sign!ExecutionManualWait
<1>5. CASE \/ Sign!VersioningPublish \/ Sign!VersioningRepeat \/ Sign!VersioningRecord
           \/ Sign!VersioningUnknown
      BY <1>5 DEF Sign!VersioningPublish, Sign!VersioningRepeat, Sign!VersioningRecord,
         Sign!VersioningUnknown
<1>6. CASE Sign!VersioningWaiting \/ Sign!VersioningFailed
      BY <1>1, <1>6 DEF Sign!VersioningWaiting, Sign!VersioningFailed
<1> QED
    BY <1>2, <1>3, <1>4, <1>5, <1>6 DEF Sign!Next, Sign!Checker

LEMMA SixAreFinite == \A a, b, c, d, e, f : IsFiniteSet({a, b, c, d, e, f})
<1> SUFFICES ASSUME NEW a, NEW b, NEW c, NEW d, NEW e, NEW f
             PROVE  IsFiniteSet({a, b, c, d, e, f})
    OBVIOUS
<1>1. IsFiniteSet({a})
      BY FS_Singleton
<1>2. IsFiniteSet({a} \cup {b} \cup {c})
      BY <1>1, FS_AddElement
<1>3. IsFiniteSet({a} \cup {b} \cup {c} \cup {d} \cup {e} \cup {f})
      BY <1>2, FS_AddElement
<1>4. {a, b, c, d, e, f} = {a} \cup {b} \cup {c} \cup {d} \cup {e} \cup {f}
      OBVIOUS
<1> QED
    BY <1>3, <1>4

\* Two faults are more than one.
LEMMA FewFaults ==
    ASSUME NEW F, IsFiniteSet(F), Cardinality(F) <= MaxFaults, MaxFaults <= 1,
           NEW f \in F, NEW g \in F
    PROVE  f = g
<1> SUFFICES ASSUME f # g
             PROVE  FALSE
    OBVIOUS
<1>1. IsFiniteSet({f}) /\ Cardinality({f}) = 1
      BY FS_Singleton
<1>2. IsFiniteSet({f} \cup {g}) /\ Cardinality({f} \cup {g}) = 2
  <2>1. g \notin {f}
        OBVIOUS
  <2> QED  BY <1>1, <2>1, FS_AddElement
<1>3. Cardinality({f} \cup {g}) <= Cardinality(F)
  <2>1. {f} \cup {g} \in SUBSET F
        OBVIOUS
  <2> QED  BY <2>1, FS_Subset
<1>4. Cardinality(F) \in Nat
      BY FS_CardinalityType
<1> QED
    BY <1>2, <1>3, <1>4, CheckersTypes

LEMMA WorkFewFaults ==
    ASSUME Work!Init, MaxFaults <= 1
    PROVE  \A f, g \in faults : f = g
<1>1. faults \subseteq Work!Faults /\ Cardinality(faults) <= MaxFaults
  <2>1. Work!Cardinality(faults) = Cardinality(faults)
        BY DEF Work!Cardinality, Cardinality
  <2> QED  BY <2>1 DEF Work!Init
<1> DEFINE S == {"inline_start", "double_claim", "no_reclaim", "same_version", "not_stale", "new_execution"}
           T == {"new_job", "no_fence", "fence_writes", "double_effect", "lost_effect", "effect_outside"}
           U == {"dispatch_outside", "unbounded_retry", "retries_error", "invalid_accepted",
                 "failure_effect", "ready_lost"}
           V == {"retry_lost", "wait_lost", "wait_lost", "wait_lost", "wait_lost", "wait_lost"}
<1>2. Work!Faults \subseteq S \cup T \cup U \cup V
      BY DEF Work!Faults, Work!Detects, Work!Checks
<1>3. IsFiniteSet(S) /\ IsFiniteSet(T) /\ IsFiniteSet(U) /\ IsFiniteSet(V)
      BY SixAreFinite, Zenon
<1> HIDE DEF S, T, U, V
<1>4. IsFiniteSet(S \cup T \cup U \cup V)
      BY <1>3, FS_Union
<1>5. IsFiniteSet(faults)
      BY <1>1, <1>2, <1>4, FS_Subset
<1> QED
    BY <1>1, <1>5, FewFaults

LEMMA SignFewFaults ==
    ASSUME Sign!Init, MaxFaults <= 1
    PROVE  \A f, g \in faults : f = g
<1>1. faults \subseteq Sign!Faults /\ Cardinality(faults) <= MaxFaults
  <2>1. Sign!Cardinality(faults) = Cardinality(faults)
        BY DEF Sign!Cardinality, Cardinality
  <2> QED  BY <2>1 DEF Sign!Init
<1> DEFINE S == {"start_refused", "lost_effect", "double_effect", "no_wait", "no_end", "action_latest"}
           T == {"dup_inserts", "dup_error", "conflict_accepted", "conflict_writes", "early_refused",
                 "early_ignored"}
           U == {"ids_per_process", "history_rewritten", "manual_skipped", "manual_no_step",
                 "view_missing", "view_changed"}
           V == {"unpinned", "two_active", "start_old", "start_again", "start_changed", "unknown_retried"}
           W == {"unknown_fallback"}
<1>2. Sign!Faults \subseteq S \cup T \cup U \cup V \cup W
      BY DEF Sign!Faults, Sign!Detects, Sign!Checks
<1>3. IsFiniteSet(S) /\ IsFiniteSet(T) /\ IsFiniteSet(U) /\ IsFiniteSet(V)
      BY SixAreFinite, Zenon
<1>4. IsFiniteSet(W)
      BY FS_Singleton
<1> HIDE DEF S, T, U, V, W
<1>5. IsFiniteSet(S \cup T \cup U \cup V \cup W)
      BY <1>3, <1>4, FS_Union
<1>6. IsFiniteSet(faults)
      BY <1>1, <1>2, <1>5, FS_Subset
<1> QED
    BY <1>1, <1>6, FewFaults

-----------------------------------------------------------------------------
(* All programs *)

ProbesInv ==
    /\ program = "worker" => WInv /\ WShow
    /\ program = "signal" => GInv /\ GShow
    /\ program = "outage" => OInv
    /\ program = "receipt" => CInv
    /\ program \in {"worker", "signal"} /\ MaxFaults <= 1 => \A f, g \in faults : f = g

LEMMA ProbesInvStep ==
    ASSUME ProbesInv, [Next]_vars
    PROVE  ProbesInv'
<1>1. CASE WorkStep
  <2>1. program = "worker" /\ program' = "worker" /\ Work!Next
        BY <1>1 DEF WorkStep
  <2>2. WInv' /\ WShow' /\ UNCHANGED faults
        BY <2>1, WorkInvariant, WorkShows, WorkFaultsFixed DEF ProbesInv
  <2> QED  BY <2>1, <2>2 DEF ProbesInv
<1>2. CASE SignStep
  <2>1. program = "signal" /\ program' = "signal" /\ Sign!Next
        BY <1>2 DEF SignStep
  <2>2. GInv' /\ GShow' /\ UNCHANGED faults
        BY <2>1, SignInvariant, SignShows, SignFaultsFixed DEF ProbesInv
  <2> QED  BY <2>1, <2>2 DEF ProbesInv
<1>3. CASE OutaStep
  <2>1. program = "outage" /\ program' = "outage" /\ Outa!Next
        BY <1>3 DEF OutaStep
  <2> QED  BY <2>1, OutageInvariant DEF ProbesInv
<1>4. CASE ReceStep
  <2>1. program = "receipt" /\ program' = "receipt" /\ Rece!Next
        BY <1>4 DEF ReceStep
  <2> QED  BY <2>1, ReceiptInvariant DEF ProbesInv
<1>5. CASE RunStep \/ StagStep
      BY <1>5 DEF RunStep, StagStep, ProbesInv
<1>6. CASE UNCHANGED vars
  <2>1. /\ UNCHANGED <<program, pc, extra, faults, due, seen, late, verdict, result>>
        /\ UNCHANGED <<job, attempts, effects, dispatches, events, waiting, worker, acks, doubled>>
        /\ UNCHANGED <<active, proc, signals, up>>
        /\ UNCHANGED <<row, disp, provider, payments, operation, pending, docker>>
        /\ UNCHANGED <<op, outbox, paid, inbox, decided, hand, dispatching, reconciling, before, early>>
        BY <1>6 DEF vars, phase, candidate, workerOnly, signalOnly, outageOnly, receiptOnly
  <2>2. WInv => WInv'
        BY <2>1 DEF WInv, WorkTables, WorkChecker, WorkRecords, Work!Restored
  <2>3. GInv => GInv'
        BY <2>1 DEF GInv, SignTables
  <2>4. OInv => OInv'
        BY <2>1 DEF OInv, Outa!TypeOK, OutagePaused, OutageDelivery, OutageSteps, OutageRetry,
           OutageFaultsShow, Outa!Holds
  <2>5. CInv => CInv'
        BY <2>1 DEF CInv, Rece!TypeOK, ReceiptShown, Past, ReceiptTraces, ReceiptSteps, ReceiptEarly
  <2>6. WShow => WShow'
        BY <2>1 DEF WShow, WorkCounts, WorkFresh, WorkClaimTraces, WorkFinishTraces, WorkHeld, WorkWinner,
           WorkReclaimShown, WorkDoubled, WorkRecovers, WorkResumes, WorkEarned
  <2>7. GShow => GShow'
        BY <2>1 DEF GShow, SignSeen, SignTraces, SignRoutes, SignRows, SignHistory, SignShown, SignVersions,
           SignEarned
  <2> QED  BY <2>1, <2>2, <2>3, <2>4, <2>5, <2>6, <2>7 DEF ProbesInv
<1> QED
    BY <1>1, <1>2, <1>3, <1>4, <1>5, <1>6 DEF Next

LEMMA ProbesInvHolds == Spec => []ProbesInv
<1>1. Init => ProbesInv
  <2>1. Init /\ program = "worker" => Work!Init
        BY DEF Init
  <2>2. Init /\ program = "signal" => Sign!Init
        BY DEF Init
  <2>3. Init => (program = "outage" => OInv) /\ (program = "receipt" => CInv)
        BY OutageInvariant, ReceiptInvariant DEF Init
  <2>4. Work!Init => WInv /\ WShow /\ (MaxFaults <= 1 => \A f, g \in faults : f = g)
        BY WorkInvariant, WorkShows, WorkFewFaults
  <2>5. Sign!Init => GInv /\ GShow /\ (MaxFaults <= 1 => \A f, g \in faults : f = g)
        BY SignInvariant, SignShows, SignFewFaults
  <2> QED  BY <2>1, <2>2, <2>3, <2>4, <2>5 DEF ProbesInv
<1> QED
    BY <1>1, ProbesInvStep, PTL DEF Spec

\* Every variable of a checker, of its scenarios and of the candidate they watch holds a value
\* its program can give it, for any number of faults, claims, attempts and failing commands.
THEOREM CheckersKeepTypes == Spec => []TypeOK
<1>1. RunsInv /\ ProbesInv => TypeOK
  <2> SUFFICES ASSUME RunsInv, ProbesInv
               PROVE  TypeOK
      OBVIOUS
  <2>1. (program = "run" => Run!TypeOK) /\ (program = "stages" => Stag!TypeOK)
        BY DEF RunsInv, RInv, SInv
  <2>2. (program = "worker" => Work!TypeOK) /\ (program = "signal" => Sign!TypeOK)
        BY WorkInvariant, SignInvariant DEF ProbesInv
  <2>3. (program = "outage" => Outa!TypeOK) /\ (program = "receipt" => Rece!TypeOK)
        BY ReceiptInvariant DEF ProbesInv, OInv
  <2> QED  BY <2>1, <2>2, <2>3 DEF TypeOK
<1> QED
    BY <1>1, RunsInvHolds, ProbesInvHolds, PTL

\* The workers run without a failpoint after a phase of week 2 whose check passed (a phase that
\* raises restores nothing), a stage of week 4 finds the services it needs, and no dispatcher
\* is left paused unless Docker failed.
THEOREM StackIsRestored == Spec => []StackRestored
<1>1. RunsInv /\ ProbesInv => StackRestored
      BY StageInvariant, WorkInvariant, OutageInvariant DEF RunsInv, ProbesInv, StackRestored
<1> QED
    BY <1>1, RunsInvHolds, ProbesInvHolds, PTL

\* The part of NoFalsePass that is about the scenarios of week 4.
WeekFourVerdicts ==
    /\ program = "outage" => Outa!NoFalsePass /\ Outa!PassShowsRecovery
    /\ program = "receipt" => Rece!NoFalsePass

\* The outage, delivery, receipt, review and restart scenarios of week 4 pass no candidate with
\* a fault they look for, however many faults it has at once (none hides another) and however
\* it interleaves with their steps, but for the two that send what must not be sent
\* (sends_stopped, redelivers): of these a pass shows only that the provider did not have it
\* when its audit was read.  A pass of the outage scenario means that the delivery was retried
\* and paid once.
THEOREM WeekFourPassesAreEarned == Spec => []WeekFourVerdicts
<1>1. ProbesInv => WeekFourVerdicts
      BY OutageInvariant, ReceiptInvariant DEF ProbesInv, WeekFourVerdicts
<1> QED
    BY <1>1, ProbesInvHolds, PTL

\* What a pass of a check of week 2 says of an engine, with any number of faults at once.
WeekTwoVerdicts ==
    /\ program = "worker" => WorkEarned
    /\ program = "signal" /\ pc = "done" =>
          \A c \in Sign!Checks : result[c] = "passed" =>
             faults \cap Sign!Detects[c] \subseteq
                (IF late \/ "unknown_fallback" \in faults THEN {"unknown_retried"} ELSE {})

\* A check of week 2 passes no engine with a fault it is there to detect, however many faults
\* the engine has at once and however its workers, its leases and the checker interleave.  Two
\* pairs of faults hide each other: a finish that loses its effect behind an action that writes
\* it outside the transaction (the check of the recovery fails instead), and a second attempt
\* at an unknown outcome behind an engine that takes some transition for it.
THEOREM WeekTwoPassesAreEarned == Spec => []WeekTwoVerdicts
<1>1. ProbesInv => WeekTwoVerdicts
  <2> SUFFICES ASSUME ProbesInv
               PROVE  WeekTwoVerdicts
      OBVIOUS
  <2>1. program = "worker" => WorkEarned
        BY DEF ProbesInv, WShow
  <2>2. ASSUME program = "signal", pc = "done", NEW c \in Sign!Checks, result[c] = "passed"
        PROVE  faults \cap Sign!Detects[c] \subseteq
                  (IF late \/ "unknown_fallback" \in faults THEN {"unknown_retried"} ELSE {})
    <3>1. faults \cap Sign!Detects[c] \subseteq {"unknown_retried"}
          BY <2>2 DEF ProbesInv, GShow, SignEarned
    <3>2. CASE c = Pinned
      <4>1. "unknown_retried" \in faults => late \/ "unknown_fallback" \in faults
            BY <2>2, <3>2 DEF ProbesInv, GShow, SignEarned
      <4> QED  BY <3>1, <4>1
    <3>3. CASE c # Pinned
      <4>1. "unknown_retried" \notin Sign!Detects[c]
            BY <2>2, <3>3 DEF Sign!Detects, Sign!Checks, Pinned
      <4> QED  BY <3>1, <4>1
    <3> QED  BY <3>2, <3>3
  <2> QED  BY <2>1, <2>2 DEF WeekTwoVerdicts
<1> QED
    BY <1>1, ProbesInvHolds, PTL

\* No check of week 2 and no scenario of week 4 passes a candidate with a fault it is there to
\* detect, with a fault at a time (any number in the outage), for every number of
\* claims, attempts and Docker failures and every interleaving of the candidate with the checker.
\* A lease given to two workers counts when it was, a delivery that must not be sent when the
\* provider had it as its audit was read.
THEOREM PassesAreEarned == MaxFaults <= 1 => (Spec => []NoFalsePass)
<1> SUFFICES ASSUME MaxFaults <= 1
             PROVE  Spec => []NoFalsePass
    OBVIOUS
<1>1. ProbesInv /\ WeekTwoVerdicts /\ WeekFourVerdicts => NoFalsePass
  <2> SUFFICES ASSUME ProbesInv, WeekTwoVerdicts, WeekFourVerdicts
               PROVE  NoFalsePass
      OBVIOUS
  <2>1. ASSUME program = "worker"
        PROVE  Work!NoFalsePass
    <3> SUFFICES ASSUME NEW c \in Work!Checks, result[c] = "passed"
                 PROVE  faults \cap Work!Detects[c] \subseteq (IF doubled THEN {} ELSE {"double_claim"})
        BY DEF Work!NoFalsePass
    <3>1. faults \cap Work!Detects[c] \subseteq
             (IF doubled THEN {} ELSE {"double_claim"})
               \cup (IF c = Reclaimed /\ "effect_outside" \in faults THEN {"lost_effect"} ELSE {})
          BY <2>1 DEF WeekTwoVerdicts, WorkEarned
    <3>2. ~("effect_outside" \in faults /\ "lost_effect" \in faults)
          BY <2>1 DEF ProbesInv
    <3> QED  BY <3>1, <3>2
  <2>2. ASSUME program = "signal"
        PROVE  Sign!NoFalsePass
    <3> SUFFICES ASSUME pc = "done", NEW c \in Sign!Checks, result[c] = "passed"
                 PROVE  faults \cap Sign!Detects[c] \subseteq (IF late THEN {"unknown_retried"} ELSE {})
        BY DEF Sign!NoFalsePass
    <3>1. faults \cap Sign!Detects[c] \subseteq
             (IF late \/ "unknown_fallback" \in faults THEN {"unknown_retried"} ELSE {})
          BY <2>2 DEF WeekTwoVerdicts
    <3>2. ~("unknown_fallback" \in faults /\ "unknown_retried" \in faults)
          BY <2>2 DEF ProbesInv
    <3> QED  BY <3>1, <3>2
  <2> QED  BY <2>1, <2>2 DEF NoFalsePass, WeekFourVerdicts
<1> QED
    BY <1>1, ProbesInvHolds, WeekTwoPassesAreEarned, WeekFourPassesAreEarned, PTL

==============================================================================
