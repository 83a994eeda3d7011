---------------------------- MODULE WorkflowProofs ----------------------------
(***************************************************************************)
(* Proofs about the workflow engine, for every flow map, every number of   *)
(* processes, workers, clients and messages, and every lease bound.        *)
(***************************************************************************)
EXTENDS Workflow, TLAPS

-----------------------------------------------------------------------------
(* The inductive invariant. *)

\* Steps are entered upwards: the current step is the highest one entered.
Ranked ==
    \A p \in Procs, s \in Steps :
        step[p][s].state # "NONE" =>
            /\ proc[p].current \in Steps
            /\ s # proc[p].current => Rank[s] < Rank[proc[p].current]

\* A worker between the fence of finish_job and its commit still holds the lease,
\* alone: the job row is locked.
FinishingHolds ==
    \A c \in claims : c.phase = "finishing" =>
        /\ HoldsLease(c)
        /\ \A d \in claims : d.phase = "finishing" /\ d.job = c.job => d = c

\* What a worker has in hand: a version the job has had, an outcome of the map.
ClaimFacts ==
    \A c \in claims :
        /\ c.version <= job[c.job].version
        /\ c.phase \in {"invoked", "finishing"} => c.outcome \in Allowed[c.job[2]]

\* A job that can be claimed has a version left below the bound.
VersionLeft ==
    \A j \in Jobs :
        /\ job[j].state = "NONE" => job[j].version = 0
        /\ job[j].state \in {"READY", "RETRY_WAIT"} => job[j].version < MaxLease
        /\ job[j].state = "LEASED" /\ job[j].due => job[j].version < MaxLease

\* The process lock of a signal transaction is exclusive and keeps the wait step
\* it read waiting.
LockedWait ==
    \A t \in tx : t.phase = "locked" =>
        /\ t.wait # None => t.wait \in WaitingAt(t.row.proc)
        /\ \A u \in tx : u.phase = "locked" /\ u.row.proc = t.row.proc => u = t

IInv ==
    /\ TypeOK
    /\ TablesAgree
    /\ Ranked
    /\ OneEffect
    /\ LeaseExclusive
    /\ FinishingHolds
    /\ ClaimFacts
    /\ VersionLeft
    /\ LockedWait

-----------------------------------------------------------------------------
(* Entering a step. *)

\* The tables db of an open transaction are ready for process p to enter step s:
\* only p's rows differ from the committed ones, p has no unfinished step, and s
\* is above every step entered.
Landing(db, p, s) ==
    /\ db.proc = proc
    /\ db.step \in [Procs -> [Steps -> StepRow]]
    /\ db.job \in [Jobs -> JobRow]
    /\ db.signal \subseteq SignalRow
    /\ db.inbox \subseteq InboxRow
    /\ \A q \in Procs : q # p => db.step[q] = step[q]
    /\ \A q \in Procs, x \in AutoSteps : q # p => db.job[<<q, x>>] = job[<<q, x>>]
    /\ \A x \in Steps : /\ db.step[p][x].state \in {"NONE", "COMPLETED"}
                        /\ db.step[p][x].state # "NONE" => Rank[x] < Rank[s]
    /\ \A x \in AutoSteps :
          db.job[<<p, x>>].state =
              IF db.step[p][x].state = "NONE" THEN "NONE" ELSE "SUCCEEDED"

\* The tables after the process has come to rest at step last, by way of s.
Landed(db, p, s, last) ==
    /\ proc' = [db.proc EXCEPT ![p] = EntryProc(last)]
    /\ step' = [db.step EXCEPT ![p] =
                   [t \in Steps |->
                       IF t = last THEN EntryStep(t)
                       ELSE IF t = s
                       THEN [state |-> "COMPLETED", outcome |-> ParamOutcome[s]]
                       ELSE db.step[p][t]]]
    /\ job' = IF last \in AutoSteps THEN [db.job EXCEPT ![<<p, last>>] = NewJob] ELSE db.job

\* A process that enters s comes to rest there, or past a WAIT_SIGNAL step s at
\* its successor; the signal and inbox rows keep their types.
LEMMA EnterStepLands ==
    ASSUME NEW db, NEW p \in Procs, NEW s \in Steps,
           db.signal \subseteq SignalRow, db.inbox \subseteq InboxRow,
           EnterStep(db, p, s)
    PROVE  /\ \E last \in Steps :
                /\ Landed(db, p, s, last)
                /\ \/ last = s
                   \/ s \in WaitSteps /\ last \notin WaitSteps /\ Rank[s] < Rank[last]
           /\ signal' \subseteq SignalRow
           /\ inbox' \subseteq InboxRow
           /\ \A r \in selected : r \in db.inbox => r \in inbox'
<1> USE DEF AutoSteps, WaitSteps
<1>1. PICK sig \in AtMostOne(ReadySignals(db, p, s)), row \in AtMostOne(ReceivedRows(db, p, s)) :
          /\ \A r \in row : r \notin selected
          /\ Write(Entered(db, p, s, sig, row))
      BY DEF EnterStep
<1>2. sig \subseteq ReadySignals(db, p, s) /\ row \subseteq ReceivedRows(db, p, s)
      BY DEF AtMostOne
<1> DEFINE fresh == {r \in row : Fresh(db.signal, r)}
           last == IF sig \cup fresh = {} THEN s ELSE Target[s][ParamOutcome[s]]
<1>3. sig \cup fresh # {} => s \in WaitSteps
      BY <1>2 DEF ReadySignals, ReceivedRows
<1>4. last \in Steps
      BY MapTypes
<1>5. last = s \/ (s \in WaitSteps /\ last \notin WaitSteps /\ Rank[s] < Rank[last])
      BY <1>3, MapTypes, WaitCovered, Acyclic, NoAdjacentWaits
<1>6. Landed(db, p, s, last)
      BY <1>1 DEF Write, Entered, Landed
<1>7. signal' = (db.signal \ sig) \cup WithStatus(sig, "APPLIED")
                \cup WithStatus(fresh, RowStatus(sig))
      BY <1>1 DEF Write, Entered
<1>8. inbox' = (db.inbox \ row) \cup WithStatus(row, "APPLIED")
      BY <1>1 DEF Write, Entered
<1>9. sig \subseteq SignalRow /\ row \subseteq InboxRow
      BY <1>2 DEF ReadySignals, ReceivedRows
<1>10. signal' \subseteq SignalRow
      BY <1>7, <1>9 DEF WithStatus, RowStatus, SignalRow, InboxRow, Message
<1>11. inbox' \subseteq InboxRow
      BY <1>8, <1>9 DEF WithStatus, InboxRow, Message
<1>12. \A r \in selected : r \in db.inbox => r \in inbox'
      BY <1>1, <1>8
<1> QED
    BY <1>4, <1>5, <1>6, <1>10, <1>11, <1>12

\* Coming to rest keeps the tables in agreement, and gives a new job only to a
\* step that had none.
LEMMA LandedAgrees ==
    ASSUME TypeOK, TablesAgree, Ranked,
           NEW db, NEW p \in Procs, NEW s \in Steps, NEW last \in Steps,
           Landing(db, p, s), Landed(db, p, s, last),
           last = s \/ (s \in WaitSteps /\ last \notin WaitSteps /\ Rank[s] < Rank[last])
    PROVE  /\ proc' \in [Procs -> ProcRow]
           /\ step' \in [Procs -> [Steps -> StepRow]]
           /\ job' \in [Jobs -> JobRow]
           /\ TablesAgree'
           /\ Ranked'
           /\ \A j \in Jobs :
                \/ job'[j] = db.job[j]
                \/ j[1] = p /\ db.job[j].state = "NONE" /\ job'[j] = NewJob
<1> USE DEF AutoSteps, WaitSteps
<1>1. EntryProc(last) \in ProcRow /\ \A t \in Steps : EntryStep(t) \in StepRow
      BY MapTypes DEF EntryProc, EntryStep, ProcRow, StepRow, ProcStates, StepStates, StepTypes
<1>2. NewJob \in JobRow
      BY WorkflowTypes DEF NewJob, JobRow, JobStates
<1>3. proc' \in [Procs -> ProcRow]
      BY <1>1 DEF Landed, Landing, TypeOK
<1>4. step' \in [Procs -> [Steps -> StepRow]]
  <2>1. [state |-> "COMPLETED", outcome |-> ParamOutcome[s]] \in StepRow
        BY MapTypes DEF StepRow, StepStates
  <2> QED  BY <1>1, <2>1 DEF Landed, Landing
<1>5. job' \in [Jobs -> JobRow]
      BY <1>2 DEF Landed, Landing, Jobs
<1>6. db.step[p][last].state = "NONE"
  <2>1. db.step[p][last].state # "NONE" => Rank[last] < Rank[s]
        BY DEF Landing
  <2>2. Rank[s] \in Nat /\ Rank[last] \in Nat
        BY Acyclic
  <2> QED  BY <2>1, <2>2
<1>7. \A q \in Procs, x \in Steps :
        step'[q][x] = IF q # p THEN step[q][x]
                      ELSE IF x = last THEN EntryStep(x)
                      ELSE IF x = s
                      THEN [state |-> "COMPLETED", outcome |-> ParamOutcome[s]]
                      ELSE db.step[p][x]
      BY DEF Landed, Landing
<1>8. \A q \in Procs : proc'[q] = IF q # p THEN proc[q] ELSE EntryProc(last)
      BY DEF Landed, Landing, TypeOK
<1>9. \A q \in Procs, x \in AutoSteps :
        job'[<<q, x>>] = IF q # p THEN job[<<q, x>>]
                         ELSE IF x = last THEN NewJob ELSE db.job[<<p, x>>]
      BY DEF Landed, Landing, Jobs
<1>10. \A j \in Jobs : \/ job'[j] = db.job[j]
                       \/ j[1] = p /\ db.job[j].state = "NONE" /\ job'[j] = NewJob
      BY <1>6 DEF Landed, Landing, Jobs
<1>11. EntryStep(last).state =
          IF StepType[last] = "AUTOMATIC" THEN "READY"
          ELSE IF StepType[last] = "END" THEN "COMPLETED" ELSE "WAITING"
      BY DEF EntryStep
<1>12. EntryProc(last).current = last /\ EntryProc(last).state =
          IF StepType[last] = "AUTOMATIC" THEN "RUNNING"
          ELSE IF StepType[last] = "WAIT_SIGNAL" THEN "WAITING_SIGNAL"
          ELSE IF StepType[last] = "MANUAL" THEN "WAITING_MANUAL" ELSE "COMPLETED"
      BY MapTypes DEF EntryProc, StepTypes
<1>13. JobMatchesStep'
  <2> SUFFICES ASSUME NEW q \in Procs, NEW x \in AutoSteps
               PROVE  JobMatchesStep!(q, x)'
      BY DEF JobMatchesStep
  <2>1. CASE q # p
        BY <2>1, <1>7, <1>9 DEF TablesAgree, JobMatchesStep
  <2>2. CASE q = p /\ x = last
        BY <2>2, <1>7, <1>9, <1>11 DEF NewJob
  <2>3. CASE q = p /\ x # last
        BY <2>3, <1>7, <1>9 DEF Landing
  <2> QED  BY <2>1, <2>2, <2>3
<1>14. CurrentStepRules'
  <2> SUFFICES ASSUME NEW q \in Procs PROVE CurrentStepRules!(q)'
      BY DEF CurrentStepRules
  <2>1. CASE q # p
        BY <2>1, <1>7, <1>8 DEF TablesAgree, CurrentStepRules
  <2>2. CASE q = p
    <3>1. \A x \in Steps : db.step[p][x].state \in {"NONE", "COMPLETED"}
          BY DEF Landing
    <3>2. proc'[p].current = last /\ proc'[p].state # "NONE" /\ proc'[p].state # "FAILED"
          BY <1>8, <1>12
    <3>3. \A x \in Steps \ {last} : step'[p][x].state \in {"NONE", "COMPLETED"}
          BY <3>1, <1>7
    <3>4. step'[p][last] = EntryStep(last) /\ proc'[p] = EntryProc(last)
          BY <1>7, <1>8
    <3>5. StepType[last] \in StepTypes
          BY MapTypes
    <3> QED  BY <2>2, <3>2, <3>3, <3>4, <3>5, <1>11, <1>12 DEF StepTypes
  <2> QED  BY <2>1, <2>2
<1>15. Ranked'
  <2> SUFFICES ASSUME NEW q \in Procs, NEW x \in Steps PROVE Ranked!(q, x)'
      BY DEF Ranked
  <2>1. CASE q # p
        BY <2>1, <1>7, <1>8 DEF Ranked
  <2>2. CASE q = p
    <3>1. db.step[p][x].state # "NONE" => Rank[x] < Rank[s]
          BY DEF Landing
    <3>2. Rank[x] \in Nat /\ Rank[s] \in Nat /\ Rank[last] \in Nat
          BY Acyclic
    <3>3. proc'[p].current = last
          BY <1>8, <1>12
    <3> QED  BY <2>2, <3>1, <3>2, <3>3, <1>7
  <2> QED  BY <2>1, <2>2
<1> QED
    BY <1>3, <1>4, <1>5, <1>10, <1>13, <1>14, <1>15 DEF TablesAgree

\* What entering a step keeps.
LEMMA EnterStepKeeps ==
    ASSUME TypeOK, TablesAgree, Ranked,
           NEW db, NEW p \in Procs, NEW s \in Steps,
           Landing(db, p, s), EnterStep(db, p, s)
    PROVE  /\ proc' \in [Procs -> ProcRow]
           /\ step' \in [Procs -> [Steps -> StepRow]]
           /\ job' \in [Jobs -> JobRow]
           /\ signal' \subseteq SignalRow
           /\ inbox' \subseteq InboxRow
           /\ \A r \in selected : r \in db.inbox => r \in inbox'
           /\ TablesAgree'
           /\ Ranked'
           /\ \A j \in Jobs : \/ job'[j] = db.job[j]
                              \/ db.job[j].state = "NONE" /\ job'[j] = NewJob
           /\ \A q \in Procs : q # p => step'[q] = step[q]
<1>1. db.signal \subseteq SignalRow /\ db.inbox \subseteq InboxRow
      BY DEF Landing
<1>2. PICK last \in Steps :
        /\ Landed(db, p, s, last)
        /\ \/ last = s
           \/ s \in WaitSteps /\ last \notin WaitSteps /\ Rank[s] < Rank[last]
      BY <1>1, EnterStepLands
<1>3. /\ signal' \subseteq SignalRow
      /\ inbox' \subseteq InboxRow
      /\ \A r \in selected : r \in db.inbox => r \in inbox'
      BY <1>1, EnterStepLands
<1>4. \A q \in Procs : q # p => step'[q] = step[q]
      BY <1>2 DEF Landed, Landing
<1> QED
    BY <1>2, <1>3, <1>4, LandedAgrees

\* The tables are ready to enter the successor of the current step once that
\* step, and its job if it has one, are completed.
LEMMA CompletedLands ==
    ASSUME TypeOK, TablesAgree, Ranked,
           NEW db, NEW p \in Procs, NEW s \in Steps, NEW o \in Allowed[s],
           proc[p].current = s, proc[p].state \notin Terminal,
           db.proc = proc,
           db.step = [step EXCEPT ![p][s] = [state |-> "COMPLETED", outcome |-> o]],
           db.job \in [Jobs -> JobRow],
           \A j \in Jobs : j # <<p, s>> => db.job[j] = job[j],
           s \in AutoSteps => db.job[<<p, s>>].state = "SUCCEEDED",
           db.signal \subseteq SignalRow, db.inbox \subseteq InboxRow
    PROVE  Landing(db, p, Target[s][o])
<1>1. o \in Outcome /\ Target[s][o] \in Steps
      BY MapTypes
<1>2. [state |-> "COMPLETED", outcome |-> o] \in StepRow
      BY <1>1 DEF StepRow, StepStates
<1>3. db.step \in [Procs -> [Steps -> StepRow]]
      BY <1>2 DEF TypeOK
<1>4. \A q \in Procs : q # p => db.step[q] = step[q]
      BY DEF TypeOK
<1>5. \A x \in Steps : db.step[p][x] = IF x = s THEN [state |-> "COMPLETED", outcome |-> o]
                                       ELSE step[p][x]
      BY DEF TypeOK
<1>6. \A x \in Steps : x # s => step[p][x].state \in {"NONE", "COMPLETED"}
      BY DEF TablesAgree, CurrentStepRules
<1>7. \A x \in Steps : x # s /\ step[p][x].state # "NONE" => Rank[x] < Rank[s]
      BY DEF Ranked
<1>8. Rank[s] < Rank[Target[s][o]]
      BY Acyclic
<1>9. \A x \in Steps : Rank[x] \in Nat
      BY Acyclic
<1>10. \A x \in Steps : /\ db.step[p][x].state \in {"NONE", "COMPLETED"}
                        /\ db.step[p][x].state # "NONE" => Rank[x] < Rank[Target[s][o]]
  <2> SUFFICES ASSUME NEW x \in Steps
               PROVE /\ db.step[p][x].state \in {"NONE", "COMPLETED"}
                     /\ db.step[p][x].state # "NONE" => Rank[x] < Rank[Target[s][o]]
      OBVIOUS
  <2>1. CASE x = s  BY <2>1, <1>5, <1>8
  <2>2. CASE x # s  BY <2>2, <1>1, <1>5, <1>6, <1>7, <1>8, <1>9
  <2> QED  BY <2>1, <2>2
<1>11. ASSUME NEW x \in AutoSteps
       PROVE db.job[<<p, x>>].state = IF db.step[p][x].state = "NONE" THEN "NONE" ELSE "SUCCEEDED"
  <2>1. x \in Steps /\ <<p, x>> \in Jobs
        BY DEF AutoSteps, Jobs
  <2>2. CASE x = s  BY <2>1, <2>2, <1>5
  <2>3. CASE x # s
    <3>1. db.job[<<p, x>>] = job[<<p, x>>] /\ db.step[p][x] = step[p][x]
          BY <2>1, <2>3, <1>5
    <3>2. job[<<p, x>>].state \in JobStates
          BY <2>1 DEF TypeOK, JobRow
    <3>3. step[p][x].state \in {"NONE", "COMPLETED"}
          BY <2>1, <2>3, <1>6
    <3> QED  BY <3>1, <3>2, <3>3 DEF TablesAgree, JobMatchesStep, JobStates
  <2> QED  BY <2>2, <2>3
<1>12. \A q \in Procs, x \in AutoSteps : q # p => db.job[<<q, x>>] = job[<<q, x>>]
      BY DEF Jobs
<1> QED
    BY <1>3, <1>4, <1>10, <1>11, <1>12 DEF Landing

\* No worker holds a claim on a job that does not exist yet.
LEMMA NoClaimYet ==
    ASSUME TypeOK, ClaimFacts, VersionLeft, NEW c \in claims
    PROVE  c \in Claim /\ c.job \in Jobs /\ c.version \in 1..MaxLease /\ job[c.job].state # "NONE"
<1>1. c \in Claim /\ c.job \in Jobs /\ c.version \in 1..MaxLease
      BY DEF TypeOK, Claim
<1>2. job[c.job].version = 0 => c.version <= 0
      BY DEF ClaimFacts
<1> QED
    BY <1>1, <1>2 DEF VersionLeft

\* Where there is a job there is a version for its first lease.
LEMMA LeaseBound ==
    ASSUME NEW j \in Jobs
    PROVE  MaxLease \in Nat /\ 0 < MaxLease
<1>1. PICK p \in Procs, x \in AutoSteps : j = <<p, x>>
      BY DEF Jobs
<1>2. MaxAttempts[x] \in Nat \ {0} /\ MaxAttempts[x] <= MaxLease
      BY MapTypes, BoundLeavesRetries DEF AutoSteps
<1> QED
    BY <1>2, WorkflowTypes

\* A new job disturbs no claim and no effect.
LEMMA NewJobKeeps ==
    ASSUME IInv, UNCHANGED <<effects, claims>>,
           \A j \in Jobs : \/ job'[j] = job[j]
                           \/ job[j].state = "NONE" /\ job'[j] = NewJob
    PROVE  OneEffect' /\ LeaseExclusive' /\ FinishingHolds' /\ ClaimFacts' /\ VersionLeft'
<1> USE DEF IInv
<1>1. OneEffect'
      BY DEF OneEffect, NewJob
<1>2. LeaseExclusive'
      BY DEF LeaseExclusive
<1>3. \A c \in claims : job'[c.job] = job[c.job]
      BY NoClaimYet
<1>4. FinishingHolds'
      BY <1>3 DEF FinishingHolds, HoldsLease
<1>5. ClaimFacts'
      BY <1>3 DEF ClaimFacts
<1>6. VersionLeft'
  <2> SUFFICES ASSUME NEW j \in Jobs PROVE VersionLeft!(j)'
      BY DEF VersionLeft
  <2>1. 0 < MaxLease
        BY LeaseBound
  <2>2. CASE job'[j] = job[j]
        BY <2>2 DEF VersionLeft
  <2>3. CASE job'[j] = NewJob
        BY <2>1, <2>3 DEF NewJob
  <2> QED  BY <2>2, <2>3
<1> QED
    BY <1>1, <1>2, <1>4, <1>5, <1>6

-----------------------------------------------------------------------------
(* The actions, one lemma each or one per group that changes the same tables. *)

\* The empty tables satisfy the invariant.
LEMMA InitIInv == Init => IInv
<1> SUFFICES ASSUME Init PROVE IInv
    OBVIOUS
<1> USE DEF Init
<1>1. TypeOK
      BY WorkflowTypes DEF TypeOK, ProcRow, StepRow, JobRow, ProcStates, StepStates, JobStates,
         AttemptStates
<1>2. TablesAgree
  <2>1. JobMatchesStep  BY DEF JobMatchesStep, Jobs, AutoSteps
  <2>2. CurrentStepRules  BY WorkflowTypes DEF CurrentStepRules
  <2> QED  BY <2>1, <2>2 DEF TablesAgree
<1>3. Ranked /\ OneEffect /\ LeaseExclusive
      BY DEF Ranked, OneEffect, LeaseExclusive
<1>4. FinishingHolds /\ ClaimFacts /\ VersionLeft /\ LockedWait
      BY DEF FinishingHolds, ClaimFacts, VersionLeft, LockedWait
<1> QED
    BY <1>1, <1>2, <1>3, <1>4 DEF IInv

\* Steps of actors that leave the workflow tables alone.
LEMMA TablesUntouched ==
    ASSUME IInv, UNCHANGED <<proc, step, job, effects>>
    PROVE  TablesAgree' /\ Ranked' /\ OneEffect' /\ VersionLeft'
<1> USE DEF IInv
<1>1. JobMatchesStep'
      BY DEF TablesAgree, JobMatchesStep
<1>2. CurrentStepRules'
      BY DEF TablesAgree, CurrentStepRules
<1> QED
    BY <1>1, <1>2 DEF TablesAgree, Ranked, OneEffect, VersionLeft

\* The waits that signal transactions have locked depend on the WAIT_SIGNAL steps.
LEMMA WaitingUntouched ==
    ASSUME TypeOK, LockedWait, UNCHANGED tx, \A q \in Procs : WaitingAt(q)' = WaitingAt(q)
    PROVE  LockedWait'
<1>1. \A t \in tx : t.row.proc \in Procs
      BY DEF TypeOK, Tx, SignalRow, Message
<1> QED
    BY <1>1 DEF LockedWait

\* A worker lets go of claims.
LEMMA ClaimsDropped ==
    ASSUME IInv, DbUnchanged, claims' \subseteq claims
    PROVE  IInv'
<1> USE DEF IInv, DbUnchanged
<1>1. TypeOK'  BY DEF TypeOK
<1>2. TablesAgree' /\ Ranked' /\ OneEffect' /\ VersionLeft'
      BY TablesUntouched
<1>3. LeaseExclusive'  BY DEF LeaseExclusive
<1>4. FinishingHolds'  BY DEF FinishingHolds, HoldsLease
<1>5. ClaimFacts'  BY DEF ClaimFacts
<1>6. LockedWait'  BY DEF LockedWait, WaitingAt
<1> QED
    BY <1>1, <1>2, <1>3, <1>4, <1>5, <1>6

\* A worker gets on with a claim: d is c in another phase.
LEMMA ClaimMoved ==
    ASSUME IInv, DbUnchanged, NEW c \in claims, NEW d \in Claim,
           d.by = c.by, d.job = c.job, d.version = c.version,
           d.phase \in {"invoked", "finishing"} => d.outcome \in Allowed[d.job[2]],
           d.phase = "finishing" => HoldsLease(d) /\ ~JobLocked(d.job),
           Become(c, d)
    PROVE  IInv'
<1> USE DEF IInv, DbUnchanged, Become
<1>1. TypeOK'  BY DEF TypeOK
<1>2. TablesAgree' /\ Ranked' /\ OneEffect' /\ VersionLeft'
      BY TablesUntouched
<1>3. LeaseExclusive'  BY DEF LeaseExclusive
<1>4. FinishingHolds'  BY DEF FinishingHolds, HoldsLease, JobLocked
<1>5. ClaimFacts'  BY DEF ClaimFacts
<1>6. LockedWait'  BY DEF LockedWait, WaitingAt
<1> QED
    BY <1>1, <1>2, <1>3, <1>4, <1>5, <1>6

\* Every step of a worker that writes no table.
LEMMA WorkerQuietStep ==
    ASSUME IInv, NEW c \in claims,
           \/ ProcessJob(c) \/ Invoke(c) \/ InvokeRepeated(c)
           \/ \E retryable \in BOOLEAN : InvokeError(c, retryable)
           \/ Timeout(c) \/ DbFailure(c) \/ FinishJob(c) \/ CommitRefused(c) \/ FailStale(c)
    PROVE  IInv'
<1>1. c \in Claim /\ c.job \in Jobs
      BY NoClaimYet DEF IInv
<1>2. ASSUME Drop(c), DbUnchanged PROVE IInv'
      BY <1>2, ClaimsDropped DEF Drop
<1>3. ASSUME NEW retryable \in BOOLEAN, Become(c, Failing(c, retryable)), DbUnchanged
      PROVE IInv'
  <2> DEFINE d == Failing(c, retryable)
  <2>1. d \in Claim /\ d.by = c.by /\ d.job = c.job /\ d.version = c.version /\ d.phase = "failing"
        BY <1>1 DEF Failing, Claim, Phases
  <2> QED  BY <1>3, <2>1, ClaimMoved
<1>4. CASE ProcessJob(c)
  <2> DEFINE d == [c EXCEPT !.phase = "claimed"]
  <2>1. d \in Claim /\ d.by = c.by /\ d.job = c.job /\ d.version = c.version /\ d.phase = "claimed"
        BY <1>1 DEF Claim, Phases
  <2>2. Become(c, d) \/ Become(c, Failing(c, FALSE))
        BY <1>4 DEF ProcessJob
  <2>3. DbUnchanged
        BY <1>4 DEF ProcessJob
  <2> QED  BY <2>1, <2>2, <2>3, <1>3, ClaimMoved
<1>5. CASE Invoke(c)
  <2>1. PICK o \in Allowed[c.job[2]] : Become(c, [c EXCEPT !.phase = "invoked", !.outcome = o])
        BY <1>5 DEF Invoke
  <2> DEFINE d == [c EXCEPT !.phase = "invoked", !.outcome = o]
  <2>2. o \in Outcome
        BY <1>1, MapTypes DEF Jobs, AutoSteps
  <2>3. d \in Claim /\ d.by = c.by /\ d.job = c.job /\ d.version = c.version /\ d.phase = "invoked"
           /\ d.outcome = o
        BY <1>1, <2>2 DEF Claim, Phases
  <2>4. DbUnchanged
        BY <1>5 DEF Invoke
  <2> QED  BY <2>1, <2>3, <2>4, ClaimMoved
<1>6. CASE FinishJob(c)
  <2> DEFINE d == [c EXCEPT !.phase = "finishing"]
  <2>1. /\ d \in Claim /\ d.by = c.by /\ d.job = c.job
        /\ d.version = c.version /\ d.phase = "finishing"
           /\ d.outcome = c.outcome
        BY <1>1 DEF Claim, Phases
  <2>2. DbUnchanged /\ c.phase = "invoked" /\ ~JobLocked(c.job)
        BY <1>6 DEF FinishJob
  <2>3. CASE HoldsLease(c) /\ Become(c, d)
    <3>1. HoldsLease(d)
          BY <2>1, <2>3 DEF HoldsLease
    <3>2. d.outcome \in Allowed[d.job[2]]
          BY <2>1, <2>2 DEF IInv, ClaimFacts
    <3> QED  BY <2>1, <2>2, <2>3, <3>1, <3>2, ClaimMoved
  <2>4. CASE Drop(c)
        BY <2>2, <2>4, <1>2
  <2> QED  BY <1>6, <2>3, <2>4 DEF FinishJob
<1> QED
    BY <1>2, <1>3, <1>4, <1>5, <1>6 DEF InvokeRepeated, InvokeError, Timeout, DbFailure,
       CommitRefused, FailStale

\* Signals, receipts, the reconciler and the catalog, up to the commit of a signal.
LEMMA OutsideStep ==
    ASSUME IInv, UNCHANGED <<proc, step, job, attempt, effects, signal, claims>>,
           disabled' \subseteq AutoSteps, inbox' \subseteq InboxRow, selected' \subseteq inbox',
           tx' \subseteq Tx, LockedWait'
    PROVE  IInv'
<1> USE DEF IInv
<1>1. TypeOK'  BY DEF TypeOK
<1>2. TablesAgree' /\ Ranked' /\ OneEffect' /\ VersionLeft'
      BY TablesUntouched
<1>3. LeaseExclusive' /\ ClaimFacts'  BY DEF LeaseExclusive, ClaimFacts
<1>4. FinishingHolds'  BY DEF FinishingHolds, HoldsLease
<1> QED
    BY <1>1, <1>2, <1>3, <1>4

\* accept_signal inserts its row (a sender or the reconciler): no lock taken yet.
LEMMA SignalInsertStep ==
    ASSUME IInv, NEW x \in Clients, NEW r \in Message({"ACCEPTED", "RECEIVED", "APPLIED"}),
           Insert(x, r),
           UNCHANGED <<proc, step, job, attempt, effects, disabled,
                       signal, inbox, claims, selected>>
    PROVE  IInv'
<1> DEFINE t == [by |-> x, row |-> [r EXCEPT !.status = "ACCEPTED"], phase |-> "inserted",
                 wait |-> None]
<1>1. t \in Tx
      BY DEF Tx, SignalRow, Message
<1>2. tx' = tx \cup {t} /\ t.phase = "inserted"
      BY DEF Insert
<1>3. LockedWait'
      BY <1>2 DEF IInv, LockedWait, WaitingAt
<1> QED
    BY <1>1, <1>2, <1>3, OutsideStep DEF IInv, TypeOK

\* accept_signal locks the process and notes the step that waits; the lock was free.
LEMMA SignalLockStep ==
    ASSUME IInv, NEW t \in tx, SignalLock(t)
    PROVE  IInv'
<1> USE DEF IInv, SignalLock
<1>1. t \in Tx /\ t.row.proc \in Procs
      BY DEF TypeOK, Tx, SignalRow, Message
<1>2. PICK s \in IF WaitingAt(t.row.proc) = {} THEN {None} ELSE WaitingAt(t.row.proc) :
          tx' = (tx \ {t}) \cup {[t EXCEPT !.phase = "locked", !.wait = s]}
      OBVIOUS
<1> DEFINE u == [t EXCEPT !.phase = "locked", !.wait = s]
<1>3. s \in Steps \cup {None} /\ (s # None => s \in WaitingAt(t.row.proc))
      BY <1>2 DEF WaitingAt, WaitSteps
<1>4. u \in Tx /\ u.row = t.row /\ u.wait = s /\ u.phase = "locked"
      BY <1>1, <1>3 DEF Tx
<1>5. UNCHANGED step /\ \A v \in tx : v.phase = "locked" => v.row.proc # t.row.proc
      BY DEF ProcLocked
<1>6. LockedWait'
  <2> SUFFICES ASSUME NEW v \in tx', v.phase = "locked"
               PROVE  /\ v.wait # None => v.wait \in WaitingAt(v.row.proc)'
                      /\ \A w \in tx' : w.phase = "locked" /\ w.row.proc = v.row.proc => w = v
      BY DEF LockedWait
  <2>1. \A q : WaitingAt(q)' = WaitingAt(q)
        BY <1>5 DEF WaitingAt
  <2>2. CASE v = u
        BY <2>1, <2>2, <1>2, <1>3, <1>4, <1>5
  <2>3. CASE v \in tx
    <3>1. /\ v.wait # None => v.wait \in WaitingAt(v.row.proc)
          /\ \A w \in tx : w.phase = "locked" /\ w.row.proc = v.row.proc => w = v
          BY <2>3 DEF LockedWait
    <3> QED  BY <2>1, <2>3, <3>1, <1>2, <1>4, <1>5
  <2> QED  BY <2>2, <2>3, <1>2
<1> QED
    BY <1>2, <1>4, <1>6, OutsideStep DEF TypeOK

\* Every step of senders, receipts, the reconciler and the catalog short of a
\* signal's commit keeps the invariant.
LEMMA OutsideSteps ==
    ASSUME IInv,
           \/ \E s \in AutoSteps : DisableAction(s)
           \/ \E x \in Senders, r \in Message({"ACCEPTED"}) : SendSignal(x, r)
           \/ \E t \in tx : SignalAbort(t)
           \/ \E m \in Msgs, p \in Procs, b \in Bodies : ReceiptArrives(m, p, b)
           \/ ReconcilerStep
    PROVE  IInv'
<1> USE DEF IInv
<1>1. ASSUME NEW s \in AutoSteps, DisableAction(s) PROVE IInv'
  <2>1. LockedWait'  BY <1>1 DEF DisableAction, LockedWait, WaitingAt
  <2> QED  BY <1>1, <2>1, OutsideStep DEF DisableAction, TypeOK
<1>2. ASSUME NEW x \in Senders, NEW r \in Message({"ACCEPTED"}), SendSignal(x, r) PROVE IInv'
  <2>1. x \in Clients /\ r \in Message({"ACCEPTED", "RECEIVED", "APPLIED"})
        BY DEF Clients, Message
  <2> QED  BY <1>2, <2>1, SignalInsertStep DEF SendSignal
<1>3. ASSUME NEW t \in tx, SignalAbort(t) PROVE IInv'
  <2>1. LockedWait'  BY <1>3 DEF SignalAbort, LockedWait, WaitingAt
  <2> QED  BY <1>3, <2>1, OutsideStep DEF SignalAbort, TypeOK
<1>4. ASSUME NEW m \in Msgs, NEW p \in Procs, NEW b \in Bodies, ReceiptArrives(m, p, b)
      PROVE IInv'
  <2>1. LockedWait'  BY <1>4 DEF ReceiptArrives, LockedWait, WaitingAt
  <2>2. [msg |-> m, proc |-> p, type |-> ReceiptType, body |-> b, status |-> "RECEIVED"]
            \in InboxRow
        BY WorkflowTypes DEF InboxRow, Message
  <2> QED  BY <1>4, <2>1, <2>2, OutsideStep DEF ReceiptArrives, TypeOK
<1>5. ASSUME ReconcileSelect PROVE IInv'
  <2>1. LockedWait'  BY <1>5 DEF ReconcileSelect, LockedWait, WaitingAt
  <2> QED  BY <1>5, <2>1, OutsideStep DEF ReconcileSelect, TypeOK
<1>6. ASSUME NEW r \in selected, ReconcileInsert(r) PROVE IInv'
  <2>1. Reconciler \in Clients /\ r \in Message({"ACCEPTED", "RECEIVED", "APPLIED"})
        BY DEF Clients, TypeOK, InboxRow, Message
  <2> QED  BY <1>6, <2>1, SignalInsertStep DEF ReconcileInsert
<1>7. ASSUME NEW r \in selected, ReconcileDuplicate(r) PROVE IInv'
  <2>1. LockedWait'  BY <1>7 DEF ReconcileDuplicate, LockedWait, WaitingAt
  <2>2. WithStatus({r}, "APPLIED") \subseteq InboxRow
    <3>1. r \in InboxRow  BY DEF TypeOK
    <3>2. [r EXCEPT !.status = "APPLIED"] \in InboxRow  BY <3>1 DEF InboxRow, Message
    <3> QED  BY <3>2 DEF WithStatus
  <2>3. inbox' \subseteq InboxRow /\ selected' \subseteq inbox' /\ UNCHANGED <<disabled, tx>>
        BY <1>7, <2>2 DEF ReconcileDuplicate, TypeOK
  <2> QED  BY <1>7, <2>1, <2>3, OutsideStep DEF ReconcileDuplicate, TypeOK
<1>8. ASSUME NEW r \in selected, ReconcileConflict(r) PROVE IInv'
  <2>1. LockedWait'  BY <1>8 DEF ReconcileConflict, LockedWait, WaitingAt
  <2> QED  BY <1>8, <2>1, OutsideStep DEF ReconcileConflict, TypeOK
<1> QED
    BY <1>1, <1>2, <1>3, <1>4, <1>5, <1>6, <1>7, <1>8 DEF ReconcilerStep

\* A deadline that passes changes no right: the lease stays with its holder.
LEMMA TimePassesStep ==
    ASSUME IInv, NEW j \in Jobs, TimePasses(j)
    PROVE  IInv'
<1> USE DEF IInv, TimePasses
<1>1. /\ job' = [job EXCEPT ![j].due = TRUE]
      /\ \/ job[j].state = "RETRY_WAIT"
         \/ job[j].state = "LEASED" /\ job[j].version < MaxLease
      /\ UNCHANGED <<proc, step, attempt, effects, disabled, signal, inbox, claims, tx, selected>>
      OBVIOUS
<1>2. job' \in [Jobs -> JobRow] /\ \A k \in Jobs : /\ job'[k].state = job[k].state
                                                   /\ job'[k].owner = job[k].owner
                                                   /\ job'[k].version = job[k].version
                                                   /\ k # j => job'[k] = job[k]
  <2>1. job \in [Jobs -> JobRow]  BY DEF TypeOK
  <2>2. job' = [job EXCEPT ![j] = [job[j] EXCEPT !.due = TRUE]]
        BY <1>1, <2>1
  <2>3. \A k \in Jobs : job'[k] = IF k = j THEN [job[j] EXCEPT !.due = TRUE] ELSE job[k]
        BY <2>1, <2>2
  <2>4. job[j] \in JobRow  BY <2>1
  <2>5. LET d == [job[j] EXCEPT !.due = TRUE]
        IN  d \in JobRow /\ d.state = job[j].state /\ d.owner = job[j].owner
            /\ d.version = job[j].version
        BY <2>4 DEF JobRow
  <2> QED  BY <2>1, <2>2, <2>3, <2>5
<1>3. TypeOK'  BY <1>1, <1>2 DEF TypeOK
<1>4. JobMatchesStep'
  <2> SUFFICES ASSUME NEW q \in Procs, NEW x \in AutoSteps
               PROVE  JobMatchesStep!(q, x)'
      BY DEF JobMatchesStep
  <2>1. JobMatchesStep!(q, x)  BY DEF TablesAgree, JobMatchesStep
  <2>2. <<q, x>> \in Jobs  BY DEF Jobs
  <2>3. job'[<<q, x>>].state = job[<<q, x>>].state  BY <2>2, <1>2
  <2> QED  BY <1>1, <2>1, <2>3
<1>5. CurrentStepRules'
      BY <1>1 DEF TablesAgree, CurrentStepRules
<1>6. Ranked' /\ OneEffect' /\ LeaseExclusive'
      BY <1>1, <1>2 DEF Ranked, OneEffect, LeaseExclusive
<1>7. \A c \in claims : c.job \in Jobs
      BY DEF TypeOK, Claim
<1>8. FinishingHolds' /\ ClaimFacts'
      BY <1>1, <1>2, <1>7 DEF FinishingHolds, HoldsLease, ClaimFacts
<1>9. VersionLeft'
      BY <1>1, <1>2 DEF VersionLeft
<1>10. LockedWait'
      BY <1>1 DEF LockedWait, WaitingAt
<1> QED
    BY <1>3, <1>4, <1>5, <1>6, <1>8, <1>9, <1>10 DEF TablesAgree

\* Process p comes to step s: it starts there, or completes its current step with
\* an outcome that leads there.
ComesTo(db, p, s) ==
    \/ s = StartStep /\ proc[p].state = "NONE" /\ db.step = step
    \/ \E x \in Steps : \E o \in Allowed[x] :
          /\ proc[p].current = x /\ Target[x][o] = s
          /\ db.step = [step EXCEPT ![p][x] = [state |-> "COMPLETED", outcome |-> o]]

\* The signals as they are, or with one of process p applied.
Applies(now, sent, p) ==
    \/ now = sent
    \/ \E r \in sent : r.proc = p /\ now = (sent \ {r}) \cup WithStatus({r}, "APPLIED")

\* The steps of process p that wait for a signal are completed as they were, or one
\* more is, and one accepted signal of its type is applied for it.
Moves(db, sent, p) ==
    \/ /\ db.signal = sent
       /\ \A y \in WaitSteps :
             db.step[p][y].state = "COMPLETED" <=> step[p][y].state = "COMPLETED"
    \/ \E r \in sent, x \in WaitSteps :
          /\ r.proc = p /\ r.type = SignalType[x] /\ r.status = "ACCEPTED"
          /\ db.signal = (sent \ {r}) \cup WithStatus({r}, "APPLIED")
          /\ step[p][x].state # "COMPLETED"
          /\ \A y \in WaitSteps :
                db.step[p][y].state = "COMPLETED" <=> step[p][y].state = "COMPLETED" \/ y = x

\* Process p, which is not finished, enters a step in a transaction that has left
\* the jobs as rows, the signals as sent and the inbox as received.
Enters(p, rows, sent, received) ==
    /\ proc[p].state \notin Terminal
    /\ \E db : \E s \in Steps :
          /\ Landing(db, p, s) /\ EnterStep(db, p, s) /\ ComesTo(db, p, s)
          /\ db.job = rows /\ Applies(db.signal, sent, p) /\ db.inbox = received
          /\ Moves(db, sent, p) /\ selected' \subseteq db.inbox

\* A process that enters a step touches no row of another process, and gives a new
\* job only to a step that had none.
LEMMA EntersAlone ==
    ASSUME IInv, NEW p \in Procs, NEW rows, NEW sent, NEW received,
           Enters(p, rows, sent, received)
    PROVE  /\ \A q \in Procs : q # p => /\ proc'[q] = proc[q] /\ step'[q] = step[q]
                                       /\ \A x \in AutoSteps : job'[<<q, x>>] = job[<<q, x>>]
           /\ \A j \in Jobs : \/ job'[j] = rows[j]
                              \/ rows[j].state = "NONE" /\ job'[j] = NewJob
<1>1. TypeOK /\ TablesAgree /\ Ranked
      BY DEF IInv
<1>2. PICK db : \E s \in Steps : Landing(db, p, s) /\ EnterStep(db, p, s) /\ db.job = rows
      BY DEF Enters
<1>3. PICK s \in Steps : Landing(db, p, s) /\ EnterStep(db, p, s) /\ db.job = rows
      BY <1>2
<1>4. db.signal \subseteq SignalRow /\ db.inbox \subseteq InboxRow
      BY <1>3 DEF Landing
<1>5. PICK last \in Steps :
        /\ Landed(db, p, s, last)
        /\ \/ last = s
           \/ s \in WaitSteps /\ last \notin WaitSteps /\ Rank[s] < Rank[last]
      BY <1>3, <1>4, EnterStepLands
<1>6. /\ proc' \in [Procs -> ProcRow]
      /\ step' \in [Procs -> [Steps -> StepRow]]
      /\ job' \in [Jobs -> JobRow]
      /\ TablesAgree'
      /\ Ranked'
      /\ \A j \in Jobs :
           \/ job'[j] = db.job[j]
           \/ j[1] = p /\ db.job[j].state = "NONE" /\ job'[j] = NewJob
      BY <1>1, <1>3, <1>5, LandedAgrees
<1>7. \A j \in Jobs : job'[j] = rows[j] \/ (rows[j].state = "NONE" /\ job'[j] = NewJob)
      BY <1>3, <1>6
<1>8. ASSUME NEW q \in Procs, q # p
      PROVE  /\ proc'[q] = proc[q] /\ step'[q] = step[q]
             /\ \A x \in AutoSteps : job'[<<q, x>>] = job[<<q, x>>]
  <2>1. proc'[q] = proc[q] /\ step'[q] = step[q]
        BY <1>1, <1>3, <1>5, <1>8 DEF Landed, Landing, TypeOK
  <2>2. \A x \in AutoSteps : job'[<<q, x>>] = db.job[<<q, x>>] /\ db.job[<<q, x>>] = job[<<q, x>>]
        BY <1>3, <1>6, <1>8 DEF Landing, Jobs
  <2> QED  BY <2>1, <2>2
<1> QED
    BY <1>7, <1>8

\* A transaction that enters a step without touching an existing job, an effect
\* or a claim keeps the invariant, if no signal transaction waits at p's step.
LEMMA EnteredKeeps ==
    ASSUME IInv, NEW p \in Procs, NEW sent, NEW received, Enters(p, job, sent, received),
           UNCHANGED <<attempt, effects, disabled, claims>>,
           tx' \subseteq tx, selected' \subseteq selected,
           \A t \in tx' : t.phase = "locked" /\ t.row.proc = p => t.wait = None
    PROVE  IInv'
<1> USE DEF IInv
<1>1. PICK db : \E s \in Steps : /\ Landing(db, p, s) /\ EnterStep(db, p, s)
                                  /\ db.job = job /\ selected' \subseteq db.inbox
      BY DEF Enters
<1>2. PICK s \in Steps : /\ Landing(db, p, s) /\ EnterStep(db, p, s)
                         /\ db.job = job /\ selected' \subseteq db.inbox
      BY <1>1
<1>3. /\ proc' \in [Procs -> ProcRow]
      /\ step' \in [Procs -> [Steps -> StepRow]]
      /\ job' \in [Jobs -> JobRow]
      /\ signal' \subseteq SignalRow
      /\ inbox' \subseteq InboxRow
      /\ \A r \in selected : r \in db.inbox => r \in inbox'
      /\ TablesAgree'
      /\ Ranked'
      /\ \A j \in Jobs : \/ job'[j] = db.job[j]
                         \/ db.job[j].state = "NONE" /\ job'[j] = NewJob
      /\ \A q \in Procs : q # p => step'[q] = step[q]
      BY <1>2, EnterStepKeeps
<1>4. OneEffect' /\ LeaseExclusive' /\ FinishingHolds' /\ ClaimFacts' /\ VersionLeft'
      BY <1>3, <1>2, NewJobKeeps
<1>5. TypeOK'
  <2>1. tx' \subseteq Tx /\ selected' \subseteq inbox'
        BY <1>3, <1>2 DEF TypeOK
  <2> QED  BY <1>3, <2>1 DEF TypeOK
<1>6. LockedWait'
  <2> SUFFICES ASSUME NEW t \in tx', t.phase = "locked"
               PROVE  /\ t.wait # None => t.wait \in WaitingAt(t.row.proc)'
                      /\ \A u \in tx' : u.phase = "locked" /\ u.row.proc = t.row.proc => u = t
      BY DEF LockedWait
  <2>1. t \in tx /\ t.row.proc \in Procs
        BY DEF TypeOK, Tx, SignalRow, Message
  <2>2. t.row.proc # p => WaitingAt(t.row.proc)' = WaitingAt(t.row.proc)
        BY <1>3, <2>1 DEF WaitingAt
  <2> QED  BY <2>1, <2>2 DEF LockedWait
<1> QED
    BY <1>3, <1>4, <1>5, <1>6

\* Completing a step completes no other.
LEMMA OtherStepsDone ==
    ASSUME NEW p \in Procs, NEW s \in Steps, NEW o, step \in [Procs -> [Steps -> StepRow]],
           NEW now, now = [step EXCEPT ![p][s] = [state |-> "COMPLETED", outcome |-> o]]
    PROVE  \A y \in WaitSteps :
              now[p][y].state = "COMPLETED" <=> step[p][y].state = "COMPLETED" \/ y = s
    BY DEF WaitSteps

\* A process starts: it has no step and no job yet.
LEMMA StartEnters ==
    ASSUME IInv, NEW p \in Procs, StartProcess(p)
    PROVE  Enters(p, job, signal, inbox) /\ \A x \in Steps : step[p][x].state = "NONE"
<1> USE DEF IInv, StartProcess
<1>1. \A x \in Steps : step[p][x].state = "NONE"
      BY DEF TablesAgree, CurrentStepRules
<1>2. \A x \in AutoSteps : job[<<p, x>>].state = "NONE"
  <2> SUFFICES ASSUME NEW x \in AutoSteps PROVE job[<<p, x>>].state = "NONE"
      OBVIOUS
  <2>1. job[<<p, x>>].state \in JobStates /\ x \in Steps
        BY DEF TypeOK, JobRow, Jobs, AutoSteps
  <2> QED  BY <2>1, <1>1 DEF TablesAgree, JobMatchesStep, JobStates
<1>3. StartStep \in Steps
      BY MapTypes
<1>4. Landing(Tables, p, StartStep)
  <2>1. /\ Tables.proc = proc /\ Tables.step = step /\ Tables.job = job
        /\ Tables.signal = signal /\ Tables.inbox = inbox
        BY DEF Tables
  <2>2. /\ step \in [Procs -> [Steps -> StepRow]] /\ job \in [Jobs -> JobRow]
        /\ signal \subseteq SignalRow /\ inbox \subseteq InboxRow
        BY DEF TypeOK
  <2> HIDE DEF IInv, StartProcess
  <2>3. \A x \in AutoSteps : x \in Steps
        BY DEF AutoSteps
  <2> QED  BY <1>1, <1>2, <2>1, <2>2, <2>3 DEF Landing
<1>5. /\ Tables.job = job /\ Tables.inbox = inbox /\ Applies(Tables.signal, signal, p)
      /\ selected' \subseteq Tables.inbox /\ Moves(Tables, signal, p)
      BY DEF Tables, TypeOK, Applies, Moves
<1>6. ComesTo(Tables, p, StartStep)
      BY DEF Tables, ComesTo
<1> HIDE DEF IInv
<1> QED
    BY <1>1, <1>3, <1>4, <1>5, <1>6 DEF Enters, Terminal

LEMMA StartProcessStep ==
    ASSUME IInv, NEW p \in Procs, StartProcess(p)
    PROVE  IInv'
<1>1. Enters(p, job, signal, inbox) /\ \A x \in Steps : step[p][x].state = "NONE"
      BY StartEnters
<1>2. \A t \in tx : t.phase = "locked" /\ t.row.proc = p => t.wait = None
      BY <1>1 DEF IInv, LockedWait, WaitingAt, WaitSteps
<1> QED
    BY <1>1, <1>2, EnteredKeeps DEF StartProcess

\* A manual decision completes the waiting MANUAL step and advances.
LEMMA ManualEnters ==
    ASSUME IInv, NEW p \in Procs, NEW o \in Outcome, ManualDecision(p, o)
    PROVE  Enters(p, job, signal, inbox)
<1> USE DEF IInv
<1> DEFINE s == proc[p].current
           db == Completed(Tables, p, s, o)
<1>1. /\ ~ProcLocked(p)
      /\ s \in Steps /\ StepType[s] = "MANUAL" /\ step[p][s].state = "WAITING"
      /\ Advance(db, p, o)
      /\ UNCHANGED <<attempt, effects, disabled, claims, tx, selected>>
      BY DEF ManualDecision
<1>2. proc[p].state = "WAITING_MANUAL"
      BY <1>1 DEF TablesAgree, CurrentStepRules
<1>3. /\ db.proc = proc /\ db.job = job /\ db.signal = signal /\ db.inbox = inbox
      /\ db.step = [step EXCEPT ![p][s] = [state |-> "COMPLETED", outcome |-> o]]
      BY DEF Completed, Tables
<1>4. o \in Allowed[s] /\ EnterStep(db, p, Target[s][o])
      BY <1>1, <1>2, <1>3 DEF Advance, Terminal
<1>5. s \notin AutoSteps /\ Target[s][o] \in Steps
  <2>1. s \in Steps /\ StepType[s] = "MANUAL"
        BY <1>1
  <2> HIDE DEF db, s, IInv
  <2>2. Target[s][o] \in Steps
        BY <2>1, MapTypes
  <2> QED  BY <2>1, <2>2 DEF AutoSteps
<1>6. Landing(db, p, Target[s][o])
      BY <1>1, <1>2, <1>3, <1>4, <1>5, CompletedLands DEF Terminal, TypeOK
<1> HIDE DEF db
<1>7. ComesTo(db, p, Target[s][o])
      BY <1>1, <1>3, <1>4 DEF ComesTo
<1> HIDE DEF s
<1>8. selected' \subseteq db.inbox /\ Applies(db.signal, signal, p)
      BY <1>1, <1>3 DEF TypeOK, Applies
<1>9. Moves(db, signal, p)
  <2>1. s \notin WaitSteps /\ step \in [Procs -> [Steps -> StepRow]]
        BY <1>1 DEF WaitSteps, TypeOK
  <2> QED  BY <2>1, <1>1, <1>3, OtherStepsDone DEF Moves
<1> HIDE DEF IInv
<1> QED
    BY <1>2, <1>3, <1>4, <1>5, <1>6, <1>7, <1>8, <1>9 DEF Enters, Terminal

LEMMA ManualDecisionStep ==
    ASSUME IInv, NEW p \in Procs, NEW o \in Outcome, ManualDecision(p, o)
    PROVE  IInv'
<1>1. \A t \in tx : ~(t.phase = "locked" /\ t.row.proc = p)
      BY DEF ManualDecision, ProcLocked
<1>2. UNCHANGED <<attempt, effects, disabled, claims, tx, selected>>
      BY DEF ManualDecision
<1> QED
    BY <1>1, <1>2, ManualEnters, EnteredKeeps

\* The tables once a signal transaction has written its signal and its inbox row.
SignalBase(t) ==
    [Tables EXCEPT !.signal = @ \cup {t.row},
                   !.inbox = (@ \ InboxOf(t)) \cup WithStatus(InboxOf(t), "APPLIED")]

LEMMA SignalBaseFacts ==
    ASSUME IInv, NEW t \in tx, SignalCommit(t)
    PROVE  /\ SignalBase(t).proc = proc /\ SignalBase(t).step = step /\ SignalBase(t).job = job
           /\ SignalBase(t).signal \subseteq SignalRow /\ SignalBase(t).inbox \subseteq InboxRow
           /\ selected' \subseteq selected /\ selected' \subseteq SignalBase(t).inbox
           /\ t \in Tx /\ t.row.proc \in Procs
<1> USE DEF IInv
<1> DEFINE base == SignalBase(t)
<1>1. selected' = selected \ InboxOf(t)
      BY DEF SignalCommit
<1>2. t \in Tx /\ t.row.proc \in Procs /\ t.row \in SignalRow
      BY DEF TypeOK, Tx, SignalRow, Message
<1>3. InboxOf(t) \subseteq selected /\ InboxOf(t) \subseteq InboxRow
      BY DEF InboxOf, TypeOK
<1>4. WithStatus(InboxOf(t), "APPLIED") \subseteq InboxRow
      BY <1>3 DEF WithStatus, InboxRow, Message
<1>5. /\ base.proc = proc /\ base.step = step /\ base.job = job
      /\ base.signal = signal \cup {t.row}
      /\ base.inbox = (inbox \ InboxOf(t)) \cup WithStatus(InboxOf(t), "APPLIED")
      BY DEF SignalBase, Tables
<1> HIDE DEF base
<1>6. base.signal \subseteq SignalRow /\ base.inbox \subseteq InboxRow
      BY <1>2, <1>4, <1>5 DEF TypeOK
<1>7. selected' \subseteq selected /\ selected' \subseteq base.inbox
      BY <1>1, <1>5 DEF TypeOK
<1> QED
    BY <1>2, <1>5, <1>6, <1>7 DEF base

\* The signal that a transaction applies completes the wait step it read under the
\* process lock.
LEMMA SignalEnters ==
    ASSUME IInv, NEW t \in tx, SignalCommit(t), t.wait # None, SignalType[t.wait] = t.row.type
    PROVE  Enters(t.row.proc, job, SignalBase(t).signal, SignalBase(t).inbox)
<1> USE DEF IInv
<1> DEFINE p == t.row.proc
           s == t.wait
           o == ParamOutcome[s]
           base == SignalBase(t)
<1>1. /\ base.proc = proc /\ base.step = step /\ base.job = job
      /\ base.signal \subseteq SignalRow /\ base.inbox \subseteq InboxRow
      /\ selected' \subseteq base.inbox /\ p \in Procs /\ t.phase = "locked"
      BY SignalBaseFacts DEF SignalCommit
<1> HIDE DEF base
<1>2. PICK sig \in ReadySignals(base, p, s) :
        Advance(Completed([base EXCEPT !.signal = (@ \ {sig}) \cup WithStatus({sig}, "APPLIED")],
                          p, s, o), p, o)
      BY DEF SignalCommit, base, SignalBase
<1> DEFINE db == Completed([base EXCEPT !.signal = (@ \ {sig}) \cup WithStatus({sig}, "APPLIED")],
                           p, s, o)
<1>3. s \in WaitSteps /\ s \in Steps /\ step[p][s].state = "WAITING"
      BY <1>1 DEF LockedWait, WaitingAt, WaitSteps
<1>4. proc[p].current = s
      BY <1>1, <1>3 DEF TablesAgree, CurrentStepRules
<1>5. proc[p].state = "WAITING_SIGNAL"
      BY <1>1, <1>3, <1>4 DEF TablesAgree, CurrentStepRules, WaitSteps
<1>6. o \in Allowed[s] /\ s \notin AutoSteps
      BY <1>3, WaitCovered DEF AutoSteps, WaitSteps
<1>7. Target[s][o] \in Steps
  <2> HIDE DEF s, IInv
  <2>1. ParamOutcome[s] \in Outcome  BY <1>3, MapTypes
  <2> QED  BY <1>3, <2>1, MapTypes
<1>8. sig \in SignalRow
      BY <1>1 DEF ReadySignals
<1>9. WithStatus({sig}, "APPLIED") \subseteq SignalRow
      BY <1>8 DEF WithStatus, SignalRow, Message
<1>10. /\ db.proc = proc /\ db.job = job /\ db.inbox = base.inbox
       /\ db.signal = (base.signal \ {sig}) \cup WithStatus({sig}, "APPLIED")
       /\ db.step = [step EXCEPT ![p][s] = [state |-> "COMPLETED", outcome |-> o]]
      BY <1>1 DEF Completed, Tables, base, SignalBase
<1>11. EnterStep(db, p, Target[s][o])
      BY <1>2, <1>4, <1>5, <1>10 DEF Advance, Terminal
<1> HIDE DEF db, s, p, o
<1>12. db.signal \subseteq SignalRow /\ db.inbox \subseteq InboxRow
      BY <1>1, <1>9, <1>10
<1>13. Landing(db, p, Target[s][o])
      BY <1>1, <1>3, <1>4, <1>5, <1>6, <1>10, <1>12, CompletedLands DEF Terminal, TypeOK
<1> HIDE DEF IInv
<1>14. ComesTo(db, p, Target[s][o])
      BY <1>3, <1>4, <1>6, <1>10 DEF ComesTo
<1>15. Applies(db.signal, base.signal, p)
      BY <1>2, <1>10 DEF Applies, ReadySignals
<1>16. Moves(db, base.signal, p)
  <2>1. step \in [Procs -> [Steps -> StepRow]]
        BY DEF IInv, TypeOK
  <2>2. /\ sig \in base.signal /\ sig.proc = p /\ sig.type = SignalType[s]
        /\ sig.status = "ACCEPTED"
        BY <1>2 DEF ReadySignals
  <2>3. \A y \in WaitSteps :
           db.step[p][y].state = "COMPLETED" <=> step[p][y].state = "COMPLETED" \/ y = s
        BY <2>1, <1>1, <1>3, <1>10, OtherStepsDone
  <2> QED  BY <2>2, <2>3, <1>3, <1>10 DEF Moves
<1> QED
    BY <1>1, <1>5, <1>7, <1>10, <1>11, <1>13, <1>14, <1>15, <1>16
    DEF Enters, Terminal, p, base

\* A signal transaction that applies nothing writes its signal and its inbox row only.
LEMMA SignalKept ==
    ASSUME IInv, NEW t \in tx, SignalCommit(t), ~(t.wait # None /\ SignalType[t.wait] = t.row.type)
    PROVE  /\ UNCHANGED <<proc, step, job>>
           /\ signal' = SignalBase(t).signal /\ inbox' = SignalBase(t).inbox
<1>1. Write(SignalBase(t))
      BY DEF SignalCommit, SignalBase
<1> QED
    BY <1>1, SignalBaseFacts DEF Write

\* A signal transaction commits.
LEMMA SignalCommitStep ==
    ASSUME IInv, NEW t \in tx, SignalCommit(t)
    PROVE  IInv'
<1> USE DEF IInv
<1> DEFINE p == t.row.proc
           base == SignalBase(t)
<1>1. /\ t.phase = "locked" /\ tx' = tx \ {t}
      /\ UNCHANGED <<attempt, effects, disabled, claims>>
      BY DEF SignalCommit
<1>2. /\ base.signal \subseteq SignalRow /\ base.inbox \subseteq InboxRow
      /\ selected' \subseteq selected /\ selected' \subseteq base.inbox /\ p \in Procs
      BY SignalBaseFacts
<1>3. \A u \in tx' : ~(u.phase = "locked" /\ u.row.proc = p)
      BY <1>1 DEF LockedWait
<1> HIDE DEF base
<1>4. CASE t.wait # None /\ SignalType[t.wait] = t.row.type
      BY <1>1, <1>2, <1>3, <1>4, SignalEnters, EnteredKeeps
<1>5. CASE ~(t.wait # None /\ SignalType[t.wait] = t.row.type)
  <2>2. UNCHANGED <<proc, step, job>> /\ signal' = base.signal /\ inbox' = base.inbox
        BY <1>5, SignalKept DEF base
  <2>3. TypeOK'
        BY <1>1, <1>2, <2>2 DEF TypeOK
  <2>4. TablesAgree' /\ Ranked' /\ OneEffect' /\ VersionLeft'
        BY <1>1, <2>2, TablesUntouched
  <2>5. LeaseExclusive' /\ ClaimFacts'
        BY <1>1, <2>2 DEF LeaseExclusive, ClaimFacts
  <2>6. FinishingHolds'
        BY <1>1, <2>2 DEF FinishingHolds, HoldsLease
  <2>7. LockedWait'
        BY <1>1, <2>2 DEF LockedWait, WaitingAt
  <2> QED  BY <2>3, <2>4, <2>5, <2>6, <2>7
<1> QED
    BY <1>4, <1>5

\* A job that holds a lease is the job of its process's current, running step.
LEMMA LeasedIsCurrent ==
    ASSUME TypeOK, TablesAgree, NEW p \in Procs, NEW s \in AutoSteps,
           job[<<p, s>>].state \in LiveJob
    PROVE  s \in Steps /\ proc[p].current = s /\ proc[p].state = "RUNNING"
<1>1. s \in Steps /\ StepType[s] = "AUTOMATIC"
      BY DEF AutoSteps
<1>2. step[p][s].state \in {"READY", "RUNNING"}
      BY DEF TablesAgree, JobMatchesStep, LiveJob
<1>3. proc[p].current = s
      BY <1>1, <1>2 DEF TablesAgree, CurrentStepRules
<1> QED
    BY <1>1, <1>2, <1>3 DEF TablesAgree, CurrentStepRules

\* Settling an attempt keeps the attempts' type.
LEMMA SettleKeepsType ==
    ASSUME TypeOK, NEW c \in claims, NEW st \in AttemptStates, SettleAttempt(c, st)
    PROVE  attempt' \in [Jobs -> [1..MaxLease -> AttemptStates]]
<1>1. c.job \in Jobs /\ c.version \in 1..MaxLease
      BY DEF TypeOK, Claim
<1>2. attempt \in [Jobs -> [1..MaxLease -> AttemptStates]]
      BY DEF TypeOK
<1> QED
    BY <1>1, <1>2 DEF SettleAttempt

\* The row of the job that claim c finishes.
DoneRow(c) == [job[c.job] EXCEPT !.state = "SUCCEEDED", !.due = FALSE]

\* finish_job commits: the worker holds the lease, the row is SUCCEEDED in the
\* same version, and the running process enters the next step.
LEMMA CommitEnters ==
    ASSUME IInv, NEW c \in claims, Commit(c)
    PROVE  /\ c.job[1] \in Procs /\ HoldsLease(c)
           /\ DoneRow(c) \in JobRow /\ DoneRow(c).state = "SUCCEEDED"
           /\ DoneRow(c).version = job[c.job].version
           /\ Enters(c.job[1], [job EXCEPT ![c.job] = DoneRow(c)], signal, inbox)
<1> USE DEF IInv
<1> DEFINE p == c.job[1]
           s == c.job[2]
           o == c.outcome
           done == DoneRow(c)
           base == [Tables EXCEPT !.job[c.job] = [@ EXCEPT !.state = "SUCCEEDED", !.due = FALSE]]
           db == Completed(base, p, s, o)
<1>1. c.phase = "finishing" /\ Advance(db, p, o) /\ selected' = selected
      BY DEF Commit
<1>2. c \in Claim /\ c.job \in Jobs
      BY NoClaimYet
<1>3. p \in Procs /\ s \in AutoSteps /\ s \in Steps /\ c.job = <<p, s>>
      BY <1>2 DEF Jobs, AutoSteps
<1>4. HoldsLease(c) /\ o \in Allowed[s]
      BY <1>1 DEF FinishingHolds, ClaimFacts
<1>5. proc[p].current = s /\ proc[p].state = "RUNNING"
  <2>1. job[<<p, s>>].state \in LiveJob
        BY <1>3, <1>4 DEF HoldsLease, LiveJob
  <2> HIDE DEF p, s
  <2> QED  BY <1>3, <2>1, LeasedIsCurrent
<1>6. /\ db.proc = proc /\ db.signal = signal /\ db.inbox = inbox
      /\ db.job = [job EXCEPT ![c.job] = done]
      /\ db.step = [step EXCEPT ![p][s] = [state |-> "COMPLETED", outcome |-> o]]
      BY DEF Completed, Tables, DoneRow
<1>7. EnterStep(db, p, Target[s][o])
      BY <1>1, <1>5, <1>6 DEF Advance, Terminal
<1>8. done \in JobRow /\ done.state = "SUCCEEDED" /\ done.version = job[c.job].version
  <2>1. job[c.job] \in JobRow  BY <1>2 DEF TypeOK
  <2> QED  BY <2>1 DEF JobRow, JobStates, DoneRow
<1> HIDE DEF base, db, done, p, s, o
<1>9. /\ db.job \in [Jobs -> JobRow] /\ db.job[c.job] = done
      /\ \A j \in Jobs : j # c.job => db.job[j] = job[j]
      BY <1>2, <1>6, <1>8 DEF TypeOK
<1>10. Target[s][o] \in Steps
  <2>1. o \in Outcome  BY <1>3, <1>4, MapTypes
  <2> QED  BY <1>3, <2>1, MapTypes
<1>11. Landing(db, p, Target[s][o])
      BY <1>3, <1>4, <1>5, <1>6, <1>8, <1>9, CompletedLands DEF Terminal, TypeOK
<1>12. selected' \subseteq db.inbox /\ Applies(db.signal, signal, p)
      BY <1>1, <1>6 DEF TypeOK, Applies
<1> HIDE DEF IInv
<1>13. ComesTo(db, p, Target[s][o])
      BY <1>3, <1>4, <1>5, <1>6 DEF ComesTo
<1>14. Moves(db, signal, p)
  <2>1. s \notin WaitSteps /\ step \in [Procs -> [Steps -> StepRow]]
        BY <1>3 DEF WaitSteps, AutoSteps, IInv, TypeOK
  <2> QED  BY <2>1, <1>3, <1>6, OtherStepsDone DEF Moves
<1>15. Enters(p, [job EXCEPT ![c.job] = done], signal, inbox)
      BY <1>5, <1>6, <1>7, <1>10, <1>11, <1>12, <1>13, <1>14 DEF Enters, Terminal
<1> QED
    BY <1>3, <1>4, <1>8, <1>15 DEF p, done

\* finish_job commits with the effect: the job is SUCCEEDED, its step COMPLETED,
\* and the process advances.
LEMMA CommitStep ==
    ASSUME IInv, NEW c \in claims, Commit(c)
    PROVE  IInv'
<1> USE DEF IInv
<1> DEFINE p == c.job[1]
           done == DoneRow(c)
<1>1. /\ c.phase = "finishing" /\ ~ProcLocked(p)
      /\ SettleAttempt(c, "SUCCEEDED")
      /\ effects' = [effects EXCEPT ![c.job] = @ + 1]
      /\ Drop(c) \/ Become(c, Failing(c, TRUE))
      /\ UNCHANGED <<disabled, tx, selected>>
      BY DEF Commit
<1>2. c \in Claim /\ c.job \in Jobs
      BY NoClaimYet
<1>3. p \in Procs /\ HoldsLease(c) /\ Enters(p, [job EXCEPT ![c.job] = done], signal, inbox)
      BY CommitEnters
<1>4. done \in JobRow /\ done.state = "SUCCEEDED" /\ done.version = job[c.job].version
      BY CommitEnters
<1> HIDE DEF p, done
<1>5. PICK db : \E s \in Steps : /\ Landing(db, p, s) /\ EnterStep(db, p, s)
                                  /\ db.job = [job EXCEPT ![c.job] = done]
                                  /\ selected' \subseteq db.inbox
      BY <1>3 DEF Enters
<1>6. PICK s \in Steps : /\ Landing(db, p, s) /\ EnterStep(db, p, s)
                         /\ db.job = [job EXCEPT ![c.job] = done]
                         /\ selected' \subseteq db.inbox
      BY <1>5
<1>7. db.job[c.job] = done /\ \A j \in Jobs : j # c.job => db.job[j] = job[j]
      BY <1>2, <1>6, <1>4 DEF TypeOK
<1>8. /\ proc' \in [Procs -> ProcRow]
      /\ step' \in [Procs -> [Steps -> StepRow]]
      /\ job' \in [Jobs -> JobRow]
      /\ signal' \subseteq SignalRow
      /\ inbox' \subseteq InboxRow
      /\ \A r \in selected : r \in db.inbox => r \in inbox'
      /\ TablesAgree'
      /\ Ranked'
      /\ \A j \in Jobs : \/ job'[j] = db.job[j]
                         \/ db.job[j].state = "NONE" /\ job'[j] = NewJob
      /\ \A q \in Procs : q # p => step'[q] = step[q]
      BY <1>3, <1>6, EnterStepKeeps
<1>9. job'[c.job] = done /\ \A j \in Jobs : j # c.job =>
          \/ job'[j] = job[j]
          \/ job[j].state = "NONE" /\ job'[j] = NewJob
      BY <1>2, <1>4, <1>7, <1>8
<1>10. \A d \in claims' : \E e \in claims : /\ d.job = e.job /\ d.version = e.version /\ d \in Claim
                                            /\ d.phase = "failing" \/ (d = e /\ e # c)
                                            /\ d # e => e = c
  <2>1. LET f == Failing(c, TRUE)
        IN  f \in Claim /\ f.job = c.job /\ f.version = c.version /\ f.phase = "failing"
        BY <1>2 DEF Failing, Claim, Phases
  <2>2. claims' \subseteq (claims \ {c}) \cup {Failing(c, TRUE)} /\ claims \subseteq Claim
        BY <1>1 DEF Drop, Become, TypeOK
  <2> QED  BY <2>1, <2>2
<1>11. \A d \in claims : d.job \in Jobs /\ d.version \in 1..MaxLease /\ job[d.job].state # "NONE"
      BY NoClaimYet
<1>12. TypeOK'
  <2>1. attempt' \in [Jobs -> [1..MaxLease -> AttemptStates]]
        BY <1>1, SettleKeepsType DEF AttemptStates
  <2>2. effects' \in [Jobs -> Nat]
        BY <1>1, <1>2 DEF TypeOK
  <2>3. selected' \subseteq inbox' /\ claims' \subseteq Claim
        BY <1>1, <1>6, <1>8, <1>10 DEF TypeOK
  <2> QED  BY <1>1, <1>8, <2>1, <2>2, <2>3 DEF TypeOK
<1>13. OneEffect'
  <2> SUFFICES ASSUME NEW j \in Jobs PROVE OneEffect!(j)'
      BY DEF OneEffect
  <2>1. effects[j] = IF job[j].state = "SUCCEEDED" THEN 1 ELSE 0
        BY DEF OneEffect
  <2>2. effects'[j] = IF j = c.job THEN effects[j] + 1 ELSE effects[j]
        BY <1>1, <1>2 DEF TypeOK
  <2>3. CASE j = c.job
        BY <2>1, <2>2, <2>3, <1>3, <1>4, <1>9 DEF HoldsLease
  <2>4. CASE j # c.job
        BY <2>1, <2>2, <2>4, <1>9 DEF NewJob
  <2> QED  BY <2>3, <2>4
<1>14. LeaseExclusive'
  <2> SUFFICES ASSUME NEW d \in claims', NEW e \in claims',
                      d.job = e.job, d.version = e.version
               PROVE  d = e
      BY DEF LeaseExclusive
  <2>1. claims' \subseteq (claims \ {c}) \cup {Failing(c, TRUE)}
        BY <1>1 DEF Drop, Become
  <2>2. Failing(c, TRUE).job = c.job /\ Failing(c, TRUE).version = c.version
        BY <1>2 DEF Failing, Claim
  <2> QED  BY <2>1, <2>2 DEF LeaseExclusive
<1>15. FinishingHolds'
  <2> SUFFICES ASSUME NEW d \in claims', d.phase = "finishing"
               PROVE  /\ HoldsLease(d)'
                      /\ \A e \in claims' : e.phase = "finishing" /\ e.job = d.job => e = d
      BY DEF FinishingHolds
  <2>1. d \in claims /\ d # c /\ \A e \in claims' : e.phase = "finishing" => e \in claims
        BY <1>10
  <2>2. /\ HoldsLease(d) /\ d.job # c.job
        /\ \A e \in claims : e.phase = "finishing" /\ e.job = d.job => e = d
        BY <1>1, <2>1 DEF FinishingHolds
  <2>3. job'[d.job] = job[d.job]
        BY <1>9, <1>11, <2>1, <2>2
  <2> QED  BY <2>1, <2>2, <2>3 DEF HoldsLease
<1>16. ClaimFacts'
  <2> SUFFICES ASSUME NEW d \in claims'
               PROVE  /\ d.version <= job'[d.job].version
                      /\ d.phase \in {"invoked", "finishing"} => d.outcome \in Allowed[d.job[2]]
      BY DEF ClaimFacts
  <2>1. PICK e \in claims : /\ d.job = e.job /\ d.version = e.version
                            /\ d.phase = "failing" \/ (d = e /\ e # c)
        BY <1>10
  <2>2. /\ e.version <= job[e.job].version
        /\ e.phase \in {"invoked", "finishing"} => e.outcome \in Allowed[e.job[2]]
        BY DEF ClaimFacts
  <2>3. job'[e.job].version = job[e.job].version
        BY <1>4, <1>9, <1>11
  <2> QED  BY <2>1, <2>2, <2>3
<1>17. VersionLeft'
  <2> SUFFICES ASSUME NEW j \in Jobs PROVE VersionLeft!(j)'
      BY DEF VersionLeft
  <2>1. CASE job'[j] = done
        BY <2>1, <1>4
  <2>2. CASE job'[j] = job[j]
        BY <2>2 DEF VersionLeft
  <2>3. CASE job'[j] = NewJob
        BY <2>3, LeaseBound DEF NewJob
  <2> QED  BY <2>1, <2>2, <2>3, <1>9
<1>18. LockedWait'
  <2> SUFFICES ASSUME NEW t \in tx', t.phase = "locked"
               PROVE  /\ t.wait # None => t.wait \in WaitingAt(t.row.proc)'
                      /\ \A u \in tx' : u.phase = "locked" /\ u.row.proc = t.row.proc => u = t
      BY DEF LockedWait
  <2>1. t \in tx /\ tx' = tx /\ t.row.proc \in Procs /\ t.row.proc # p
        BY <1>1 DEF TypeOK, Tx, SignalRow, Message, ProcLocked
  <2>2. WaitingAt(t.row.proc)' = WaitingAt(t.row.proc)
        BY <1>8, <2>1 DEF WaitingAt
  <2> QED  BY <2>1, <2>2 DEF LockedWait
<1> QED
    BY <1>8, <1>12, <1>13, <1>14, <1>15, <1>16, <1>17, <1>18

\* What a failed claim leaves in order: its job changes but keeps its version,
\* and no worker is about to commit it.
LEMMA FailedKeeps ==
    ASSUME IInv, NEW c \in claims, Drop(c), ~JobLocked(c.job), HoldsLease(c), UNCHANGED effects,
           NEW row \in JobRow, job' = [job EXCEPT ![c.job] = row],
           row.version = job[c.job].version, row.state \in {"RETRY_WAIT", "DEAD"},
           row.state = "RETRY_WAIT" => row.version < MaxLease
    PROVE  /\ job' \in [Jobs -> JobRow]
           /\ \A j \in Jobs : job'[j] = IF j = c.job THEN row ELSE job[j]
           /\ OneEffect' /\ LeaseExclusive' /\ FinishingHolds' /\ ClaimFacts' /\ VersionLeft'
<1> USE DEF IInv
<1>1. c.job \in Jobs /\ \A d \in claims : d.job \in Jobs
      BY NoClaimYet
<1>2. job' \in [Jobs -> JobRow] /\ \A j \in Jobs : job'[j] = IF j = c.job THEN row ELSE job[j]
      BY <1>1 DEF TypeOK
<1>3. OneEffect'
      BY <1>2 DEF OneEffect, HoldsLease
<1>4. claims' \subseteq claims
      BY DEF Drop
<1>5. LeaseExclusive'
      BY <1>4 DEF LeaseExclusive
<1>6. \A d \in claims : d.phase = "finishing" => d.job # c.job /\ job'[d.job] = job[d.job]
      BY <1>1, <1>2 DEF JobLocked
<1>7. FinishingHolds'
      BY <1>4, <1>6 DEF FinishingHolds, HoldsLease
<1>8. \A d \in claims : job'[d.job].version = job[d.job].version
      BY <1>1, <1>2
<1>9. ClaimFacts'
      BY <1>4, <1>8 DEF ClaimFacts
<1>10. VersionLeft'
  <2> SUFFICES ASSUME NEW j \in Jobs PROVE VersionLeft!(j)'
      BY DEF VersionLeft
  <2>1. CASE j = c.job  BY <1>2, <2>1
  <2>2. CASE j # c.job  BY <1>2, <2>2 DEF VersionLeft
  <2> QED  BY <2>1, <2>2
<1> QED
    BY <1>2, <1>3, <1>5, <1>7, <1>9, <1>10

\* A retryable failure within the budget.
LEMMA FailRetryStep ==
    ASSUME IInv, NEW c \in claims, FailRetry(c)
    PROVE  IInv'
<1> USE DEF IInv
<1> DEFINE row == [job[c.job] EXCEPT !.state = "RETRY_WAIT", !.owner = None, !.due = FALSE]
<1>1. /\ ~JobLocked(c.job) /\ HoldsLease(c) /\ Drop(c) /\ SettleAttempt(c, "FAILED")
      /\ BudgetLeft(c)
      /\ job' = [job EXCEPT ![c.job] = row]
      /\ UNCHANGED <<proc, step, effects, disabled, signal, inbox, tx, selected>>
      BY DEF FailRetry
<1>2. c.job \in Jobs /\ job[c.job] \in JobRow /\ c.job[2] \in AutoSteps /\ c.job[2] \in Steps
      BY NoClaimYet DEF TypeOK, Jobs, AutoSteps
<1>3. row \in JobRow /\ row.version = job[c.job].version /\ row.state = "RETRY_WAIT"
      BY <1>2 DEF JobRow, JobStates
<1>4. row.version < MaxLease
  <2>1. MaxAttempts[c.job[2]] \in Nat /\ MaxAttempts[c.job[2]] <= MaxLease /\ MaxLease \in Nat
        BY <1>2, MapTypes, BoundLeavesRetries, WorkflowTypes
  <2>2. job[c.job].version \in Nat
        BY <1>2, WorkflowTypes DEF JobRow
  <2> QED  BY <1>1, <1>3, <2>1, <2>2 DEF BudgetLeft
<1> HIDE DEF row
<1>5. /\ job' \in [Jobs -> JobRow]
      /\ \A j \in Jobs : job'[j] = IF j = c.job THEN row ELSE job[j]
      /\ OneEffect' /\ LeaseExclusive' /\ FinishingHolds' /\ ClaimFacts' /\ VersionLeft'
      BY <1>1, <1>3, <1>4, FailedKeeps
<1>6. TypeOK'
  <2>1. attempt' \in [Jobs -> [1..MaxLease -> AttemptStates]]
        BY <1>1, SettleKeepsType DEF AttemptStates
  <2> QED  BY <1>1, <1>5, <2>1 DEF TypeOK, Drop
<1>7. JobMatchesStep'
  <2> SUFFICES ASSUME NEW q \in Procs, NEW x \in AutoSteps PROVE JobMatchesStep!(q, x)'
      BY DEF JobMatchesStep
  <2>1. JobMatchesStep!(q, x) /\ <<q, x>> \in Jobs
        BY DEF TablesAgree, JobMatchesStep, Jobs
  <2>2. CASE <<q, x>> = c.job
    <3>1. job[<<q, x>>].state = "LEASED"  BY <2>2, <1>1 DEF HoldsLease
    <3>2. job'[<<q, x>>].state = "RETRY_WAIT"  BY <2>1, <2>2, <1>3, <1>5
    <3> QED  BY <2>1, <3>1, <3>2, <1>1
  <2>3. CASE <<q, x>> # c.job
        BY <2>1, <2>3, <1>1, <1>5
  <2> QED  BY <2>2, <2>3
<1>8. CurrentStepRules'
      BY <1>1 DEF TablesAgree, CurrentStepRules
<1>9. Ranked' /\ LockedWait'
      BY <1>1 DEF Ranked, LockedWait, WaitingAt
<1> QED
    BY <1>5, <1>6, <1>7, <1>8, <1>9 DEF TablesAgree

\* A failure beyond the budget, or one that is not retryable.
LEMMA FailDeadStep ==
    ASSUME IInv, NEW c \in claims, FailDead(c)
    PROVE  IInv'
<1> USE DEF IInv
<1> DEFINE p == c.job[1]
           s == c.job[2]
           row == [job[c.job] EXCEPT !.state = "DEAD", !.owner = None, !.due = FALSE]
<1>1. /\ ~JobLocked(c.job) /\ HoldsLease(c) /\ Drop(c) /\ SettleAttempt(c, "FAILED")
      /\ job' = [job EXCEPT ![c.job] = row]
      /\ step' = [step EXCEPT ![p][s].state = "FAILED"]
      /\ proc' = [proc EXCEPT ![p].state = "FAILED"]
      /\ UNCHANGED <<effects, disabled, signal, inbox, tx, selected>>
      BY DEF FailDead
<1>2. c.job \in Jobs /\ job[c.job] \in JobRow
      BY NoClaimYet DEF TypeOK
<1>3. p \in Procs /\ s \in AutoSteps /\ s \in Steps /\ c.job = <<p, s>>
      BY <1>2 DEF Jobs, AutoSteps
<1>4. row \in JobRow /\ row.version = job[c.job].version /\ row.state = "DEAD"
      BY <1>2 DEF JobRow, JobStates
<1>5. job[<<p, s>>].state \in LiveJob
      BY <1>1, <1>3 DEF HoldsLease, LiveJob
<1> HIDE DEF row, p, s
<1>6. proc[p].current = s /\ proc[p].state = "RUNNING"
      BY <1>3, <1>5, LeasedIsCurrent
<1>7. /\ job' \in [Jobs -> JobRow]
      /\ \A j \in Jobs : job'[j] = IF j = c.job THEN row ELSE job[j]
      /\ OneEffect' /\ LeaseExclusive' /\ FinishingHolds' /\ ClaimFacts' /\ VersionLeft'
      BY <1>1, <1>4, FailedKeeps
<1>8. /\ step' \in [Procs -> [Steps -> StepRow]]
      /\ \A q \in Procs, x \in Steps :
            step'[q][x] = IF q = p /\ x = s THEN [step[p][s] EXCEPT !.state = "FAILED"]
                          ELSE step[q][x]
  <2>1. step \in [Procs -> [Steps -> StepRow]] /\ step[p][s] \in StepRow
        BY <1>3 DEF TypeOK
  <2>2. [step[p][s] EXCEPT !.state = "FAILED"] \in StepRow
        BY <2>1 DEF StepRow, StepStates
  <2>3. step' = [step EXCEPT ![p][s] = [step[p][s] EXCEPT !.state = "FAILED"]]
        BY <1>1, <1>3, <2>1
  <2> QED  BY <1>3, <2>1, <2>2, <2>3
<1>9. /\ proc' \in [Procs -> ProcRow]
      /\ \A q \in Procs : proc'[q] = IF q = p THEN [proc[p] EXCEPT !.state = "FAILED"] ELSE proc[q]
  <2>1. proc \in [Procs -> ProcRow] /\ proc[p] \in ProcRow
        BY <1>3 DEF TypeOK
  <2>2. [proc[p] EXCEPT !.state = "FAILED"] \in ProcRow
        BY <2>1 DEF ProcRow, ProcStates
  <2> QED  BY <1>1, <1>3, <2>1, <2>2
<1>10. step'[p][s].state = "FAILED" /\ proc'[p].state = "FAILED" /\ proc'[p].current = s
  <2>1. step[p][s] \in StepRow /\ proc[p] \in ProcRow
        BY <1>3 DEF TypeOK
  <2> QED  BY <1>3, <1>6, <1>8, <1>9, <2>1 DEF StepRow, ProcRow
<1>11. TypeOK'
  <2>1. attempt' \in [Jobs -> [1..MaxLease -> AttemptStates]]
        BY <1>1, SettleKeepsType DEF AttemptStates
  <2> QED  BY <1>1, <1>7, <1>8, <1>9, <2>1 DEF TypeOK, Drop
<1>12. JobMatchesStep'
  <2> SUFFICES ASSUME NEW q \in Procs, NEW x \in AutoSteps PROVE JobMatchesStep!(q, x)'
      BY DEF JobMatchesStep
  <2>1. JobMatchesStep!(q, x) /\ <<q, x>> \in Jobs /\ x \in Steps
        BY DEF TablesAgree, JobMatchesStep, Jobs, AutoSteps
  <2>2. CASE q = p /\ x = s
    <3>1. job'[<<q, x>>].state = "DEAD"  BY <2>1, <2>2, <1>3, <1>4, <1>7
    <3> QED  BY <2>2, <3>1, <1>10
  <2>3. CASE ~(q = p /\ x = s)
    <3>1. job'[<<q, x>>] = job[<<q, x>>] /\ step'[q][x] = step[q][x]
          BY <2>1, <2>3, <1>3, <1>7, <1>8
    <3> QED  BY <2>1, <3>1
  <2> QED  BY <2>2, <2>3
<1>13. CurrentStepRules'
  <2> SUFFICES ASSUME NEW q \in Procs PROVE CurrentStepRules!(q)'
      BY DEF CurrentStepRules
  <2>1. CASE q # p
        BY <2>1, <1>8, <1>9 DEF TablesAgree, CurrentStepRules
  <2>2. CASE q = p
    <3>1. \A x \in Steps \ {s} : step'[p][x].state \in {"NONE", "COMPLETED"}
          BY <1>3, <1>6, <1>8 DEF TablesAgree, CurrentStepRules
    <3>2. StepType[s] = "AUTOMATIC"
          BY <1>3 DEF AutoSteps
    <3> QED  BY <2>2, <3>1, <3>2, <1>3, <1>10
  <2> QED  BY <2>1, <2>2
<1>14. Ranked'
  <2> SUFFICES ASSUME NEW q \in Procs, NEW x \in Steps PROVE Ranked!(q, x)'
      BY DEF Ranked
  <2>1. Ranked!(q, x)
        BY DEF Ranked
  <2>2. CASE q # p
        BY <2>1, <2>2, <1>8, <1>9
  <2>3. CASE q = p
        BY <2>1, <2>3, <1>3, <1>6, <1>8, <1>10
  <2> QED  BY <2>2, <2>3
<1>15. LockedWait'
  <2>1. \A q \in Procs : WaitingAt(q)' = WaitingAt(q)
        BY <1>3, <1>8 DEF WaitingAt, WaitSteps, AutoSteps
  <2> QED  BY <1>1, <2>1, WaitingUntouched
<1> QED
    BY <1>7, <1>11, <1>12, <1>13, <1>14, <1>15 DEF TablesAgree

\* claim_jobs: every claimed job gets a version no claim has had, is the job of a
\* running process's current step, and is not about to be committed.
LEMMA ClaimJobsStep ==
    ASSUME IInv, NEW w \in Workers, ClaimJobs(w)
    PROVE  IInv'
<1> USE DEF IInv
<1>1. PICK S \in SUBSET (Due \cup Expiring) :
        LET dead == {j \in S : ActionDisabled(j)}
        IN  /\ attempt' = [j \in Jobs |-> [v \in 1..MaxLease |->
                    IF j \in S /\ v = job[j].version + 1
                    THEN IF j \in dead THEN "FAILED" ELSE "RUNNING"
                    ELSE IF attempt[j][v] = "RUNNING" /\ job[j].state = "LEASED" /\ job[j].due
                    THEN "STALE" ELSE attempt[j][v]]]
            /\ job' = [j \in Jobs |->
                    IF j \notin S THEN job[j]
                    ELSE [state   |-> IF j \in dead THEN "DEAD" ELSE "LEASED",
                          owner   |-> IF j \in dead THEN None ELSE OwnerOf[w],
                          version |-> job[j].version + 1,
                          due     |-> FALSE]]
            /\ step' = [p \in Procs |-> [s \in Steps |->
                    IF <<p, s>> \notin S THEN step[p][s]
                    ELSE [step[p][s] EXCEPT
                            !.state = IF s \in disabled THEN "FAILED" ELSE "RUNNING"]]]
            /\ proc' = [p \in Procs |->
                    IF \E j \in dead : j[1] = p
                    THEN [proc[p] EXCEPT !.state = "FAILED"] ELSE proc[p]]
            /\ claims' = claims \cup
                    {[by |-> w, job |-> j, version |-> job[j].version + 1,
                      phase |-> "queued", outcome |-> None, retry |-> FALSE] : j \in S \ dead}
      BY DEF ClaimJobs, NextLease
<1> DEFINE dead == {j \in S : ActionDisabled(j)}
           New(j) == [by |-> w, job |-> j, version |-> job[j].version + 1,
                      phase |-> "queued", outcome |-> None, retry |-> FALSE]
<1>2. UNCHANGED <<effects, disabled, signal, inbox, tx, selected>>
      BY DEF ClaimJobs
<1>3. \A j \in S : /\ j \in Jobs /\ job[j].state \in LiveJob /\ ~JobLocked(j)
                   /\ job[j].version < MaxLease
      BY <1>1 DEF Due, Expiring, VersionLeft, LiveJob
<1>4. \A j \in S : job[j].version \in Nat /\ job[j].version + 1 \in 1..MaxLease
  <2>1. \A j \in Jobs : job[j].version \in 0..MaxLease
        BY DEF TypeOK, JobRow
  <2> QED  BY <1>3, <2>1, WorkflowTypes
<1>5. /\ \A j \in Jobs : j \notin S => job'[j] = job[j]
      /\ \A j \in S : /\ job'[j].state = IF j \in dead THEN "DEAD" ELSE "LEASED"
                      /\ job'[j].version = job[j].version + 1
                      /\ ~job'[j].due
      BY <1>1, <1>3
<1>6. job' \in [Jobs -> JobRow]
  <2>1. ASSUME NEW j \in S
        PROVE  [state   |-> IF j \in dead THEN "DEAD" ELSE "LEASED",
                owner   |-> IF j \in dead THEN None ELSE OwnerOf[w],
                version |-> job[j].version + 1,
                due     |-> FALSE] \in JobRow
    <3>1. OwnerOf[w] \in Owners  BY WorkflowTypes
    <3>2. job[j].version + 1 \in 0..MaxLease  BY <1>4, WorkflowTypes
    <3> QED  BY <3>1, <3>2 DEF JobRow, JobStates
  <2> QED  BY <1>1, <2>1 DEF TypeOK
<1>7. \A q \in Procs, x \in Steps : <<q, x>> \in S =>
          /\ x \in AutoSteps /\ StepType[x] = "AUTOMATIC"
          /\ proc[q].current = x /\ proc[q].state = "RUNNING"
          /\ (<<q, x>> \in dead <=> x \in disabled)
  <2> SUFFICES ASSUME NEW q \in Procs, NEW x \in Steps, <<q, x>> \in S
               PROVE  /\ x \in AutoSteps /\ StepType[x] = "AUTOMATIC"
                      /\ proc[q].current = x /\ proc[q].state = "RUNNING"
                      /\ (<<q, x>> \in dead <=> x \in disabled)
      OBVIOUS
  <2>1. x \in AutoSteps /\ job[<<q, x>>].state \in LiveJob
        BY <1>3 DEF Jobs
  <2> QED  BY <2>1, LeasedIsCurrent DEF AutoSteps, ActionDisabled
<1>8. /\ step' \in [Procs -> [Steps -> StepRow]]
      /\ \A q \in Procs, x \in Steps :
            IF <<q, x>> \in S
            THEN step'[q][x].state = IF x \in disabled THEN "FAILED" ELSE "RUNNING"
            ELSE step'[q][x] = step[q][x]
  <2>1. step \in [Procs -> [Steps -> StepRow]]
        BY DEF TypeOK
  <2>2. \A q \in Procs, x \in Steps :
            LET e == [step[q][x] EXCEPT !.state = IF x \in disabled THEN "FAILED" ELSE "RUNNING"]
            IN  e \in StepRow /\ e.state = IF x \in disabled THEN "FAILED" ELSE "RUNNING"
        BY <2>1 DEF StepRow, StepStates
  <2>3. step' = [q \in Procs |-> [x \in Steps |->
                    IF <<q, x>> \notin S THEN step[q][x]
                    ELSE [step[q][x] EXCEPT
                            !.state = IF x \in disabled THEN "FAILED" ELSE "RUNNING"]]]
        BY <1>1
  <2> QED  BY <2>1, <2>2, <2>3
<1>9. /\ proc' \in [Procs -> ProcRow]
      /\ \A q \in Procs :
            IF \E j \in dead : j[1] = q
            THEN proc'[q].state = "FAILED" /\ proc'[q].current = proc[q].current
            ELSE proc'[q] = proc[q]
  <2>1. proc \in [Procs -> ProcRow]
        BY DEF TypeOK
  <2>2. \A q \in Procs :
            LET e == [proc[q] EXCEPT !.state = "FAILED"]
            IN  e \in ProcRow /\ e.state = "FAILED" /\ e.current = proc[q].current
        BY <2>1 DEF ProcRow, ProcStates
  <2>3. proc' = [q \in Procs |-> IF \E j \in dead : j[1] = q
                                 THEN [proc[q] EXCEPT !.state = "FAILED"] ELSE proc[q]]
        BY <1>1
  <2> HIDE DEF dead
  <2> QED  BY <2>1, <2>2, <2>3
<1>10. \A q \in Procs : (\E j \in dead : j[1] = q) <=>
          \E x \in Steps : <<q, x>> \in S /\ x \in disabled
  <2> SUFFICES ASSUME NEW q \in Procs
               PROVE  (\E j \in dead : j[1] = q) <=>
                        \E x \in Steps : <<q, x>> \in S /\ x \in disabled
      OBVIOUS
  <2>1. ASSUME NEW j \in dead, j[1] = q
        PROVE  \E x \in Steps : <<q, x>> \in S /\ x \in disabled
    <3>1. j \in S /\ j \in Jobs /\ j[2] \in disabled
          BY <1>3 DEF ActionDisabled
    <3>2. j = <<q, j[2]>> /\ j[2] \in Steps
          BY <2>1, <3>1 DEF Jobs, AutoSteps
    <3> QED  BY <3>1, <3>2
  <2>2. ASSUME NEW x \in Steps, <<q, x>> \in S, x \in disabled
        PROVE  <<q, x>> \in dead /\ <<q, x>>[1] = q
        BY <2>2 DEF ActionDisabled
  <2> HIDE DEF dead
  <2> QED  BY <2>1, <2>2
<1>11. claims' = claims \cup {New(j) : j \in S \ dead}
      BY <1>1
<1>12. \A j \in S : New(j) \in Claim
      BY <1>3, <1>4 DEF Claim, Phases
<1>13. attempt' \in [Jobs -> [1..MaxLease -> AttemptStates]]
  <2>1. attempt \in [Jobs -> [1..MaxLease -> AttemptStates]]
        BY DEF TypeOK
  <2> QED  BY <1>1, <2>1 DEF AttemptStates
<1> HIDE DEF dead, New
<1>14. TypeOK'
  <2>1. claims' \subseteq Claim
        BY <1>11, <1>12 DEF TypeOK
  <2> QED  BY <1>2, <1>6, <1>8, <1>9, <1>13, <2>1 DEF TypeOK
<1>15. JobMatchesStep'
  <2> SUFFICES ASSUME NEW q \in Procs, NEW x \in AutoSteps PROVE JobMatchesStep!(q, x)'
      BY DEF JobMatchesStep
  <2>1. JobMatchesStep!(q, x) /\ <<q, x>> \in Jobs /\ x \in Steps
        BY DEF TablesAgree, JobMatchesStep, Jobs, AutoSteps
  <2>2. CASE <<q, x>> \in S
        BY <2>1, <2>2, <1>5, <1>7, <1>8
  <2>3. CASE <<q, x>> \notin S
        BY <2>1, <2>3, <1>5, <1>8
  <2> QED  BY <2>2, <2>3
<1>16. CurrentStepRules'
  <2> SUFFICES ASSUME NEW q \in Procs PROVE CurrentStepRules!(q)'
      BY DEF CurrentStepRules
  <2>1. CurrentStepRules!(q)
        BY DEF TablesAgree, CurrentStepRules
  <2>2. CASE \A x \in Steps : <<q, x>> \notin S
    <3>1. proc'[q] = proc[q]
          BY <2>2, <1>9, <1>10
    <3>2. \A x \in Steps : step'[q][x] = step[q][x]
          BY <2>2, <1>8
    <3> QED  BY <2>1, <3>1, <3>2
  <2>3. ASSUME NEW x \in Steps, <<q, x>> \in S PROVE CurrentStepRules!(q)'
    <3>1. /\ StepType[x] = "AUTOMATIC" /\ proc[q].current = x /\ proc[q].state = "RUNNING"
          /\ \A y \in Steps : <<q, y>> \in S => y = x
          BY <2>3, <1>7
    <3>2. \A y \in Steps \ {x} : step'[q][y].state \in {"NONE", "COMPLETED"}
          BY <2>1, <3>1, <1>8
    <3>3. step'[q][x].state = IF x \in disabled THEN "FAILED" ELSE "RUNNING"
          BY <2>3, <1>8
    <3>4. /\ proc'[q].current = x
          /\ proc'[q].state = IF x \in disabled THEN "FAILED" ELSE "RUNNING"
      <4>1. (\E j \in dead : j[1] = q) <=> x \in disabled
            BY <2>3, <3>1, <1>10
      <4> QED  BY <3>1, <4>1, <1>9
    <3> QED  BY <3>1, <3>2, <3>3, <3>4
  <2> QED  BY <2>2, <2>3
<1>17. Ranked'
  <2> SUFFICES ASSUME NEW q \in Procs, NEW x \in Steps PROVE Ranked!(q, x)'
      BY DEF Ranked
  <2>1. Ranked!(q, x)
        BY DEF Ranked
  <2>2. proc'[q].current = proc[q].current
        BY <1>9
  <2>3. CASE <<q, x>> \in S
        BY <2>2, <2>3, <1>7
  <2>4. CASE <<q, x>> \notin S
        BY <2>1, <2>2, <2>4, <1>8
  <2> QED  BY <2>3, <2>4
<1>18. OneEffect'
      BY <1>2, <1>3, <1>5 DEF OneEffect, LiveJob
<1>19. \A j \in S : New(j).job = j /\ New(j).version = job[j].version + 1 /\ New(j).phase = "queued"
      BY DEF New
<1>20. \A c \in claims : /\ c.job \in Jobs /\ c.version \in 1..MaxLease
                         /\ c.version <= job[c.job].version /\ job[c.job].version \in Nat
  <2>1. \A c \in claims : c.job \in Jobs /\ c.version \in 1..MaxLease
        BY NoClaimYet
  <2>2. \A j \in Jobs : job[j].version \in Nat
        BY WorkflowTypes DEF TypeOK, JobRow
  <2> QED  BY <2>1, <2>2 DEF ClaimFacts
<1>21. LeaseExclusive'
  <2> SUFFICES ASSUME NEW c \in claims', NEW d \in claims', c.job = d.job, c.version = d.version
               PROVE  c = d
      BY DEF LeaseExclusive
  <2>1. CASE c \in claims /\ d \in claims
        BY <2>1 DEF LeaseExclusive
  <2>2. ASSUME NEW e \in claims, NEW j \in S, e.job = New(j).job, e.version = New(j).version
        PROVE  FALSE
        BY <2>2, <1>4, <1>19, <1>20
  <2>3. ASSUME NEW j \in S, NEW k \in S, New(j).job = New(k).job PROVE New(j) = New(k)
        BY <2>3, <1>19
  <2> QED  BY <2>1, <2>2, <2>3, <1>11
<1>22. \A c \in claims' : c.phase = "finishing" =>
          c \in claims /\ c.job \in Jobs /\ job'[c.job] = job[c.job]
      BY <1>3, <1>5, <1>11, <1>19, <1>20 DEF JobLocked
<1>23. FinishingHolds'
      BY <1>22 DEF FinishingHolds, HoldsLease
<1>24. ClaimFacts'
  <2> SUFFICES ASSUME NEW c \in claims'
               PROVE  /\ c.version <= job'[c.job].version
                      /\ c.phase \in {"invoked", "finishing"} => c.outcome \in Allowed[c.job[2]]
      BY DEF ClaimFacts
  <2>1. ASSUME NEW j \in S, c = New(j) PROVE ClaimFacts!(c)'
        BY <2>1, <1>4, <1>5, <1>19
  <2>2. CASE c \in claims
        BY <2>2, <1>5, <1>20 DEF ClaimFacts
  <2> QED  BY <2>1, <2>2, <1>11
<1>25. VersionLeft'
      BY <1>5 DEF VersionLeft
<1>26. LockedWait'
  <2>1. \A q \in Procs : WaitingAt(q)' = WaitingAt(q)
    <3> SUFFICES ASSUME NEW q \in Procs, NEW x \in WaitSteps
                 PROVE  step'[q][x].state = step[q][x].state
        BY DEF WaitingAt
    <3>1. x \in Steps /\ <<q, x>> \notin S
          BY <1>7 DEF WaitSteps
    <3> QED  BY <3>1, <1>8
  <2> QED  BY <1>2, <2>1, WaitingUntouched
<1> QED
    BY <1>14, <1>15, <1>16, <1>17, <1>18, <1>21, <1>23, <1>24, <1>25, <1>26 DEF TablesAgree

-----------------------------------------------------------------------------
(* The theorems. *)

\* Every step of every actor keeps the invariant.
LEMMA NextIInv == IInv /\ [Next]_vars => IInv'
<1> SUFFICES ASSUME IInv, [Next]_vars PROVE IInv'
    OBVIOUS
<1>1. ASSUME NEW c \in claims, WorkerStep(c) PROVE IInv'
      BY <1>1, WorkerQuietStep, CommitStep, FailRetryStep, FailDeadStep DEF WorkerStep
<1>2. ASSUME NEW t \in tx, SignalLock(t) \/ SignalCommit(t) PROVE IInv'
      BY <1>2, SignalLockStep, SignalCommitStep
<1>3. ASSUME NEW w \in Workers, Crash(w) PROVE IInv'
      BY <1>3, ClaimsDropped DEF Crash
<1>4. CASE UNCHANGED vars
      BY <1>4, ClaimsDropped DEF vars, DbUnchanged
<1> QED
    BY <1>1, <1>2, <1>3, <1>4, OutsideSteps, StartProcessStep, ManualDecisionStep,
       TimePassesStep, ClaimJobsStep DEF Next

\* The invariant holds in every reachable state.
THEOREM Invariance == Spec => []IInv
<1>1. Init => IInv
      BY InitIInv
<1>2. IInv /\ [Next]_vars => IInv'
      BY NextIInv
<1> QED
    BY <1>1, <1>2, PTL DEF Spec

\* Every table and every worker's and client's state keeps its type: in particular
\* no lease version passes the bound the model gives it.
THEOREM TypeCorrect == Spec => []TypeOK
<1>1. IInv => TypeOK
      BY DEF IInv
<1> QED
    BY <1>1, Invariance, PTL

\* The process, step and job tables agree in every reachable state, for every map,
\* whatever workers, signals, decisions and crashes interleave.
THEOREM Agreement == Spec => []TablesAgree
<1>1. IInv => TablesAgree
      BY DEF IInv
<1> QED
    BY <1>1, Invariance, PTL

\* A job has exactly one effect once it has succeeded and none before: neither a
\* stale worker nor a reclaim nor a late acknowledgement repeats or loses it.
THEOREM EffectOnce == Spec => []OneEffect
<1>1. IInv => OneEffect
      BY DEF IInv
<1> QED
    BY <1>1, Invariance, PTL

\* No two workers ever hold the same version of a lease.
THEOREM LeaseRight == Spec => []LeaseExclusive
<1>1. IInv => LeaseExclusive
      BY DEF IInv
<1> QED
    BY <1>1, Invariance, PTL
===============================================================================
