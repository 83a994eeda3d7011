---------------------------- MODULE HistoryProofs -----------------------------
(***************************************************************************)
(* What the workflow tables record of a process stays true: its end is     *)
(* final, the attempts of a job tell its history, no job fails more often  *)
(* than its map allows, and its steps are a path of the map.  No signal is *)
(* lost and none is kept twice: the handshake between accept_signal, the   *)
(* inbox reconciler and _enter_step.  For every flow map, every number of  *)
(* processes, workers, clients, senders and messages, and every lease      *)
(* bound.                                                                  *)
(***************************************************************************)
EXTENDS WorkflowProofs, FiniteSetTheorems

-----------------------------------------------------------------------------
(* The steps that write the process, step, job or attempt table. *)

\* A process enters a step without a job of it having been finished: it starts,
\* is decided manually or gets its signal.
Entry ==
    UNCHANGED attempt /\ \E p \in Procs : \E sent, received : Enters(p, job, sent, received)

Quiet == UNCHANGED <<proc, step, job, attempt>>

\* Every step of the engine is one of these.
LEMMA TableSteps ==
    ASSUME IInv, [Next]_vars
    PROVE  \/ Quiet
           \/ Entry
           \/ \E j \in Jobs : TimePasses(j)
           \/ \E w \in Workers : ClaimJobs(w)
           \/ \E c \in claims : Commit(c) \/ FailRetry(c) \/ FailDead(c)
<1> USE DEF Quiet
<1>1. CASE UNCHANGED vars
      BY <1>1 DEF vars
<1>2. CASE \E p \in Procs : StartProcess(p)
  <2>1. PICK p \in Procs : StartProcess(p)
        BY <1>2
  <2>2. Enters(p, job, signal, inbox) /\ UNCHANGED attempt
        BY <2>1, StartEnters DEF StartProcess
  <2> QED  BY <2>2 DEF Entry
<1>3. CASE \E p \in Procs, o \in Outcome : ManualDecision(p, o)
  <2>1. PICK p \in Procs, o \in Outcome : ManualDecision(p, o)
        BY <1>3
  <2>2. Enters(p, job, signal, inbox) /\ UNCHANGED attempt
        BY <2>1, ManualEnters DEF ManualDecision
  <2> QED  BY <2>2 DEF Entry
<1>4. CASE \E t \in tx : SignalCommit(t)
  <2>1. PICK t \in tx : SignalCommit(t)
        BY <1>4
  <2>2. UNCHANGED attempt /\ t.row.proc \in Procs
        BY <2>1, SignalBaseFacts DEF SignalCommit
  <2>3. CASE t.wait # None /\ SignalType[t.wait] = t.row.type
        BY <2>1, <2>2, <2>3, SignalEnters DEF Entry
  <2>4. CASE ~(t.wait # None /\ SignalType[t.wait] = t.row.type)
        BY <2>1, <2>2, <2>4, SignalKept
  <2> QED  BY <2>3, <2>4
<1>5. CASE \E t \in tx : SignalLock(t) \/ SignalAbort(t)
      BY <1>5 DEF SignalLock, SignalAbort
<1>6. CASE \E c \in claims : WorkerStep(c)
  <2>1. PICK c \in claims : WorkerStep(c)
        BY <1>6
  <2>2. \/ Commit(c) \/ FailRetry(c) \/ FailDead(c)
        \/ DbUnchanged
        BY <2>1 DEF WorkerStep, ProcessJob, Invoke, InvokeRepeated, InvokeError, Timeout,
           DbFailure, FinishJob, CommitRefused, FailStale
  <2> QED  BY <2>2 DEF DbUnchanged
<1>7. CASE \E w \in Workers : Crash(w)
      BY <1>7 DEF Crash, DbUnchanged
<1>8. CASE ReconcilerStep
      BY <1>8 DEF ReconcilerStep, ReconcileSelect, ReconcileInsert, ReconcileDuplicate,
         ReconcileConflict
<1>9. CASE \E x \in Senders, r \in Message({"ACCEPTED"}) : SendSignal(x, r)
      BY <1>9 DEF SendSignal
<1>10. CASE \E m \in Msgs, p \in Procs, b \in Bodies : ReceiptArrives(m, p, b)
      BY <1>10 DEF ReceiptArrives
<1>11. CASE \E s \in AutoSteps : DisableAction(s)
      BY <1>11 DEF DisableAction
<1>12. CASE (\E j \in Jobs : TimePasses(j)) \/ \E w \in Workers : ClaimJobs(w)
      BY <1>12
<1> QED
    BY <1>1, <1>2, <1>3, <1>4, <1>5, <1>6, <1>7, <1>8, <1>9, <1>10, <1>11, <1>12 DEF Next

\* The process of a job that can be claimed or is leased is running.
LEMMA LiveIsRunning ==
    ASSUME IInv, NEW j \in Jobs, job[j].state \in LiveJob
    PROVE  /\ j[1] \in Procs /\ j[2] \in AutoSteps /\ j[2] \in Steps /\ j = <<j[1], j[2]>>
           /\ proc[j[1]].state = "RUNNING"
<1>1. /\ j[1] \in Procs /\ j[2] \in AutoSteps /\ j[2] \in Steps /\ j = <<j[1], j[2]>>
      BY DEF Jobs, AutoSteps
<1>2. TypeOK /\ TablesAgree /\ job[<<j[1], j[2]>>].state \in LiveJob
      BY <1>1 DEF IInv
<1> QED
    BY <1>1, <1>2, LeasedIsCurrent

\* What claim_jobs writes when it takes the jobs S.
ClaimWrites(w, S) ==
    LET dead == {j \in S : ActionDisabled(j)}
    IN  /\ attempt' = [j \in Jobs |-> [v \in 1..MaxLease |->
              IF j \in S /\ v = job[j].version + 1
              THEN IF j \in dead THEN "FAILED" ELSE "RUNNING"
              ELSE IF attempt[j][v] = "RUNNING" /\ job[j].state = "LEASED" /\ job[j].due
              THEN "STALE" ELSE attempt[j][v]]]
        /\ job' = [j \in Jobs |->
              IF j \notin S THEN job[j]
              ELSE [state   |-> IF j \in dead THEN "DEAD" ELSE "LEASED",
                    owner   |-> IF j \in dead THEN None ELSE OwnerOf[w],
                    version |-> job[j].version + 1,
                    due     |-> FALSE]]
        /\ step' = [p \in Procs |-> [s \in Steps |->
              IF <<p, s>> \notin S THEN step[p][s]
              ELSE [step[p][s] EXCEPT
                      !.state = IF s \in disabled THEN "FAILED" ELSE "RUNNING"]]]
        /\ proc' = [p \in Procs |->
              IF \E j \in dead : j[1] = p
              THEN [proc[p] EXCEPT !.state = "FAILED"] ELSE proc[p]]

\* The jobs it takes can be claimed.
LEMMA ClaimedRows ==
    ASSUME IInv, NEW w \in Workers, ClaimJobs(w)
    PROVE  \E S \in SUBSET Jobs : ClaimWrites(w, S) /\ \A j \in S : job[j].state \in LiveJob
<1>1. PICK S \in SUBSET (Due \cup Expiring) : ClaimWrites(w, S)
      BY DEF ClaimJobs, ClaimWrites, NextLease
<1>2. S \in SUBSET Jobs /\ \A j \in S : job[j].state \in LiveJob
      BY <1>1 DEF Due, Expiring, LiveJob
<1> QED
    BY <1>1, <1>2

-----------------------------------------------------------------------------
(* The end of a process is final. *)

\* The rows of process p stay as they are.
Kept(p) ==
    /\ proc'[p] = proc[p]
    /\ step'[p] = step[p]
    /\ \A s \in AutoSteps : job'[<<p, s>>] = job[<<p, s>>]

\* A step that only changes jobs of running processes keeps the jobs of p.
LEMMA EndedJobsKept ==
    ASSUME IInv, NEW p \in Procs, proc[p].state \in Terminal,
           NEW S \in SUBSET Jobs, \A j \in S : job[j].state \in LiveJob,
           \A j \in Jobs \ S : job'[j] = job[j]
    PROVE  /\ \A j \in S : j[1] # p
           /\ \A s \in AutoSteps : job'[<<p, s>>] = job[<<p, s>>]
<1>1. \A j \in S : proc[j[1]].state = "RUNNING"
      BY LiveIsRunning
<1>2. \A j \in S : j[1] # p
      BY <1>1 DEF Terminal
<1>3. \A s \in AutoSteps : <<p, s>> \in Jobs /\ <<p, s>>[1] = p
      BY DEF Jobs
<1> QED
    BY <1>2, <1>3

LEMMA EndedKept ==
    ASSUME IInv, [Next]_vars, NEW p \in Procs, proc[p].state \in Terminal
    PROVE  Kept(p)
<1> USE DEF Kept
<1>1. CASE Quiet
      BY <1>1 DEF Quiet
<1>2. CASE Entry
  <2>1. PICK q \in Procs : \E sent, received : Enters(q, job, sent, received)
        BY <1>2 DEF Entry
  <2>2. q # p
        BY <2>1 DEF Enters
  <2> QED  BY <2>1, <2>2, EntersAlone
<1>3. CASE \E j \in Jobs : TimePasses(j)
  <2>1. PICK j \in Jobs : TimePasses(j)
        BY <1>3
  <2>2. /\ job[j].state \in LiveJob /\ UNCHANGED <<proc, step>>
        /\ \A k \in Jobs \ {j} : job'[k] = job[k]
        BY <2>1 DEF TimePasses, LiveJob, IInv, TypeOK
  <2> DEFINE S == {j}
  <2>3. /\ S \in SUBSET Jobs /\ \A k \in S : job[k].state \in LiveJob
        /\ \A k \in Jobs \ S : job'[k] = job[k]
        BY <2>2
  <2> HIDE DEF S
  <2>4. \A s \in AutoSteps : job'[<<p, s>>] = job[<<p, s>>]
        BY <2>3, EndedJobsKept
  <2> QED  BY <2>2, <2>4
<1>4. CASE \E w \in Workers : ClaimJobs(w)
  <2>1. PICK w \in Workers : ClaimJobs(w)
        BY <1>4
  <2>2. PICK S \in SUBSET Jobs : ClaimWrites(w, S) /\ \A j \in S : job[j].state \in LiveJob
        BY <2>1, ClaimedRows
  <2>3. \A j \in Jobs \ S : job'[j] = job[j]
        BY <2>2 DEF ClaimWrites
  <2>4. (\A j \in S : j[1] # p) /\ \A s \in AutoSteps : job'[<<p, s>>] = job[<<p, s>>]
        BY <2>2, <2>3, EndedJobsKept
  <2>5. proc'[p] = proc[p]
        BY <2>2, <2>4 DEF ClaimWrites
  <2>6. step'[p] = step[p]
    <3>1. \A s \in Steps : <<p, s>> \notin S
          BY <2>4
    <3>2. step'[p] = [s \in Steps |-> step[p][s]]
          BY <2>2, <3>1 DEF ClaimWrites
    <3>3. step[p] \in [Steps -> StepRow]
          BY DEF IInv, TypeOK
    <3> QED  BY <3>2, <3>3
  <2> QED  BY <2>4, <2>5, <2>6
<1>5. ASSUME NEW c \in claims, Commit(c)
      PROVE  Kept(p)
  <2>1. c.job[1] \in Procs /\ Enters(c.job[1], [job EXCEPT ![c.job] = DoneRow(c)], signal, inbox)
        BY <1>5, CommitEnters
  <2>2. c.job[1] # p
        BY <2>1 DEF Enters
  <2> QED  BY <2>1, <2>2, EntersAlone
<1>6. ASSUME NEW c \in claims, FailRetry(c) \/ FailDead(c)
      PROVE  Kept(p)
  <2>1. c.job \in Jobs
        BY NoClaimYet DEF IInv
  <2>2. job[c.job].state \in LiveJob
        BY <1>6 DEF FailRetry, FailDead, HoldsLease, LiveJob
  <2>3. \A k \in Jobs \ {c.job} : job'[k] = job[k]
        BY <1>6, <2>1 DEF FailRetry, FailDead, IInv, TypeOK
  <2> DEFINE S == {c.job}
  <2>4. /\ S \in SUBSET Jobs /\ \A k \in S : job[k].state \in LiveJob
        /\ \A k \in Jobs \ S : job'[k] = job[k]
        BY <2>1, <2>2, <2>3
  <2>5. c.job \in S
        OBVIOUS
  <2> HIDE DEF S
  <2>6. (\A k \in S : k[1] # p) /\ \A s \in AutoSteps : job'[<<p, s>>] = job[<<p, s>>]
        BY <2>4, EndedJobsKept
  <2>7. proc'[p] = proc[p] /\ step'[p] = step[p]
        BY <1>6, <2>5, <2>6 DEF FailRetry, FailDead, IInv, TypeOK
  <2> QED  BY <2>6, <2>7
<1> QED
    BY <1>1, <1>2, <1>3, <1>4, <1>5, <1>6, TableSteps

\* Nothing reopens a COMPLETED or FAILED process: no late finish, failure, signal
\* or decision changes it, its step instances or its jobs (_advance returns on a
\* finished process, the fences of finish_job and fail_job refuse a stale lease).
THEOREM EndIsFinal == Spec => FinalIsFinal
<1>1. IInv /\ [Next]_vars =>
        [\A p \in Procs : proc[p].state \in Terminal =>
            /\ proc'[p] = proc[p]
            /\ step'[p] = step[p]
            /\ \A s \in AutoSteps : job'[<<p, s>>] = job[<<p, s>>]]_vars
      BY EndedKept DEF Kept
<1> QED
    BY <1>1, Invariance, PTL DEF Spec, FinalIsFinal

-----------------------------------------------------------------------------
(* The failed attempts of a job stay within its budget. *)

\* A job has one attempt per lease version; a SUCCEEDED one is the last of a
\* SUCCEEDED job, a FAILED one no longer holds a lease.
AttemptRows ==
    \A j \in Jobs, v \in 1..MaxLease :
        /\ attempt[j][v] # "NONE" <=> v <= job[j].version
        /\ attempt[j][v] = "SUCCEEDED" => job[j].state = "SUCCEEDED" /\ v = job[j].version
        /\ attempt[j][v] = "FAILED" =>
              v < job[j].version \/ job[j].state \in {"RETRY_WAIT", "DEAD"}

\* An attempt that failed left budget for another one, or was the last of a DEAD
\* job: what makes RetryBudget inductive.
FailedInBudget ==
    \A j \in Jobs, v \in 1..MaxLease : attempt[j][v] = "FAILED" =>
        v < MaxAttempts[j[2]] \/ (v = job[j].version /\ job[j].state = "DEAD")

HInv == AttemptRows /\ FailedInBudget

\* Both, of one attempt.
Told(j, v) ==
    /\ attempt[j][v] # "NONE" <=> v <= job[j].version
    /\ attempt[j][v] = "SUCCEEDED" => job[j].state = "SUCCEEDED" /\ v = job[j].version
    /\ attempt[j][v] = "FAILED" => v < job[j].version \/ job[j].state \in {"RETRY_WAIT", "DEAD"}
    /\ attempt[j][v] = "FAILED" =>
          v < MaxAttempts[j[2]] \/ (v = job[j].version /\ job[j].state = "DEAD")

LEMMA HInvTold == HInv <=> \A j \in Jobs, v \in 1..MaxLease : Told(j, v)
    BY DEF HInv, AttemptRows, FailedInBudget, Told

\* Settling writes the attempt of the claim only, once.
LEMMA SettledAttempt ==
    ASSUME IInv, NEW c \in claims, NEW st, SettleAttempt(c, st),
           NEW j \in Jobs, NEW v \in 1..MaxLease
    PROVE  attempt'[j][v] = IF j = c.job /\ v = c.version /\ attempt[j][v] = "RUNNING" THEN st
                            ELSE attempt[j][v]
<1>1. c.job \in Jobs /\ c.version \in 1..MaxLease
      BY NoClaimYet DEF IInv
<1>2. attempt \in [Jobs -> [1..MaxLease -> AttemptStates]]
      BY DEF IInv, TypeOK
<1> QED
    BY <1>1, <1>2 DEF SettleAttempt

\* A row that keeps its state and version keeps the story of its attempts; so
\* does a step's new job.
LEMMA RowKeepsTold ==
    ASSUME IInv, NEW j \in Jobs, NEW v \in 1..MaxLease, Told(j, v), attempt'[j][v] = attempt[j][v],
           \/ job'[j].state = job[j].state /\ job'[j].version = job[j].version
           \/ job[j].state = "NONE" /\ job'[j] = NewJob
    PROVE  Told(j, v)'
<1>1. CASE job'[j].state = job[j].state /\ job'[j].version = job[j].version
      BY <1>1 DEF Told
<1>2. CASE job[j].state = "NONE" /\ job'[j] = NewJob
  <2>1. job[j].version = 0 /\ job'[j].version = 0
        BY <1>2 DEF IInv, VersionLeft, NewJob
  <2>2. attempt[j][v] = "NONE"
        BY <2>1 DEF Told
  <2> QED  BY <2>1, <2>2 DEF Told
<1> QED
    BY <1>1, <1>2

\* claim_jobs opens the next attempt of what it takes.
LEMMA ClaimTold ==
    ASSUME IInv, NEW w \in Workers, ClaimJobs(w),
           NEW j \in Jobs, NEW v \in 1..MaxLease, Told(j, v)
    PROVE  Told(j, v)'
<1>1. PICK S \in SUBSET Jobs : ClaimWrites(w, S) /\ \A k \in S : job[k].state \in LiveJob
      BY ClaimedRows
<1> DEFINE dead == {k \in S : ActionDisabled(k)}
<1>2. attempt'[j][v] =
        IF j \in S /\ v = job[j].version + 1
        THEN IF j \in dead THEN "FAILED" ELSE "RUNNING"
        ELSE IF attempt[j][v] = "RUNNING" /\ job[j].state = "LEASED" /\ job[j].due
        THEN "STALE" ELSE attempt[j][v]
      BY <1>1 DEF ClaimWrites
<1>3. /\ j \notin S => job'[j] = job[j]
      /\ j \in S => /\ job'[j].state = IF j \in dead THEN "DEAD" ELSE "LEASED"
                    /\ job'[j].version = job[j].version + 1
                    /\ job[j].state \in LiveJob
      BY <1>1 DEF ClaimWrites
<1>4. job[j].version \in Nat /\ v \in Nat
      BY WorkflowTypes DEF IInv, TypeOK, JobRow
<1> HIDE DEF dead
<1>5. CASE j \notin S
      BY <1>5, <1>2, <1>3 DEF Told
<1>6. CASE j \in S /\ v = job[j].version + 1
      BY <1>6, <1>2, <1>3, <1>4 DEF Told
<1>7. CASE j \in S /\ v # job[j].version + 1
  <2>1. attempt[j][v] # "NONE" <=> v <= job'[j].version
        BY <1>7, <1>3, <1>4 DEF Told
  <2>2. attempt[j][v] # "SUCCEEDED"
        BY <1>7, <1>3 DEF Told, LiveJob
  <2>3. attempt[j][v] = "FAILED" => v < job'[j].version /\ v < MaxAttempts[j[2]]
        BY <1>7, <1>3, <1>4 DEF Told, LiveJob
  <2> QED  BY <1>7, <1>2, <2>1, <2>2, <2>3 DEF Told
<1> QED
    BY <1>5, <1>6, <1>7

\* The commit of finish_job ends the attempt that holds the lease.
LEMMA CommitTold ==
    ASSUME IInv, NEW c \in claims, Commit(c),
           NEW j \in Jobs, NEW v \in 1..MaxLease, Told(j, v)
    PROVE  Told(j, v)'
<1> DEFINE done == DoneRow(c)
           rows == [job EXCEPT ![c.job] = done]
<1>1. /\ c.job[1] \in Procs /\ HoldsLease(c)
      /\ done.state = "SUCCEEDED" /\ done.version = job[c.job].version
      /\ Enters(c.job[1], rows, signal, inbox)
      BY CommitEnters
<1>2. c.job \in Jobs
      BY NoClaimYet DEF IInv
<1> HIDE DEF done
<1>3. rows[c.job] = done /\ \A k \in Jobs : k # c.job => rows[k] = job[k]
      BY <1>2 DEF IInv, TypeOK
<1> HIDE DEF rows
<1>4. \A k \in Jobs : job'[k] = rows[k] \/ (rows[k].state = "NONE" /\ job'[k] = NewJob)
      BY <1>1, EntersAlone
<1>5. attempt'[j][v] = IF j = c.job /\ v = c.version /\ attempt[j][v] = "RUNNING" THEN "SUCCEEDED"
                       ELSE attempt[j][v]
  <2>1. SettleAttempt(c, "SUCCEEDED")
        BY DEF Commit
  <2> QED  BY <2>1, SettledAttempt
<1>6. CASE j # c.job
      BY <1>3, <1>4, <1>5, <1>6, RowKeepsTold
<1>7. CASE j = c.job
  <2>1. job'[j] = done
        BY <1>1, <1>3, <1>4, <1>7
  <2>2. job[j].state = "LEASED" /\ job[j].version = c.version
        BY <1>1, <1>7 DEF HoldsLease
  <2> QED  BY <1>1, <1>5, <1>7, <2>1, <2>2 DEF Told
<1> QED
    BY <1>6, <1>7

\* fail_job ends the attempt that holds the lease, for good if no budget is left.
LEMMA FailTold ==
    ASSUME IInv, NEW c \in claims, FailRetry(c) \/ FailDead(c),
           NEW j \in Jobs, NEW v \in 1..MaxLease, Told(j, v)
    PROVE  Told(j, v)'
<1>1. c.job \in Jobs
      BY NoClaimYet DEF IInv
<1>2. SettleAttempt(c, "FAILED") /\ HoldsLease(c)
      BY DEF FailRetry, FailDead
<1>3. attempt'[j][v] = IF j = c.job /\ v = c.version /\ attempt[j][v] = "RUNNING" THEN "FAILED"
                       ELSE attempt[j][v]
      BY <1>2, SettledAttempt
<1>4. job[c.job] \in JobRow
      BY <1>1 DEF IInv, TypeOK
<1>5. /\ j # c.job => job'[j] = job[j]
      /\ job'[c.job].version = job[c.job].version
      /\ \/ job'[c.job].state = "DEAD"
         \/ job'[c.job].state = "RETRY_WAIT" /\ BudgetLeft(c)
  <2>1. job \in [Jobs -> JobRow]
        BY DEF IInv, TypeOK
  <2>2. PICK st \in {"RETRY_WAIT", "DEAD"} :
          /\ job' = [job EXCEPT ![c.job] =
                        [job[c.job] EXCEPT !.state = st, !.owner = None, !.due = FALSE]]
          /\ st = "RETRY_WAIT" => BudgetLeft(c)
        BY DEF FailRetry, FailDead
  <2>3. LET row == [job[c.job] EXCEPT !.state = st, !.owner = None, !.due = FALSE]
        IN  row.state = st /\ row.version = job[c.job].version
        BY <1>4 DEF JobRow
  <2> QED  BY <1>1, <2>1, <2>2, <2>3
<1>6. CASE j # c.job
      BY <1>3, <1>5, <1>6, RowKeepsTold
<1>7. CASE j = c.job
  <2>1. job[j].state = "LEASED" /\ job[j].version = c.version
        BY <1>2, <1>7 DEF HoldsLease
  <2>2. BudgetLeft(c) => c.version < MaxAttempts[j[2]]
        BY <1>7, <2>1 DEF BudgetLeft
  <2> QED  BY <1>3, <1>5, <1>7, <2>1, <2>2 DEF Told
<1> QED
    BY <1>6, <1>7

LEMMA TellsStep ==
    ASSUME IInv, HInv, [Next]_vars
    PROVE  HInv'
<1> SUFFICES ASSUME NEW j \in Jobs, NEW v \in 1..MaxLease, Told(j, v)
             PROVE  Told(j, v)'
    BY DEF HInv, AttemptRows, FailedInBudget, Told
<1>1. CASE Quiet
      BY <1>1, RowKeepsTold DEF Quiet
<1>2. CASE Entry
  <2>1. PICK p \in Procs : \E sent, received : Enters(p, job, sent, received)
        BY <1>2 DEF Entry
  <2>2. \A k \in Jobs : job'[k] = job[k] \/ (job[k].state = "NONE" /\ job'[k] = NewJob)
        BY <2>1, EntersAlone
  <2> QED  BY <1>2, <2>2, RowKeepsTold DEF Entry
<1>3. ASSUME NEW k \in Jobs, TimePasses(k)
      PROVE  Told(j, v)'
  <2>1. job'[j].state = job[j].state /\ job'[j].version = job[j].version
        BY <1>3 DEF TimePasses, IInv, TypeOK, JobRow
  <2>2. attempt'[j][v] = attempt[j][v]
        BY <1>3 DEF TimePasses
  <2> QED  BY <2>1, <2>2, RowKeepsTold
<1>4. ASSUME NEW w \in Workers, ClaimJobs(w)
      PROVE  Told(j, v)'
      BY <1>4, ClaimTold
<1>5. ASSUME NEW c \in claims, Commit(c) \/ FailRetry(c) \/ FailDead(c)
      PROVE  Told(j, v)'
      BY <1>5, CommitTold, FailTold
<1> QED
    BY <1>1, <1>2, <1>3, <1>4, <1>5, TableSteps

\* The attempts' history and the budget of their failures, which rest on each other,
\* hold in every reachable state (claim_jobs, finish_job, fail_job).
THEOREM HistoryKept == Spec => []HInv
<1>1. Init => HInv
      BY DEF Init, HInv, AttemptRows, FailedInBudget
<1>2. IInv /\ HInv /\ [Next]_vars => HInv'
      BY TellsStep
<1> QED
    BY <1>1, <1>2, Invariance, PTL DEF Spec

\* Failures within the budget, the last one of a DEAD job apart, are no more than
\* max_attempts.
LEMMA BudgetHolds == IInv /\ HInv => RetryBudget
<1> SUFFICES ASSUME IInv, HInv, NEW j \in Jobs
             PROVE  Cardinality({v \in 1..MaxLease : attempt[j][v] = "FAILED"}) <= MaxAttempts[j[2]]
    BY DEF RetryBudget
<1> DEFINE failed == {v \in 1..MaxLease : attempt[j][v] = "FAILED"}
           n == MaxAttempts[j[2]]
           early == 1..(n - 1)
           last == job[j].version
<1>1. n \in Nat \ {0}
      BY MapTypes DEF Jobs, AutoSteps
<1>2. failed \subseteq early \cup {last}
      BY <1>1, WorkflowTypes DEF HInv, FailedInBudget
<1> HIDE DEF failed, n, last
<1>3. IsFiniteSet(early) /\ Cardinality(early) = n - 1
      BY <1>1, FS_Interval
<1> HIDE DEF early
<1>4. /\ IsFiniteSet(early \cup {last})
      /\ Cardinality(early \cup {last}) = IF last \in early THEN Cardinality(early)
                                          ELSE Cardinality(early) + 1
      BY <1>3, FS_AddElement
<1>5. Cardinality(early \cup {last}) <= n
      BY <1>1, <1>3, <1>4
<1>6. IsFiniteSet(failed) /\ Cardinality(failed) <= Cardinality(early \cup {last})
      BY <1>2, <1>4, FS_Subset
<1>7. Cardinality(failed) \in Nat /\ Cardinality(early \cup {last}) \in Nat
      BY <1>4, <1>6, FS_CardinalityType
<1>8. Cardinality(failed) <= n
      BY <1>1, <1>5, <1>6, <1>7
<1> QED
    BY <1>8 DEF failed, n

\* A job never fails more often than max_attempts, however many leases are lost
\* in between: fail_job compares the lease version, which counts every claim.
THEOREM WithinBudget == Spec => []RetryBudget
    BY BudgetHolds, Invariance, HistoryKept, PTL

-----------------------------------------------------------------------------
(* The step instances of a process are a path of its map. *)

\* HistoryIsPath, of one step of one process.
OnPath(p, s) ==
    /\ step[p][s].state = "COMPLETED" /\ StepType[s] # "END" =>
          /\ step[p][s].outcome \in Allowed[s]
          /\ step[p][Target[s][step[p][s].outcome]].state # "NONE"
    /\ step[p][s].state # "NONE" /\ s # StartStep =>
          \E q \in Steps : /\ step[p][q].state = "COMPLETED"
                           /\ step[p][q].outcome \in Allowed[q]
                           /\ Target[q][step[p][q].outcome] = s

LEMMA PathIsOnPath == HistoryIsPath <=> \A p \in Procs, s \in Steps : OnPath(p, s)
    BY DEF HistoryIsPath, OnPath

\* Steps that complete no step and enter none leave the path alone.
LEMMA PathUntouched ==
    ASSUME NEW p \in Procs, \A s \in Steps : OnPath(p, s),
           \A s \in Steps : /\ step'[p][s].state = "NONE" <=> step[p][s].state = "NONE"
                            /\ step'[p][s].state = "COMPLETED" <=> step[p][s].state = "COMPLETED"
                            /\ step'[p][s].outcome = step[p][s].outcome
    PROVE  \A s \in Steps : OnPath(p, s)'
<1> SUFFICES ASSUME NEW s \in Steps
             PROVE  OnPath(p, s)'
    OBVIOUS
<1>1. step[p][s].state = "COMPLETED" /\ step[p][s].outcome \in Allowed[s] =>
        Target[s][step[p][s].outcome] \in Steps
      BY MapTypes
<1>2. OnPath(p, s)
      OBVIOUS
<1>3. step'[p][s].state = "COMPLETED" /\ StepType[s] # "END" =>
        /\ step'[p][s].outcome \in Allowed[s]
        /\ step'[p][Target[s][step'[p][s].outcome]].state # "NONE"
      BY <1>1, <1>2 DEF OnPath
<1>4. step'[p][s].state # "NONE" /\ s # StartStep =>
        \E q \in Steps : /\ step'[p][q].state = "COMPLETED"
                         /\ step'[p][q].outcome \in Allowed[q]
                         /\ Target[q][step'[p][q].outcome] = s
      BY <1>2 DEF OnPath
<1> QED
    BY <1>3, <1>4 DEF OnPath

\* The steps a process passes on its way to rest: s, and past a WAIT_SIGNAL step
\* the one its declared outcome leads to.
LEMMA EnterStepPath ==
    ASSUME NEW db, NEW p \in Procs, NEW s \in Steps, EnterStep(db, p, s)
    PROVE  \E last \in Steps :
              /\ Landed(db, p, s, last)
              /\ \/ last = s
                 \/ /\ s \in WaitSteps /\ ParamOutcome[s] \in Allowed[s]
                    /\ last = Target[s][ParamOutcome[s]] /\ Rank[s] < Rank[last]
<1>1. PICK sig \in AtMostOne(ReadySignals(db, p, s)), row \in AtMostOne(ReceivedRows(db, p, s)) :
          Write(Entered(db, p, s, sig, row))
      BY DEF EnterStep
<1>2. sig \subseteq ReadySignals(db, p, s) /\ row \subseteq ReceivedRows(db, p, s)
      BY DEF AtMostOne
<1> DEFINE fresh == {r \in row : Fresh(db.signal, r)}
           last == IF sig \cup fresh = {} THEN s ELSE Target[s][ParamOutcome[s]]
<1>3. sig \cup fresh # {} => s \in WaitSteps
      BY <1>2 DEF ReadySignals, ReceivedRows
<1>4. last \in Steps
      BY MapTypes
<1>5. last = s \/ ( /\ s \in WaitSteps /\ ParamOutcome[s] \in Allowed[s]
                    /\ last = Target[s][ParamOutcome[s]] /\ Rank[s] < Rank[last])
      BY <1>3, WaitCovered, Acyclic
<1>6. Landed(db, p, s, last)
      BY <1>1 DEF Write, Entered, Landed
<1> QED
    BY <1>4, <1>5, <1>6

\* A process that enters a step prolongs its path.
LEMMA EntersOnPath ==
    ASSUME IInv, NEW p \in Procs, NEW rows, NEW sent, NEW received,
           Enters(p, rows, sent, received), \A y \in Steps : OnPath(p, y)
    PROVE  \A y \in Steps : OnPath(p, y)'
<1>1. PICK db : \E s \in Steps : Landing(db, p, s) /\ EnterStep(db, p, s) /\ ComesTo(db, p, s)
      BY DEF Enters
<1>2. PICK s \in Steps : Landing(db, p, s) /\ EnterStep(db, p, s) /\ ComesTo(db, p, s)
      BY <1>1
<1>3. PICK last \in Steps :
        /\ Landed(db, p, s, last)
        /\ \/ last = s
           \/ /\ s \in WaitSteps /\ ParamOutcome[s] \in Allowed[s]
              /\ last = Target[s][ParamOutcome[s]] /\ Rank[s] < Rank[last]
      BY <1>2, EnterStepPath
<1> DEFINE before == step[p]
           left   == db.step[p]
           after  == step'[p]
<1>4. \A y \in Steps : after[y] = IF y = last THEN EntryStep(y)
                                  ELSE IF y = s
                                  THEN [state |-> "COMPLETED", outcome |-> ParamOutcome[s]]
                                  ELSE left[y]
      BY <1>2, <1>3 DEF Landed, Landing
<1>5. left[s].state = "NONE" /\ left[last].state = "NONE"
  <2>1. \A y \in Steps : left[y].state # "NONE" => Rank[y] < Rank[s]
        BY <1>2 DEF Landing
  <2>2. Rank[s] \in Nat /\ Rank[last] \in Nat
        BY Acyclic
  <2> QED  BY <2>1, <2>2, <1>3
<1>6. /\ EntryStep(last).state # "NONE"
      /\ EntryStep(last).state = "COMPLETED" => StepType[last] = "END"
      BY DEF EntryStep
\* The step left, if any: it was unfinished and is completed with an outcome that
\* leads to s.
<1>7. \/ s = StartStep /\ \A y \in Steps : left[y] = before[y]
      \/ \E x \in Steps : \E o \in Allowed[x] :
            /\ Target[x][o] = s /\ before[x].state \notin {"NONE", "COMPLETED"}
            /\ \A y \in Steps : left[y] = IF y = x THEN [state |-> "COMPLETED", outcome |-> o]
                                          ELSE before[y]
  <2>1. CASE s = StartStep /\ db.step = step
        BY <2>1
  <2>2. ASSUME NEW x \in Steps, NEW o \in Allowed[x], proc[p].current = x, Target[x][o] = s,
               db.step = [step EXCEPT ![p][x] = [state |-> "COMPLETED", outcome |-> o]]
        PROVE  /\ before[x].state \notin {"NONE", "COMPLETED"}
               /\ \A y \in Steps : left[y] = IF y = x THEN [state |-> "COMPLETED", outcome |-> o]
                                             ELSE before[y]
    <3>1. proc[p].state \in ProcStates \ Terminal
          BY DEF Enters, IInv, TypeOK, ProcRow
    <3>2. proc[p].state # "NONE"
          BY <2>2, WorkflowTypes DEF IInv, TablesAgree, CurrentStepRules
    <3>3. before[x].state \notin {"NONE", "COMPLETED"}
          BY <2>2, <3>1, <3>2 DEF IInv, TablesAgree, CurrentStepRules, ProcStates, Terminal
    <3>4. step \in [Procs -> [Steps -> StepRow]]
          BY DEF IInv, TypeOK
    <3> QED  BY <2>2, <3>3, <3>4
  <2>3. \/ s = StartStep /\ db.step = step
        \/ \E x \in Steps : \E o \in Allowed[x] :
              /\ proc[p].current = x /\ Target[x][o] = s
              /\ db.step = [step EXCEPT ![p][x] = [state |-> "COMPLETED", outcome |-> o]]
        BY <1>2 DEF ComesTo
  <2>4. CASE \E x \in Steps : \E o \in Allowed[x] :
                /\ proc[p].current = x /\ Target[x][o] = s
                /\ db.step = [step EXCEPT ![p][x] = [state |-> "COMPLETED", outcome |-> o]]
    <3>1. PICK x \in Steps : \E o \in Allowed[x] :
                /\ proc[p].current = x /\ Target[x][o] = s
                /\ db.step = [step EXCEPT ![p][x] = [state |-> "COMPLETED", outcome |-> o]]
          BY <2>4
    <3>2. PICK o \in Allowed[x] :
                /\ proc[p].current = x /\ Target[x][o] = s
                /\ db.step = [step EXCEPT ![p][x] = [state |-> "COMPLETED", outcome |-> o]]
          BY <3>1
    <3>3. /\ before[x].state \notin {"NONE", "COMPLETED"}
          /\ \A y \in Steps : left[y] = IF y = x THEN [state |-> "COMPLETED", outcome |-> o]
                                        ELSE before[y]
          BY <2>2, <3>2
    <3> HIDE DEF before, left
    <3> QED  BY <3>2, <3>3
  <2> HIDE DEF before, left
  <2> QED  BY <2>1, <2>3, <2>4
<1> HIDE DEF left
<1>8. \A y \in Steps : before[y].state # "NONE" => after[y].state # "NONE"
  <2> HIDE DEF before, after
  <2>1. ASSUME NEW y \in Steps, before[y].state # "NONE"
        PROVE  left[y].state # "NONE"
    <3>1. CASE \A z \in Steps : left[z] = before[z]
          BY <2>1, <3>1
    <3>2. ASSUME NEW x \in Steps, NEW o \in Allowed[x],
                 \A z \in Steps : left[z] = IF z = x THEN [state |-> "COMPLETED", outcome |-> o]
                                            ELSE before[z]
          PROVE  left[y].state # "NONE"
          BY <2>1, <3>2
    <3> QED  BY <3>1, <3>2, <1>7
  <2>2. \A y \in Steps : left[y].state # "NONE" => after[y] = left[y]
    <3>1. \A y \in Steps : left[y].state # "NONE" => y # s /\ y # last
          BY <1>5
    <3> QED  BY <3>1, <1>4
  <2> QED  BY <2>1, <2>2
<1>9. \A y \in Steps : before[y].state = "COMPLETED" => after[y] = before[y]
  <2> HIDE DEF before, after
  <2> QED  BY <1>4, <1>5, <1>7
<1>10. after[s].state # "NONE" /\ after[last].state # "NONE"
  <2> HIDE DEF after
  <2> QED  BY <1>4, <1>6
<1> SUFFICES ASSUME NEW y \in Steps PROVE OnPath(p, y)'
    OBVIOUS
<1>11. /\ before[y].state = "COMPLETED" /\ StepType[y] # "END" =>
            /\ before[y].outcome \in Allowed[y]
            /\ before[Target[y][before[y].outcome]].state # "NONE"
       /\ before[y].state # "NONE" /\ y # StartStep =>
            \E q \in Steps : /\ before[q].state = "COMPLETED"
                             /\ before[q].outcome \in Allowed[q]
                             /\ Target[q][before[q].outcome] = y
      BY DEF OnPath
<1>12. \A z \in Steps : \A o \in Allowed[z] : Target[z][o] \in Steps
      BY MapTypes
<1>13. after[y].state = "COMPLETED" /\ StepType[y] # "END" =>
          /\ after[y].outcome \in Allowed[y]
          /\ after[Target[y][after[y].outcome]].state # "NONE"
  <2> HIDE DEF before, after
  <2> SUFFICES ASSUME after[y].state = "COMPLETED", StepType[y] # "END"
               PROVE  /\ after[y].outcome \in Allowed[y]
                      /\ after[Target[y][after[y].outcome]].state # "NONE"
      OBVIOUS
  <2>1. y # last
        BY <1>4, <1>6
  <2>2. CASE y = s
        BY <2>1, <2>2, <1>3, <1>4, <1>10
  <2>3. CASE y # s /\ before[y].state = "COMPLETED"
        BY <2>3, <1>8, <1>9, <1>11, <1>12
  <2>4. CASE y # s /\ before[y].state # "COMPLETED"
    <3>1. after[y] = left[y] /\ left[y] # before[y]
          BY <2>1, <2>4, <1>4
    <3>2. \E o \in Allowed[y] : /\ Target[y][o] = s
                                /\ left[y] = [state |-> "COMPLETED", outcome |-> o]
          BY <3>1, <1>7
    <3> QED  BY <3>1, <3>2, <1>10
  <2> QED  BY <2>2, <2>3, <2>4
<1>14. after[y].state # "NONE" /\ y # StartStep =>
          \E q \in Steps : /\ after[q].state = "COMPLETED"
                           /\ after[q].outcome \in Allowed[q]
                           /\ Target[q][after[q].outcome] = y
  <2> HIDE DEF before, after
  <2> SUFFICES ASSUME after[y].state # "NONE", y # StartStep
               PROVE  \E q \in Steps : /\ after[q].state = "COMPLETED"
                                       /\ after[q].outcome \in Allowed[q]
                                       /\ Target[q][after[q].outcome] = y
      OBVIOUS
  <2>1. CASE y = s
    <3>1. PICK x \in Steps : \E o \in Allowed[x] :
            /\ Target[x][o] = s
            /\ left[x] = [state |-> "COMPLETED", outcome |-> o]
          BY <2>1, <1>7
    <3>2. x # s /\ x # last
          BY <3>1, <1>5
    <3>3. after[x] = left[x]
          BY <3>2, <1>4
    <3> QED  BY <2>1, <3>1, <3>3
  <2>2. CASE y # s /\ y = last
    <3>1. after[s] = [state |-> "COMPLETED", outcome |-> ParamOutcome[s]]
          BY <2>2, <1>4
    <3> QED  BY <2>2, <3>1, <1>3
  <2>3. CASE y # s /\ y # last
    <3>1. before[y].state # "NONE"
          BY <2>3, <1>4, <1>7
    <3> QED  BY <3>1, <1>9, <1>11
  <2> QED  BY <2>1, <2>2, <2>3
<1> QED
    BY <1>13, <1>14 DEF OnPath

LEMMA PathStep ==
    ASSUME IInv, HistoryIsPath, [Next]_vars
    PROVE  HistoryIsPath'
<1> SUFFICES ASSUME NEW p \in Procs, \A s \in Steps : OnPath(p, s)
             PROVE  \A s \in Steps : OnPath(p, s)'
    BY DEF HistoryIsPath, OnPath
<1> DEFINE Same == \A s \in Steps :
                      /\ step'[p][s].state = "NONE" <=> step[p][s].state = "NONE"
                      /\ step'[p][s].state = "COMPLETED" <=> step[p][s].state = "COMPLETED"
                      /\ step'[p][s].outcome = step[p][s].outcome
<1>1. Same => \A s \in Steps : OnPath(p, s)'
      BY PathUntouched
<1>2. ASSUME NEW q \in Procs, NEW rows, NEW sent, NEW received, Enters(q, rows, sent, received)
      PROVE  \A s \in Steps : OnPath(p, s)'
  <2>1. CASE q = p
        BY <1>2, <2>1, EntersOnPath
  <2>2. CASE q # p
    <3>1. step'[p] = step[p]
          BY <1>2, <2>2, EntersAlone
    <3> QED  BY <3>1, <1>1
  <2> QED  BY <2>1, <2>2
<1>3. CASE Quiet \/ (\E j \in Jobs : TimePasses(j)) \/ (\E c \in claims : FailRetry(c))
  <2>1. step' = step
        BY <1>3 DEF Quiet, TimePasses, FailRetry
  <2> QED  BY <2>1, <1>1
<1>4. CASE Entry
      BY <1>2, <1>4 DEF Entry
<1>5. ASSUME NEW c \in claims, Commit(c)
      PROVE  \A s \in Steps : OnPath(p, s)'
  <2>1. c.job[1] \in Procs /\ Enters(c.job[1], [job EXCEPT ![c.job] = DoneRow(c)], signal, inbox)
        BY <1>5, CommitEnters
  <2> QED  BY <2>1, <1>2
\* A job that is claimed or failed is that of an unfinished step.
<1>6. ASSUME NEW s \in Steps, <<p, s>> \in Jobs, job[<<p, s>>].state \in LiveJob
      PROVE  step[p][s].state \notin {"NONE", "COMPLETED"}
      BY <1>6 DEF IInv, TablesAgree, JobMatchesStep, Jobs, LiveJob
<1>7. step \in [Procs -> [Steps -> StepRow]] /\ \A s \in Steps : step[p][s] \in StepRow
      BY DEF IInv, TypeOK
<1>8. ASSUME NEW c \in claims, FailDead(c)
      PROVE  \A s \in Steps : OnPath(p, s)'
  <2>1. c.job \in Jobs
        BY NoClaimYet DEF IInv
  <2>2. c.job[1] \in Procs /\ c.job[2] \in Steps /\ c.job = <<c.job[1], c.job[2]>>
        BY <2>1 DEF Jobs, AutoSteps
  <2>3. job[c.job].state \in LiveJob
        BY <1>8 DEF FailDead, HoldsLease, LiveJob
  <2>4. step' = [step EXCEPT ![c.job[1]][c.job[2]].state = "FAILED"]
        BY <1>8 DEF FailDead
  <2>5. Same
    <3> SUFFICES ASSUME NEW s \in Steps
                 PROVE  /\ step'[p][s].state = "NONE" <=> step[p][s].state = "NONE"
                        /\ step'[p][s].state = "COMPLETED" <=> step[p][s].state = "COMPLETED"
                        /\ step'[p][s].outcome = step[p][s].outcome
        OBVIOUS
    <3>1. CASE c.job = <<p, s>>
      <4>1. step'[p][s] = [step[p][s] EXCEPT !.state = "FAILED"]
            BY <2>2, <2>4, <3>1, <1>7
      <4>2. step'[p][s].state = "FAILED" /\ step'[p][s].outcome = step[p][s].outcome
            BY <4>1, <1>7 DEF StepRow
      <4> QED  BY <4>2, <3>1, <2>1, <2>3, <1>6
    <3>2. CASE c.job # <<p, s>>
      <4>1. step'[p][s] = step[p][s]
            BY <2>2, <2>4, <3>2, <1>7
      <4> QED  BY <4>1
    <3> QED  BY <3>1, <3>2
  <2> QED  BY <2>5, <1>1
<1>9. ASSUME NEW w \in Workers, ClaimJobs(w)
      PROVE  \A s \in Steps : OnPath(p, s)'
  <2>1. PICK S \in SUBSET Jobs : ClaimWrites(w, S) /\ \A j \in S : job[j].state \in LiveJob
        BY <1>9, ClaimedRows
  <2>2. Same
    <3> SUFFICES ASSUME NEW s \in Steps
                 PROVE  /\ step'[p][s].state = "NONE" <=> step[p][s].state = "NONE"
                        /\ step'[p][s].state = "COMPLETED" <=> step[p][s].state = "COMPLETED"
                        /\ step'[p][s].outcome = step[p][s].outcome
        OBVIOUS
    <3>1. step'[p][s] = IF <<p, s>> \notin S THEN step[p][s]
                        ELSE [step[p][s] EXCEPT
                                !.state = IF s \in disabled THEN "FAILED" ELSE "RUNNING"]
          BY <2>1 DEF ClaimWrites
    <3>2. CASE <<p, s>> \notin S
          BY <3>1, <3>2
    <3>3. CASE <<p, s>> \in S
      <4>1. step'[p][s].state \in {"FAILED", "RUNNING"} /\ step'[p][s].outcome = step[p][s].outcome
            BY <3>1, <3>3, <1>7 DEF StepRow
      <4> QED  BY <4>1, <3>3, <2>1, <1>6
    <3> QED  BY <3>2, <3>3
  <2> QED  BY <2>2, <1>1
<1> QED
    BY <1>3, <1>4, <1>5, <1>8, <1>9, TableSteps

\* The step instances of a process are a path of its map, whatever completes the
\* steps: _advance follows the outcome it is given and _enter_step the declared
\* one past a signal that is already there.
THEOREM StepsArePath == Spec => []HistoryIsPath
<1>1. Init => HistoryIsPath
  <2>1. Init => \A p \in Procs, s \in Steps : step[p][s].state = "NONE"
        BY DEF Init
  <2> QED  BY <2>1 DEF HistoryIsPath
<1>2. IInv /\ HistoryIsPath /\ [Next]_vars => HistoryIsPath'
      BY PathStep
<1> QED
    BY <1>1, <1>2, Invariance, PTL DEF Spec


-----------------------------------------------------------------------------
(* What entering a step does to the signals and the inbox. *)

\* The process applies the signals sig and accepts the inbox rows row.
Settles(db, p, s, sig, row) ==
    /\ sig \subseteq ReadySignals(db, p, s) /\ row \subseteq ReceivedRows(db, p, s)
    /\ \A q, r \in row : q = r
    /\ \A r \in row : ~Conflict(db.signal, r) /\ ~KeyHeld(r) /\ r \notin selected
    /\ signal' = (db.signal \ sig) \cup WithStatus(sig, "APPLIED")
                 \cup WithStatus({r \in row : Fresh(db.signal, r)}, RowStatus(sig))
    /\ inbox' = (db.inbox \ row) \cup WithStatus(row, "APPLIED")

\* It stops at a WAIT_SIGNAL step only when there is nothing to apply there.
LEMMA EnterStepSettles ==
    ASSUME NEW db, NEW p \in Procs, NEW s \in Steps, EnterStep(db, p, s)
    PROVE  \E last \in Steps :
              /\ Landed(db, p, s, last)
              /\ \E sig, row : Settles(db, p, s, sig, row)
              /\ last \in WaitSteps => /\ last = s
                                       /\ ReadySignals(db, p, s) = {} /\ signal' = db.signal
<1>1. PICK sig \in AtMostOne(ReadySignals(db, p, s)), row \in AtMostOne(ReceivedRows(db, p, s)) :
        /\ \A r \in row : ~Conflict(db.signal, r) /\ ~KeyHeld(r) /\ r \notin selected
        /\ Write(Entered(db, p, s, sig, row))
      BY DEF EnterStep
<1>2. /\ sig \subseteq ReadySignals(db, p, s) /\ row \subseteq ReceivedRows(db, p, s)
      /\ \A q, r \in row : q = r
      /\ sig = {} => ReadySignals(db, p, s) = {}
      BY DEF AtMostOne
<1> DEFINE fresh == {r \in row : Fresh(db.signal, r)}
           last == IF sig \cup fresh = {} THEN s ELSE Target[s][ParamOutcome[s]]
<1>3. /\ Landed(db, p, s, last)
      /\ signal' = (db.signal \ sig) \cup WithStatus(sig, "APPLIED")
                   \cup WithStatus(fresh, RowStatus(sig))
      /\ inbox' = (db.inbox \ row) \cup WithStatus(row, "APPLIED")
      BY <1>1 DEF Write, Entered, Landed
<1>4. last \in Steps
      BY MapTypes
<1>5. sig \cup fresh # {} => s \in WaitSteps
      BY <1>2 DEF ReadySignals, ReceivedRows
<1>6. last \in WaitSteps => sig = {} /\ fresh = {} /\ last = s
      BY <1>5, WaitCovered, NoAdjacentWaits
<1>7. Settles(db, p, s, sig, row)
      BY <1>1, <1>2, <1>3 DEF Settles
<1>8. sig = {} /\ fresh = {} => signal' = db.signal
      BY <1>3 DEF WithStatus
<1> HIDE DEF last, fresh
<1> QED
    BY <1>2, <1>3, <1>4, <1>6, <1>7, <1>8

\* A process that enters a step has a state, touches no signal of another process,
\* and waits only for a signal that is not there.
LEMMA EntersSettles ==
    ASSUME IInv, NEW p \in Procs, NEW rows, NEW sent, NEW received,
           Enters(p, rows, sent, received), sent \subseteq SignalRow
    PROVE  /\ proc'[p].state # "NONE"
           /\ \A r \in signal' : r.proc # p => r \in sent
           /\ \A s \in WaitingAt(p)', r \in signal' :
                 ~(r.proc = p /\ r.type = SignalType[s] /\ r.status = "ACCEPTED")
<1>1. PICK db : \E s \in Steps : /\ Landing(db, p, s) /\ EnterStep(db, p, s)
                                 /\ Applies(db.signal, sent, p)
      BY DEF Enters
<1>2. PICK s \in Steps : /\ Landing(db, p, s) /\ EnterStep(db, p, s)
                         /\ Applies(db.signal, sent, p)
      BY <1>1
<1>3. PICK last \in Steps :
        /\ Landed(db, p, s, last)
        /\ \E sig, row : Settles(db, p, s, sig, row)
        /\ last \in WaitSteps => /\ last = s
                                 /\ ReadySignals(db, p, s) = {} /\ signal' = db.signal
      BY <1>2, EnterStepSettles
<1>4. db.signal \subseteq SignalRow /\ db.inbox \subseteq InboxRow
      BY <1>2 DEF Landing
<1>5. proc'[p].state # "NONE"
  <2>1. EntryProc(last).state # "NONE"
        BY MapTypes DEF EntryProc, StepTypes
  <2>2. proc'[p] = EntryProc(last)
        BY <1>2, <1>3 DEF Landed, Landing, IInv, TypeOK
  <2> QED  BY <2>1, <2>2
<1>6. \A r \in db.signal : r.proc # p => r \in sent
  <2>1. CASE db.signal = sent
        BY <2>1
  <2>2. ASSUME NEW q \in sent, q.proc = p,
               db.signal = (sent \ {q}) \cup WithStatus({q}, "APPLIED")
        PROVE  \A r \in db.signal : r.proc # p => r \in sent
    <3>1. [q EXCEPT !.status = "APPLIED"].proc = p
          BY <2>2 DEF SignalRow, Message
    <3> QED  BY <2>2, <3>1 DEF WithStatus
  <2> QED  BY <2>1, <2>2, <1>2 DEF Applies
<1>7. \A r \in signal' : r.proc # p => r \in db.signal
  <2>1. PICK sig, row : Settles(db, p, s, sig, row)
        BY <1>3
  <2>2. /\ \A r \in sig : r \in SignalRow /\ r.proc = p
        /\ \A r \in row : r \in InboxRow /\ r.proc = p
        BY <2>1, <1>4 DEF Settles, ReadySignals, ReceivedRows
  <2>3. /\ \A r \in sig : [r EXCEPT !.status = "APPLIED"].proc = p
        /\ \A r \in row : [r EXCEPT !.status = RowStatus(sig)].proc = p
        BY <2>2 DEF SignalRow, InboxRow, Message
  <2>4. ASSUME NEW r \in signal'
        PROVE  r \in db.signal \/ r.proc = p
    <3>1. \/ r \in db.signal \ sig
          \/ r \in WithStatus(sig, "APPLIED")
          \/ r \in WithStatus({q \in row : Fresh(db.signal, q)}, RowStatus(sig))
          BY <2>1 DEF Settles
    <3>2. CASE r \in WithStatus(sig, "APPLIED")
          BY <3>2, <2>3 DEF WithStatus
    <3>3. CASE r \in WithStatus({q \in row : Fresh(db.signal, q)}, RowStatus(sig))
          BY <3>3, <2>3 DEF WithStatus
    <3> QED  BY <3>1, <3>2, <3>3
  <2> QED  BY <2>4
<1>8. ASSUME NEW x \in WaitSteps, step'[p][x].state = "WAITING", NEW r \in signal'
      PROVE  ~(r.proc = p /\ r.type = SignalType[x] /\ r.status = "ACCEPTED")
  <2>1. x \in Steps
        BY DEF WaitSteps
  <2>2. step'[p][x] = IF x = last THEN EntryStep(x)
                      ELSE IF x = s
                      THEN [state |-> "COMPLETED", outcome |-> ParamOutcome[s]]
                      ELSE db.step[p][x]
        BY <2>1, <1>2, <1>3 DEF Landed, Landing
  <2>3. db.step[p][x].state \in {"NONE", "COMPLETED"}
        BY <2>1, <1>2 DEF Landing
  <2>4. x = last
        BY <2>2, <2>3, <1>8
  <2>5. x = s /\ ReadySignals(db, p, s) = {} /\ signal' = db.signal
        BY <2>4, <1>3, <1>8
  <2> QED  BY <2>5, <1>8 DEF ReadySignals
<1>9. \A x \in WaitingAt(p)' : x \in WaitSteps /\ step'[p][x].state = "WAITING"
      BY DEF WaitingAt
<1> QED
    BY <1>5, <1>6, <1>7, <1>8, <1>9

-----------------------------------------------------------------------------
(* No signal is lost. *)

\* A signal transaction that found nobody waiting holds the process lock: nobody
\* waits until it commits.
LockedQuiet ==
    \A t \in tx : t.phase = "locked" /\ t.wait = None => WaitingAt(t.row.proc) = {}

\* Signals are sent to processes that have started.
Started ==
    /\ \A t \in tx : proc[t.row.proc].state # "NONE"
    /\ \A r \in selected : proc[r.proc].state # "NONE"

SInv == LockedQuiet /\ Started /\ NoLostSignal

\* The messages in hand name processes.
LEMMA RowsNameProcs ==
    ASSUME IInv
    PROVE  /\ \A t \in tx : t.row \in SignalRow /\ t.row.proc \in Procs
           /\ \A r \in selected : r.proc \in Procs
           /\ \A r \in signal : r.proc \in Procs
    BY DEF IInv, TypeOK, Tx, SignalRow, InboxRow, Message

\* A step after which the same processes wait for the same signals.
WaitsSame ==
    /\ UNCHANGED signal
    /\ \A q \in Procs : /\ WaitingAt(q)' = WaitingAt(q)
                        /\ proc[q].state # "NONE" => proc'[q].state # "NONE"

LEMMA WaitsSameKeeps ==
    ASSUME IInv, SInv, WaitsSame,
           \A t \in tx' : \/ t \in tx
                          \/ /\ t.row.proc \in Procs /\ proc[t.row.proc].state # "NONE"
                             /\ t.phase = "locked" /\ t.wait = None => WaitingAt(t.row.proc) = {},
           \A r \in selected' : \/ r \in selected
                                \/ r.proc \in Procs /\ proc[r.proc].state # "NONE"
    PROVE  SInv'
<1> USE RowsNameProcs DEF SInv, WaitsSame
<1>1. LockedQuiet'
  <2> SUFFICES ASSUME NEW t \in tx', t.phase = "locked", t.wait = None
               PROVE  WaitingAt(t.row.proc)' = {}
      BY DEF LockedQuiet
  <2>1. t.row.proc \in Procs /\ WaitingAt(t.row.proc) = {}
        BY DEF LockedQuiet
  <2> QED  BY <2>1
<1>2. Started'
      BY DEF Started
<1>3. NoLostSignal'
      BY DEF NoLostSignal
<1> QED
    BY <1>1, <1>2, <1>3

\* A process enters a step while no signal transaction holds its lock.
LEMMA EntersKeepsSignals ==
    ASSUME IInv, SInv, NEW p \in Procs, NEW rows, NEW sent, NEW received,
           Enters(p, rows, sent, received), sent \subseteq SignalRow,
           \A r \in sent : r.proc # p => r \in signal,
           tx' \subseteq tx, selected' \subseteq selected,
           \A t \in tx' : t.phase = "locked" => t.row.proc # p
    PROVE  SInv'
<1> USE DEF SInv
<1>1. /\ proc'[p].state # "NONE"
      /\ \A r \in signal' : r.proc # p => r \in sent
      /\ \A s \in WaitingAt(p)', r \in signal' :
            ~(r.proc = p /\ r.type = SignalType[s] /\ r.status = "ACCEPTED")
      BY EntersSettles
<1>2. \A q \in Procs : q # p => proc'[q] = proc[q] /\ step'[q] = step[q]
      BY EntersAlone
<1>3. \A q \in Procs : q # p => WaitingAt(q)' = WaitingAt(q)
      BY <1>2 DEF WaitingAt
<1>4. LockedQuiet'
  <2> SUFFICES ASSUME NEW t \in tx', t.phase = "locked", t.wait = None
               PROVE  WaitingAt(t.row.proc)' = {}
      BY DEF LockedQuiet
  <2>1. t \in tx /\ t.row.proc \in Procs /\ t.row.proc # p
        BY RowsNameProcs
  <2> QED  BY <2>1, <1>3 DEF LockedQuiet
<1>5. Started'
  <2>1. \A q \in Procs : proc[q].state # "NONE" => proc'[q].state # "NONE"
        BY <1>1, <1>2
  <2> QED  BY <2>1, RowsNameProcs DEF Started
<1>6. NoLostSignal'
  <2> SUFFICES ASSUME NEW q \in Procs, NEW r \in signal', NEW s \in WaitingAt(q)'
               PROVE  ~(r.proc = q /\ r.type = SignalType[s] /\ r.status = "ACCEPTED")
      BY DEF NoLostSignal
  <2>1. CASE q = p
        BY <2>1, <1>1
  <2>2. CASE q # p
    <3>1. s \in WaitingAt(q)
          BY <2>2, <1>3
    <3>2. r.proc = q => r \in signal
          BY <2>2, <1>1
    <3> QED  BY <3>1, <3>2 DEF NoLostSignal
  <2> QED  BY <2>1, <2>2
<1> QED
    BY <1>4, <1>5, <1>6

\* A process that waits has started, and waits at one step.
LEMMA WaitsAtOne ==
    ASSUME IInv, NEW q \in Procs, NEW s \in WaitingAt(q)
    PROVE  proc[q].state # "NONE" /\ \A x \in WaitingAt(q) : x = s
<1>1. \A x \in WaitingAt(q) : x \in Steps /\ step[q][x].state = "WAITING"
      BY DEF WaitingAt, WaitSteps
<1>2. \A x \in WaitingAt(q) : proc[q].current = x
      BY <1>1 DEF IInv, TablesAgree, CurrentStepRules
<1> QED
    BY <1>1, <1>2 DEF IInv, TablesAgree, CurrentStepRules

\* The commit of accept_signal: the signal moves the process, or nobody waits for it.
LEMMA SignalCommitKeeps ==
    ASSUME IInv, SInv, NEW t \in tx, SignalCommit(t)
    PROVE  SInv'
<1> DEFINE sent == SignalBase(t).signal
<1>1. t.phase = "locked" /\ tx' = tx \ {t}
      BY DEF SignalCommit
<1>2. /\ sent \subseteq SignalRow /\ selected' \subseteq selected
      /\ t.row.proc \in Procs
      BY SignalBaseFacts
<1>3. sent = signal \cup {t.row}
      BY DEF SignalBase, Tables
<1>4. \A u \in tx' : u.phase = "locked" => u.row.proc # t.row.proc
      BY <1>1 DEF IInv, LockedWait
<1> HIDE DEF sent
<1>5. CASE t.wait # None /\ SignalType[t.wait] = t.row.type
  <2>1. Enters(t.row.proc, job, sent, SignalBase(t).inbox)
        BY <1>5, SignalEnters DEF sent
  <2>2. (\A r \in sent : r.proc # t.row.proc => r \in signal) /\ tx' \subseteq tx
        BY <1>1, <1>3
  <2> QED  BY <1>2, <1>4, <2>1, <2>2, EntersKeepsSignals
<1>6. CASE ~(t.wait # None /\ SignalType[t.wait] = t.row.type)
  <2>1. UNCHANGED <<proc, step>> /\ signal' = signal \cup {t.row}
        BY <1>3, <1>6, SignalKept DEF sent
  <2>2. \A q \in Procs : WaitingAt(q)' = WaitingAt(q)
        BY <2>1 DEF WaitingAt
  <2>3. LockedQuiet'
    <3> SUFFICES ASSUME NEW u \in tx', u.phase = "locked", u.wait = None
                 PROVE  WaitingAt(u.row.proc)' = {}
        BY DEF LockedQuiet
    <3>1. u \in tx /\ u.row.proc \in Procs
          BY <1>1, RowsNameProcs
    <3> QED  BY <3>1, <2>2 DEF SInv, LockedQuiet
  <2>4. Started'
        BY <1>1, <1>2, <2>1 DEF SInv, Started
  <2>5. ASSUME NEW s \in WaitingAt(t.row.proc)
        PROVE  t.row.type # SignalType[s]
    <3>1. t.wait # None
          BY <1>1 DEF SInv, LockedQuiet
    <3>2. t.wait \in WaitingAt(t.row.proc)
          BY <1>1, <3>1 DEF IInv, LockedWait
    <3>3. s = t.wait
          BY <3>2, <1>2, WaitsAtOne
    <3> QED  BY <3>1, <3>3, <1>6
  <2>6. NoLostSignal'
    <3> SUFFICES ASSUME NEW q \in Procs, NEW r \in signal', NEW s \in WaitingAt(q)
                 PROVE  ~(r.proc = q /\ r.type = SignalType[s] /\ r.status = "ACCEPTED")
        BY <2>2 DEF NoLostSignal
    <3>1. CASE r \in signal
          BY <3>1 DEF SInv, NoLostSignal
    <3>2. CASE r = t.row
          BY <3>2, <2>5
    <3> QED  BY <3>1, <3>2, <2>1
  <2> QED  BY <2>3, <2>4, <2>6 DEF SInv
<1> QED
    BY <1>5, <1>6

\* Steps that leave the processes and the signals alone.
LEMMA TablesSameWaits ==
    ASSUME UNCHANGED <<proc, step, signal>>
    PROVE  WaitsSame
    BY DEF WaitsSame, WaitingAt

\* The clients and the reconciler.
LEMMA ClientsKeepSignals ==
    ASSUME IInv, SInv,
           \/ \E x \in Senders, r \in Message({"ACCEPTED"}) : SendSignal(x, r)
           \/ \E t \in tx : SignalLock(t) \/ SignalAbort(t)
           \/ \E m \in Msgs, p \in Procs, b \in Bodies : ReceiptArrives(m, p, b)
           \/ ReconcilerStep
    PROVE  SInv'
<1>1. WaitsSame
  <2>1. UNCHANGED <<proc, step, signal>>
        BY DEF SendSignal, SignalLock, SignalAbort, ReceiptArrives, ReconcilerStep,
           ReconcileSelect, ReconcileInsert, ReconcileDuplicate, ReconcileConflict
  <2> QED  BY <2>1, TablesSameWaits
<1>2. ASSUME NEW x, NEW r, Insert(x, r), UNCHANGED selected, r \in SignalRow \cup InboxRow,
             proc[r.proc].state # "NONE"
      PROVE  SInv'
  <2> DEFINE new == [r EXCEPT !.status = "ACCEPTED"]
             u == [by |-> x, row |-> new, phase |-> "inserted", wait |-> None]
  <2>1. r.proc \in Procs /\ new.proc = r.proc
        BY <1>2 DEF SignalRow, InboxRow, Message
  <2>2. tx' = tx \cup {u}
        BY <1>2 DEF Insert
  <2>3. u.row.proc = r.proc /\ u.phase = "inserted"
        BY <2>1
  <2> HIDE DEF u
  <2>4. \A t \in tx' : \/ t \in tx
                       \/ /\ t.row.proc \in Procs /\ proc[t.row.proc].state # "NONE"
                          /\ t.phase = "locked" /\ t.wait = None => WaitingAt(t.row.proc) = {}
        BY <1>2, <2>1, <2>2, <2>3
  <2> QED  BY <1>1, <1>2, <2>4, WaitsSameKeeps
<1>3. ASSUME NEW x \in Senders, NEW r \in Message({"ACCEPTED"}), SendSignal(x, r)
      PROVE  SInv'
  <2>1. r \in SignalRow
        BY DEF SignalRow, Message
  <2> QED  BY <1>2, <1>3, <2>1 DEF SendSignal
<1>4. ASSUME NEW t \in tx, SignalLock(t)
      PROVE  SInv'
  <2>1. PICK s \in IF WaitingAt(t.row.proc) = {} THEN {None} ELSE WaitingAt(t.row.proc) :
          tx' = (tx \ {t}) \cup {[t EXCEPT !.phase = "locked", !.wait = s]}
        BY <1>4 DEF SignalLock
  <2> DEFINE u == [t EXCEPT !.phase = "locked", !.wait = s]
  <2>2. t \in Tx /\ t.row.proc \in Procs /\ proc[t.row.proc].state # "NONE"
        BY RowsNameProcs DEF IInv, TypeOK, SInv, Started
  <2>3. u.row = t.row /\ u.wait = s
        BY <2>2 DEF Tx
  <2>4. s = None => WaitingAt(t.row.proc) = {}
        BY <2>1, WorkflowTypes DEF WaitingAt, WaitSteps
  <2>5. tx' = (tx \ {t}) \cup {u}
        BY <2>1
  <2> HIDE DEF u
  <2>6. \A v \in tx' : \/ v \in tx
                       \/ /\ v.row.proc \in Procs /\ proc[v.row.proc].state # "NONE"
                          /\ v.phase = "locked" /\ v.wait = None => WaitingAt(v.row.proc) = {}
        BY <2>2, <2>3, <2>4, <2>5
  <2>7. selected' = selected
        BY <1>4 DEF SignalLock
  <2> QED  BY <1>1, <2>6, <2>7, WaitsSameKeeps
<1>5. ASSUME tx' \subseteq tx, selected' \subseteq selected
      PROVE  SInv'
      BY <1>1, <1>5, WaitsSameKeeps
<1>6. ASSUME NEW t \in tx, SignalAbort(t)
      PROVE  tx' \subseteq tx /\ selected' \subseteq selected
      BY <1>6 DEF SignalAbort
<1>7. ASSUME NEW m \in Msgs, NEW p \in Procs, NEW b \in Bodies, ReceiptArrives(m, p, b)
      PROVE  tx' \subseteq tx /\ selected' \subseteq selected
      BY <1>7 DEF ReceiptArrives
<1>8. ASSUME ReconcileSelect
      PROVE  SInv'
  <2>1. \A r \in selected' : r \in inbox /\ r.proc \in Procs /\ \E s \in WaitingAt(r.proc) : TRUE
        BY <1>8 DEF ReconcileSelect, IInv, TypeOK, InboxRow, Message
  <2>2. \A r \in selected' : proc[r.proc].state # "NONE"
        BY <2>1, WaitsAtOne
  <2>3. tx' = tx
        BY <1>8 DEF ReconcileSelect
  <2> QED  BY <1>1, <2>1, <2>2, <2>3, WaitsSameKeeps
<1>9. ASSUME NEW r \in selected, ReconcileInsert(r)
      PROVE  SInv'
  <2>1. r \in InboxRow /\ proc[r.proc].state # "NONE"
        BY DEF IInv, TypeOK, SInv, Started
  <2> QED  BY <1>2, <1>9, <2>1 DEF ReconcileInsert
<1>10. ASSUME NEW r \in selected, ReconcileDuplicate(r) \/ ReconcileConflict(r)
       PROVE  tx' \subseteq tx /\ selected' \subseteq selected
      BY <1>10 DEF ReconcileDuplicate, ReconcileConflict
<1> QED
    BY <1>3, <1>4, <1>5, <1>6, <1>7, <1>8, <1>9, <1>10 DEF ReconcilerStep

\* The workers, the clock and the operators: the commit of finish_job enters a step,
\* the others leave every wait as it is.
LEMMA WorkersKeepSignals ==
    ASSUME IInv, SInv,
           \/ UNCHANGED vars
           \/ \E s \in AutoSteps : DisableAction(s)
           \/ \E j \in Jobs : TimePasses(j)
           \/ \E w \in Workers : ClaimJobs(w) \/ Crash(w)
           \/ \E c \in claims : WorkerStep(c)
    PROVE  SInv'
<1>1. ASSUME WaitsSame, UNCHANGED <<tx, selected>>
      PROVE  SInv'
      BY <1>1, WaitsSameKeeps
<1>2. ASSUME NEW c \in claims, Commit(c)
      PROVE  SInv'
  <2> DEFINE rows == [job EXCEPT ![c.job] = DoneRow(c)]
             p == c.job[1]
  <2>1. p \in Procs /\ Enters(p, rows, signal, inbox)
        BY <1>2, CommitEnters
  <2>2. ~ProcLocked(p) /\ UNCHANGED <<tx, selected>>
        BY <1>2 DEF Commit
  <2> HIDE DEF rows, p
  <2>3. \A t \in tx' : t.phase = "locked" => t.row.proc # p
        BY <2>2 DEF ProcLocked
  <2>4. signal \subseteq SignalRow
        BY DEF IInv, TypeOK
  <2> QED  BY <2>1, <2>2, <2>3, <2>4, EntersKeepsSignals
<1>3. \A q \in Procs, x \in WaitSteps : x \in Steps /\ <<q, x>> \notin Jobs
      BY DEF WaitSteps, Jobs, AutoSteps
<1>4. proc \in [Procs -> ProcRow] /\ step \in [Procs -> [Steps -> StepRow]]
      BY DEF IInv, TypeOK
<1>5. ASSUME NEW c \in claims, FailDead(c)
      PROVE  SInv'
  <2>1. c.job \in Jobs
        BY NoClaimYet DEF IInv
  <2>2. c.job[1] \in Procs /\ c.job[2] \in AutoSteps /\ c.job[2] \in Steps
        BY <2>1 DEF Jobs, AutoSteps
  <2>3. /\ step' = [step EXCEPT ![c.job[1]][c.job[2]].state = "FAILED"]
        /\ proc' = [proc EXCEPT ![c.job[1]].state = "FAILED"]
        /\ UNCHANGED <<signal, tx, selected>>
        BY <1>5 DEF FailDead
  <2>4. \A q \in Procs, x \in WaitSteps : step'[q][x] = step[q][x]
    <3>1. \A x \in WaitSteps : x # c.job[2] /\ x \in Steps
          BY <2>2 DEF WaitSteps, AutoSteps
    <3> QED  BY <3>1, <2>2, <2>3, <1>4
  <2>5. \A q \in Procs : proc'[q] = proc[q] \/ proc'[q].state = "FAILED"
        BY <2>2, <2>3, <1>4 DEF ProcRow
  <2>6. WaitsSame
        BY <2>3, <2>4, <2>5 DEF WaitsSame, WaitingAt
  <2> QED  BY <2>3, <2>6, <1>1
<1>6. ASSUME NEW w \in Workers, ClaimJobs(w)
      PROVE  SInv'
  <2>1. PICK S \in SUBSET Jobs : ClaimWrites(w, S)
        BY <1>6, ClaimedRows
  <2>2. \A q \in Procs, x \in WaitSteps : step'[q][x] = step[q][x]
        BY <2>1, <1>3 DEF ClaimWrites
  <2>3. \A q \in Procs : proc'[q] = proc[q] \/ proc'[q].state = "FAILED"
    <3>1. \A q \in Procs : [proc[q] EXCEPT !.state = "FAILED"].state = "FAILED"
          BY <1>4 DEF ProcRow
    <3> QED  BY <2>1, <3>1 DEF ClaimWrites
  <2>4. UNCHANGED <<signal, tx, selected>>
        BY <1>6 DEF ClaimJobs
  <2>5. WaitsSame
        BY <2>2, <2>3, <2>4 DEF WaitsSame, WaitingAt
  <2> QED  BY <2>4, <2>5, <1>1
<1>7. ASSUME UNCHANGED <<proc, step, signal, tx, selected>>
      PROVE  SInv'
      BY <1>7, <1>1, TablesSameWaits
<1>8. CASE \/ UNCHANGED vars
           \/ \E s \in AutoSteps : DisableAction(s)
           \/ \E j \in Jobs : TimePasses(j)
           \/ \E w \in Workers : Crash(w)
      BY <1>7, <1>8 DEF vars, DisableAction, TimePasses, Crash, DbUnchanged
<1>9. ASSUME NEW c \in claims, WorkerStep(c), ~Commit(c), ~FailDead(c)
      PROVE  SInv'
  <2>1. UNCHANGED <<proc, step, signal, tx, selected>>
        BY <1>9 DEF WorkerStep, ProcessJob, Invoke, InvokeRepeated, InvokeError, Timeout,
           DbFailure, FinishJob, CommitRefused, FailStale, FailRetry, DbUnchanged
  <2> QED  BY <2>1, <1>7
<1> QED
    BY <1>2, <1>5, <1>6, <1>8, <1>9

LEMMA SInvStep == IInv /\ SInv /\ [Next]_vars => SInv'
<1> SUFFICES ASSUME IInv, SInv, [Next]_vars PROVE SInv'
    OBVIOUS
<1>1. signal \subseteq SignalRow
      BY DEF IInv, TypeOK
<1>2. ASSUME NEW p \in Procs, StartProcess(p)
      PROVE  SInv'
  <2>1. Enters(p, job, signal, inbox) /\ UNCHANGED <<tx, selected>>
        BY <1>2, StartEnters DEF StartProcess
  <2>2. \A t \in tx : t.row.proc # p
        BY <1>2 DEF StartProcess, SInv, Started
  <2> QED  BY <1>1, <2>1, <2>2, EntersKeepsSignals
<1>3. ASSUME NEW p \in Procs, NEW o \in Outcome, ManualDecision(p, o)
      PROVE  SInv'
  <2>1. Enters(p, job, signal, inbox) /\ UNCHANGED <<tx, selected>>
        BY <1>3, ManualEnters DEF ManualDecision
  <2>2. \A t \in tx : t.phase = "locked" => t.row.proc # p
        BY <1>3 DEF ManualDecision, ProcLocked
  <2> QED  BY <1>1, <2>1, <2>2, EntersKeepsSignals
<1> QED
    BY <1>2, <1>3, SignalCommitKeeps, ClientsKeepSignals, WorkersKeepSignals DEF Next

\* No signal is lost between accept_signal and _enter_step: a process never waits
\* for a signal that is already ACCEPTED, whichever of the two comes first, because
\* accept_signal reads the waiting step under the process lock and _enter_step looks
\* for accepted signals before it waits.
THEOREM NoneLost == Spec => []NoLostSignal
<1>1. Init => SInv
      BY DEF Init, SInv, LockedQuiet, Started, NoLostSignal
<1>2. IInv /\ SInv /\ [Next]_vars => SInv'
      BY SInvStep
<1>3. SInv => NoLostSignal
      BY DEF SInv
<1> QED
    BY <1>1, <1>2, <1>3, Invariance, PTL DEF Spec

-----------------------------------------------------------------------------
(* Every message is one signal, and an applied receipt is one of them. *)

\* The two halves of InboxReachesSignal and the uniqueness of the inbox's message
\* ids, of tables that a transaction may have written but not committed.
Tidy(sent, received) ==
    /\ \A q, r \in sent : Clash(q, r) => q = r
    /\ \A q, r \in received : q.msg = r.msg => q = r
    /\ \A r \in received : r.status = "APPLIED" => \E q \in sent : SameBody(q, r)

\* An open signal transaction holds its keys alone.
KeysAlone ==
    \A t \in tx : /\ Fresh(signal, t.row)
                  /\ \A u \in tx : Clash(t.row, u.row) => t = u

\* The reconciler has one open transaction, for a row it has selected.
ReconcilesSelected ==
    \A t \in tx : t.by = Reconciler =>
        /\ \E r \in selected : r.msg = t.row.msg /\ SameBody(t.row, r)
        /\ \A u \in tx : u.by = Reconciler => t = u

UInv == Tidy(signal, inbox) /\ KeysAlone /\ ReconcilesSelected

\* Two rows with the same message id and body.
SameKeys(q, r) == q.msg = r.msg /\ SameBody(q, r)

\* The status of a row is not part of its keys.
LEMMA StatusKeepsKeys ==
    ASSUME NEW r \in SignalRow \cup InboxRow, NEW st
    PROVE  SameKeys([r EXCEPT !.status = st], r)
    BY DEF SameKeys, SameBody, SignalRow, InboxRow, Message

\* Rows clash by their keys.
LEMMA KeysClash ==
    ASSUME NEW q, NEW r, NEW a, NEW b, SameKeys(q, a), SameKeys(r, b)
    PROVE  /\ Clash(q, r) <=> Clash(a, b)
           /\ Clash(q, r) <=> Clash(r, q)
           /\ SameBody(q, r) <=> SameBody(a, b)
    BY DEF SameKeys, SameBody, Clash

\* Applying one signal keeps the signals' keys.
LEMMA AppliesKeepsKeys ==
    ASSUME NEW now, NEW sent \in SUBSET SignalRow, NEW p, NEW received, Applies(now, sent, p),
           Tidy(sent, received)
    PROVE  Tidy(now, received) /\ \A x : Fresh(sent, x) => Fresh(now, x)
<1>1. CASE now = sent
      BY <1>1
<1>2. ASSUME NEW a \in sent, now = (sent \ {a}) \cup WithStatus({a}, "APPLIED")
      PROVE  Tidy(now, received) /\ \A x : Fresh(sent, x) => Fresh(now, x)
  <2> DEFINE b == [a EXCEPT !.status = "APPLIED"]
  <2>1. now = (sent \ {a}) \cup {b}
        BY <1>2 DEF WithStatus
  <2>2. SameKeys(b, a)
        BY StatusKeepsKeys
  <2>3. SameKeys(a, a)
        BY DEF SameKeys, SameBody
  <2> HIDE DEF b
  <2>4. \A x : Clash(b, x) <=> Clash(a, x)
        BY <2>2 DEF SameKeys, SameBody, Clash
  <2>5. \A x : (SameBody(b, x) <=> SameBody(a, x)) /\ (Clash(x, b) <=> Clash(x, a))
        BY <2>2 DEF SameKeys, SameBody, Clash
  <2>6. \A q, r \in now : Clash(q, r) => q = r
        BY <2>1, <2>4, <2>5 DEF Tidy
  <2>7. \A r \in received : r.status = "APPLIED" => \E q \in now : SameBody(q, r)
    <3> SUFFICES ASSUME NEW r \in received, r.status = "APPLIED"
                 PROVE  \E q \in now : SameBody(q, r)
        OBVIOUS
    <3>1. PICK q \in sent : SameBody(q, r)
          BY DEF Tidy
    <3>2. CASE q = a
          BY <3>1, <3>2, <2>1, <2>5
    <3>3. CASE q # a
          BY <3>1, <3>3, <2>1
    <3> QED  BY <3>2, <3>3
  <2>8. \A x : Fresh(sent, x) => Fresh(now, x)
        BY <2>1, <2>4 DEF Fresh
  <2> QED  BY <2>6, <2>7, <2>8 DEF Tidy
<1> QED
    BY <1>1, <1>2 DEF Applies

\* Entering a step keeps the keys: a row it accepts is fresh, and nobody holds its
\* keys; one that is not fresh is a signal already.
LEMMA SettlesKeepsKeys ==
    ASSUME NEW db, NEW p, NEW s, NEW sig, NEW row, Settles(db, p, s, sig, row),
           db.signal \subseteq SignalRow, db.inbox \subseteq InboxRow, Tidy(db.signal, db.inbox)
    PROVE  /\ Tidy(signal', inbox')
           /\ \A t \in tx : Fresh(db.signal, t.row) => Fresh(signal', t.row)
<1> DEFINE fresh == {r \in row : Fresh(db.signal, r)}
           OldOf(r, a) == a \in db.signal \ sig /\ r = a
           AppliedOf(r, a) == a \in sig /\ r = [a EXCEPT !.status = "APPLIED"]
           AcceptedOf(r, a) == a \in fresh /\ r = [a EXCEPT !.status = RowStatus(sig)]
<1>1. /\ sig \subseteq db.signal /\ row \subseteq db.inbox
      /\ \A q, r \in row : q = r
      /\ \A r \in row : ~Conflict(db.signal, r) /\ ~KeyHeld(r)
      /\ signal' = (db.signal \ sig) \cup WithStatus(sig, "APPLIED")
                   \cup WithStatus(fresh, RowStatus(sig))
      /\ inbox' = (db.inbox \ row) \cup WithStatus(row, "APPLIED")
      BY DEF Settles, ReadySignals, ReceivedRows
<1>2. \A r \in signal' : \E a : OldOf(r, a) \/ AppliedOf(r, a) \/ AcceptedOf(r, a)
      BY <1>1 DEF WithStatus
<1>3. \A r, a : OldOf(r, a) \/ AppliedOf(r, a) \/ AcceptedOf(r, a) => SameKeys(r, a)
  <2>1. \A a : SameKeys(a, a)
        BY DEF SameKeys, SameBody
  <2> QED  BY <2>1, <1>1, StatusKeepsKeys
<1>4. \A a \in fresh : \A b \in db.signal : ~Clash(a, b) /\ ~Clash(b, a)
      BY DEF Fresh, Clash, SameBody
<1>5. \A q, r \in signal' : Clash(q, r) => q = r
  <2> SUFFICES ASSUME NEW q \in signal', NEW r \in signal', Clash(q, r)
               PROVE  q = r
      OBVIOUS
  <2>1. PICK a : OldOf(q, a) \/ AppliedOf(q, a) \/ AcceptedOf(q, a)
        BY <1>2
  <2>2. PICK b : OldOf(r, b) \/ AppliedOf(r, b) \/ AcceptedOf(r, b)
        BY <1>2
  <2>3. Clash(a, b)
        BY <2>1, <2>2, <1>3, KeysClash
  <2>4. a = b
    <3>1. CASE a \in db.signal /\ b \in db.signal
          BY <2>3, <3>1 DEF Tidy
    <3>2. CASE a \in fresh /\ b \in fresh
          BY <1>1, <3>2
    <3>3. (a \in db.signal \/ a \in fresh) /\ (b \in db.signal \/ b \in fresh)
          BY <2>1, <2>2, <1>1
    <3> QED  BY <3>1, <3>2, <3>3, <2>3, <1>4
  <2>5. a \notin fresh \/ a \notin db.signal
    <3>1. Clash(a, a)
          BY DEF Clash, SameBody
    <3> QED  BY <3>1, <1>4
  <2> QED  BY <2>1, <2>2, <2>4, <2>5, <1>1
<1>6. \A q, r \in inbox' : q.msg = r.msg => q = r
  <2> SUFFICES ASSUME NEW q \in inbox', NEW r \in inbox', q.msg = r.msg
               PROVE  q = r
      OBVIOUS
  <2>1. ASSUME NEW x \in inbox'
        PROVE  \E a \in db.inbox : /\ x.msg = a.msg
                                   /\ x = IF a \in row THEN [a EXCEPT !.status = "APPLIED"] ELSE a
    <3>1. CASE x \in db.inbox \ row
          BY <3>1
    <3>2. CASE x \in WithStatus(row, "APPLIED")
      <4>1. PICK a \in row : x = [a EXCEPT !.status = "APPLIED"]
            BY <3>2 DEF WithStatus
      <4>2. a \in db.inbox /\ SameKeys(x, a)
            BY <4>1, <1>1, StatusKeepsKeys
      <4> QED  BY <4>1, <4>2 DEF SameKeys
    <3> QED  BY <3>1, <3>2, <1>1
  <2>2. PICK a \in db.inbox : /\ q.msg = a.msg
                              /\ q = IF a \in row THEN [a EXCEPT !.status = "APPLIED"] ELSE a
        BY <2>1
  <2>3. PICK b \in db.inbox : /\ r.msg = b.msg
                              /\ r = IF b \in row THEN [b EXCEPT !.status = "APPLIED"] ELSE b
        BY <2>1
  <2>4. a = b
        BY <2>2, <2>3 DEF Tidy
  <2> QED  BY <2>2, <2>3, <2>4
<1>7. ASSUME NEW q \in db.signal
      PROVE  \E r \in signal' : SameKeys(r, q)
  <2>1. CASE q \in sig
    <3>1. [q EXCEPT !.status = "APPLIED"] \in signal'
          BY <2>1, <1>1 DEF WithStatus
    <3> QED  BY <3>1, StatusKeepsKeys
  <2>2. CASE q \notin sig
        BY <2>2, <1>1 DEF SameKeys, SameBody
  <2> QED  BY <2>1, <2>2
<1>8. ASSUME NEW r \in inbox', r.status = "APPLIED"
      PROVE  \E q \in signal' : SameBody(q, r)
  <2>1. CASE r \in db.inbox
    <3>1. PICK q \in db.signal : SameBody(q, r)
          BY <2>1, <1>8 DEF Tidy
    <3>2. PICK a \in signal' : SameKeys(a, q)
          BY <1>7
    <3> QED  BY <3>1, <3>2 DEF SameKeys, SameBody
  <2>2. CASE r \in WithStatus(row, "APPLIED")
    <3>1. PICK a \in row : r = [a EXCEPT !.status = "APPLIED"]
          BY <2>2 DEF WithStatus
    <3>2. a \in db.inbox /\ SameKeys(r, a)
          BY <3>1, <1>1, StatusKeepsKeys
    <3>3. CASE a \in fresh
      <4>1. [a EXCEPT !.status = RowStatus(sig)] \in signal'
            BY <3>3, <1>1 DEF WithStatus
      <4>2. SameKeys([a EXCEPT !.status = RowStatus(sig)], a)
            BY <3>2, StatusKeepsKeys
      <4> QED  BY <4>1, <4>2, <3>2 DEF SameKeys, SameBody
    <3>4. CASE a \notin fresh
      <4>1. PICK q \in db.signal : Clash(q, a)
            BY <3>1, <3>4 DEF Fresh
      <4>2. SameBody(q, a)
            BY <4>1, <3>1, <1>1 DEF Clash, Conflict
      <4>3. PICK b \in signal' : SameKeys(b, q)
            BY <1>7
      <4> QED  BY <4>2, <4>3, <3>2 DEF SameKeys, SameBody
    <3> QED  BY <3>3, <3>4
  <2> QED  BY <2>1, <2>2, <1>1
<1>9. ASSUME NEW t \in tx, Fresh(db.signal, t.row)
      PROVE  Fresh(signal', t.row)
  <2> SUFFICES ASSUME NEW r \in signal', Clash(r, t.row)
               PROVE  FALSE
      BY DEF Fresh
  <2>1. PICK a : OldOf(r, a) \/ AppliedOf(r, a) \/ AcceptedOf(r, a)
        BY <1>2
  <2>2. Clash(a, t.row) /\ Clash(t.row, a)
    <3>1. SameKeys(r, a)
          BY <2>1, <1>3
    <3> QED  BY <3>1 DEF SameKeys, SameBody, Clash
  <2>3. CASE a \in db.signal
        BY <2>2, <2>3, <1>9 DEF Fresh
  <2>4. CASE a \in fresh
        BY <2>2, <2>4, <1>1 DEF KeyHeld
  <2> QED  BY <2>1, <2>3, <2>4, <1>1
<1> QED
    BY <1>5, <1>6, <1>8, <1>9 DEF Tidy

\* Both together.
LEMMA EntersKeepsKeys ==
    ASSUME IInv, NEW p \in Procs, NEW rows, NEW sent \in SUBSET SignalRow,
           NEW received \in SUBSET InboxRow,
           Enters(p, rows, sent, received), Tidy(sent, received)
    PROVE  /\ Tidy(signal', inbox')
           /\ \A t \in tx : Fresh(sent, t.row) => Fresh(signal', t.row)
<1>1. PICK db : \E s \in Steps : /\ Landing(db, p, s) /\ EnterStep(db, p, s)
                                 /\ Applies(db.signal, sent, p) /\ db.inbox = received
      BY DEF Enters
<1>2. PICK s \in Steps : /\ Landing(db, p, s) /\ EnterStep(db, p, s)
                         /\ Applies(db.signal, sent, p) /\ db.inbox = received
      BY <1>1
<1>3. \E sig, row : Settles(db, p, s, sig, row)
      BY <1>2, EnterStepSettles
<1>4. PICK sig, row : Settles(db, p, s, sig, row)
      BY <1>3
<1>5. db.signal \subseteq SignalRow /\ db.inbox \subseteq InboxRow
      BY <1>2 DEF Landing
<1>6. Tidy(db.signal, db.inbox) /\ \A x : Fresh(sent, x) => Fresh(db.signal, x)
      BY <1>2, AppliesKeepsKeys
<1>7. /\ Tidy(signal', inbox')
      /\ \A t \in tx : Fresh(db.signal, t.row) => Fresh(signal', t.row)
      BY <1>4, <1>5, <1>6, SettlesKeepsKeys
<1> QED
    BY <1>6, <1>7
\* A process enters a step in a transaction that has written no signal itself.
LEMMA EntryKeepsUInv ==
    ASSUME IInv, UInv, NEW p \in Procs, NEW rows, Enters(p, rows, signal, inbox),
           UNCHANGED <<tx, selected>>
    PROVE  UInv'
<1>1. signal \in SUBSET SignalRow /\ inbox \in SUBSET InboxRow
      BY DEF IInv, TypeOK
<1>2. /\ Tidy(signal', inbox')
      /\ \A t \in tx : Fresh(signal, t.row) => Fresh(signal', t.row)
      BY <1>1, EntersKeepsKeys DEF UInv
<1>3. KeysAlone'
      BY <1>2 DEF UInv, KeysAlone
<1>4. ReconcilesSelected'
      BY DEF UInv, ReconcilesSelected
<1> QED
    BY <1>2, <1>3, <1>4 DEF UInv, Tidy

\* The tables that a signal transaction leaves: its signal is new to the others,
\* and the inbox row it settles is the signal's.
LEMMA SignalBaseTidy ==
    ASSUME IInv, UInv, NEW t \in tx, SignalCommit(t)
    PROVE  /\ Tidy(SignalBase(t).signal, SignalBase(t).inbox)
           /\ \A u \in tx \ {t} : Fresh(SignalBase(t).signal, u.row)
<1> DEFINE mine == InboxOf(t)
<1>1. /\ SignalBase(t).signal = signal \cup {t.row}
      /\ SignalBase(t).inbox = (inbox \ mine) \cup WithStatus(mine, "APPLIED")
      BY DEF SignalBase, Tables
<1>2. t.row \in SignalRow /\ mine \subseteq inbox /\ inbox \subseteq InboxRow
      BY RowsNameProcs DEF InboxOf, IInv, TypeOK
<1>3. \A q \in signal : ~Clash(q, t.row) /\ ~Clash(t.row, q)
      BY DEF UInv, KeysAlone, Fresh, Clash, SameBody
<1>4. \A q, r \in signal \cup {t.row} : Clash(q, r) => q = r
      BY <1>3 DEF UInv, Tidy
<1>5. ASSUME NEW r \in mine
      PROVE  SameBody(t.row, r)
  <2>1. t.by = Reconciler /\ r \in selected /\ r.msg = t.row.msg
        BY DEF InboxOf
  <2>2. PICK q \in selected : q.msg = t.row.msg /\ SameBody(t.row, q)
        BY <2>1 DEF UInv, ReconcilesSelected
  <2>3. q = r
        BY <2>1, <2>2 DEF UInv, Tidy, IInv, TypeOK
  <2> QED  BY <2>2, <2>3
<1> HIDE DEF mine
<1>6. ASSUME NEW x \in (inbox \ mine) \cup WithStatus(mine, "APPLIED")
      PROVE  \E a \in inbox : /\ SameKeys(x, a)
                              /\ x = IF a \in mine THEN [a EXCEPT !.status = "APPLIED"] ELSE a
  <2>1. CASE x \in inbox \ mine
        BY <2>1 DEF SameKeys, SameBody
  <2>2. CASE x \in WithStatus(mine, "APPLIED")
    <3>1. PICK a \in mine : x = [a EXCEPT !.status = "APPLIED"]
          BY <2>2 DEF WithStatus
    <3>2. a \in inbox /\ SameKeys(x, a)
          BY <3>1, <1>2, StatusKeepsKeys
    <3> QED  BY <3>1, <3>2
  <2> QED  BY <2>1, <2>2
<1>7. ASSUME NEW q \in (inbox \ mine) \cup WithStatus(mine, "APPLIED"),
             NEW r \in (inbox \ mine) \cup WithStatus(mine, "APPLIED"), q.msg = r.msg
      PROVE  q = r
  <2>1. PICK a \in inbox : /\ SameKeys(q, a)
                           /\ q = IF a \in mine THEN [a EXCEPT !.status = "APPLIED"] ELSE a
        BY <1>6
  <2>2. PICK b \in inbox : /\ SameKeys(r, b)
                           /\ r = IF b \in mine THEN [b EXCEPT !.status = "APPLIED"] ELSE b
        BY <1>6
  <2>3. a = b
        BY <2>1, <2>2, <1>7 DEF SameKeys, UInv, Tidy
  <2> QED  BY <2>1, <2>2, <2>3
<1>8. ASSUME NEW r \in (inbox \ mine) \cup WithStatus(mine, "APPLIED"), r.status = "APPLIED"
      PROVE  \E q \in signal \cup {t.row} : SameBody(q, r)
  <2>1. PICK a \in inbox : /\ SameKeys(r, a)
                           /\ r = IF a \in mine THEN [a EXCEPT !.status = "APPLIED"] ELSE a
        BY <1>6
  <2>2. CASE a \in mine
    <3>1. SameBody(t.row, a)
          BY <2>2, <1>5
    <3> QED  BY <3>1, <2>1 DEF SameKeys, SameBody
  <2>3. CASE a \notin mine
        BY <2>1, <2>3, <1>8 DEF UInv, Tidy
  <2> QED  BY <2>2, <2>3
<1>9. \A u \in tx \ {t} : Fresh(signal \cup {t.row}, u.row)
      BY DEF UInv, KeysAlone, Fresh
<1> QED
    BY <1>1, <1>4, <1>7, <1>8, <1>9 DEF Tidy

\* The commit of accept_signal.
LEMMA SignalCommitKeepsUInv ==
    ASSUME IInv, UInv, NEW t \in tx, SignalCommit(t)
    PROVE  UInv'
<1> DEFINE sent == SignalBase(t).signal
           received == SignalBase(t).inbox
<1>1. tx' = tx \ {t} /\ selected' = selected \ InboxOf(t)
      BY DEF SignalCommit
<1>2. sent \in SUBSET SignalRow /\ received \in SUBSET InboxRow /\ t.row.proc \in Procs
      BY SignalBaseFacts
<1>3. Tidy(sent, received) /\ \A u \in tx \ {t} : Fresh(sent, u.row)
      BY SignalBaseTidy
<1>4. Tidy(signal', inbox') /\ \A u \in tx \ {t} : Fresh(signal', u.row)
  <2>1. CASE t.wait # None /\ SignalType[t.wait] = t.row.type
    <3>1. Enters(t.row.proc, job, sent, received)
          BY <2>1, SignalEnters
    <3> HIDE DEF sent, received
    <3>2. /\ Tidy(signal', inbox')
          /\ \A u \in tx : Fresh(sent, u.row) => Fresh(signal', u.row)
          BY <3>1, <1>2, <1>3, EntersKeepsKeys
    <3> QED  BY <3>2, <1>3
  <2>2. CASE ~(t.wait # None /\ SignalType[t.wait] = t.row.type)
    <3>1. signal' = sent /\ inbox' = received
          BY <2>2, SignalKept
    <3> HIDE DEF sent, received
    <3> QED  BY <3>1, <1>3
  <2> QED  BY <2>1, <2>2
<1>5. KeysAlone'
      BY <1>1, <1>4 DEF UInv, KeysAlone
<1>6. ReconcilesSelected'
  <2> SUFFICES ASSUME NEW u \in tx', u.by = Reconciler
               PROVE  /\ \E r \in selected' : r.msg = u.row.msg /\ SameBody(u.row, r)
                      /\ \A v \in tx' : v.by = Reconciler => u = v
      BY DEF ReconcilesSelected
  <2>1. u \in tx /\ u # t
        BY <1>1
  <2>2. t.by # Reconciler
        BY <2>1 DEF UInv, ReconcilesSelected
  <2>3. selected' = selected
        BY <1>1, <2>2 DEF InboxOf
  <2> QED  BY <1>1, <2>1, <2>3 DEF UInv, ReconcilesSelected
<1> QED
    BY <1>4, <1>5, <1>6 DEF UInv, Tidy

\* accept_signal inserts its signal: the keys are free, and the reconciler has no
\* other open transaction.
LEMMA InsertKeepsUInv ==
    ASSUME IInv, UInv, NEW x, NEW r \in SignalRow \cup InboxRow, Insert(x, r),
           x = Reconciler => r \in selected /\ ReconcilerIdle,
           UNCHANGED <<signal, inbox, selected>>
    PROVE  UInv'
<1> DEFINE new == [r EXCEPT !.status = "ACCEPTED"]
           u == [by |-> x, row |-> new, phase |-> "inserted", wait |-> None]
<1>1. SameKeys(new, r)
      BY StatusKeepsKeys
<1> HIDE DEF new
<1>2. /\ tx' = tx \cup {u} /\ u.row = new /\ u.by = x
      /\ Fresh(signal, r) /\ \A t \in tx : ~Clash(t.row, r)
      BY DEF Insert, KeyHeld, new
<1> HIDE DEF u
<1>3. /\ Fresh(signal, new) /\ \A t \in tx : ~Clash(t.row, new) /\ ~Clash(new, t.row)
      BY <1>1, <1>2 DEF Fresh, SameKeys, SameBody, Clash
<1>4. KeysAlone'
      BY <1>2, <1>3 DEF UInv, KeysAlone
<1>5. ReconcilesSelected'
  <2> SUFFICES ASSUME NEW t \in tx', t.by = Reconciler
               PROVE  /\ \E q \in selected : q.msg = t.row.msg /\ SameBody(t.row, q)
                      /\ \A v \in tx' : v.by = Reconciler => t = v
      BY DEF ReconcilesSelected
  <2>1. CASE x = Reconciler
    <3>1. t = u /\ \A v \in tx' : v.by = Reconciler => v = u
          BY <2>1, <1>2 DEF ReconcilerIdle
    <3> QED  BY <2>1, <3>1, <1>1, <1>2 DEF SameKeys
  <2>2. CASE x # Reconciler
        BY <2>2, <1>2 DEF UInv, ReconcilesSelected
  <2> QED  BY <2>1, <2>2
<1> QED
    BY <1>4, <1>5 DEF UInv, Tidy

\* The clients and the reconciler.
LEMMA ClientsKeepUInv ==
    ASSUME IInv, UInv,
           \/ \E x \in Senders, r \in Message({"ACCEPTED"}) : SendSignal(x, r)
           \/ \E t \in tx : SignalLock(t) \/ SignalAbort(t)
           \/ \E m \in Msgs, p \in Procs, b \in Bodies : ReceiptArrives(m, p, b)
           \/ ReconcilerStep
    PROVE  UInv'
<1>1. ASSUME NEW x \in Senders, NEW r \in Message({"ACCEPTED"}), SendSignal(x, r)
      PROVE  UInv'
  <2>1. r \in SignalRow /\ x # Reconciler
        BY WorkflowTypes DEF SignalRow, Message
  <2> QED  BY <1>1, <2>1, InsertKeepsUInv DEF SendSignal
<1>2. ASSUME NEW t \in tx, SignalLock(t)
      PROVE  UInv'
  <2>1. PICK w \in IF WaitingAt(t.row.proc) = {} THEN {None} ELSE WaitingAt(t.row.proc) :
          tx' = (tx \ {t}) \cup {[t EXCEPT !.phase = "locked", !.wait = w]}
        BY <1>2 DEF SignalLock
  <2> DEFINE u == [t EXCEPT !.phase = "locked", !.wait = w]
  <2>2. u.row = t.row /\ u.by = t.by
        BY DEF IInv, TypeOK, Tx
  <2>3. tx' = (tx \ {t}) \cup {u} /\ UNCHANGED <<signal, inbox, selected>>
        BY <1>2, <2>1 DEF SignalLock
  <2> HIDE DEF u
  <2>4. KeysAlone'
        BY <2>2, <2>3 DEF UInv, KeysAlone
  <2>5. ReconcilesSelected'
        BY <2>2, <2>3 DEF UInv, ReconcilesSelected
  <2> QED  BY <2>3, <2>4, <2>5 DEF UInv, Tidy
<1>3. ASSUME NEW t \in tx, SignalAbort(t)
      PROVE  UInv'
  <2>1. /\ tx' = tx \ {t} /\ UNCHANGED <<signal, inbox>>
        /\ selected' = IF t.by = Reconciler THEN {} ELSE selected
        BY <1>3 DEF SignalAbort
  <2>2. KeysAlone'
        BY <2>1 DEF UInv, KeysAlone
  <2>3. ReconcilesSelected'
        BY <2>1 DEF UInv, ReconcilesSelected
  <2> QED  BY <2>1, <2>2, <2>3 DEF UInv, Tidy
<1>4. ASSUME NEW m \in Msgs, NEW p \in Procs, NEW b \in Bodies, ReceiptArrives(m, p, b)
      PROVE  UInv'
  <2> DEFINE new == [msg |-> m, proc |-> p, type |-> ReceiptType, body |-> b, status |-> "RECEIVED"]
  <2>1. /\ inbox' = inbox \cup {new} /\ UNCHANGED <<signal, tx, selected>>
        /\ \A r \in inbox : r.msg # new.msg
        BY <1>4 DEF ReceiptArrives
  <2>2. new.status = "RECEIVED"
        OBVIOUS
  <2> HIDE DEF new
  <2>3. Tidy(signal', inbox')
        BY <2>1, <2>2 DEF UInv, Tidy
  <2>4. KeysAlone' /\ ReconcilesSelected'
        BY <2>1 DEF UInv, KeysAlone, ReconcilesSelected
  <2> QED  BY <2>3, <2>4 DEF UInv, Tidy
<1>5. ASSUME ReconcilerIdle, UNCHANGED <<signal, tx>>, Tidy(signal, inbox')
      PROVE  UInv'
  <2>1. KeysAlone' /\ ReconcilesSelected'
        BY <1>5 DEF UInv, KeysAlone, ReconcilesSelected, ReconcilerIdle
  <2> QED  BY <1>5, <2>1 DEF UInv, Tidy
<1>6. CASE ReconcileSelect
      BY <1>5, <1>6 DEF ReconcileSelect, UInv
<1>7. ASSUME NEW r \in selected, ReconcileInsert(r)
      PROVE  UInv'
  <2>1. r \in SignalRow \cup InboxRow
        BY DEF IInv, TypeOK
  <2> QED  BY <1>7, <2>1, InsertKeepsUInv DEF ReconcileInsert
<1>8. ASSUME NEW r \in selected, ReconcileConflict(r)
      PROVE  UInv'
      BY <1>5, <1>8 DEF ReconcileConflict, UInv
<1>9. ASSUME NEW r \in selected, ReconcileDuplicate(r)
      PROVE  UInv'
  <2> DEFINE new == [r EXCEPT !.status = "APPLIED"]
  <2>1. r \in inbox /\ r \in InboxRow
        BY DEF IInv, TypeOK
  <2>2. SameKeys(new, r)
        BY <2>1, StatusKeepsKeys
  <2>3. inbox' = (inbox \ {r}) \cup {new}
        BY <1>9 DEF ReconcileDuplicate, WithStatus
  <2> HIDE DEF new
  <2>4. PICK q \in signal : Clash(q, r)
        BY <1>9 DEF ReconcileDuplicate, Fresh
  <2>5. SameBody(q, new)
    <3>1. SameBody(q, r)
          BY <1>9, <2>4 DEF ReconcileDuplicate, Conflict, Clash
    <3> QED  BY <3>1, <2>2 DEF SameKeys, SameBody
  <2>6. \A a, b \in inbox' : a.msg = b.msg => a = b
        BY <2>1, <2>2, <2>3 DEF SameKeys, UInv, Tidy
  <2>7. \A a \in inbox' : a.status = "APPLIED" => \E c \in signal : SameBody(c, a)
        BY <2>3, <2>5 DEF UInv, Tidy
  <2>8. Tidy(signal, inbox')
        BY <2>6, <2>7 DEF UInv, Tidy
  <2> QED  BY <1>5, <1>9, <2>8 DEF ReconcileDuplicate
<1> QED
    BY <1>1, <1>2, <1>3, <1>4, <1>6, <1>7, <1>8, <1>9 DEF ReconcilerStep

LEMMA UInvStep == IInv /\ UInv /\ [Next]_vars => UInv'
<1> SUFFICES ASSUME IInv, UInv, [Next]_vars PROVE UInv'
    OBVIOUS
<1>1. ASSUME NEW p \in Procs, StartProcess(p)
      PROVE  UInv'
      BY <1>1, StartEnters, EntryKeepsUInv DEF StartProcess
<1>2. ASSUME NEW p \in Procs, NEW o \in Outcome, ManualDecision(p, o)
      PROVE  UInv'
      BY <1>2, ManualEnters, EntryKeepsUInv DEF ManualDecision
<1>3. ASSUME NEW c \in claims, Commit(c)
      PROVE  UInv'
      BY <1>3, CommitEnters, EntryKeepsUInv DEF Commit
<1>4. ASSUME UNCHANGED <<signal, inbox, tx, selected>>
      PROVE  UInv'
      BY <1>4 DEF UInv, Tidy, KeysAlone, ReconcilesSelected
<1>5. CASE \/ UNCHANGED vars
           \/ \E s \in AutoSteps : DisableAction(s)
           \/ \E j \in Jobs : TimePasses(j)
           \/ \E w \in Workers : ClaimJobs(w) \/ Crash(w)
      BY <1>4, <1>5 DEF vars, DisableAction, TimePasses, ClaimJobs, Crash, DbUnchanged
<1>6. ASSUME NEW c \in claims, WorkerStep(c), ~Commit(c)
      PROVE  UInv'
  <2>1. UNCHANGED <<signal, inbox, tx, selected>>
        BY <1>6 DEF WorkerStep, ProcessJob, Invoke, InvokeRepeated, InvokeError, Timeout,
           DbFailure, FinishJob, CommitRefused, FailStale, FailRetry, FailDead, DbUnchanged
  <2> QED  BY <2>1, <1>4
<1> QED
    BY <1>1, <1>2, <1>3, <1>5, <1>6, SignalCommitKeepsUInv, ClientsKeepUInv DEF Next

\* Message ids and bodies stay unique in workflow_signal although accept_signal, the
\* reconciler and _enter_step insert concurrently, and an inbox row is APPLIED only
\* when its message is a signal of the process.
THEOREM ReceiptsReach == Spec => []InboxReachesSignal
<1>1. Init => UInv
      BY DEF Init, UInv, Tidy, KeysAlone, ReconcilesSelected
<1>2. IInv /\ UInv /\ [Next]_vars => UInv'
      BY UInvStep
<1>3. UInv => InboxReachesSignal
      BY DEF UInv, Tidy, InboxReachesSignal
<1> QED
    BY <1>1, <1>2, <1>3, Invariance, PTL DEF Spec

-----------------------------------------------------------------------------
(* A signal moves a process once. *)

\* The signals of type t applied to process p, and the steps that waited for one.
AppliedTo(sent, p, t) == {r \in sent : r.proc = p /\ r.type = t /\ r.status = "APPLIED"}
Passed(rows, t) == {s \in WaitSteps : SignalType[s] = t /\ rows[s].state = "COMPLETED"}

SameCount(A, D) == IsFiniteSet(A) /\ IsFiniteSet(D) /\ Cardinality(A) = Cardinality(D)

\* OneSignalPerWait of process p, of tables that a transaction may have written but
\* not committed: rows are the steps of p, sent are the signals.
Matched(rows, sent, p) ==
    \A t \in SignalTypes : SameCount(AppliedTo(sent, p, t), Passed(rows, t))

\* No step completed and no signal applied.
LEMMA MatchedKept ==
    ASSUME NEW p, NEW rows, NEW sent, NEW after, NEW now, Matched(rows, sent, p),
           \A y \in WaitSteps : after[y].state = "COMPLETED" <=> rows[y].state = "COMPLETED",
           \A q : q.proc = p /\ q.status = "APPLIED" => (q \in now <=> q \in sent)
    PROVE  Matched(after, now, p)
<1>1. \A t : AppliedTo(now, p, t) = AppliedTo(sent, p, t) /\ Passed(after, t) = Passed(rows, t)
      BY DEF AppliedTo, Passed
<1> QED
    BY <1>1 DEF Matched

\* One step completed and one signal of its type applied.
LEMMA MatchedGrows ==
    ASSUME NEW p, NEW rows, NEW sent, NEW after, NEW now, Matched(rows, sent, p),
           NEW x \in WaitSteps, rows[x].state # "COMPLETED",
           NEW r, r.proc = p, r.type = SignalType[x], r.status = "APPLIED", r \notin sent,
           \A y \in WaitSteps :
              after[y].state = "COMPLETED" <=> rows[y].state = "COMPLETED" \/ y = x,
           \A q : q.status = "APPLIED" => (q \in now <=> q \in sent \/ q = r)
    PROVE  Matched(after, now, p)
<1> SUFFICES ASSUME NEW t \in SignalTypes
             PROVE  SameCount(AppliedTo(now, p, t), Passed(after, t))
    BY DEF Matched
<1>1. SameCount(AppliedTo(sent, p, t), Passed(rows, t))
      BY DEF Matched
<1>2. CASE t # SignalType[x]
  <2>1. AppliedTo(now, p, t) = AppliedTo(sent, p, t) /\ Passed(after, t) = Passed(rows, t)
        BY <1>2 DEF AppliedTo, Passed
  <2> QED  BY <1>1, <2>1
<1>3. CASE t = SignalType[x]
  <2>1. /\ AppliedTo(now, p, t) = AppliedTo(sent, p, t) \cup {r}
        /\ r \notin AppliedTo(sent, p, t)
        BY <1>3 DEF AppliedTo
  <2>2. Passed(after, t) = Passed(rows, t) \cup {x} /\ x \notin Passed(rows, t)
        BY <1>3 DEF Passed
  <2>3. /\ IsFiniteSet(AppliedTo(now, p, t))
        /\ Cardinality(AppliedTo(now, p, t)) = Cardinality(AppliedTo(sent, p, t)) + 1
        BY <1>1, <2>1, FS_AddElement DEF SameCount
  <2>4. /\ IsFiniteSet(Passed(after, t))
        /\ Cardinality(Passed(after, t)) = Cardinality(Passed(rows, t)) + 1
        BY <1>1, <2>2, FS_AddElement DEF SameCount
  <2> QED  BY <1>1, <2>3, <2>4 DEF SameCount
<1> QED
    BY <1>2, <1>3

\* Marking an accepted signal APPLIED adds one applied signal: no other has its keys.
LEMMA AppliesOne ==
    ASSUME NEW sent \in SUBSET SignalRow, NEW received, Tidy(sent, received),
           NEW a \in sent, a.status = "ACCEPTED"
    PROVE  LET r == [a EXCEPT !.status = "APPLIED"]
           IN  /\ r.proc = a.proc /\ r.type = a.type /\ r.status = "APPLIED" /\ r \notin sent
               /\ SameKeys(r, a)
<1> DEFINE r == [a EXCEPT !.status = "APPLIED"]
<1>1. r.proc = a.proc /\ r.type = a.type /\ r.status = "APPLIED" /\ r # a
      BY DEF SignalRow, Message
<1>2. SameKeys(r, a)
      BY StatusKeepsKeys
<1> HIDE DEF r
<1>3. r \notin sent
      BY <1>1, <1>2 DEF SameKeys, Clash, Tidy
<1> QED
    BY <1>1, <1>2, <1>3 DEF r

\* What a transaction does before it enters the step.
LEMMA MovesMatched ==
    ASSUME NEW db, NEW p \in Procs, NEW sent \in SUBSET SignalRow, NEW received,
           Moves(db, sent, p), Tidy(sent, received), Matched(step[p], sent, p)
    PROVE  Matched(db.step[p], db.signal, p)
<1>1. CASE /\ db.signal = sent
           /\ \A y \in WaitSteps :
                 db.step[p][y].state = "COMPLETED" <=> step[p][y].state = "COMPLETED"
      BY <1>1, MatchedKept
<1>2. ASSUME NEW a \in sent, NEW x \in WaitSteps,
             a.proc = p, a.type = SignalType[x], a.status = "ACCEPTED",
             db.signal = (sent \ {a}) \cup WithStatus({a}, "APPLIED"),
             step[p][x].state # "COMPLETED",
             \A y \in WaitSteps :
                db.step[p][y].state = "COMPLETED" <=> step[p][y].state = "COMPLETED" \/ y = x
      PROVE  Matched(db.step[p], db.signal, p)
  <2> DEFINE r == [a EXCEPT !.status = "APPLIED"]
  <2>1. r.proc = p /\ r.type = SignalType[x] /\ r.status = "APPLIED" /\ r \notin sent
        BY <1>2, AppliesOne
  <2>2. db.signal = (sent \ {a}) \cup {r}
        BY <1>2 DEF WithStatus
  <2> HIDE DEF r
  <2>3. \A q : q.status = "APPLIED" => (q \in db.signal <=> q \in sent \/ q = r)
        BY <1>2, <2>2
  <2> DEFINE rows == step[p]
             after == db.step[p]
             now == db.signal
  <2>4. /\ Matched(rows, sent, p) /\ rows[x].state # "COMPLETED"
        /\ \A y \in WaitSteps :
              after[y].state = "COMPLETED" <=> rows[y].state = "COMPLETED" \/ y = x
        /\ \A q : q.status = "APPLIED" => (q \in now <=> q \in sent \/ q = r)
        BY <1>2, <2>3
  <2> HIDE DEF rows, after, now
  <2>5. Matched(after, now, p)
        BY <2>1, <2>4, MatchedGrows
  <2> QED  BY <2>5 DEF after, now
<1> QED
    BY <1>1, <1>2 DEF Moves

\* Entering a step: a wait step is passed with one signal or one inbox row, and with
\* no more than one although both may be there.
LEMMA EnterStepMatched ==
    ASSUME IInv, NEW db, NEW p \in Procs, NEW s \in Steps, Landing(db, p, s),
           EnterStep(db, p, s), Tidy(db.signal, db.inbox), Matched(db.step[p], db.signal, p)
    PROVE  Matched(step'[p], signal', p)
<1>1. PICK sig \in AtMostOne(ReadySignals(db, p, s)), row \in AtMostOne(ReceivedRows(db, p, s)) :
        Write(Entered(db, p, s, sig, row))
      BY DEF EnterStep
<1> DEFINE fresh == {r \in row : Fresh(db.signal, r)}
           last == IF sig \cup fresh = {} THEN s ELSE Target[s][ParamOutcome[s]]
<1>2. /\ signal' = (db.signal \ sig) \cup WithStatus(sig, "APPLIED")
                   \cup WithStatus(fresh, RowStatus(sig))
      /\ step' = [db.step EXCEPT ![p] =
                    [t \in Steps |->
                        IF t = last THEN EntryStep(t)
                        ELSE IF t = s
                        THEN [state |-> "COMPLETED", outcome |-> ParamOutcome[s]]
                        ELSE db.step[p][t]]]
      BY <1>1 DEF Write, Entered
<1>3. /\ db.signal \in SUBSET SignalRow /\ db.inbox \in SUBSET InboxRow
      /\ db.step \in [Procs -> [Steps -> StepRow]]
      /\ db.step[p][s].state \notin {"COMPLETED"}
  <2>1. Rank[s] \in Nat
        BY Acyclic
  <2> QED  BY <2>1 DEF Landing
<1>4. \A y \in WaitSteps :
         step'[p][y] = IF y = last THEN EntryStep(y)
                       ELSE IF y = s
                       THEN [state |-> "COMPLETED", outcome |-> ParamOutcome[s]]
                       ELSE db.step[p][y]
      BY <1>2, <1>3 DEF WaitSteps
<1>5. \A y \in WaitSteps : EntryStep(y).state = "WAITING"
      BY DEF WaitSteps, EntryStep
<1>6. CASE sig \cup fresh = {}
  <2>1. last = s /\ signal' = db.signal
        BY <1>2, <1>6 DEF WithStatus
  <2> HIDE DEF last
  <2>2. \A y \in WaitSteps :
           step'[p][y].state = "COMPLETED" <=> db.step[p][y].state = "COMPLETED"
        BY <1>3, <1>4, <1>5, <2>1
  <2> QED  BY <2>1, <2>2, MatchedKept
<1>7. CASE sig \cup fresh # {}
  <2>1. s \in WaitSteps
        BY <1>7 DEF AtMostOne, ReadySignals, ReceivedRows
  <2>2. last \notin WaitSteps
        BY <1>7, <2>1, WaitCovered, NoAdjacentWaits
  <2> HIDE DEF last
  <2>3. \A y \in WaitSteps :
           step'[p][y].state = "COMPLETED" <=> db.step[p][y].state = "COMPLETED" \/ y = s
        BY <1>4, <2>1, <2>2
  <2>4. ASSUME NEW r, r.proc = p, r.type = SignalType[s], r.status = "APPLIED",
               r \notin db.signal,
               \A q : q.status = "APPLIED" => (q \in signal' <=> q \in db.signal \/ q = r)
        PROVE  Matched(step'[p], signal', p)
        BY <1>3, <2>1, <2>3, <2>4, MatchedGrows
  <2>5. ASSUME NEW a \in ReadySignals(db, p, s), sig = {a}
        PROVE  Matched(step'[p], signal', p)
    <3> DEFINE r == [a EXCEPT !.status = "APPLIED"]
    <3>1. a \in db.signal /\ a.proc = p /\ a.type = SignalType[s] /\ a.status = "ACCEPTED"
          BY <2>5 DEF ReadySignals
    <3>2. r.proc = p /\ r.type = SignalType[s] /\ r.status = "APPLIED" /\ r \notin db.signal
          BY <1>3, <3>1, AppliesOne
    <3>3. WithStatus(sig, "APPLIED") = {r} /\ RowStatus(sig) = "ACCEPTED"
          BY <2>5 DEF WithStatus, RowStatus
    <3>4. \A q \in WithStatus(fresh, "ACCEPTED") : q.status # "APPLIED"
      <4>1. \A b \in fresh : b \in InboxRow
            BY <1>3 DEF AtMostOne, ReceivedRows
      <4> QED  BY <4>1 DEF WithStatus, InboxRow, Message
    <3> HIDE DEF r
    <3>5. \A q : q.status = "APPLIED" => (q \in signal' <=> q \in db.signal \/ q = r)
          BY <1>2, <2>5, <3>1, <3>3, <3>4
    <3> QED  BY <2>4, <3>2, <3>5
  <2>6. ASSUME NEW a \in ReceivedRows(db, p, s), row = {a}, Fresh(db.signal, a), sig = {}
        PROVE  Matched(step'[p], signal', p)
    <3> DEFINE r == [a EXCEPT !.status = "APPLIED"]
    <3>1. a \in InboxRow /\ a.proc = p /\ a.type = SignalType[s]
          BY <1>3, <2>6 DEF ReceivedRows
    <3>2. r.proc = p /\ r.type = SignalType[s] /\ r.status = "APPLIED"
          BY <3>1 DEF InboxRow, Message
    <3>3. SameKeys(r, a)
          BY <3>1, StatusKeepsKeys
    <3>4. fresh = {a}
          BY <2>6
    <3>5. WithStatus(fresh, RowStatus(sig)) = {r} /\ WithStatus(sig, "APPLIED") = {}
          BY <2>6, <3>4 DEF WithStatus, RowStatus
    <3> HIDE DEF r
    <3>6. r \notin db.signal
          BY <2>6, <3>3 DEF Fresh, Clash, SameKeys
    <3>7. signal' = db.signal \cup {r}
          BY <1>2, <2>6, <3>5
    <3> QED  BY <2>4, <3>2, <3>6, <3>7
  <2>7. \/ \E a \in ReadySignals(db, p, s) : sig = {a}
        \/ /\ sig = {}
           /\ \E a \in ReceivedRows(db, p, s) : row = {a} /\ Fresh(db.signal, a)
        BY <1>7 DEF AtMostOne
  <2> QED  BY <2>5, <2>6, <2>7
<1> QED
    BY <1>6, <1>7

\* The signals of the other processes stay as they are.
LEMMA EntersKeepsOthers ==
    ASSUME NEW p \in Procs, NEW rows, NEW sent \in SUBSET SignalRow, NEW received,
           Enters(p, rows, sent, received)
    PROVE  \A r : r.proc # p => (r \in signal' <=> r \in sent)
<1>1. PICK db : \E s \in Steps : /\ Landing(db, p, s) /\ EnterStep(db, p, s)
                                 /\ Applies(db.signal, sent, p)
      BY DEF Enters
<1>2. PICK s \in Steps : /\ Landing(db, p, s) /\ EnterStep(db, p, s)
                         /\ Applies(db.signal, sent, p)
      BY <1>1
<1>3. \A r : r.proc # p => (r \in db.signal <=> r \in sent)
  <2>1. \A a \in sent : [a EXCEPT !.status = "APPLIED"].proc = a.proc
        BY DEF SignalRow, Message
  <2>2. ASSUME NEW a \in sent, a.proc = p,
               db.signal = (sent \ {a}) \cup WithStatus({a}, "APPLIED"),
               NEW r, r.proc # p
        PROVE  r \in db.signal <=> r \in sent
        BY <2>1, <2>2 DEF WithStatus
  <2> QED  BY <1>2, <2>2 DEF Applies
<1>4. \E sig, row : Settles(db, p, s, sig, row)
      BY <1>2, EnterStepSettles
<1>5. PICK sig, row : Settles(db, p, s, sig, row)
      BY <1>4
<1>6. /\ \A a \in sig : a \in SignalRow /\ a.proc = p
      /\ \A a \in row : a \in InboxRow /\ a.proc = p
      BY <1>2, <1>5 DEF Settles, ReadySignals, ReceivedRows, Landing
<1>7. /\ \A r \in WithStatus(sig, "APPLIED") : r.proc = p
      /\ \A r \in WithStatus(row, RowStatus(sig)) : r.proc = p
      BY <1>6 DEF WithStatus, SignalRow, InboxRow, Message
<1>8. WithStatus({r \in row : Fresh(db.signal, r)}, RowStatus(sig))
         \subseteq WithStatus(row, RowStatus(sig))
      BY DEF WithStatus
<1>9. \A r : r.proc # p => (r \in signal' <=> r \in db.signal)
      BY <1>5, <1>6, <1>7, <1>8 DEF Settles
<1> QED
    BY <1>3, <1>9

LEMMA EntersMatched ==
    ASSUME IInv, NEW p \in Procs, NEW rows, NEW sent \in SUBSET SignalRow, NEW received,
           Enters(p, rows, sent, received), Tidy(sent, received),
           NEW q \in Procs, Matched(step[q], sent, q)
    PROVE  Matched(step'[q], signal', q)
<1>1. CASE q = p
  <2>1. PICK db : \E s \in Steps : /\ Landing(db, p, s) /\ EnterStep(db, p, s)
                                   /\ Applies(db.signal, sent, p) /\ Moves(db, sent, p)
                                   /\ db.inbox = received
        BY DEF Enters
  <2>2. PICK s \in Steps : /\ Landing(db, p, s) /\ EnterStep(db, p, s)
                           /\ Applies(db.signal, sent, p) /\ Moves(db, sent, p)
                           /\ db.inbox = received
        BY <2>1
  <2>3. Tidy(db.signal, db.inbox)
        BY <2>2, AppliesKeepsKeys
  <2>4. Matched(db.step[p], db.signal, p)
        BY <1>1, <2>2, MovesMatched
  <2> QED  BY <1>1, <2>2, <2>3, <2>4, EnterStepMatched
<1>2. CASE q # p
  <2>1. step'[q] = step[q]
        BY <1>2, EntersAlone
  <2>2. \A r : r.proc = q => (r \in signal' <=> r \in sent)
        BY <1>2, EntersKeepsOthers
  <2> QED  BY <2>1, <2>2, MatchedKept
<1> QED
    BY <1>1, <1>2

\* The signals an open transaction has inserted are not applied yet.
CInv ==
    /\ \A p \in Procs : Matched(step[p], signal, p)
    /\ \A t \in tx : t.row.status = "ACCEPTED"

\* Steps that complete no wait step and touch no signal.
LEMMA WaitsDoneSame ==
    ASSUME CInv, UNCHANGED signal, \A t \in tx' : t.row.status = "ACCEPTED",
           \A q \in Procs, x \in WaitSteps : step'[q][x] = step[q][x]
    PROVE  CInv'
<1>1. \A q \in Procs : Matched(step'[q], signal', q)
  <2> SUFFICES ASSUME NEW q \in Procs PROVE Matched(step'[q], signal', q)
      OBVIOUS
  <2>1. Matched(step[q], signal, q)
        BY DEF CInv
  <2> QED  BY <2>1, MatchedKept
<1> QED
    BY <1>1 DEF CInv

\* The commit of accept_signal.
LEMMA SignalCommitMatched ==
    ASSUME IInv, UInv, CInv, NEW t \in tx, SignalCommit(t)
    PROVE  CInv'
<1> DEFINE sent == SignalBase(t).signal
           received == SignalBase(t).inbox
<1>1. tx' = tx \ {t}
      BY DEF SignalCommit
<1>2. sent \in SUBSET SignalRow /\ t.row.proc \in Procs /\ Tidy(sent, received)
      BY SignalBaseFacts, SignalBaseTidy
<1>3. sent = signal \cup {t.row} /\ t.row.status = "ACCEPTED"
      BY DEF SignalBase, Tables, CInv
<1> HIDE DEF sent, received
<1>4. \A q \in Procs : Matched(step[q], sent, q)
  <2> SUFFICES ASSUME NEW q \in Procs PROVE Matched(step[q], sent, q)
      OBVIOUS
  <2>1. Matched(step[q], signal, q)
        BY DEF CInv
  <2> QED  BY <1>3, <2>1, MatchedKept
<1>5. \A q \in Procs : Matched(step'[q], signal', q)
  <2>1. CASE t.wait # None /\ SignalType[t.wait] = t.row.type
    <3>1. Enters(t.row.proc, job, sent, received)
          BY <2>1, SignalEnters DEF sent, received
    <3> QED  BY <1>2, <1>4, <3>1, EntersMatched
  <2>2. CASE ~(t.wait # None /\ SignalType[t.wait] = t.row.type)
        BY <1>4, <2>2, SignalKept DEF sent
  <2> QED  BY <2>1, <2>2
<1> QED
    BY <1>1, <1>5 DEF CInv

\* A transaction that has written no signal of its own enters a step.
LEMMA EntryMatched ==
    ASSUME IInv, UInv, CInv, NEW p \in Procs, NEW rows, Enters(p, rows, signal, inbox),
           UNCHANGED tx
    PROVE  CInv'
<1>1. signal \in SUBSET SignalRow /\ Tidy(signal, inbox)
      BY DEF IInv, TypeOK, UInv
<1>2. \A q \in Procs : Matched(step'[q], signal', q)
      BY <1>1, EntersMatched DEF CInv
<1> QED
    BY <1>2 DEF CInv

LEMMA CInvStep == IInv /\ UInv /\ CInv /\ [Next]_vars => CInv'
<1> SUFFICES ASSUME IInv, UInv, CInv, [Next]_vars PROVE CInv'
    OBVIOUS
<1>1. ASSUME NEW p \in Procs, StartProcess(p)
      PROVE  CInv'
      BY <1>1, StartEnters, EntryMatched DEF StartProcess
<1>2. ASSUME NEW p \in Procs, NEW o \in Outcome, ManualDecision(p, o)
      PROVE  CInv'
      BY <1>2, ManualEnters, EntryMatched DEF ManualDecision
<1>3. ASSUME NEW c \in claims, Commit(c)
      PROVE  CInv'
      BY <1>3, CommitEnters, EntryMatched DEF Commit
<1>4. ASSUME UNCHANGED <<step, signal>>, tx' \subseteq tx
      PROVE  CInv'
      BY <1>4, WaitsDoneSame DEF CInv
<1>5. ASSUME NEW x, NEW r \in SignalRow \cup InboxRow, Insert(x, r), UNCHANGED <<step, signal>>
      PROVE  CInv'
  <2> DEFINE new == [r EXCEPT !.status = "ACCEPTED"]
             u == [by |-> x, row |-> new, phase |-> "inserted", wait |-> None]
  <2>1. tx' = tx \cup {u}
        BY <1>5 DEF Insert
  <2>2. u.row.status = "ACCEPTED"
        BY <1>5 DEF SignalRow, InboxRow, Message
  <2> HIDE DEF u
  <2> QED  BY <1>5, <2>1, <2>2, WaitsDoneSame DEF CInv
<1>6. ASSUME NEW x \in Senders, NEW r \in Message({"ACCEPTED"}), SendSignal(x, r)
      PROVE  CInv'
  <2>1. r \in SignalRow
        BY DEF SignalRow, Message
  <2> QED  BY <1>5, <1>6, <2>1 DEF SendSignal
<1>7. ASSUME NEW t \in tx, SignalLock(t)
      PROVE  CInv'
  <2>1. PICK w : tx' = (tx \ {t}) \cup {[t EXCEPT !.phase = "locked", !.wait = w]}
        BY <1>7 DEF SignalLock
  <2> DEFINE u == [t EXCEPT !.phase = "locked", !.wait = w]
  <2>2. u.row = t.row
        BY DEF IInv, TypeOK, Tx
  <2>3. tx' = (tx \ {t}) \cup {u} /\ UNCHANGED <<step, signal>>
        BY <1>7, <2>1 DEF SignalLock
  <2> HIDE DEF u
  <2> QED  BY <2>2, <2>3, WaitsDoneSame DEF CInv
<1>8. ASSUME NEW r \in selected, ReconcileInsert(r)
      PROVE  CInv'
  <2>1. r \in SignalRow \cup InboxRow
        BY DEF IInv, TypeOK
  <2> QED  BY <1>5, <1>8, <2>1 DEF ReconcileInsert
<1>9. CASE \/ \E t \in tx : SignalAbort(t)
           \/ \E m \in Msgs, p \in Procs, b \in Bodies : ReceiptArrives(m, p, b)
           \/ ReconcileSelect
           \/ \E r \in selected : ReconcileDuplicate(r) \/ ReconcileConflict(r)
      BY <1>4, <1>9 DEF SignalAbort, ReceiptArrives, ReconcileSelect, ReconcileDuplicate,
         ReconcileConflict
<1>10. CASE \/ UNCHANGED vars
            \/ \E s \in AutoSteps : DisableAction(s)
            \/ \E j \in Jobs : TimePasses(j)
            \/ \E w \in Workers : Crash(w)
      BY <1>4, <1>10 DEF vars, DisableAction, TimePasses, Crash, DbUnchanged
<1>11. ASSUME NEW c \in claims, WorkerStep(c), ~Commit(c), ~FailDead(c)
       PROVE  CInv'
  <2>1. UNCHANGED <<step, signal, tx>>
        BY <1>11 DEF WorkerStep, ProcessJob, Invoke, InvokeRepeated, InvokeError, Timeout,
           DbFailure, FinishJob, CommitRefused, FailStale, FailRetry, DbUnchanged
  <2> QED  BY <2>1, <1>4
<1>12. ASSUME NEW c \in claims, FailDead(c)
       PROVE  CInv'
  <2>1. c.job \in Jobs
        BY NoClaimYet DEF IInv
  <2>2. c.job[1] \in Procs /\ c.job[2] \in Steps /\ \A x \in WaitSteps : x # c.job[2] /\ x \in Steps
        BY <2>1 DEF Jobs, AutoSteps, WaitSteps
  <2>3. step' = [step EXCEPT ![c.job[1]][c.job[2]].state = "FAILED"] /\ UNCHANGED <<signal, tx>>
        BY <1>12 DEF FailDead
  <2>4. \A q \in Procs, x \in WaitSteps : step'[q][x] = step[q][x]
        BY <2>2, <2>3 DEF IInv, TypeOK
  <2> QED  BY <2>3, <2>4, WaitsDoneSame DEF CInv
<1>13. ASSUME NEW w \in Workers, ClaimJobs(w)
       PROVE  CInv'
  <2>1. PICK S \in SUBSET Jobs : ClaimWrites(w, S)
        BY <1>13, ClaimedRows
  <2>2. \A q \in Procs, x \in WaitSteps : x \in Steps /\ <<q, x>> \notin Jobs
        BY DEF WaitSteps, Jobs, AutoSteps
  <2>3. \A q \in Procs, x \in WaitSteps : step'[q][x] = step[q][x]
        BY <2>1, <2>2 DEF ClaimWrites
  <2>4. UNCHANGED <<signal, tx>>
        BY <1>13 DEF ClaimJobs
  <2> QED  BY <2>3, <2>4, WaitsDoneSame DEF CInv
<1> QED
    BY <1>1, <1>2, <1>3, <1>6, <1>7, <1>8, <1>9, <1>10, <1>11, <1>12, <1>13,
       SignalCommitMatched DEF Next, ReconcilerStep

\* A signal moves a process once: as many signals of a type are APPLIED as wait steps
\* of that type are completed, although accept_signal, the reconciler and _enter_step
\* may each find the same process waiting and the same message unapplied.
THEOREM EachMovesOnce == Spec => []OneSignalPerWait
<1>1. Init => UInv /\ CInv
  <2> SUFFICES ASSUME Init PROVE UInv /\ CInv
      OBVIOUS
  <2>1. UInv
        BY DEF Init, UInv, Tidy, KeysAlone, ReconcilesSelected
  <2>2. \A p \in Procs, t \in SignalTypes :
           AppliedTo(signal, p, t) = {} /\ Passed(step[p], t) = {}
        BY DEF Init, AppliedTo, Passed, WaitSteps
  <2>3. \A p \in Procs : Matched(step[p], signal, p)
        BY <2>2, FS_EmptySet DEF Matched, SameCount
  <2> QED  BY <2>1, <2>3 DEF Init, CInv
<1>2. IInv /\ UInv /\ CInv /\ [Next]_vars => UInv' /\ CInv'
      BY UInvStep, CInvStep
<1>3. CInv => OneSignalPerWait
      BY DEF CInv, Matched, SameCount, AppliedTo, Passed, OneSignalPerWait
<1> QED
    BY <1>1, <1>2, <1>3, Invariance, PTL DEF Spec

===============================================================================
