----------------------------- MODULE SignalProbe -----------------------------
(***************************************************************************)
(* The week 2 checker's phases execution and versioning against a workflow *)
(* engine that may have faults (see WorkerProbe): signals that come once,  *)
(* twice, changed, early and for the wrong process; a manual wait; a second *)
(* version of the flow, repeated and changed starts.                       *)
(***************************************************************************)
EXTENDS Naturals, Sequences, FiniteSets

CONSTANT MaxFaults      \* bound: faults of an engine

Checks == {"automatic-signal-end", "signal-idempotency-and-history", "manual-wait", "stable-views",
           "version-pinning-and-start-idempotency"}

\* The faults each check is there to detect.
Detects ==
    [c \in Checks |->
       CASE c = "automatic-signal-end" ->
              {"start_refused", "lost_effect", "double_effect", "no_wait", "no_end", "action_latest"}
         [] c = "signal-idempotency-and-history" ->
              {"dup_inserts", "dup_error", "conflict_accepted", "conflict_writes", "early_refused",
               "early_ignored", "ids_per_process", "history_rewritten"}
         [] c = "manual-wait" -> {"manual_skipped", "manual_no_step"}
         [] c = "stable-views" -> {"view_missing", "view_changed"}
         [] c = "version-pinning-and-start-idempotency" ->
              {"unpinned", "two_active", "start_old", "start_again", "start_changed",
               "unknown_retried"}]

\* unknown_fallback: an outcome the map does not know takes some transition anyway.
Faults == (UNION {Detects[c] : c \in Checks}) \cup {"unknown_fallback"}

\* The processes the phases start, by their labels.
Labels == {"signal", "early", "manual", "v2", "unknown"}

VARIABLES
    faults,         \* what is wrong with the engine
    active,         \* the active versions of the flow
    proc,           \* each process: its rows of processes, jobs, attempts, steps and effects
    signals,        \* rows of autocheck.signals
    events,         \* the history of each process
    up,             \* whether the workers run
    pc,             \* the step of the checker
    seen,           \* what the checker has read
    result,         \* checker.checks
    late            \* a deadline passed while a worker still had something to do

engine == <<active, proc, signals, events, up>>
vars == <<faults, engine, pc, seen, result, late>>

NoProcess == [state |-> "none", ver |-> 0, attempts |-> 0, effects |-> 0, dispatched |-> {}, ended |-> FALSE]
Nothing == [automatic |-> FALSE, history |-> <<>>, signals |-> {}, ok |-> TRUE, early |-> {},
            same |-> FALSE, changed |-> FALSE]

Steps == {"e_start", "e_waiting", "e_signal", "e_completed", "e_repeat", "e_changed", "e_record",
          "e_early", "e_stored", "e_resume", "e_applied", "e_elsewhere", "e_manual", "e_manualwait", "e_views",
          "v_publish", "v_waiting", "v_repeat", "v_record", "v_unknown", "v_failed", "done"}

\* Every variable holds a value of the tables or of the checker.
TypeOK ==
    /\ faults \subseteq Faults
    /\ active \subseteq {1, 2}
    /\ \A l \in Labels : proc[l].state \in {"none", "RUNNING", "WAITING_SIGNAL", "WAITING_MANUAL",
                                            "COMPLETED", "FAILED"}
    /\ \A s \in signals : s.status \in {"ACCEPTED", "APPLIED"} /\ s.proc \in Labels
    /\ up \in BOOLEAN
    /\ pc \in Steps
    /\ result \in [Checks -> {"absent", "passed", "failed"}]
    /\ late \in BOOLEAN

Init ==
    /\ faults \in {F \in SUBSET Faults : Cardinality(F) <= MaxFaults}
    /\ active = {1}
    /\ proc = [l \in Labels |-> NoProcess]
    /\ signals = {}
    /\ events = [l \in Labels |-> <<>>]
    /\ up = TRUE
    /\ pc = "e_start" /\ seen = Nothing
    /\ result = [c \in Checks |-> "absent"]
    /\ late = FALSE

-----------------------------------------------------------------------------
(* The engine *)

Has(f) == f \in faults
Log(l, e) == events' = [events EXCEPT ![l] = Append(@, e)]

\* Where the outcome of the automatic step leads.
Arrives(l) ==
    CASE l = "unknown" -> IF Has("unknown_fallback") THEN "COMPLETED" ELSE "FAILED"
      [] l = "manual" -> IF Has("manual_skipped") THEN "COMPLETED" ELSE "WAITING_MANUAL"
      [] OTHER -> IF proc[l].ver = 2 THEN "WAITING_MANUAL"
                  ELSE IF Has("no_wait") THEN "COMPLETED" ELSE "WAITING_SIGNAL"

Stored(l) == {s \in signals : s.proc = l /\ s.status = "ACCEPTED"}

\* A worker runs the automatic step and commits; an early signal is applied on arrival.
Work(l) ==
    /\ up /\ proc[l].state = "RUNNING"
    /\ LET apply == Arrives(l) = "WAITING_SIGNAL" /\ Stored(l) # {} /\ ~Has("early_ignored")
           again == l = "unknown" /\ Has("unknown_retried")
       IN /\ proc' = [proc EXCEPT ![l] =
                [@ EXCEPT !.state = IF apply THEN "COMPLETED" ELSE Arrives(l),
                          !.attempts = IF again THEN 2 ELSE 1,
                          !.effects = IF l = "unknown" \/ Has("lost_effect") THEN 0
                                      ELSE IF Has("double_effect") THEN 2 ELSE 1,
                          !.dispatched = {IF Has("action_latest") THEN 2 ELSE 1},
                          !.ended = apply /\ ~Has("no_end")]]
          /\ signals' = IF apply
                        THEN {IF s \in Stored(l) THEN [s EXCEPT !.status = "APPLIED"] ELSE s : s \in signals}
                        ELSE signals
    /\ Log(l, "StepEntered")
    /\ UNCHANGED <<faults, active, up, pc, seen, result, late>>

Engine == \E l \in Labels : Work(l)

\* A worker can take a step: a process has a job, and the workers run.
Busy == up /\ \E l \in Labels : proc[l].state = "RUNNING"

\* accept_signal: the answer, and what it does to the tables.  n tells rows apart that a
\* faulty engine stores for one message.
Known(l, msg) == {s \in signals : s.msg = msg /\ (Has("ids_per_process") => s.proc = l)}

Answer(l, msg, body) ==
    IF Known(l, msg) = {}
    THEN IF proc[l].state = "RUNNING" /\ Has("early_refused") THEN "refused" ELSE "accepted"
    ELSE IF \E s \in Known(l, msg) : s.proc = l /\ s.body = body
         THEN IF Has("dup_error") THEN "refused" ELSE "duplicate"
         ELSE IF Has("conflict_accepted") THEN "accepted" ELSE "conflict"

Signal(l, msg, body) ==
    LET answer == Answer(l, msg, body)
        waits == proc[l].state = "WAITING_SIGNAL"
        row == [msg |-> msg, proc |-> l, body |-> body, n |-> Cardinality(signals),
                status |-> IF waits THEN "APPLIED" ELSE "ACCEPTED"]
    IN /\ signals' = IF answer = "accepted" \/ (answer = "duplicate" /\ Has("dup_inserts"))
                     THEN signals \cup {row} ELSE signals
       /\ proc' = IF answer = "accepted" /\ waits
                  THEN [proc EXCEPT ![l].state = "COMPLETED", ![l].ended = ~Has("no_end")] ELSE proc
       /\ events' =
            CASE answer = "accepted" ->
                   [events EXCEPT ![l] = IF Has("history_rewritten")
                                         THEN [i \in 1..Len(@) + 1 |-> "SignalApplied"]
                                         ELSE Append(@, "SignalApplied")]
              [] answer = "conflict" /\ Has("conflict_writes") -> [events EXCEPT ![l] = Append(@, "Refused")]
              [] OTHER -> events
       /\ UNCHANGED <<active, up>>

\* start_process with the business key of l: the process it has, or a new one.
Version == IF Has("start_old") THEN 1 ELSE CHOOSE v \in active : \A u \in active : u <= v

Start(l) ==
    /\ proc' = [proc EXCEPT ![l] = [NoProcess EXCEPT !.state = "RUNNING", !.ver = Version]]
    /\ Log(l, "Started")
    /\ UNCHANGED <<active, signals, up>>

-----------------------------------------------------------------------------
(* The checker's tools *)

Go(next) == pc' = next
Keep == <<faults, result, late>>

ChecksFrom(step) ==
    IF step \in {"v_publish", "v_waiting", "v_repeat", "v_record", "v_unknown", "v_failed"}
    THEN {"version-pinning-and-start-idempotency"}
    ELSE Checks \ {"version-pinning-and-start-idempotency"}

\* A ContractError ends the phase.
Contract(slow) ==
    /\ result' = [c \in Checks |-> IF c \in ChecksFrom(pc) /\ result[c] = "absent"
                                   THEN "failed" ELSE result[c]]
    /\ late' = (late \/ slow)
    /\ Go(IF ChecksFrom(pc) = {"version-pinning-and-start-idempotency"} THEN "done" ELSE "v_publish")
    /\ UNCHANGED <<faults, engine, seen>>

PollTimeout(p) == ~p /\ Contract(Busy)

Record(c, passed) == result' = [result EXCEPT ![c] = IF passed THEN "passed" ELSE "failed"]

\* _signals and _events of a process.
SignalRows(l) == {s \in signals : s.proc = l}

\* _start returns no process: a ContractError, the workers running again if they were
\* stopped for it.
StartRefused ==
    /\ pc \in {"e_start", "e_early", "e_manual", "v_publish", "v_unknown"}
    /\ Has("start_refused")
    /\ Contract(FALSE)

-----------------------------------------------------------------------------
(* execution *)

ExecutionStart ==
    /\ pc = "e_start" /\ ~Has("start_refused") /\ Go("e_waiting")
    /\ Start("signal")
    /\ UNCHANGED <<seen, Keep>>

\* One job, one attempt, one dispatch of version 1, one effect.
ActionRows(l) == proc[l].attempts = 1 /\ proc[l].dispatched = {1} /\ proc[l].effects = 1

ExecutionWaiting ==
    /\ pc = "e_waiting"
    /\ LET p == proc["signal"].state = "WAITING_SIGNAL"
       IN \/ /\ p /\ Go("e_signal")
             /\ seen' = [seen EXCEPT !.automatic = ActionRows("signal"), !.history = events["signal"],
                                     !.ok = SignalRows("signal") = {}]
             /\ UNCHANGED <<engine, Keep>>
          \/ PollTimeout(p)

ExecutionSignal ==
    /\ pc = "e_signal" /\ Go("e_completed")
    /\ Signal("signal", "m1", "body")
    /\ seen' = [seen EXCEPT !.ok = @ /\ Answer("signal", "m1", "body") = "accepted"]
    /\ UNCHANGED Keep

\* Mutant: the rows of the history are only counted.
KeepsHistoryCount(old, new) == Len(new) > Len(old)

\* Every old row of the history is still there.
KeepsHistory(old, new) == Len(new) > Len(old) /\ SubSeq(new, 1, Len(old)) = old

ExecutionCompleted ==
    /\ pc = "e_completed"
    /\ LET p == proc["signal"].state = "COMPLETED"
       IN \/ /\ p /\ Go("e_repeat")
             /\ seen' = [seen EXCEPT
                   !.ok = @ /\ KeepsHistory(seen.history, events["signal"])
                            /\ Cardinality(SignalRows("signal")) = 1,
                   !.signals = SignalRows("signal"), !.history = events["signal"]]
             /\ UNCHANGED <<engine, Keep>>
          \/ PollTimeout(p)

\* A signal that must change nothing, and the rows read after it.
Unchanging(l, msg, body, answer) ==
    /\ Signal(l, msg, body)
    /\ seen' = [seen EXCEPT !.ok = /\ @
                                   /\ Answer(l, msg, body) = answer
                                   /\ {s \in signals' : s.proc = "signal"} = seen.signals
                                   /\ events'["signal"] = seen.history]
    /\ UNCHANGED Keep

ExecutionRepeat ==
    /\ pc = "e_repeat" /\ Go("e_changed")
    /\ Unchanging("signal", "m1", "body", "duplicate")

ExecutionChanged ==
    /\ pc = "e_changed" /\ Go("e_record")
    /\ Unchanging("signal", "m1", "changed", "conflict")

ExecutionRecord ==
    /\ pc = "e_record" /\ Go("e_early")
    /\ Record("automatic-signal-end", seen.automatic /\ proc["signal"].ended)
    /\ UNCHANGED <<engine, seen, faults, late>>

\* With the workers stopped, a process gets its signal before it can wait for it.
ExecutionEarly ==
    /\ pc = "e_early" /\ ~Has("start_refused") /\ Go("e_stored")
    /\ up' = FALSE
    /\ proc' = [proc EXCEPT !["early"] = [NoProcess EXCEPT !.state = "RUNNING", !.ver = Version]]
    /\ Log("early", "Started")
    /\ UNCHANGED <<active, signals, seen, Keep>>

\* The signal is stored until there is a step that waits for it.
ExecutionEarlySignal ==
    /\ pc = "e_stored" /\ Go("e_resume")
    /\ Signal("early", "m2", "body")
    /\ seen' = [seen EXCEPT !.ok = @ /\ Answer("early", "m2", "body") = "accepted"
                                     /\ Cardinality({s \in signals' : s.proc = "early"}) = 1
                                     /\ \A s \in signals' : s.proc = "early" => s.status = "ACCEPTED"]
    /\ UNCHANGED Keep

ExecutionResume ==
    /\ pc = "e_resume" /\ Go("e_applied")
    /\ up' = TRUE
    /\ UNCHANGED <<active, proc, signals, events, seen, Keep>>

ExecutionApplied ==
    /\ pc = "e_applied"
    /\ LET p == proc["early"].state = "COMPLETED"
       IN \/ /\ p /\ Go("e_elsewhere")
             /\ seen' = [seen EXCEPT !.early = SignalRows("early"),
                   !.ok = @ /\ Cardinality(SignalRows("early")) = 1
                            /\ \A s \in SignalRows("early") : s.status = "APPLIED"]
             /\ UNCHANGED <<engine, Keep>>
          \/ PollTimeout(p)

\* The early message again, for the other process.
ExecutionElsewhere ==
    /\ pc = "e_elsewhere" /\ Go("e_manual")
    /\ Signal("signal", "m2", "body")
    /\ LET same == /\ {s \in signals' : s.proc = "early"} = seen.early
                   /\ {s \in signals' : s.proc = "signal"} = seen.signals
       IN Record("signal-idempotency-and-history",
                 seen.ok /\ Answer("signal", "m2", "body") = "conflict" /\ same)
    /\ UNCHANGED <<seen, faults, late>>

ExecutionManual ==
    /\ pc = "e_manual" /\ ~Has("start_refused") /\ Go("e_manualwait")
    /\ Start("manual")
    /\ UNCHANGED <<seen, Keep>>

ExecutionManualWait ==
    /\ pc = "e_manualwait"
    /\ LET p == proc["manual"].state = "WAITING_MANUAL"
       IN \/ /\ p /\ Go("e_views")
             /\ Record("manual-wait", ~Has("manual_no_step"))
             /\ UNCHANGED <<engine, seen, faults, late>>
          \/ PollTimeout(p)

\* Every view answers with a count and has exactly the published columns.
ExecutionViews ==
    /\ pc = "e_views" /\ Go("v_publish")
    /\ Record("stable-views", ~Has("view_missing") /\ ~Has("view_changed"))
    /\ UNCHANGED <<engine, seen, faults, late>>

-----------------------------------------------------------------------------
(* versioning *)

\* Version 2 is published and activated, and a process is started under a new key.
VersioningPublish ==
    /\ pc = "v_publish" /\ ~Has("start_refused") /\ Go("v_waiting")
    /\ LET now == IF Has("two_active") THEN {1, 2} ELSE {2}
           ver == IF Has("start_old") THEN 1 ELSE 2
       IN /\ active' = now
          /\ proc' = [l \in Labels |->
                        IF l = "v2" THEN [NoProcess EXCEPT !.state = "RUNNING", !.ver = ver]
                        ELSE IF Has("unpinned") /\ proc[l].ver = 1 THEN [proc[l] EXCEPT !.ver = 2]
                        ELSE proc[l]]
    /\ Log("v2", "Started")
    /\ UNCHANGED <<signals, up, seen, Keep>>

VersioningWaiting ==
    /\ pc = "v_waiting"
    /\ LET p == proc["v2"].state = "WAITING_MANUAL"
       IN \/ p /\ Go("v_repeat") /\ UNCHANGED <<engine, seen, Keep>>
          \/ PollTimeout(p)

\* The same start again, and one with other data under the same key.
VersioningRepeat ==
    /\ pc = "v_repeat" /\ Go("v_record")
    /\ seen' = [seen EXCEPT !.same = ~Has("start_again"), !.changed = ~Has("start_changed")]
    /\ UNCHANGED <<engine, Keep>>

\* self.processes: the process of the manual route, or the one of the signal route.
OldProcess == IF proc["manual"].state # "none" THEN "manual" ELSE "signal"

VersioningValid ==
    /\ active = {2}
    /\ proc[OldProcess].ver = 1 /\ proc["v2"].ver = 2
    /\ seen.same /\ seen.changed
    /\ proc["v2"].dispatched = {1} /\ proc["v2"].effects = 1

VersioningRecord ==
    /\ pc = "v_record" /\ Go("v_unknown")
    /\ Record("version-pinning-and-start-idempotency", VersioningValid)
    /\ UNCHANGED <<engine, seen, faults, late>>

VersioningUnknown ==
    /\ pc = "v_unknown" /\ ~Has("start_refused") /\ Go("v_failed")
    /\ Start("unknown")
    /\ UNCHANGED <<seen, Keep>>

\* An outcome without a transition must fail the process at once; the record made above is
\* changed when it did not, and stays as it is when the poll runs out.
VersioningFailed ==
    /\ pc = "v_failed"
    /\ LET p == proc["unknown"].state = "FAILED"
       IN \/ /\ p /\ Go("done")
             /\ result' = IF proc["unknown"].attempts = 1 /\ proc["unknown"].effects = 0 THEN result
                          ELSE [result EXCEPT !["version-pinning-and-start-idempotency"] = "failed"]
             /\ UNCHANGED <<engine, seen, faults, late>>
          \/ PollTimeout(p)

-----------------------------------------------------------------------------
Checker ==
    \/ ExecutionStart \/ ExecutionWaiting \/ ExecutionSignal \/ ExecutionCompleted
    \/ ExecutionRepeat \/ ExecutionChanged \/ ExecutionRecord \/ ExecutionEarly
    \/ ExecutionEarlySignal \/ ExecutionResume \/ ExecutionApplied \/ ExecutionElsewhere
    \/ ExecutionManual \/ ExecutionManualWait \/ ExecutionViews
    \/ VersioningPublish \/ VersioningWaiting \/ VersioningRepeat \/ VersioningRecord
    \/ VersioningUnknown \/ VersioningFailed \/ StartRefused

Next == Engine \/ Checker

\* Every wait of the checker has a deadline.
Spec == Init /\ [][Next]_vars /\ WF_vars(Checker)

-----------------------------------------------------------------------------
(* Properties *)

\* A check passes only an engine without the faults it is there to detect.  The record of
\* version-pinning-and-start-idempotency is made before the unknown outcome is tried: when
\* that poll runs out nothing changes it.
NoFalsePass ==
    pc = "done" => \A c \in Checks :
        result[c] = "passed" =>
            faults \cap Detects[c] \subseteq (IF late THEN {"unknown_retried"} ELSE {})

\* "An unknown runtime outcome takes no fallback transition" (week 2 assignment): an engine
\* that breaks this does not pass the check that starts the process with such an outcome.
UnknownOutcomeCounts ==
    pc = "done" /\ ~late /\ Has("unknown_fallback") =>
        result["version-pinning-and-start-idempotency"] = "failed"

\* An engine without faults fails a check only when a worker was slower than a deadline.
NoFalseFail == faults = {} /\ ~late => \A c \in Checks : result[c] # "failed"

\* The phases are over, and every check has a result.
Ended == pc = "done" /\ \A c \in Checks : result[c] # "absent"

==============================================================================
