------------------------------ MODULE StageRun -------------------------------
(***************************************************************************)
(* A run of the week 4 acceptance checker: the stages of execute in their  *)
(* order, the containers each stage stops, pauses, starts and replaces,    *)
(* the logs it collects, and what main makes of the first exception.       *)
(*                                                                         *)
(* What a check finds in the candidate is a choice here (OutageProbe and   *)
(* ReceiptProbe say how the findings of the delivery stages come about),   *)
(* with one exception: a secret in a log is found by the two log checks    *)
(* only when it is in the text collected so far.                           *)
(***************************************************************************)
EXTENDS Naturals, Sequences, FiniteSets

CONSTANTS
    KeepStack,      \* --keep-stack
    MaxLeaks        \* bound: secrets the candidate writes to its logs

VARIABLES
    pc,             \* the part of main or of a stage under way
    svc,            \* containers of the project: service -> state
    dirty,          \* service -> where the run was when its container logged a secret
    caught,         \* whether captured_logs holds a secret
    lost,           \* where secrets were logged that no capture saw before their container went
    evidence,       \* image_ids, restart_callback, restart_manual: the ones that are set
    failed,         \* whether checks holds a failed check
    armed,          \* cleanup_armed
    left,           \* whether containers, volumes or images of the project may exist
    cleaned,        \* what became of cleanup
    status, code,   \* as main has them
    report          \* status in the report file, "old" for one of an earlier run

stack == <<svc, dirty, caught, lost>>
ending == <<left, cleaned, status, code, report>>
vars == <<pc, stack, evidence, failed, armed, ending>>

-----------------------------------------------------------------------------
Dispatchers == {"outbox-dispatcher", "outbox-dispatcher-b"}
Python == Dispatchers \cup {"receipt-adapter", "inbox-reconciler"}
Candidate == Python \cup {"api"}
Services == Candidate \cup {"provider-simulator", "postgres"}

\* The parts of the stages, in the order of execute.
Parts ==
    <<"admission", "build", "up", "database", "principals", "observability",
      "outage_stop", "outage_ready", "outage_submit", "outage_start", "outage_pause", "outage_window", "outage_resume",
      "provider_stop", "provider_start", "adapter_stop", "adapter_callbacks", "adapter_start",
      "review", "principals_again", "trace", "recreate_stop", "recreate_up", "recreate_logs",
      "postgres_stop", "postgres_start", "restart_down", "restart_up", "restart_replay",
      "stalled", "logs">>

Working == {Parts[i] : i \in DOMAIN Parts}

PartAfter(p) ==
    LET i == CHOOSE i \in DOMAIN Parts : Parts[i] = p
    IN IF i = Len(Parts) THEN "passed" ELSE Parts[i + 1]

\* The parts with which a stage begins that expects the whole stack, and the evidence it uses.
Needs ==
    [p \in {"database", "principals", "observability", "outage_stop", "provider_stop", "adapter_stop",
            "review", "principals_again", "trace", "recreate_stop", "postgres_stop", "restart_down",
            "stalled", "logs"} |->
       CASE p = "recreate_stop" -> {"image_ids"}
         [] p = "restart_down" -> {"restart_callback", "restart_manual"}
         [] OTHER -> {}]

\* Between a capture of the logs and the removal of the containers it read, and after the last.
Uncollected == {"recreate_up", "restart_down_removes", "passed", "cleanup"}

Where == Working \cup Uncollected \cup {"outage_finally"}

\* Every variable holds a value the run can give it.
TypeOK ==
    /\ pc \in Where \cup {"start", "report", "exit"}
    /\ svc \in [Services -> {"absent", "running", "stopped", "paused"}]
    /\ dirty \in [Services -> Where \cup {"none"}]
    /\ caught \in BOOLEAN /\ lost \subseteq Where
    /\ evidence \subseteq {"image_ids", "restart_callback", "restart_manual"}
    /\ failed \in BOOLEAN /\ armed \in BOOLEAN /\ left \in BOOLEAN
    /\ cleaned \in {"no", "done", "failed"}
    /\ status \in {"passed", "failed", "error"}
    /\ code \in {0, 1, 2, 130}
    /\ report \in {"passed", "failed", "error", "none", "old"}

Init ==
    /\ pc = "start"
    /\ svc = [s \in Services |-> "absent"]
    /\ dirty = [s \in Services |-> "none"] /\ caught = FALSE /\ lost = {}
    /\ evidence = {} /\ failed = FALSE /\ armed = FALSE
    /\ left = FALSE /\ cleaned = "no"
    /\ status = "error" /\ code = 2 /\ report \in {"none", "old"}

-----------------------------------------------------------------------------
(* The compose commands *)

Set(S, state) == [s \in Services |-> IF s \in S THEN state ELSE svc[s]]

\* up -d --no-build: a container that is there keeps its log.
Up(S) == svc' = Set(S, "running") /\ UNCHANGED <<dirty, caught, lost>>

Stop(S) == svc' = Set(S, "stopped") /\ UNCHANGED <<dirty, caught, lost>>

\* The containers of S go with their logs.
Removed(S, state) ==
    /\ svc' = Set(S, state)
    /\ dirty' = [s \in Services |-> IF s \in S THEN "none" ELSE dirty[s]]
    /\ lost' = IF caught THEN lost ELSE lost \cup ({dirty[s] : s \in S} \ {"none"})
    /\ UNCHANGED caught

Leaked == \E s \in Services : dirty[s] # "none"

Used == Cardinality(lost) + Cardinality({s \in Services : dirty[s] # "none"})

\* A service of the candidate logs a secret or a full message.
Leak(s) ==
    /\ pc \in Where
    /\ s \in Candidate /\ svc[s] = "running" /\ dirty[s] = "none"
    /\ Used < MaxLeaks
    /\ dirty' = [dirty EXCEPT ![s] = pc]
    /\ UNCHANGED <<pc, svc, caught, lost, evidence, failed, armed, ending>>

-----------------------------------------------------------------------------
(* Exceptions *)

Kinds == {"ContractError", "environment", "other"}

\* The except clauses of main; only a verdict of the candidate is exit code 1.
Handled(kind) ==
    /\ pc' = "cleanup"
    /\ status' = IF kind = "ContractError" THEN "failed" ELSE "error"
    /\ code' = IF kind = "ContractError" THEN 1 ELSE 2

\* _record, a command whose result is required, a poll at its deadline: the first exception
\* ends the stages.  A failed check is recorded before it raises.
Raise(kind) ==
    /\ pc \in (Working \ {"outage_window"}) \cup {"restart_down_removes"}
    /\ Handled(kind)
    /\ failed' \in IF kind = "ContractError" THEN {failed, TRUE} ELSE {failed}
    /\ left' = (left \/ pc = "build")
    /\ UNCHANGED <<stack, evidence, armed, cleaned, report>>

\* Where PublicChecker itself fails there is nothing to clean up.
Construct ==
    /\ pc = "start"
    /\ pc' \in {"admission", "report"}
    /\ UNCHANGED <<stack, evidence, failed, armed, ending>>

\* Ctrl-C is no Exception: main ends with neither cleanup nor report.
Interrupt ==
    /\ pc \notin {"exit"}
    /\ pc' = "exit" /\ code' = 130
    /\ left' = (left \/ pc = "build")
    /\ UNCHANGED <<stack, evidence, failed, armed, cleaned, status, report>>

-----------------------------------------------------------------------------
(* The stages *)

Goes(part) == pc = part /\ pc' = PartAfter(part)
Quiet == UNCHANGED <<evidence, failed, armed, ending>>
Stay == UNCHANGED stack /\ Quiet

\* Fixture, Docker and compose features, the rendered compose files and their three checks.
Admission ==
    /\ Goes("admission")
    /\ armed' = TRUE
    /\ UNCHANGED <<stack, evidence, failed, ending>>

AdmissionBuild ==
    /\ Goes("build")
    /\ left' = TRUE
    /\ UNCHANGED <<stack, evidence, failed, armed, cleaned, status, code, report>>

\* up, readiness of the gateway, cli, Python versions, image ids.
AdmissionUp ==
    /\ Goes("up")
    /\ Up(Services)
    /\ evidence' = evidence \cup {"image_ids"}
    /\ UNCHANGED <<failed, armed, ending>>

DatabaseContract == Goes("database") /\ Stay
RuntimePrincipals == (Goes("principals") \/ Goes("principals_again")) /\ Stay
Observability == Goes("observability") /\ Stay

OutageStop ==
    /\ Goes("outage_stop")
    /\ Stop(Dispatchers \cup {"provider-simulator"})
    /\ Quiet

\* Dispatcher A is started, found ready without a provider, and stopped again.
OutageReady == Goes("outage_ready") /\ Up({"outbox-dispatcher"}) /\ Quiet

OutageSubmit == Goes("outage_submit") /\ Stop({"outbox-dispatcher"}) /\ Quiet

OutageStart == Goes("outage_start") /\ Up({"outbox-dispatcher"}) /\ Quiet

\* Dispatcher A is paused once a retry of it, or its end, is seen.
OutagePause ==
    /\ Goes("outage_pause")
    /\ svc' = Set({"outbox-dispatcher"}, "paused")
    /\ UNCHANGED <<dirty, caught, lost>>
    /\ Quiet

\* The try block: the window, the check of the retry, the provider is started.
OutageWindow ==
    /\ pc = "outage_window" /\ pc' = "outage_finally"
    /\ Up({"provider-simulator"})
    /\ Quiet

\* The same block raises, with the provider down or up: the finally clause unpauses, and a
\* result of it that is not ok takes the place of what was raised.
OutageWindowRaises(kind) ==
    /\ pc = "outage_window"
    /\ Handled(kind)
    /\ failed' \in IF kind = "ContractError" THEN {failed, TRUE} ELSE {failed}
    /\ \E S \in SUBSET {"outbox-dispatcher", "provider-simulator"} : svc' = Set(S, "running")
    /\ UNCHANGED <<dirty, caught, lost, evidence, armed, left, cleaned, report>>

OutageFinally ==
    /\ pc = "outage_finally" /\ pc' = "outage_resume"
    /\ Up({"outbox-dispatcher"})
    /\ Quiet

OutageFinallyRaises(kind) ==
    /\ pc = "outage_finally"
    /\ Handled(kind)
    /\ UNCHANGED <<stack, evidence, failed, armed, left, cleaned, report>>

OutageResume == Goes("outage_resume") /\ Up({"outbox-dispatcher-b"}) /\ Quiet

ProviderStop == Goes("provider_stop") /\ Stop(Dispatchers) /\ Quiet
ProviderStart == Goes("provider_start") /\ Up(Dispatchers) /\ Quiet

AdapterStop == Goes("adapter_stop") /\ Stop(Dispatchers) /\ Quiet
AdapterCallbacks ==
    /\ Goes("adapter_callbacks")
    /\ evidence' = evidence \cup {"restart_callback"}
    /\ UNCHANGED <<stack, failed, armed, ending>>
AdapterStart == Goes("adapter_start") /\ Up(Dispatchers) /\ Quiet

Review ==
    /\ Goes("review")
    /\ evidence' = evidence \cup {"restart_manual"}
    /\ UNCHANGED <<stack, failed, armed, ending>>

Trace == Goes("trace") /\ Stay

\* Mutant: the logs are not read before the containers are replaced.
RecreateStopUnread ==
    /\ Goes("recreate_stop")
    /\ Stop(Dispatchers \cup {"inbox-reconciler"})
    /\ Quiet

\* Both replicas of both services are stopped, a receipt is left in the inbox, and the
\* logs are read.
RecreateStop ==
    /\ Goes("recreate_stop")
    /\ svc' = Set(Dispatchers \cup {"inbox-reconciler"}, "stopped")
    /\ caught' = (caught \/ Leaked)
    /\ UNCHANGED <<dirty, lost>>
    /\ Quiet

RecreateUp == Goes("recreate_up") /\ Removed(Python, "running") /\ Quiet

\* _capture_logs and the two checks of what was captured so far.
LogHygiene(part) ==
    /\ Goes(part)
    /\ ~caught /\ ~Leaked
    /\ Stay

LogHygieneFails(part) ==
    /\ pc = part
    /\ caught \/ Leaked
    /\ Handled("ContractError")
    /\ failed' = TRUE /\ caught' = TRUE
    /\ UNCHANGED <<svc, dirty, lost, evidence, armed, left, cleaned, report>>

PostgresStop == Goes("postgres_stop") /\ Stop({"postgres"}) /\ Quiet
PostgresStart == Goes("postgres_start") /\ Up({"postgres"}) /\ Quiet

\* The snapshot before and the capture, then down without volumes.
RestartCapture ==
    /\ pc = "restart_down" /\ pc' = "restart_down_removes"
    /\ caught' = (caught \/ Leaked)
    /\ UNCHANGED <<svc, dirty, lost>>
    /\ Quiet

RestartDown ==
    /\ pc = "restart_down_removes" /\ pc' = "restart_up"
    /\ Removed(Services, "absent")
    /\ Quiet

RestartUp == Goes("restart_up") /\ Up(Services) /\ Quiet

\* The snapshots, the callback and the decision repeated, traces, one more payment.
RestartReplay ==
    /\ Goes("restart_replay")
    /\ {"restart_callback", "restart_manual"} \subseteq evidence
    /\ Stay

Stalled == Goes("stalled") /\ Stay

Stage ==
    \/ Admission \/ AdmissionBuild \/ AdmissionUp
    \/ DatabaseContract \/ RuntimePrincipals \/ Observability
    \/ OutageStop \/ OutageReady \/ OutageSubmit \/ OutageStart \/ OutagePause \/ OutageWindow \/ OutageFinally
    \/ OutageResume
    \/ ProviderStop \/ ProviderStart \/ AdapterStop \/ AdapterCallbacks \/ AdapterStart
    \/ Review \/ Trace \/ RecreateStop \/ RecreateUp
    \/ \E part \in {"recreate_logs", "logs"} : LogHygiene(part) \/ LogHygieneFails(part)
    \/ PostgresStop \/ PostgresStart
    \/ RestartCapture \/ RestartDown \/ RestartUp \/ RestartReplay \/ Stalled

-----------------------------------------------------------------------------
(* The end of main *)

Verdict ==
    /\ pc = "passed" /\ pc' = "cleanup"
    /\ status' = "passed" /\ code' = 0
    /\ UNCHANGED <<stack, evidence, failed, armed, left, cleaned, report>>

Cleanup ==
    /\ pc = "cleanup" /\ pc' = "report"
    /\ left' = (left /\ (KeepStack \/ ~armed))
    /\ cleaned' = IF armed /\ ~KeepStack THEN "done" ELSE "no"
    /\ IF armed /\ ~KeepStack THEN Removed(Services, "absent") ELSE UNCHANGED stack
    /\ UNCHANGED <<evidence, failed, armed, status, code, report>>

\* A cleanup that fails takes only the status passed away.
CleanupFails ==
    /\ pc = "cleanup" /\ armed /\ ~KeepStack
    /\ pc' = "report" /\ cleaned' = "failed"
    /\ status' = IF status = "passed" THEN "error" ELSE status
    /\ code' = IF status = "passed" THEN 2 ELSE code
    /\ UNCHANGED <<stack, evidence, failed, armed, left, report>>

\* build_report with the status of the run or, where report_has_forbidden_keys finds a
\* key in it, one that says only so.
Reported == {[status |-> status, code |-> code], [status |-> "error", code |-> 2]}

WriteReport ==
    /\ pc = "report" /\ pc' = "exit"
    /\ \E r \in Reported : report' = r.status /\ code' = r.code
    /\ UNCHANGED <<stack, evidence, failed, armed, left, cleaned, status>>

\* _write_report, _validated_report_path: the file is replaced or left as it was.
WriteFails ==
    /\ pc = "report" /\ pc' = "exit"
    /\ code' = 2
    /\ UNCHANGED <<stack, evidence, failed, armed, left, cleaned, status, report>>

Ending == Verdict \/ Cleanup \/ CleanupFails \/ WriteReport \/ WriteFails

Next ==
    \/ Construct \/ Stage \/ Ending \/ Interrupt
    \/ \E kind \in Kinds : Raise(kind) \/ OutageWindowRaises(kind) \/ OutageFinallyRaises(kind)
    \/ \E s \in Services : Leak(s)

\* main is one thread, and every command and poll it waits for has a timeout.
Checker == Construct \/ Stage \/ Ending
Spec == Init /\ [][Next]_vars /\ WF_vars(Checker)

-----------------------------------------------------------------------------
(* Properties *)

Ended == pc = "exit"

\* Each stage of execute that expects the whole stack finds every container running, none
\* stopped or paused by the stages before it, and the evidence of those stages at hand.
StageFindsStack ==
    pc \in DOMAIN Needs =>
        /\ \A s \in Services : svc[s] = "running"
        /\ Needs[pc] \subseteq evidence

\* Exit codes 0 and 1 come with a report of this run that says the same; 0 also means that
\* no check failed.  Containers, volumes and images outlive the run only with --keep-stack,
\* when Docker could not remove them, or after Ctrl-C.
ExitMatchesReport ==
    Ended =>
        /\ code = 0 => report = "passed" /\ ~failed /\ cleaned # "failed"
        /\ code = 1 => report = "failed"
        /\ failed => code # 0
        /\ left /\ ~KeepStack => cleaned = "failed" \/ code = 130

\* A run that passes has missed a secret in a log only if it was written between a capture
\* and the removal of its container, or after the last capture.
SecretsFound ==
    Ended /\ code = 0 => lost \cup ({dirty[s] : s \in Services} \ {"none"}) \subseteq Uncollected

==============================================================================
