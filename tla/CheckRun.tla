------------------------------ MODULE CheckRun -------------------------------
(***************************************************************************)
(* A run of the week 2 acceptance checker: admission, the phases of        *)
(* run_checks, the exceptions main tells apart, cleanup and the report.    *)
(*                                                                         *)
(* What a check finds in the candidate is a choice here; WorkerProbe and   *)
(* SignalProbe say how the findings of the phases come about.  What is     *)
(* modelled is the bookkeeping: which check is recorded when, what an      *)
(* exception does to the checks that are still missing, and what the exit  *)
(* code and the report say in the end.                                     *)
(***************************************************************************)
EXTENDS Naturals, Sequences, FiniteSets

CONSTANTS
    KeepStack,      \* --keep-stack
    MaxFailures     \* bound: checks that fail of their own

VARIABLES
    pc,             \* the part of main, admission or run_checks under way
    checks,         \* checker.checks: name -> status, or "absent"
    extra,          \* checks that main appends, all failed
    raised,         \* kinds of exceptions raised so far
    armed,          \* cleanup_armed
    left,           \* whether containers, volumes or images of the project may exist
    status,         \* status, as main has it
    code,           \* exit code
    report          \* status in the report file, "old" for one of an earlier run

vars == <<pc, checks, extra, raised, armed, left, status, code, report>>

-----------------------------------------------------------------------------
(* The published checks *)

AdmissionChecks ==
    {"fixture-integrity", "repository-contract", "compose-contract", "compose-safety",
     "worker-image-contract", "dotnet-runtime-contract", "cold-build",
     "fixture-post-build-integrity", "built-image-contract", "stack-start-no-build", "health",
     "worker-database-security", "baseline-images"}

\* PHASE_CHECKS, in the order in which each phase records them.
PhaseChecks ==
    [publication |-> <<"migration-and-action-publication", "map-validation-and-publication",
                       "publication-image-immutability">>,
     execution   |-> <<"automatic-signal-end", "signal-idempotency-and-history", "manual-wait",
                       "stable-views">>,
     versioning  |-> <<"version-pinning-and-start-idempotency">>,
     concurrency |-> <<"two-worker-reclaim-and-stale-finish">>,
     recovery    |-> <<"action-finish-rollback-and-recovery">>,
     resilience  |-> <<"bounded-retry-and-terminal-failures", "worker-recreate-persistence">>,
     integrity   |-> <<"runtime-image-immutability">>]

\* Recorded by publication, but in no phase's list.
Unlisted == {"worker-database-security-post-migration"}

Phases == DOMAIN PhaseChecks
Names(S) == UNION {{PhaseChecks[p][i] : i \in DOMAIN PhaseChecks[p]} : p \in S}
Published == AdmissionChecks \cup Names(Phases)
AllChecks == Published \cup Unlisted

\* The phases that run only when publication succeeded, each with its successor.
Following == [execution |-> "versioning", versioning |-> "concurrency",
              concurrency |-> "recovery", recovery |-> "resilience", resilience |-> "integrity"]
Dependent == DOMAIN Following

AdmissionParts == {"text", "compose", "down", "build", "images", "up", "security"}
PublicationParts == {"publish_actions", "publish_map", "publish_images"}
PhaseOf(part) == IF part \in PublicationParts THEN "publication" ELSE part
Working == AdmissionParts \cup PublicationParts \cup Dependent \cup {"integrity"}

Kinds == {"ContractError", "environment", "other", "KeyboardInterrupt"}

\* Every variable holds a value main can give it.
TypeOK ==
    /\ pc \in Working \cup {"start", "construct", "dependents", "verdict", "cleanup", "report", "exit"}
    /\ checks \in [AllChecks -> {"passed", "failed", "absent"}]
    /\ extra \subseteq {"admission-contract", "checker-environment", "checker-internal-error",
                        "stack-cleanup"}
    /\ raised \subseteq Kinds
    /\ armed \in BOOLEAN /\ left \in BOOLEAN
    /\ status \in {"passed", "failed", "error"}
    /\ code \in {0, 1, 2, 130}
    /\ report \in {"passed", "failed", "error", "none", "old"}

Init ==
    /\ pc = "start"
    /\ checks = [n \in AllChecks |-> "absent"]
    /\ extra = {} /\ raised = {} /\ armed = FALSE /\ left = FALSE
    /\ status = "error" /\ code = 2 /\ report \in {"none", "old"}

-----------------------------------------------------------------------------
(* record and fail_missing *)

\* A result that versioning writes over its record.
RecordLast(c, S, r) == [n \in AllChecks |-> IF n \in S THEN r ELSE c[n]]

\* The first record of a name stays.
record(c, S, r) == [n \in AllChecks |-> IF n \in S /\ c[n] = "absent" THEN r ELSE c[n]]

fail_missing(c, S) == record(c, Names(S), "failed")

Failed == {n \in AllChecks : checks[n] = "failed"}

\* The checks of S with the ones in F failed and the others passed.
Found(S, F) == record(record(checks, F, "failed"), S, "passed")

\* The sets of checks among S that may fail now.
MayFail(S) == {F \in SUBSET S : F = {} \/ Cardinality(Failed \cup F) <= MaxFailures}

Bookkeeping == <<extra, raised, status, code, report>>

-----------------------------------------------------------------------------
(* main before run_checks, and what it does with an exception *)

\* _validated_report_path
ReportPath ==
    /\ pc = "start"
    /\ pc' \in {"construct", "exit"}
    /\ UNCHANGED <<checks, armed, left, Bookkeeping>>

Construct ==
    /\ pc = "construct"
    /\ pc' = "text"
    /\ UNCHANGED <<checks, armed, left, Bookkeeping>>

\* The except clauses of main.
Handled(kind, next) ==
    /\ raised' = raised \cup {kind}
    /\ pc' = next
    /\ extra' = extra \cup CASE kind = "ContractError" -> {"admission-contract"}
                             [] kind = "environment" -> {"checker-environment"}
                             [] kind = "other" -> {"checker-internal-error"}
                             [] kind = "KeyboardInterrupt" -> {}
    /\ status' = IF kind = "ContractError" THEN "failed" ELSE status
    /\ code' = CASE kind = "ContractError" -> 1 [] kind = "KeyboardInterrupt" -> 130 [] OTHER -> code

\* Without a checker there is nothing to clean up.
ConstructRaises(kind) ==
    /\ pc = "construct"
    /\ Handled(kind, IF kind = "KeyboardInterrupt" THEN "exit" ELSE "report")
    /\ UNCHANGED <<checks, armed, left, report>>

Missing(p) == {i \in DOMAIN PhaseChecks[p] : checks[PhaseChecks[p][i]] = "absent"}

\* Phases that still require commands to succeed when their last check is recorded.
Tails == {"versioning", "concurrency", "recovery"}

\* Where a command's result is required, an image is inspected or a view is read.
Raises(part) ==
    IF \/ part \in {"down", "images", "security"} \cup PublicationParts
       \/ part \in Dependent \cup {"integrity"} /\ (Missing(part) # {} \/ part \in Tails)
    THEN Kinds ELSE Kinds \ {"ContractError"}

\* The part after the phase of part p.
NextPart(p) ==
    CASE p \in PublicationParts -> "dependents"
      [] p \in Dependent -> Following[p]
      [] OTHER -> "verdict"

\* An exception before the part under way has recorded its next check.  run_phase
\* catches a ContractError of a phase; a build may be under way.
Raise(kind) ==
    /\ pc \in Working /\ kind \in Raises(pc)
    /\ left' = (left \/ pc = "build")
    /\ IF kind = "ContractError" /\ pc \notin AdmissionParts
         THEN /\ raised' = raised \cup {kind}
              /\ checks' = fail_missing(checks, {PhaseOf(pc)})
              /\ pc' = NextPart(pc)
              /\ UNCHANGED <<extra, status, code>>
         ELSE /\ Handled(kind, "cleanup")
              /\ UNCHANGED checks
    /\ UNCHANGED <<armed, report>>

-----------------------------------------------------------------------------
(* admission *)

\* A False of admission: run_checks fails every phase.
Refused(c) == checks' = fail_missing(c, Phases) /\ pc' = "verdict"

\* fixture-integrity is recorded as passed whatever the digest.
AdmissionText ==
    /\ pc = "text"
    /\ \E F \in MayFail({"repository-contract"}) :
          checks' = Found({"fixture-integrity", "repository-contract"}, F)
    /\ pc' = "compose"
    /\ UNCHANGED <<armed, left, Bookkeeping>>

\* A compose file that is not self-contained, or that compose cannot render.
ComposeUnreadable ==
    /\ pc = "compose"
    /\ \E n \in {"compose-safety", "compose-contract"} : Refused(record(checks, {n}, "failed"))
    /\ UNCHANGED <<armed, left, Bookkeeping>>

ComposeChecks ==
    {"compose-contract", "compose-safety", "worker-image-contract", "dotnet-runtime-contract"}

\* The four checks of the rendered file are all recorded before one refuses.
ComposeRead ==
    /\ pc = "compose"
    /\ \E F \in MayFail(ComposeChecks) :
          IF F = {} THEN checks' = Found(ComposeChecks, {}) /\ pc' = "down" /\ armed' = TRUE
                    ELSE Refused(Found(ComposeChecks, F)) /\ armed' = armed
    /\ UNCHANGED <<left, Bookkeeping>>

Down ==
    /\ pc = "down"
    /\ pc' = "build"
    /\ UNCHANGED <<checks, armed, left, Bookkeeping>>

\* S are the checks of one part of admission in their order: the first that fails
\* refuses, and the ones after it are not recorded.
InOrder(S, next) ==
    \/ checks' = Found({S[i] : i \in DOMAIN S}, {}) /\ pc' = next
    \/ \E i \in DOMAIN S :
          /\ MayFail({S[i]}) # {{}}
          /\ Refused(Found({S[j] : j \in 1..i}, {S[i]}))

AdmissionBuild ==
    /\ pc = "build"
    /\ left' = TRUE
    /\ InOrder(<<"cold-build", "fixture-post-build-integrity">>, "images")
    /\ UNCHANGED <<armed, Bookkeeping>>

AdmissionImages ==
    /\ pc = "images"
    /\ InOrder(<<"built-image-contract">>, "up")
    /\ UNCHANGED <<armed, left, Bookkeeping>>

AdmissionUp ==
    /\ pc = "up"
    /\ InOrder(<<"stack-start-no-build", "health">>, "security")
    /\ UNCHANGED <<armed, left, Bookkeeping>>

AdmissionSecurity ==
    /\ pc = "security"
    /\ InOrder(<<"worker-database-security", "baseline-images">>, "publish_actions")
    /\ UNCHANGED <<armed, left, Bookkeeping>>

-----------------------------------------------------------------------------
(* The phases *)

\* A failed check of publication raises a ContractError once it is recorded.
PublicationStep(part, S, next) ==
    /\ pc = part
    /\ \E F \in MayFail(S) :
          IF F = {} \/ part = "publish_images"
            THEN checks' = Found(S, F) /\ pc' = next /\ raised' = raised
            ELSE /\ checks' = fail_missing(Found(S, F), {"publication"})
                 /\ pc' = "dependents" /\ raised' = raised \cup {"ContractError"}
    /\ UNCHANGED <<extra, armed, left, status, code, report>>

\* Either of two things fails migration-and-action-publication: a command of its own, or
\* the unlisted check of the worker's privileges.
PublishActions ==
    LET S == {"migration-and-action-publication"} \cup Unlisted
    IN /\ PublicationStep("publish_actions", S, "publish_map")
       /\ checks'["worker-database-security-post-migration"] = "failed" =>
             checks'["migration-and-action-publication"] = "failed"

PublishMap == PublicationStep("publish_map", {"map-validation-and-publication"}, "publish_images")

PublishImages ==
    PublicationStep("publish_images", {"publication-image-immutability"}, "dependents")

\* run_checks after publication.
Dependents ==
    /\ pc = "dependents"
    /\ IF Failed \cap Names({"publication"}) # {}
         THEN checks' = fail_missing(checks, Dependent) /\ pc' = "integrity"
         ELSE checks' = checks /\ pc' = "execution"
    /\ UNCHANGED <<armed, left, Bookkeeping>>

\* A phase records its next check.
PhaseStep ==
    /\ pc \in Dependent \cup {"integrity"}
    /\ Missing(pc) # {}
    /\ LET i == CHOOSE i \in Missing(pc) : \A j \in Missing(pc) : i <= j
           n == PhaseChecks[pc][i]
       IN \E F \in MayFail({n}) : checks' = Found({n}, F)
    /\ UNCHANGED <<pc, armed, left, Bookkeeping>>

\* Mutant: the outcome of the second probe replaces the record either way.
UnknownOutcomeDecides ==
    /\ pc = "versioning" /\ Missing(pc) = {}
    /\ \E r \in {"passed", "failed"} :
          checks' = RecordLast(checks, {"version-pinning-and-start-idempotency"}, r)
    /\ pc' = NextPart(pc)
    /\ UNCHANGED <<armed, left, Bookkeeping>>

\* versioning writes over its own record when the unknown outcome is not terminal.
UnknownOutcome ==
    /\ pc = "versioning" /\ Missing(pc) = {}
    /\ MayFail({"version-pinning-and-start-idempotency"}) # {{}}
    /\ checks' = RecordLast(checks, {"version-pinning-and-start-idempotency"}, "failed")
    /\ pc' = NextPart(pc)
    /\ UNCHANGED <<armed, left, Bookkeeping>>

PhaseEnds ==
    /\ pc \in Dependent \cup {"integrity"}
    /\ Missing(pc) = {}
    /\ pc' = NextPart(pc)
    /\ UNCHANGED <<checks, armed, left, Bookkeeping>>

-----------------------------------------------------------------------------
(* The end of main *)

Verdict ==
    /\ pc = "verdict" /\ pc' = "cleanup"
    /\ status' = IF Failed = {} THEN "passed" ELSE "failed"
    /\ code' = IF status' = "passed" THEN 0 ELSE 1
    /\ UNCHANGED <<checks, extra, raised, armed, left, report>>

\* The finally clause; an interrupt goes on without a report.
AfterCleanup == pc' = IF "KeyboardInterrupt" \in raised THEN "exit" ELSE "report"

Cleanup ==
    /\ pc = "cleanup"
    /\ AfterCleanup
    /\ left' = (left /\ (KeepStack \/ ~armed))
    /\ UNCHANGED <<checks, extra, raised, armed, status, code, report>>

\* Mutant: what is left behind does not change the exit code.
CleanupFailsQuietly ==
    /\ pc = "cleanup" /\ armed /\ ~KeepStack
    /\ AfterCleanup
    /\ extra' = extra \cup {"stack-cleanup"}
    /\ UNCHANGED <<checks, raised, armed, left, status, code, report>>

CleanupFails ==
    /\ pc = "cleanup" /\ armed /\ ~KeepStack
    /\ AfterCleanup
    /\ extra' = extra \cup {"stack-cleanup"}
    /\ status' = "error"
    /\ code' = IF "KeyboardInterrupt" \in raised THEN code ELSE 2
    /\ UNCHANGED <<checks, raised, armed, left, report>>

\* build_report with the status of the run or, where report_has_forbidden_keys finds a
\* key in it, one that says only so.
Reported == {[status |-> status, code |-> code], [status |-> "error", code |-> 2]}

WriteReport ==
    /\ pc = "report" /\ pc' = "exit"
    /\ \E r \in Reported : report' = r.status /\ code' = r.code
    /\ UNCHANGED <<checks, extra, raised, armed, left, status>>

\* Mutant: the report is written in place.
WriteFailsInPlace ==
    /\ pc = "report" /\ pc' = "exit"
    /\ code' = 2 /\ report' = "partial"
    /\ UNCHANGED <<checks, extra, raised, armed, left, status>>

\* _write_report replaces the file or leaves it as it was.
WriteFails ==
    /\ pc = "report" /\ pc' = "exit"
    /\ code' = 2
    /\ UNCHANGED <<checks, extra, raised, armed, left, status, report>>

-----------------------------------------------------------------------------
Next ==
    \/ ReportPath \/ Construct
    \/ \E kind \in Kinds : ConstructRaises(kind) \/ Raise(kind)
    \/ AdmissionText \/ ComposeUnreadable \/ ComposeRead \/ Down
    \/ AdmissionBuild \/ AdmissionImages \/ AdmissionUp \/ AdmissionSecurity
    \/ PublishActions \/ PublishMap \/ PublishImages \/ Dependents
    \/ PhaseStep \/ UnknownOutcome \/ PhaseEnds
    \/ Verdict \/ Cleanup \/ CleanupFails \/ WriteReport \/ WriteFails

\* main is one thread; nothing it waits for is without a timeout.
Spec == Init /\ [][Next]_vars /\ WF_vars(Next)

-----------------------------------------------------------------------------
(* Properties *)

Ended == pc = "exit"

\* Exit code 0: every published check and the unlisted one ran and passed, the report says
\* so, and nothing of the project is left unless --keep-stack asks for it.
ExitZeroMeansAllPassed ==
    Ended /\ code = 0 =>
        /\ \A n \in AllChecks : checks[n] = "passed"
        /\ extra = {} /\ report = "passed"
        /\ left => KeepStack

\* Exit codes 0 and 1 come with a report of this run that names every published check, or
\* says that the contract failed before the phases; 1 never hides a failure of the checker.
VerdictIsReported ==
    Ended /\ code \in {0, 1} =>
        /\ report = IF code = 0 THEN "passed" ELSE "failed"
        /\ extra \subseteq {"admission-contract"}
        /\ extra = {} => \A n \in Names(Phases) : checks[n] # "absent"
        /\ raised \subseteq {"ContractError"}

\* Containers, volumes and images outlive the run only with --keep-stack, or when the exit
\* code does not read as a verdict.
NoLeftovers == Ended /\ left /\ ~KeepStack => code \in {2, 130}

\* A failed check is never turned into a passed one, and no recorded check disappears.
FailureKept ==
    \A n \in AllChecks :
        /\ checks[n] = "failed" => checks'[n] = "failed"
        /\ checks[n] # "absent" => checks'[n] # "absent"

==============================================================================
