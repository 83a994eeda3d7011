------------------------------ MODULE RunProofs ------------------------------
(***************************************************************************)
(* What an exit code of the acceptance checkers says, for every number of  *)
(* failing checks, with and without --keep-stack: a week 2 run exits with  *)
(* 0 only when every check passed, a week 4 run finds its stack as it      *)
(* needs it and misses no secret in a log that it can read.                *)
(***************************************************************************)
EXTENDS Checkers, Sequences, TLAPS

-----------------------------------------------------------------------------
(* A week 2 run: record and fail_missing. *)

Outcomes == {"passed", "failed", "absent"}

\* The names of the checks of some phases.
LEMMA NamesOf ==
    /\ \A S, n : n \in Run!Names(S) <=> \E p \in S : \E i \in DOMAIN Run!PhaseChecks[p] :
                                           n = Run!PhaseChecks[p][i]
    /\ \A S \in SUBSET Run!Phases : Run!Names(S) \subseteq Run!AllChecks
<1>1. \A S, n : n \in Run!Names(S) <=> \E p \in S : \E i \in DOMAIN Run!PhaseChecks[p] :
                                          n = Run!PhaseChecks[p][i]
      BY DEF Run!Names
<1> QED
    BY <1>1 DEF Run!AllChecks, Run!Published

\* What record does to one check: the first record of a name stays.
LEMMA RecordOf ==
    ASSUME NEW c \in [Run!AllChecks -> Outcomes], NEW S, NEW r \in Outcomes
    PROVE  /\ Run!record(c, S, r) \in [Run!AllChecks -> Outcomes]
           /\ \A n \in Run!AllChecks :
                 Run!record(c, S, r)[n] = IF n \in S /\ c[n] = "absent" THEN r ELSE c[n]
    BY DEF Run!record

\* The checks of S are recorded, those of F as failed where they were not recorded yet.
LEMMA FoundOf ==
    ASSUME checks \in [Run!AllChecks -> Outcomes], NEW S, NEW F
    PROVE  /\ Run!Found(S, F) \in [Run!AllChecks -> Outcomes]
           /\ \A n \in Run!AllChecks :
                 Run!Found(S, F)[n] = IF checks[n] # "absent" THEN checks[n]
                                      ELSE IF n \in F THEN "failed"
                                      ELSE IF n \in S THEN "passed" ELSE "absent"
<1> DEFINE c == Run!record(checks, F, "failed")
<1>1. /\ c \in [Run!AllChecks -> Outcomes]
      /\ \A n \in Run!AllChecks : c[n] = IF n \in F /\ checks[n] = "absent" THEN "failed" ELSE checks[n]
      BY RecordOf DEF Outcomes
<1> HIDE DEF c
<1>2. /\ Run!record(c, S, "passed") \in [Run!AllChecks -> Outcomes]
      /\ \A n \in Run!AllChecks :
            Run!record(c, S, "passed")[n] = IF n \in S /\ c[n] = "absent" THEN "passed" ELSE c[n]
      BY <1>1, RecordOf DEF Outcomes
<1>3. Run!Found(S, F) = Run!record(c, S, "passed")
      BY DEF Run!Found, c
<1>4. \A n \in Run!AllChecks : checks[n] \in Outcomes
      OBVIOUS
<1> QED
    BY <1>1, <1>2, <1>3, <1>4 DEF Outcomes

\* fail_missing records every check of the phases S, and loses no failure.
LEMMA FailMissingOf ==
    ASSUME NEW c \in [Run!AllChecks -> Outcomes], NEW S \in SUBSET Run!Phases
    PROVE  /\ Run!fail_missing(c, S) \in [Run!AllChecks -> Outcomes]
           /\ \A n \in Run!AllChecks :
                 Run!fail_missing(c, S)[n] =
                    IF n \in Run!Names(S) /\ c[n] = "absent" THEN "failed" ELSE c[n]
    BY RecordOf DEF Run!fail_missing, Outcomes

\* The sets of checks that may fail are among those that are recorded.
LEMMA MayFailOf ==
    ASSUME NEW S, NEW F \in Run!MayFail(S)
    PROVE  F \subseteq S
    BY DEF Run!MayFail

-----------------------------------------------------------------------------
(* A failed check stays failed. *)

\* Every value that main gives to checks keeps what is recorded.
LEMMA RunKeepsRecords ==
    ASSUME Run!TypeOK, Run!Next
    PROVE  Run!FailureKept /\ checks' \in [Run!AllChecks -> Outcomes]
<1> DEFINE Keeps(c) == /\ c \in [Run!AllChecks -> Outcomes]
                       /\ \A n \in Run!AllChecks : checks[n] # "absent" => c[n] = checks[n]
<1>1. checks \in [Run!AllChecks -> Outcomes] /\ Keeps(checks)
      BY DEF Run!TypeOK, Outcomes
<1>2. ASSUME NEW S, NEW F
      PROVE  Keeps(Run!Found(S, F))
      BY <1>1, FoundOf
<1>3. ASSUME NEW c, Keeps(c), NEW S \in SUBSET Run!Phases
      PROVE  Keeps(Run!fail_missing(c, S))
  <2>1. c \in [Run!AllChecks -> Outcomes]
        BY <1>3
  <2> QED  BY <1>3, <2>1, FailMissingOf
<1>4. ASSUME NEW n
      PROVE  Keeps(Run!record(checks, {n}, "failed"))
      BY <1>1, RecordOf DEF Outcomes
<1>5. ASSUME Keeps(checks')
      PROVE  Run!FailureKept /\ checks' \in [Run!AllChecks -> Outcomes]
      BY <1>5 DEF Run!FailureKept
<1> HIDE DEF Keeps
<1>6. Run!Phases \subseteq Run!Phases /\ Run!Dependent \subseteq Run!Phases
      BY DEF Run!Phases, Run!Dependent, Run!PhaseChecks, Run!Following
<1>7. CASE Run!ReportPath \/ Run!Construct \/ Run!Down \/ Run!PhaseEnds \/ Run!Verdict
           \/ Run!Cleanup \/ Run!CleanupFails \/ Run!WriteReport \/ Run!WriteFails
           \/ \E kind \in Run!Kinds : Run!ConstructRaises(kind)
      BY <1>1, <1>5, <1>7 DEF Run!ReportPath, Run!Construct, Run!Down, Run!PhaseEnds, Run!Verdict,
         Run!Cleanup, Run!CleanupFails, Run!WriteReport, Run!Reported, Run!WriteFails, Run!ConstructRaises
<1>8. ASSUME NEW kind \in Run!Kinds, Run!Raise(kind)
      PROVE  Run!FailureKept /\ checks' \in [Run!AllChecks -> Outcomes]
  <2>1. pc \notin Run!AdmissionParts => Run!PhaseOf(pc) \in Run!Phases
        BY <1>8 DEF Run!Raise, Run!Working, Run!PhaseOf, Run!Dependent, Run!Following, Run!Phases,
           Run!PhaseChecks
  <2>2. checks' = checks \/ (/\ pc \notin Run!AdmissionParts
                             /\ checks' = Run!fail_missing(checks, {Run!PhaseOf(pc)}))
        BY <1>8 DEF Run!Raise
  <2>3. pc \notin Run!AdmissionParts => {Run!PhaseOf(pc)} \in SUBSET Run!Phases
        BY <2>1
  <2> QED  BY <1>1, <1>3, <1>5, <2>2, <2>3
<1>9. ASSUME NEW c, Keeps(c), Run!Refused(c)
      PROVE  Keeps(checks')
      BY <1>3, <1>6, <1>9 DEF Run!Refused
<1>10. ASSUME NEW S, NEW next, Run!InOrder(S, next)
       PROVE  Keeps(checks')
      BY <1>2, <1>9, <1>10 DEF Run!InOrder
<1>11. CASE Run!AdmissionText \/ Run!ComposeUnreadable \/ Run!ComposeRead \/ Run!AdmissionBuild
            \/ Run!AdmissionImages \/ Run!AdmissionUp \/ Run!AdmissionSecurity
      BY <1>2, <1>4, <1>5, <1>9, <1>10, <1>11 DEF Run!AdmissionText, Run!ComposeUnreadable,
         Run!ComposeRead, Run!AdmissionBuild, Run!AdmissionImages, Run!AdmissionUp,
         Run!AdmissionSecurity
<1>12. ASSUME NEW part, NEW S, NEW next, Run!PublicationStep(part, S, next)
       PROVE  Keeps(checks')
  <2>1. {"publication"} \in SUBSET Run!Phases
        BY DEF Run!Phases, Run!PhaseChecks
  <2> QED  BY <1>2, <1>3, <1>12, <2>1 DEF Run!PublicationStep
<1>13. CASE Run!PublishActions \/ Run!PublishMap \/ Run!PublishImages
      BY <1>5, <1>12, <1>13 DEF Run!PublishActions, Run!PublishMap, Run!PublishImages
<1>14. CASE Run!Dependents
      BY <1>1, <1>3, <1>5, <1>6, <1>14 DEF Run!Dependents
<1>15. CASE Run!PhaseStep
      BY <1>2, <1>5, <1>15 DEF Run!PhaseStep
<1>16. CASE Run!UnknownOutcome
      BY <1>1, <1>16 DEF Run!UnknownOutcome, Run!RecordLast, Run!FailureKept, Outcomes
<1> QED
    BY <1>7, <1>8, <1>11, <1>13, <1>14, <1>15, <1>16 DEF Run!Next

-----------------------------------------------------------------------------
(* A week 2 run: what its exit code says. *)

TextChecks == {"fixture-integrity", "repository-contract"}
BuildChecks == {"cold-build", "fixture-post-build-integrity"}
UpChecks == {"stack-start-no-build", "health"}

\* The checks of admission that are recorded when main has come to step p.
Admitted(p) ==
    CASE p \in {"start", "construct", "text"} -> {}
      [] p = "compose" -> TextChecks
      [] p \in {"down", "build"} -> TextChecks \cup Run!ComposeChecks
      [] p = "images" -> TextChecks \cup Run!ComposeChecks \cup BuildChecks
      [] p = "up" -> TextChecks \cup Run!ComposeChecks \cup BuildChecks \cup {"built-image-contract"}
      [] p = "security" -> TextChecks \cup Run!ComposeChecks \cup BuildChecks
                           \cup {"built-image-contract"} \cup UpChecks
      [] OTHER -> Run!AdmissionChecks

\* The phases that are over when main has come to step p.
Over(p) ==
    CASE p \in {"dependents", "execution"} -> {"publication"}
      [] p = "versioning" -> {"publication", "execution"}
      [] p = "concurrency" -> {"publication", "execution", "versioning"}
      [] p = "recovery" -> {"publication", "execution", "versioning", "concurrency"}
      [] p = "resilience" -> {"publication", "execution", "versioning", "concurrency", "recovery"}
      [] p = "integrity" -> {"publication"} \cup Run!Dependent
      [] OTHER -> {}

AdmissionSteps == {"start", "construct", "publish_actions"} \cup Run!AdmissionParts
PhaseSteps == Run!PublicationParts \cup {"dependents", "integrity"} \cup Run!Dependent
Undecided == AdmissionSteps \cup PhaseSteps \cup {"verdict"}

\* The checks of publication that its parts have recorded.
Publishing(p) ==
    CASE p = "publish_map" -> {"migration-and-action-publication"}
      [] p = "publish_images" ->
           {"migration-and-action-publication", "map-validation-and-publication"}
      [] OTHER -> {}

RecordedIn(c, S) == \A n \in S : c[n] # "absent"

\* Admission records its checks in order, and nothing else.
AdmissionRecords ==
    pc \in AdmissionSteps =>
        \A n \in Run!AllChecks : checks[n] # "absent" <=> n \in Admitted(pc)

\* Every phase records its checks; the unlisted one is missing only after a failure.
PhaseRecords ==
    pc \in PhaseSteps =>
        /\ RecordedIn(checks, Run!AdmissionChecks) /\ RecordedIn(checks, Run!Names(Over(pc)))
        /\ RecordedIn(checks, Publishing(pc))
        /\ pc # "publish_actions" => RecordedIn(checks, Run!Unlisted) \/ Run!Failed # {}

\* At the verdict no check of a phase is missing, and none at all if none failed.
VerdictRecords ==
    pc = "verdict" => /\ RecordedIn(checks, Run!Names(Run!Phases))
                      /\ RecordedIn(checks, Run!AllChecks) \/ Run!Failed # {}

\* Nothing of the project exists before main has armed its cleanup.
CleanupArmed ==
    /\ left => armed
    /\ pc \in {"down", "build"} => armed
    /\ pc \in {"start", "construct"} => ~left

\* Until the verdict main has the status of a run that could not be carried out.
NoVerdictYet ==
    pc \in Undecided =>
        extra = {} /\ status = "error" /\ code = 2 /\ raised \subseteq {"ContractError"}

\* An interrupt ends the run without a report.
Interrupted == "KeyboardInterrupt" \in raised => code = 130 /\ pc # "report"

\* Codes 0 and 1 are verdicts, and stay so only while cleanup and the report succeed.
VerdictStands ==
    code \in {0, 1} =>
        /\ status = IF code = 0 THEN "passed" ELSE "failed"
        /\ raised \subseteq {"ContractError"} /\ extra \subseteq {"admission-contract"}
        /\ extra = {} => RecordedIn(checks, Run!Names(Run!Phases))
        /\ code = 0 => extra = {} /\ \A n \in Run!AllChecks : checks[n] = "passed"
        /\ pc = "exit" => report = status
        /\ pc \in {"report", "exit"} /\ left => KeepStack

RInv ==
    /\ Run!TypeOK
    /\ AdmissionRecords /\ PhaseRecords /\ VerdictRecords
    /\ CleanupArmed /\ NoVerdictYet /\ Interrupted /\ VerdictStands

\* The checks by name.
LEMMA CheckNames ==
    /\ TextChecks \cup Run!ComposeChecks \cup BuildChecks \cup UpChecks \subseteq Run!AllChecks
    /\ Run!AdmissionChecks \subseteq Run!AllChecks /\ Run!Unlisted \subseteq Run!AllChecks
    /\ "built-image-contract" \in Run!AllChecks
    /\ Run!Names({"publication"}) = {"migration-and-action-publication",
          "map-validation-and-publication", "publication-image-immutability"}
    /\ Run!Phases = {"publication", "integrity"} \cup Run!Dependent
    /\ Run!AdmissionChecks = TextChecks \cup Run!ComposeChecks \cup BuildChecks
          \cup {"built-image-contract"} \cup UpChecks
          \cup {"worker-database-security", "baseline-images"}
<1>1. Run!AdmissionChecks = TextChecks \cup Run!ComposeChecks \cup BuildChecks
          \cup {"built-image-contract"} \cup UpChecks
          \cup {"worker-database-security", "baseline-images"}
      BY DEF Run!AdmissionChecks, TextChecks, Run!ComposeChecks, BuildChecks, UpChecks
<1>2. Run!AdmissionChecks \subseteq Run!AllChecks /\ Run!Unlisted \subseteq Run!AllChecks
      BY DEF Run!AllChecks, Run!Published
<1>3. Run!Names({"publication"}) = {"migration-and-action-publication",
          "map-validation-and-publication", "publication-image-immutability"}
  <2>1. Run!PhaseChecks["publication"] = <<"migration-and-action-publication",
           "map-validation-and-publication", "publication-image-immutability">>
        BY DEF Run!PhaseChecks
  <2>2. DOMAIN Run!PhaseChecks["publication"] = {1, 2, 3}
        BY <2>1
  <2>3. \A n : n \in Run!Names({"publication"}) <=>
                  \E i \in {1, 2, 3} : n = Run!PhaseChecks["publication"][i]
        BY <2>2, NamesOf
  <2>4. \A n : n \in Run!Names({"publication"}) <=>
                  n \in {"migration-and-action-publication", "map-validation-and-publication",
                         "publication-image-immutability"}
        BY <2>1, <2>3
  <2> QED  BY <2>4
<1>4. Run!Phases = {"publication", "integrity"} \cup Run!Dependent
      BY DEF Run!Phases, Run!PhaseChecks, Run!Dependent, Run!Following
<1> QED
    BY <1>1, <1>2, <1>3, <1>4

\* A step of run_checks leaves the verdict open.
LEMMA StillUndecided ==
    ASSUME RInv, Run!Next, pc \in Undecided,
           pc' \in Run!Working \cup {"dependents", "verdict"},
           UNCHANGED <<extra, status, code, report>>, raised' \subseteq raised \cup {"ContractError"},
           armed' \in BOOLEAN, armed => armed', left' \in BOOLEAN, left' => armed',
           pc' \in {"down", "build"} => armed',
           AdmissionRecords', PhaseRecords', VerdictRecords'
    PROVE  RInv'
<1>1. /\ Run!TypeOK /\ extra = {} /\ status = "error" /\ code = 2
      /\ raised \subseteq {"ContractError"}
      BY DEF RInv, NoVerdictYet
<1>2. checks' \in [Run!AllChecks -> Outcomes]
      BY <1>1, RunKeepsRecords
<1>3. Run!TypeOK'
      BY <1>1, <1>2 DEF Run!TypeOK, Outcomes, Run!Kinds
<1>4. CleanupArmed'
      BY DEF CleanupArmed, Run!Working, Run!AdmissionParts, Run!PublicationParts, Run!Dependent,
         Run!Following
<1>5. NoVerdictYet' /\ Interrupted' /\ VerdictStands'
      BY <1>1 DEF NoVerdictYet, Interrupted, VerdictStands
<1> QED
    BY <1>3, <1>4, <1>5 DEF RInv

\* Admission: a part that refuses records a failure and fails every phase.
LEMMA RefusedRecords ==
    ASSUME Run!TypeOK, NEW c \in [Run!AllChecks -> Outcomes], Run!Refused(c),
           NEW n \in Run!AllChecks, c[n] = "failed"
    PROVE  pc' = "verdict" /\ AdmissionRecords' /\ PhaseRecords' /\ VerdictRecords'
<1>1. pc' = "verdict" /\ checks' = Run!fail_missing(c, Run!Phases)
      BY DEF Run!Refused
<1>2. \A m \in Run!AllChecks :
         checks'[m] = IF m \in Run!Names(Run!Phases) /\ c[m] = "absent" THEN "failed" ELSE c[m]
      BY <1>1, FailMissingOf
<1>3. RecordedIn(checks', Run!Names(Run!Phases))
      BY <1>2, NamesOf DEF RecordedIn
<1>4. (Run!Failed # {})'
      BY <1>2 DEF Run!Failed
<1>5. "verdict" \notin AdmissionSteps /\ "verdict" \notin PhaseSteps
      BY DEF AdmissionSteps, PhaseSteps, Run!AdmissionParts, Run!PublicationParts, Run!Dependent,
         Run!Following
<1> QED
    BY <1>1, <1>3, <1>4, <1>5 DEF AdmissionRecords, PhaseRecords, VerdictRecords

\* Admission: a part that passes records its checks.
LEMMA AdmissionRecordsMore ==
    ASSUME RInv, pc \in AdmissionSteps, NEW S \in SUBSET Run!AllChecks, NEW F \in SUBSET S,
           checks' = Run!Found(S, F), pc' \in AdmissionSteps \ {"publish_actions"},
           Admitted(pc') = Admitted(pc) \cup S
    PROVE  AdmissionRecords' /\ PhaseRecords' /\ VerdictRecords'
<1>1. checks \in [Run!AllChecks -> Outcomes]
      BY DEF RInv, Run!TypeOK, Outcomes
<1>2. \A n \in Run!AllChecks : checks'[n] # "absent" <=> n \in Admitted(pc) \cup S
      BY <1>1, FoundOf DEF RInv, AdmissionRecords
<1>3. pc' \notin PhaseSteps /\ pc' # "verdict"
      BY DEF AdmissionSteps, PhaseSteps, Run!AdmissionParts, Run!PublicationParts, Run!Dependent,
         Run!Following
<1> QED
    BY <1>2, <1>3 DEF AdmissionRecords, PhaseRecords, VerdictRecords

\* The parts of admission before the build.
LEMMA AdmissionReads ==
    ASSUME RInv, Run!Next,
           Run!AdmissionText \/ Run!ComposeUnreadable \/ Run!ComposeRead \/ Run!Down
    PROVE  RInv'
<1>1. /\ Run!TypeOK /\ checks \in [Run!AllChecks -> Outcomes]
      /\ (left => armed) /\ left \in BOOLEAN /\ armed \in BOOLEAN
      BY DEF RInv, Run!TypeOK, Outcomes, CleanupArmed
<1>2. "compose" \in AdmissionSteps /\ "text" \in AdmissionSteps /\ "down" \in AdmissionSteps
      /\ AdmissionSteps \subseteq Undecided /\ "build" \in AdmissionSteps
      /\ {"compose", "down", "build"} \subseteq Run!Working
      BY DEF AdmissionSteps, Undecided, Run!Working, Run!AdmissionParts
<1>3. CASE Run!AdmissionText
  <2>1. /\ pc = "text" /\ pc' = "compose" /\ UNCHANGED <<armed, left, extra, raised, status, code, report>>
        BY <1>3 DEF Run!AdmissionText, Run!Bookkeeping
  <2>2. PICK F \in Run!MayFail({"repository-contract"}) : checks' = Run!Found(TextChecks, F)
        BY <1>3 DEF Run!AdmissionText, TextChecks
  <2>3. F \subseteq TextChecks
        BY <2>2, MayFailOf DEF TextChecks
  <2>4. Admitted("compose") = Admitted("text") \cup TextChecks
        BY DEF Admitted
  <2>5. AdmissionRecords' /\ PhaseRecords' /\ VerdictRecords'
        BY <1>2, <2>1, <2>2, <2>3, <2>4, AdmissionRecordsMore, CheckNames
  <2> QED  BY <1>1, <1>2, <2>1, <2>5, StillUndecided
<1>4. ASSUME Run!ComposeUnreadable
      PROVE  RInv'
  <2>1. /\ pc = "compose" /\ UNCHANGED <<armed, left, extra, raised, status, code, report>>
        BY <1>4 DEF Run!ComposeUnreadable, Run!Bookkeeping
  <2>2. PICK n \in {"compose-safety", "compose-contract"} :
          Run!Refused(Run!record(checks, {n}, "failed"))
        BY <1>4 DEF Run!ComposeUnreadable
  <2>3. n \in Run!AllChecks /\ n \notin Admitted("compose")
        BY CheckNames DEF Run!ComposeChecks, Admitted, TextChecks
  <2>4. checks[n] = "absent"
        BY <1>2, <2>1, <2>3 DEF RInv, AdmissionRecords
  <2> DEFINE c == Run!record(checks, {n}, "failed")
  <2>5. c \in [Run!AllChecks -> Outcomes] /\ c[n] = "failed"
        BY <1>1, <2>3, <2>4, RecordOf DEF Outcomes
  <2> HIDE DEF c
  <2>6. Run!Refused(c)
        BY <2>2 DEF c
  <2>7. pc' = "verdict" /\ AdmissionRecords' /\ PhaseRecords' /\ VerdictRecords'
        BY <1>1, <2>3, <2>5, <2>6, RefusedRecords
  <2> QED  BY <1>1, <1>2, <2>1, <2>7, StillUndecided
<1>5. ASSUME Run!ComposeRead
      PROVE  RInv'
  <2>1. /\ pc = "compose" /\ UNCHANGED <<left, extra, raised, status, code, report>>
        BY <1>5 DEF Run!ComposeRead, Run!Bookkeeping
  <2>2. PICK F \in Run!MayFail(Run!ComposeChecks) :
          IF F = {} THEN /\ checks' = Run!Found(Run!ComposeChecks, {}) /\ pc' = "down"
                         /\ armed' = TRUE
                    ELSE Run!Refused(Run!Found(Run!ComposeChecks, F)) /\ armed' = armed
        BY <1>5 DEF Run!ComposeRead
  <2>3. F \subseteq Run!ComposeChecks
        BY <2>2, MayFailOf
  <2>4. Run!ComposeChecks \in SUBSET Run!AllChecks
        BY CheckNames
  <2>5. CASE F = {}
    <3>1. Admitted("down") = Admitted("compose") \cup Run!ComposeChecks
          BY DEF Admitted
    <3>2. "down" # "publish_actions"
          OBVIOUS
    <3>3. AdmissionRecords' /\ PhaseRecords' /\ VerdictRecords'
          BY <1>2, <2>1, <2>2, <2>4, <2>5, <3>1, <3>2, AdmissionRecordsMore
    <3> QED  BY <1>1, <1>2, <2>1, <2>2, <2>5, <3>3, StillUndecided
  <2>6. CASE F # {}
    <3>1. PICK n \in F : TRUE
          BY <2>6
    <3>2. n \in Run!AllChecks /\ n \notin Admitted("compose")
          BY <2>3, <2>4 DEF Run!ComposeChecks, Admitted, TextChecks
    <3>3. checks[n] = "absent"
          BY <1>2, <2>1, <3>2 DEF RInv, AdmissionRecords
    <3> DEFINE c == Run!Found(Run!ComposeChecks, F)
    <3>4. c \in [Run!AllChecks -> Outcomes] /\ c[n] = "failed"
          BY <1>1, <3>1, <3>2, <3>3, FoundOf
    <3>5. Run!Refused(c) /\ armed' = armed
          BY <2>2, <2>6
    <3> HIDE DEF c
    <3>6. pc' = "verdict" /\ AdmissionRecords' /\ PhaseRecords' /\ VerdictRecords'
          BY <1>1, <3>2, <3>4, <3>5, RefusedRecords
    <3> QED  BY <1>1, <1>2, <2>1, <3>5, <3>6, StillUndecided
  <2> QED  BY <2>5, <2>6
<1>6. CASE Run!Down
  <2>1. /\ pc = "down" /\ pc' = "build" /\ armed
        /\ UNCHANGED <<checks, armed, left, extra, raised, status, code, report>>
        BY <1>6 DEF Run!Down, Run!Bookkeeping, RInv, CleanupArmed
  <2>2. AdmissionRecords' /\ PhaseRecords' /\ VerdictRecords'
    <3>1. Admitted("build") = Admitted("down") /\ "build" \notin PhaseSteps
          BY DEF Admitted, PhaseSteps, Run!PublicationParts, Run!Dependent, Run!Following
    <3> QED  BY <1>2, <2>1, <3>1 DEF RInv, AdmissionRecords, PhaseRecords, VerdictRecords
  <2> QED  BY <1>1, <1>2, <2>1, <2>2, StillUndecided
<1> QED
    BY <1>3, <1>4, <1>5, <1>6

\* The parts of admission that end with their first failed check.
LEMMA InOrderKeeps ==
    ASSUME RInv, Run!Next, NEW S, NEW next, NEW part \in AdmissionSteps, pc = part,
           Run!InOrder(S, next), next \in Run!Working,
           next \in AdmissionSteps, next \notin {"down", "build"},
           {S[i] : i \in DOMAIN S} \subseteq Run!AllChecks \ Admitted(part),
           Admitted(next) = Admitted(part) \cup {S[i] : i \in DOMAIN S},
           UNCHANGED <<armed, extra, raised, status, code, report>>,
           left' \in BOOLEAN, left' => armed
    PROVE  RInv'
<1>1. Run!TypeOK /\ checks \in [Run!AllChecks -> Outcomes] /\ armed \in BOOLEAN
      BY DEF RInv, Run!TypeOK, Outcomes
<1> DEFINE all == {S[i] : i \in DOMAIN S}
<1>2. pc \in Undecided
      BY DEF Undecided
<1>3. CASE checks' = Run!Found(all, {}) /\ pc' = next
  <2>1. \A n \in Run!AllChecks : checks'[n] # "absent" <=> n \in Admitted(next)
        BY <1>1, <1>3, FoundOf DEF RInv, AdmissionRecords
  <2>2. next # "verdict" /\ Publishing("publish_actions") = {} /\ Over("publish_actions") = {}
        BY DEF AdmissionSteps, Run!AdmissionParts, Publishing, Over
  <2>3. next \in PhaseSteps => next = "publish_actions"
        BY DEF AdmissionSteps, PhaseSteps, Run!AdmissionParts, Run!PublicationParts, Run!Dependent,
           Run!Following
  <2>4. Admitted("publish_actions") = Run!AdmissionChecks
        BY DEF Admitted
  <2>5. Run!Names({}) = {}
        BY NamesOf
  <2>6. PhaseRecords'
        BY <1>3, <2>1, <2>2, <2>3, <2>4, <2>5, CheckNames DEF PhaseRecords, RecordedIn
  <2>7. AdmissionRecords' /\ VerdictRecords'
        BY <1>3, <2>1, <2>2 DEF AdmissionRecords, VerdictRecords
  <2> QED  BY <1>1, <1>2, <1>3, <2>6, <2>7, StillUndecided
<1>4. ASSUME NEW i \in DOMAIN S, Run!Refused(Run!Found({S[j] : j \in 1..i}, {S[i]}))
      PROVE  RInv'
  <2> DEFINE c == Run!Found({S[j] : j \in 1..i}, {S[i]})
             n == S[i]
  <2>1. n \in Run!AllChecks /\ n \notin Admitted(part)
        OBVIOUS
  <2>2. checks[n] = "absent"
        BY <2>1 DEF RInv, AdmissionRecords
  <2>3. c \in [Run!AllChecks -> Outcomes] /\ c[n] = "failed"
        BY <1>1, <2>1, <2>2, FoundOf
  <2>4. Run!Refused(c)
        BY <1>4
  <2> HIDE DEF c, n
  <2>5. pc' = "verdict" /\ AdmissionRecords' /\ PhaseRecords' /\ VerdictRecords'
        BY <1>1, <2>1, <2>3, <2>4, RefusedRecords
  <2> QED  BY <1>1, <1>2, <2>5, StillUndecided
<1> QED
    BY <1>3, <1>4 DEF Run!InOrder

LEMMA AdmissionBuilds ==
    ASSUME RInv, Run!Next,
           \/ Run!AdmissionBuild \/ Run!AdmissionImages
           \/ Run!AdmissionUp \/ Run!AdmissionSecurity
    PROVE  RInv'
<1> USE DEF Run!Bookkeeping
<1>1. left \in BOOLEAN /\ (left => armed)
      BY DEF RInv, Run!TypeOK, CleanupArmed
<1>2. /\ \A a, b : {<<a, b>>[i] : i \in DOMAIN <<a, b>>} = {a, b}
      /\ \A a : {<<a>>[i] : i \in DOMAIN <<a>>} = {a}
      OBVIOUS
<1>3. /\ {"build", "images", "up", "security", "publish_actions"} \subseteq AdmissionSteps
      /\ {"build", "images", "up", "security", "publish_actions"} \subseteq Run!Working
      BY DEF AdmissionSteps, Run!AdmissionParts, Run!Working, Run!PublicationParts
<1>4. CASE Run!AdmissionBuild
  <2> DEFINE S == <<"cold-build", "fixture-post-build-integrity">>
             all == {S[i] : i \in DOMAIN S}
  <2>1. all = BuildChecks
        BY <1>2 DEF BuildChecks
  <2>2. BuildChecks \subseteq Run!AllChecks \ Admitted("build")
        BY CheckNames DEF BuildChecks, Admitted, TextChecks, Run!ComposeChecks
  <2>3. Admitted("images") = Admitted("build") \cup BuildChecks
        BY DEF Admitted
  <2>4. pc = "build" /\ left' = TRUE /\ Run!InOrder(S, "images") /\ armed
        /\ UNCHANGED <<armed, extra, raised, status, code, report>>
        BY <1>4 DEF Run!AdmissionBuild, RInv, CleanupArmed
  <2> HIDE DEF S
  <2> QED  BY <1>3, <2>1, <2>2, <2>3, <2>4, InOrderKeeps
<1>5. CASE Run!AdmissionImages
  <2> DEFINE S == <<"built-image-contract">>
             all == {S[i] : i \in DOMAIN S}
  <2>1. all = {"built-image-contract"}
        BY <1>2
  <2>2. all \subseteq Run!AllChecks \ Admitted("images")
        BY <2>1, CheckNames DEF BuildChecks, Admitted, TextChecks, Run!ComposeChecks
  <2>3. Admitted("up") = Admitted("images") \cup all
        BY <2>1 DEF Admitted
  <2>4. pc = "images" /\ left' = left /\ Run!InOrder(S, "up")
        /\ UNCHANGED <<armed, extra, raised, status, code, report>>
        BY <1>5 DEF Run!AdmissionImages
  <2> HIDE DEF S
  <2> QED  BY <1>1, <1>3, <2>2, <2>3, <2>4, InOrderKeeps
<1>6. CASE Run!AdmissionUp
  <2> DEFINE S == <<"stack-start-no-build", "health">>
             all == {S[i] : i \in DOMAIN S}
  <2>1. all = UpChecks
        BY <1>2 DEF UpChecks
  <2>2. UpChecks \subseteq Run!AllChecks \ Admitted("up")
        BY CheckNames DEF UpChecks, BuildChecks, Admitted, TextChecks, Run!ComposeChecks
  <2>3. Admitted("security") = Admitted("up") \cup UpChecks
        BY DEF Admitted
  <2>4. pc = "up" /\ left' = left /\ Run!InOrder(S, "security")
        /\ UNCHANGED <<armed, extra, raised, status, code, report>>
        BY <1>6 DEF Run!AdmissionUp
  <2> HIDE DEF S
  <2> QED  BY <1>1, <1>3, <2>1, <2>2, <2>3, <2>4, InOrderKeeps
<1>7. CASE Run!AdmissionSecurity
  <2> DEFINE S == <<"worker-database-security", "baseline-images">>
             all == {S[i] : i \in DOMAIN S}
  <2>1. all = {"worker-database-security", "baseline-images"}
        BY <1>2
  <2>2. all \subseteq Run!AllChecks \ Admitted("security")
        BY <2>1, CheckNames
        DEF UpChecks, BuildChecks, Admitted, TextChecks, Run!ComposeChecks
  <2>3. Admitted("publish_actions") = Admitted("security") \cup all
        BY <2>1, CheckNames DEF Admitted
  <2>4. pc = "security" /\ left' = left /\ Run!InOrder(S, "publish_actions")
        /\ UNCHANGED <<armed, extra, raised, status, code, report>>
        BY <1>7 DEF Run!AdmissionSecurity
  <2> HIDE DEF S
  <2> QED  BY <1>1, <1>3, <2>2, <2>3, <2>4, InOrderKeeps
<1> QED
    BY <1>4, <1>5, <1>6, <1>7

\* A step of a phase: what is recorded stays so, and the step says what is new.
LEMMA PhaseAdvances ==
    ASSUME RInv, Run!Next, pc \in PhaseSteps,
           pc' \in (PhaseSteps \ {"publish_actions"}) \cup {"verdict"},
           UNCHANGED <<armed, left, extra, status, code, report>>,
           raised' \subseteq raised \cup {"ContractError"},
           RecordedIn(checks', Run!Names(IF pc' = "verdict" THEN Run!Phases ELSE Over(pc'))),
           RecordedIn(checks', Publishing(pc')),
           RecordedIn(checks', Run!Unlisted) \/ (Run!Failed # {})'
    PROVE  RInv'
<1>1. /\ Run!TypeOK /\ left \in BOOLEAN /\ armed \in BOOLEAN /\ (left => armed)
      /\ RecordedIn(checks, Run!AdmissionChecks)
      BY DEF RInv, Run!TypeOK, CleanupArmed, PhaseRecords
<1>2. Run!FailureKept
      BY <1>1, RunKeepsRecords
<1>3. RecordedIn(checks', Run!AdmissionChecks)
      BY <1>1, <1>2, CheckNames DEF RecordedIn, Run!FailureKept
<1>4. /\ pc' \notin AdmissionSteps
      /\ pc' \in Run!Working \cup {"dependents", "verdict"}
      /\ pc' \notin {"down", "build"} /\ pc \in Undecided
      BY DEF AdmissionSteps, PhaseSteps, Run!AdmissionParts, Run!PublicationParts, Run!Dependent,
         Run!Following, Run!Working, Undecided
<1>5. AdmissionRecords' /\ PhaseRecords'
      BY <1>3, <1>4 DEF AdmissionRecords, PhaseRecords, PhaseSteps, Run!PublicationParts,
         Run!Dependent, Run!Following
<1>6. VerdictRecords'
  <2>1. Run!AllChecks = Run!AdmissionChecks \cup Run!Names(Run!Phases) \cup Run!Unlisted
        BY DEF Run!AllChecks, Run!Published
  <2> QED  BY <1>3, <2>1 DEF VerdictRecords, RecordedIn
<1> QED
    BY <1>1, <1>4, <1>5, <1>6, StillUndecided

\* What is recorded or failed before a step is so after it.
LEMMA RecordsStay ==
    ASSUME Run!TypeOK, Run!Next
    PROVE  /\ \A S \in SUBSET Run!AllChecks : RecordedIn(checks, S) => RecordedIn(checks', S)
           /\ Run!Failed # {} => (Run!Failed # {})'
<1>1. Run!FailureKept
      BY RunKeepsRecords
<1> QED
    BY <1>1 DEF RecordedIn, Run!FailureKept, Run!Failed

\* Names of two sets of phases.
LEMMA NamesJoin ==
    \A S, T : Run!Names(S \cup T) = Run!Names(S) \cup Run!Names(T)
<1> SUFFICES ASSUME NEW S, NEW T
             PROVE  Run!Names(S \cup T) = Run!Names(S) \cup Run!Names(T)
    OBVIOUS
<1>1. \A n : n \in Run!Names(S \cup T) <=> n \in Run!Names(S) \/ n \in Run!Names(T)
      BY NamesOf
<1> QED
    BY <1>1

LEMMA PublicationKeeps ==
    ASSUME RInv, Run!Next, Run!PublishActions \/ Run!PublishMap \/ Run!PublishImages
    PROVE  RInv'
<1> DEFINE migration == "migration-and-action-publication"
           map == "map-validation-and-publication"
           images == "publication-image-immutability"
<1>1. Run!TypeOK /\ checks \in [Run!AllChecks -> Outcomes]
      BY DEF RInv, Run!TypeOK, Outcomes
<1>2. /\ Run!Names({"publication"}) = {migration, map, images}
      /\ {migration, map, images} \subseteq Run!AllChecks /\ Run!Unlisted \subseteq Run!AllChecks
      /\ {"publication"} \in SUBSET Run!Phases
  <2>1. {"publication"} \in SUBSET Run!Phases
        BY CheckNames
  <2> QED  BY <2>1, CheckNames, NamesOf
<1>3. /\ Run!PublicationParts \subseteq PhaseSteps /\ "dependents" \in PhaseSteps
      /\ Over("dependents") = {"publication"} /\ Publishing("dependents") = {}
      /\ Over("publish_map") = {} /\ Over("publish_images") = {} /\ Run!Names({}) = {}
      /\ Publishing("publish_map") = {migration} /\ Publishing("publish_images") = {migration, map}
      BY NamesOf DEF PhaseSteps, Over, Publishing
<1>4. ASSUME NEW part \in Run!PublicationParts, NEW S \in SUBSET Run!AllChecks, NEW next,
             Run!PublicationStep(part, S, next)
      PROVE  /\ pc = part /\ UNCHANGED <<armed, left, extra, status, code, report>>
             /\ raised' \subseteq raised \cup {"ContractError"}
             /\ RecordedIn(checks', S)
             /\ pc' = next \/ (pc' = "dependents" /\ RecordedIn(checks', Run!Names({"publication"})))
  <2>1. PICK F \in Run!MayFail(S) :
          IF F = {} \/ part = "publish_images"
            THEN checks' = Run!Found(S, F) /\ pc' = next /\ raised' = raised
            ELSE /\ checks' = Run!fail_missing(Run!Found(S, F), {"publication"})
                 /\ pc' = "dependents" /\ raised' = raised \cup {"ContractError"}
        BY <1>4 DEF Run!PublicationStep
  <2> DEFINE c == Run!Found(S, F)
  <2>2. c \in [Run!AllChecks -> Outcomes] /\ \A n \in S : c[n] # "absent"
        BY <1>1, FoundOf
  <2> HIDE DEF c
  <2>3. \A n \in Run!AllChecks : Run!fail_missing(c, {"publication"})[n] =
           IF n \in Run!Names({"publication"}) /\ c[n] = "absent" THEN "failed" ELSE c[n]
        BY <1>2, <2>2, FailMissingOf
  <2>4. RecordedIn(checks', S) /\ (pc' = next \/ (pc' = "dependents" /\ RecordedIn(checks', Run!Names({"publication"}))))
    <3>1. CASE checks' = c /\ pc' = next
          BY <2>2, <3>1 DEF RecordedIn
    <3>2. CASE checks' = Run!fail_missing(c, {"publication"}) /\ pc' = "dependents"
          BY <1>2, <2>2, <2>3, <3>2 DEF RecordedIn
    <3> QED  BY <2>1, <3>1, <3>2 DEF c
  <2> QED  BY <1>4, <2>1, <2>4 DEF Run!PublicationStep
<1>5. CASE Run!PublishActions
  <2> DEFINE S == {migration} \cup Run!Unlisted
  <2>1. Run!PublicationStep("publish_actions", S, "publish_map") /\ S \in SUBSET Run!AllChecks
        BY <1>2, <1>5 DEF Run!PublishActions
  <2>2. "publish_actions" \in Run!PublicationParts /\ "publish_map" \in Run!PublicationParts
        BY DEF Run!PublicationParts
  <2>3. /\ pc = "publish_actions" /\ UNCHANGED <<armed, left, extra, status, code, report>>
        /\ raised' \subseteq raised \cup {"ContractError"}
        /\ RecordedIn(checks', S)
        /\ \/ pc' = "publish_map"
           \/ pc' = "dependents" /\ RecordedIn(checks', Run!Names({"publication"}))
        BY <1>4, <2>1, <2>2
  <2>4. RecordedIn(checks', {migration}) /\ RecordedIn(checks', Run!Unlisted) /\ RecordedIn(checks', {})
        BY <2>3 DEF RecordedIn
  <2> QED  BY <1>3, <2>2, <2>3, <2>4, PhaseAdvances
<1>6. CASE Run!PublishMap
  <2>1. Run!PublicationStep("publish_map", {map}, "publish_images") /\ {map} \in SUBSET Run!AllChecks
        BY <1>2, <1>6 DEF Run!PublishMap
  <2>2. "publish_map" \in Run!PublicationParts /\ "publish_images" \in Run!PublicationParts
        BY DEF Run!PublicationParts
  <2>3. /\ pc = "publish_map" /\ UNCHANGED <<armed, left, extra, status, code, report>>
        /\ raised' \subseteq raised \cup {"ContractError"}
        /\ RecordedIn(checks', {map})
        /\ \/ pc' = "publish_images"
           \/ pc' = "dependents" /\ RecordedIn(checks', Run!Names({"publication"}))
        BY <1>4, <2>1, <2>2
  <2>4. RecordedIn(checks, {migration}) /\ (RecordedIn(checks, Run!Unlisted) \/ Run!Failed # {})
        BY <1>3, <2>2, <2>3 DEF RInv, PhaseRecords
  <2>5. RecordedIn(checks', {migration}) /\ (RecordedIn(checks', Run!Unlisted) \/ (Run!Failed # {})')
        BY <1>1, <1>2, <2>4, RecordsStay
  <2>6. RecordedIn(checks', {migration, map}) /\ RecordedIn(checks', {})
        BY <2>3, <2>5 DEF RecordedIn
  <2> QED  BY <1>3, <2>2, <2>3, <2>5, <2>6, PhaseAdvances
<1>7. CASE Run!PublishImages
  <2>1. Run!PublicationStep("publish_images", {images}, "dependents") /\ {images} \in SUBSET Run!AllChecks
        BY <1>2, <1>7 DEF Run!PublishImages
  <2>2. "publish_images" \in Run!PublicationParts /\ "dependents" # "publish_actions"
        BY DEF Run!PublicationParts
  <2>3. /\ pc = "publish_images" /\ UNCHANGED <<armed, left, extra, status, code, report>>
        /\ raised' \subseteq raised \cup {"ContractError"}
        /\ RecordedIn(checks', {images}) /\ pc' = "dependents"
        BY <1>4, <2>1, <2>2
  <2>4. RecordedIn(checks, {migration, map}) /\ (RecordedIn(checks, Run!Unlisted) \/ Run!Failed # {})
        BY <1>3, <2>2, <2>3 DEF RInv, PhaseRecords
  <2>5. RecordedIn(checks', {migration, map}) /\ (RecordedIn(checks', Run!Unlisted) \/ (Run!Failed # {})')
        BY <1>1, <1>2, <2>4, RecordsStay
  <2>6. RecordedIn(checks', Run!Names({"publication"})) /\ RecordedIn(checks', {})
        BY <1>2, <2>3, <2>5 DEF RecordedIn
  <2> QED  BY <1>3, <2>2, <2>3, <2>5, <2>6, PhaseAdvances
<1> QED
    BY <1>5, <1>6, <1>7

\* A phase after publication ends, with all its checks recorded.
LEMMA PhaseOver ==
    ASSUME RInv, Run!Next, pc \in Run!Dependent \cup {"integrity"}, pc' = Run!NextPart(pc),
           UNCHANGED <<armed, left, extra, status, code, report>>,
           raised' \subseteq raised \cup {"ContractError"},
           RecordedIn(checks', Run!Names({pc}))
    PROVE  RInv'
<1>1. /\ pc = "integrity" => pc' = "verdict" /\ Run!Phases = Over(pc) \cup {pc}
      /\ pc # "integrity" => /\ Over(pc') = Over(pc) \cup {pc} /\ pc' # "verdict"
                             /\ pc' \in PhaseSteps \ {"publish_actions"}
      /\ Publishing(pc') = {} /\ pc \in PhaseSteps /\ pc # "publish_actions"
      BY CheckNames DEF Run!NextPart, Run!PublicationParts, Run!Dependent, Run!Following, Over,
         Publishing, PhaseSteps
<1>2. /\ Run!TypeOK /\ RecordedIn(checks, Run!Names(Over(pc)))
      /\ RecordedIn(checks, Run!Unlisted) \/ Run!Failed # {}
      BY <1>1 DEF RInv, PhaseRecords
<1>3. Over(pc) \subseteq Run!Phases
      BY CheckNames DEF Over, Run!Dependent, Run!Following
<1>4. /\ RecordedIn(checks', Run!Names(Over(pc)))
      /\ RecordedIn(checks', Run!Unlisted) \/ (Run!Failed # {})'
      BY <1>2, <1>3, RecordsStay, NamesOf, CheckNames
<1>5. Run!Names(Over(pc) \cup {pc}) = Run!Names(Over(pc)) \cup Run!Names({pc})
      BY NamesJoin
<1>6. RecordedIn(checks', Run!Names(Over(pc) \cup {pc})) /\ RecordedIn(checks', {})
      BY <1>4, <1>5 DEF RecordedIn
<1> QED
    BY <1>1, <1>4, <1>6, PhaseAdvances

\* run_checks after publication, and the phases that follow.
LEMMA PhasesKeep ==
    ASSUME RInv, Run!Next,
           Run!Dependents \/ Run!PhaseStep \/ Run!UnknownOutcome \/ Run!PhaseEnds
    PROVE  RInv'
<1> USE DEF Run!Bookkeeping
<1>1. Run!TypeOK /\ checks \in [Run!AllChecks -> Outcomes]
      BY DEF RInv, Run!TypeOK, Outcomes
<1>2. ASSUME NEW p \in Run!Dependent \cup {"integrity"}, Run!Missing(p) = {}
      PROVE  RecordedIn(checks, Run!Names({p}))
      BY <1>2, NamesOf DEF Run!Missing, RecordedIn
<1>3. \A p \in Run!Dependent \cup {"integrity"} : {p} \in SUBSET Run!Phases
      BY CheckNames
<1>4. CASE Run!Dependents
  <2>1. pc = "dependents" /\ UNCHANGED <<armed, left, extra, raised, status, code, report>>
        BY <1>4 DEF Run!Dependents
  <2>2. /\ {"dependents", "execution", "integrity"} \subseteq PhaseSteps
        /\ Over("dependents") = {"publication"} /\ Over("execution") = {"publication"}
        /\ Over("integrity") = {"publication"} \cup Run!Dependent
        /\ Publishing("execution") = {} /\ Publishing("integrity") = {}
        BY DEF PhaseSteps, Over, Publishing, Run!Dependent, Run!Following
  <2>3. /\ RecordedIn(checks, Run!Names({"publication"}))
        /\ RecordedIn(checks, Run!Unlisted) \/ Run!Failed # {}
        BY <2>1, <2>2 DEF RInv, PhaseRecords
  <2>4. /\ RecordedIn(checks', Run!Names({"publication"})) /\ RecordedIn(checks', {})
        /\ RecordedIn(checks', Run!Unlisted) \/ (Run!Failed # {})'
    <3>1. Run!Names({"publication"}) \in SUBSET Run!AllChecks /\ Run!Unlisted \in SUBSET Run!AllChecks
          BY CheckNames, NamesOf
    <3>2. RecordedIn(checks', {})
          BY DEF RecordedIn
    <3> QED  BY <1>1, <2>3, <3>1, <3>2, RecordsStay
  <2>5. CASE checks' = Run!fail_missing(checks, Run!Dependent) /\ pc' = "integrity"
    <3>1. Run!Dependent \in SUBSET Run!Phases /\ Run!Names(Run!Dependent) \subseteq Run!AllChecks
          BY CheckNames, NamesOf
    <3>2. RecordedIn(checks', Run!Names(Run!Dependent))
          BY <1>1, <2>5, <3>1, FailMissingOf DEF RecordedIn
    <3>3. RecordedIn(checks', Run!Names({"publication"} \cup Run!Dependent))
          BY <2>4, <3>2, NamesJoin DEF RecordedIn
    <3> QED  BY <2>1, <2>2, <2>4, <2>5, <3>3, PhaseAdvances
  <2>6. CASE pc' = "execution"
        BY <2>1, <2>2, <2>4, <2>6, PhaseAdvances
  <2> QED  BY <1>4, <2>5, <2>6 DEF Run!Dependents
<1>5. CASE Run!PhaseStep
  <2>1. /\ pc \in Run!Dependent \cup {"integrity"} /\ pc' = pc
        /\ UNCHANGED <<armed, left, extra, raised, status, code, report>>
        BY <1>5 DEF Run!PhaseStep
  <2>2. /\ pc \in PhaseSteps \ {"publish_actions", "verdict"} /\ Publishing(pc) = {}
        /\ Over(pc) \subseteq Run!Phases
        BY <2>1, CheckNames DEF PhaseSteps, Run!Dependent, Run!Following, Publishing, Over
  <2>3. RecordedIn(checks, Run!Names(Over(pc))) /\ (RecordedIn(checks, Run!Unlisted) \/ Run!Failed # {})
        BY <2>2 DEF RInv, PhaseRecords
  <2>4. /\ RecordedIn(checks', Run!Names(Over(pc))) /\ RecordedIn(checks', {})
        /\ RecordedIn(checks', Run!Unlisted) \/ (Run!Failed # {})'
    <3>1. Run!Names(Over(pc)) \in SUBSET Run!AllChecks /\ Run!Unlisted \in SUBSET Run!AllChecks
          BY <2>2, CheckNames, NamesOf
    <3>2. RecordedIn(checks', {})
          BY DEF RecordedIn
    <3>3. RecordedIn(checks, Run!Names(Over(pc))) => RecordedIn(checks', Run!Names(Over(pc)))
          BY <1>1, <2>1, <3>1, RecordsStay DEF RecordedIn
    <3> QED  BY <1>1, <2>3, <3>1, <3>2, <3>3, RecordsStay
  <2> QED  BY <2>1, <2>2, <2>4, PhaseAdvances
<1>6. CASE Run!UnknownOutcome \/ Run!PhaseEnds
  <2>1. /\ pc \in Run!Dependent \cup {"integrity"} /\ pc' = Run!NextPart(pc) /\ Run!Missing(pc) = {}
        /\ UNCHANGED <<armed, left, extra, raised, status, code, report>>
        BY <1>6 DEF Run!UnknownOutcome, Run!PhaseEnds, Run!Dependent, Run!Following
  <2>2. RecordedIn(checks, Run!Names({pc}))
        BY <1>2, <2>1
  <2>3. Run!Names({pc}) \in SUBSET Run!AllChecks
        BY <1>3, <2>1, NamesOf
  <2>4. RecordedIn(checks', Run!Names({pc}))
    <3> DEFINE S == Run!Names({pc})
    <3>1. RecordedIn(checks, S) => \A n \in S : checks'[n] # "absent"
          BY <1>1, <2>3, RunKeepsRecords DEF Run!FailureKept, RecordedIn
    <3> QED  BY <2>2, <3>1 DEF RecordedIn
  <2> QED  BY <2>1, <2>4, PhaseOver
<1> QED
    BY <1>4, <1>5, <1>6

\* The except clauses of main: codes 130 and 1 for an interrupt and a broken contract.
LEMMA HandledKeeps ==
    ASSUME RInv, pc \in Undecided, NEW kind \in Run!Kinds,
           NEW next \in {"cleanup", "report", "exit"}, Run!Handled(kind, next),
           next = "cleanup" \/ ~left', kind = "KeyboardInterrupt" => next # "report",
           next = "exit" => kind = "KeyboardInterrupt",
           UNCHANGED <<checks, armed, report>>, left' \in BOOLEAN, left' => armed
    PROVE  RInv'
<1>1. /\ Run!TypeOK /\ extra = {} /\ status = "error" /\ code = 2
      /\ raised \subseteq {"ContractError"}
      BY DEF RInv, NoVerdictYet
<1>2. /\ pc' = next /\ raised' = raised \cup {kind}
      /\ kind = "ContractError" =>
            extra' = {"admission-contract"} /\ status' = "failed" /\ code' = 1
      /\ kind = "KeyboardInterrupt" => extra' = {} /\ status' = "error" /\ code' = 130
      /\ kind \notin {"ContractError", "KeyboardInterrupt"} =>
            /\ extra' \in {{"checker-environment"}, {"checker-internal-error"}}
            /\ status' = "error" /\ code' = 2
      BY <1>1 DEF Run!Handled, Run!Kinds
<1>3. Run!TypeOK'
      BY <1>1, <1>2 DEF Run!TypeOK
<1>4. pc' \notin Undecided /\ pc' \notin {"down", "build", "start", "construct"}
      BY <1>2 DEF Undecided, AdmissionSteps, PhaseSteps, Run!AdmissionParts, Run!PublicationParts,
         Run!Dependent, Run!Following
<1>5. CleanupArmed' /\ NoVerdictYet' /\ AdmissionRecords' /\ PhaseRecords' /\ VerdictRecords'
      BY <1>4 DEF CleanupArmed, NoVerdictYet, AdmissionRecords, PhaseRecords, VerdictRecords, Undecided
<1>6. Interrupted'
      BY <1>1, <1>2 DEF Interrupted
<1>7. VerdictStands'
      BY <1>1, <1>2 DEF VerdictStands, Run!Kinds
<1> QED
    BY <1>3, <1>5, <1>6, <1>7 DEF RInv

\* An exception of a phase fails the checks that the phase has not recorded.
LEMMA PhaseRaises ==
    ASSUME RInv, Run!Next, Run!Raise("ContractError"), pc \notin Run!AdmissionParts
    PROVE  RInv'
<1>1. Run!TypeOK /\ checks \in [Run!AllChecks -> Outcomes] /\ left \in BOOLEAN
      BY DEF RInv, Run!TypeOK, Outcomes
<1>2. /\ pc \in Run!PublicationParts \cup Run!Dependent \cup {"integrity"}
      /\ checks' = Run!fail_missing(checks, {Run!PhaseOf(pc)})
      /\ pc' = Run!NextPart(pc) /\ raised' = raised \cup {"ContractError"}
      /\ left' = (left \/ pc = "build")
      /\ UNCHANGED <<extra, status, code, armed, report>>
      BY DEF Run!Raise, Run!Working
<1>3. pc # "build" /\ left' = left
      BY <1>1, <1>2 DEF Run!AdmissionParts
<1>4. Run!PhaseOf(pc) \in Run!Phases
      BY <1>2, CheckNames DEF Run!PhaseOf
<1>5. RecordedIn(checks', Run!Names({Run!PhaseOf(pc)}))
  <2> DEFINE S == {Run!PhaseOf(pc)}
  <2>1. S \in SUBSET Run!Phases
        BY <1>4
  <2> HIDE DEF S
  <2>2. RecordedIn(checks', Run!Names(S))
        BY <1>1, <1>2, <2>1, FailMissingOf, NamesOf DEF RecordedIn, S
  <2> QED  BY <2>2 DEF S
<1>6. CASE pc \in Run!PublicationParts
  <2>1. pc' = "dependents" /\ Run!PhaseOf(pc) = "publication"
        BY <1>2, <1>6
        DEF Run!NextPart, Run!PhaseOf, Run!PublicationParts, Run!Dependent, Run!Following
  <2>2. /\ Run!PublicationParts \subseteq PhaseSteps /\ "dependents" \in PhaseSteps
        /\ Over("dependents") = {"publication"} /\ Publishing("dependents") = {}
        /\ "publish_actions" \in AdmissionSteps
        /\ Admitted("publish_actions") = Run!AdmissionChecks
        BY DEF PhaseSteps, Over, Publishing, AdmissionSteps, Admitted
  <2>3. RecordedIn(checks', {})
        BY DEF RecordedIn
  <2>4. RecordedIn(checks', Run!Unlisted) \/ (Run!Failed # {})'
    <3>1. CASE pc = "publish_actions"
      <4> DEFINE n == "migration-and-action-publication"
      <4>1. n \in Run!Names({"publication"}) /\ n \notin Run!AdmissionChecks
            BY CheckNames DEF Run!AdmissionChecks
      <4>2. {"publication"} \in SUBSET Run!Phases /\ n \in Run!AllChecks
            BY <4>1, CheckNames, NamesOf
      <4>3. checks[n] = "absent"
            BY <2>2, <3>1, <4>1, <4>2 DEF RInv, AdmissionRecords
      <4>4. checks'[n] = "failed"
            BY <1>1, <1>2, <2>1, <4>1, <4>2, <4>3, FailMissingOf
      <4> QED  BY <4>2, <4>4 DEF Run!Failed
    <3>2. CASE pc # "publish_actions"
      <4>1. RecordedIn(checks, Run!Unlisted) \/ Run!Failed # {}
            BY <1>6, <2>2, <3>2 DEF RInv, PhaseRecords
      <4> QED  BY <1>1, <4>1, RecordsStay, CheckNames
    <3> QED  BY <3>1, <3>2
  <2> QED  BY <1>2, <1>3, <1>5, <1>6, <2>1, <2>2, <2>3, <2>4, PhaseAdvances
<1>7. CASE pc \in Run!Dependent \cup {"integrity"}
  <2>1. Run!PhaseOf(pc) = pc
        BY <1>7 DEF Run!PhaseOf, Run!PublicationParts, Run!Dependent, Run!Following
  <2> QED  BY <1>2, <1>3, <1>5, <1>7, <2>1, PhaseOver
<1> QED
    BY <1>2, <1>6, <1>7

\* main before run_checks, and every exception.
LEMMA StartAndRaiseKeep ==
    ASSUME RInv, Run!Next,
           \/ Run!ReportPath \/ Run!Construct
           \/ \E kind \in Run!Kinds : Run!ConstructRaises(kind) \/ Run!Raise(kind)
    PROVE  RInv'
<1>1. /\ Run!TypeOK /\ left \in BOOLEAN /\ armed \in BOOLEAN /\ (left => armed)
      /\ pc \in {"start", "construct"} => ~left
      /\ pc = "build" => armed
      BY DEF RInv, Run!TypeOK, CleanupArmed
<1>2. /\ {"start", "construct", "text"} \subseteq AdmissionSteps /\ AdmissionSteps \subseteq Undecided
      /\ Admitted("start") = {} /\ Admitted("construct") = {} /\ Admitted("text") = {}
      /\ "text" \in Run!Working /\ Run!Working \subseteq Undecided
      /\ PhaseSteps \cap {"construct", "text", "exit"} = {}
      /\ "exit" \notin Undecided
      BY DEF AdmissionSteps, Undecided, Admitted, Run!Working, Run!AdmissionParts, PhaseSteps,
         Run!PublicationParts, Run!Dependent, Run!Following
<1>3. CASE Run!ReportPath
  <2>1. /\ pc = "start" /\ pc' \in {"construct", "exit"}
        /\ UNCHANGED <<checks, armed, left, extra, raised, status, code, report>>
        BY <1>3 DEF Run!ReportPath, Run!Bookkeeping
  <2>2. Run!TypeOK' /\ CleanupArmed'
        BY <1>1, <2>1 DEF Run!TypeOK, CleanupArmed
  <2>3. AdmissionRecords' /\ PhaseRecords' /\ VerdictRecords'
        BY <1>2, <2>1 DEF RInv, AdmissionRecords, PhaseRecords, VerdictRecords, Undecided
  <2>4. NoVerdictYet' /\ Interrupted' /\ VerdictStands'
        BY <1>2, <2>1 DEF RInv, NoVerdictYet, Interrupted, VerdictStands
  <2> QED  BY <2>2, <2>3, <2>4 DEF RInv
<1>4. CASE Run!Construct
  <2>1. /\ pc = "construct" /\ pc' = "text"
        /\ UNCHANGED <<checks, armed, left, extra, raised, status, code, report>>
        BY <1>4 DEF Run!Construct, Run!Bookkeeping
  <2>2. AdmissionRecords' /\ PhaseRecords' /\ VerdictRecords'
        BY <1>2, <2>1 DEF RInv, AdmissionRecords, PhaseRecords, VerdictRecords
  <2> QED  BY <1>1, <1>2, <2>1, <2>2, StillUndecided
<1>5. ASSUME NEW kind \in Run!Kinds, Run!ConstructRaises(kind)
      PROVE  RInv'
  <2>1. /\ pc = "construct" /\ UNCHANGED <<checks, armed, left, report>>
        /\ Run!Handled(kind, IF kind = "KeyboardInterrupt" THEN "exit" ELSE "report")
        BY <1>5 DEF Run!ConstructRaises
  <2> QED  BY <1>1, <1>2, <2>1, HandledKeeps
<1>6. ASSUME NEW kind \in Run!Kinds, Run!Raise(kind)
      PROVE  RInv'
  <2>1. CASE kind = "ContractError" /\ pc \notin Run!AdmissionParts
        BY <1>6, <2>1, PhaseRaises
  <2>2. CASE ~(kind = "ContractError" /\ pc \notin Run!AdmissionParts)
    <3>1. /\ pc \in Run!Working /\ left' = (left \/ pc = "build") /\ Run!Handled(kind, "cleanup")
          /\ UNCHANGED <<checks, armed, report>>
          BY <1>6, <2>2 DEF Run!Raise
    <3>2. left' \in BOOLEAN /\ (left' => armed)
          BY <1>1, <3>1
    <3> QED  BY <1>2, <3>1, <3>2, HandledKeeps
  <2> QED  BY <2>1, <2>2
<1> QED
    BY <1>3, <1>4, <1>5, <1>6

\* The verdict, cleanup and the report.
LEMMA EndKeeps ==
    ASSUME RInv,
           Run!Verdict \/ Run!Cleanup \/ Run!CleanupFails \/ Run!WriteReport \/ Run!WriteFails
    PROVE  RInv'
<1>1. Run!TypeOK /\ (left => armed) /\ Interrupted /\ VerdictStands
      BY DEF RInv, CleanupArmed
<1>2. pc' \in {"cleanup", "report", "exit"}
      BY DEF Run!Verdict, Run!Cleanup, Run!CleanupFails, Run!WriteReport, Run!Reported, Run!WriteFails,
         Run!AfterCleanup
<1>3. pc' \notin Undecided /\ pc' \notin {"down", "build", "start", "construct"}
      BY <1>2 DEF Undecided, AdmissionSteps, PhaseSteps, Run!AdmissionParts, Run!PublicationParts,
         Run!Dependent, Run!Following
<1>4. NoVerdictYet' /\ AdmissionRecords' /\ PhaseRecords' /\ VerdictRecords'
      BY <1>3 DEF NoVerdictYet, AdmissionRecords, PhaseRecords, VerdictRecords, Undecided
<1>5. CASE Run!Verdict
  <2>1. /\ pc = "verdict" /\ pc' = "cleanup" /\ UNCHANGED <<checks, extra, raised, armed, left, report>>
        /\ status' = IF Run!Failed = {} THEN "passed" ELSE "failed"
        /\ code' = IF status' = "passed" THEN 0 ELSE 1
        BY <1>5 DEF Run!Verdict
  <2>2. extra = {} /\ raised \subseteq {"ContractError"}
        BY <2>1 DEF RInv, NoVerdictYet, Undecided
  <2>3. /\ RecordedIn(checks, Run!Names(Run!Phases))
        /\ Run!Failed = {} => \A n \in Run!AllChecks : checks[n] = "passed"
    <3>1. /\ RecordedIn(checks, Run!Names(Run!Phases))
          /\ RecordedIn(checks, Run!AllChecks) \/ Run!Failed # {}
          BY <2>1 DEF RInv, VerdictRecords
    <3> QED  BY <1>1, <3>1 DEF RecordedIn, Run!Failed, Run!TypeOK
  <2>4. Run!TypeOK' /\ CleanupArmed' /\ Interrupted' /\ VerdictStands'
        BY <1>1, <1>3, <2>1, <2>2, <2>3
        DEF Run!TypeOK, CleanupArmed, Interrupted, VerdictStands, RecordedIn
  <2> QED  BY <1>4, <2>4 DEF RInv
<1>6. CASE Run!Cleanup
  <2>1. /\ pc = "cleanup" /\ left' = (left /\ (KeepStack \/ ~armed))
        /\ pc' = IF "KeyboardInterrupt" \in raised THEN "exit" ELSE "report"
        /\ UNCHANGED <<checks, extra, raised, armed, status, code, report>>
        BY <1>6 DEF Run!Cleanup, Run!AfterCleanup
  <2>2. Run!TypeOK' /\ CleanupArmed' /\ Interrupted'
        BY <1>1, <1>3, <2>1 DEF Run!TypeOK, CleanupArmed, Interrupted
  <2>3. left' => left /\ KeepStack
        BY <1>1, <2>1, CheckersTypes DEF Run!TypeOK
  <2>4. VerdictStands'
        BY <1>1, <2>1, <2>3 DEF VerdictStands, RecordedIn
  <2> QED  BY <1>4, <2>2, <2>4 DEF RInv
<1>7. CASE Run!CleanupFails
  <2>1. /\ pc = "cleanup" /\ status' = "error" /\ extra' = extra \cup {"stack-cleanup"}
        /\ pc' = IF "KeyboardInterrupt" \in raised THEN "exit" ELSE "report"
        /\ code' = IF "KeyboardInterrupt" \in raised THEN code ELSE 2
        /\ UNCHANGED <<checks, raised, armed, left, report>>
        BY <1>7 DEF Run!CleanupFails, Run!AfterCleanup
  <2>2. Run!TypeOK' /\ CleanupArmed' /\ Interrupted' /\ VerdictStands'
        BY <1>1, <1>3, <2>1 DEF Run!TypeOK, CleanupArmed, Interrupted, VerdictStands
  <2> QED  BY <1>4, <2>2 DEF RInv
<1>8. CASE Run!WriteReport \/ Run!WriteFails
  <2>1. /\ pc = "report" /\ pc' = "exit" /\ UNCHANGED <<checks, extra, raised, armed, left, status>>
        /\ \/ report' = status /\ code' = code
           \/ report' \in {report, "error"} /\ code' = 2
        BY <1>8 DEF Run!WriteReport, Run!Reported, Run!WriteFails
  <2>2. Run!TypeOK' /\ CleanupArmed' /\ Interrupted'
        BY <1>1, <1>3, <2>1 DEF Run!TypeOK, CleanupArmed, Interrupted
  <2>3. VerdictStands'
        BY <1>1, <2>1 DEF VerdictStands, RecordedIn
  <2> QED  BY <1>4, <2>2, <2>3 DEF RInv
<1> QED
    BY <1>5, <1>6, <1>7, <1>8

\* The inductive invariant of a week 2 run, and what it says of the exit code.
LEMMA RunInvariant ==
    /\ Run!Init => RInv
    /\ RInv /\ Run!Next => RInv'
    /\ RInv => Run!ExitZeroMeansAllPassed /\ Run!VerdictIsReported /\ Run!NoLeftovers
<1>1. Run!Init => RInv
  <2> SUFFICES ASSUME Run!Init
               PROVE  RInv
      OBVIOUS
  <2>1. "start" \notin PhaseSteps /\ Admitted("start") = {} /\ "start" # "verdict"
        BY DEF PhaseSteps, Admitted, Run!PublicationParts, Run!Dependent, Run!Following
  <2>2. Run!TypeOK
        BY DEF Run!Init, Run!TypeOK
  <2>3. AdmissionRecords /\ PhaseRecords /\ VerdictRecords
        BY <2>1 DEF Run!Init, AdmissionRecords, PhaseRecords, VerdictRecords
  <2>4. CleanupArmed /\ NoVerdictYet /\ Interrupted /\ VerdictStands
        BY DEF Run!Init, CleanupArmed, NoVerdictYet, Interrupted, VerdictStands
  <2> QED  BY <2>2, <2>3, <2>4 DEF RInv
<1>2. RInv /\ Run!Next => RInv'
      BY AdmissionReads, AdmissionBuilds, PublicationKeeps, PhasesKeep, StartAndRaiseKeep, EndKeeps
      DEF Run!Next
<1>3. RInv => Run!ExitZeroMeansAllPassed /\ Run!VerdictIsReported /\ Run!NoLeftovers
      BY DEF RInv, VerdictStands, Run!ExitZeroMeansAllPassed, Run!VerdictIsReported,
         Run!NoLeftovers, Run!Ended, RecordedIn, Run!TypeOK
<1> QED
    BY <1>1, <1>2, <1>3

-----------------------------------------------------------------------------
(* A week 4 run: the parts of execute in their order. *)

\* The steps of execute, the finally clause and the removal of a stage among them.
StageSteps ==
    {"admission", "build", "up", "database", "principals", "observability",
     "outage_stop", "outage_ready", "outage_submit", "outage_start", "outage_pause",
     "outage_window", "outage_resume", "provider_stop", "provider_start",
     "adapter_stop", "adapter_callbacks", "adapter_start", "review", "principals_again",
     "trace", "recreate_stop", "recreate_up", "recreate_logs", "postgres_stop",
     "postgres_start", "restart_down", "restart_up", "restart_replay", "stalled",
     "logs", "outage_finally", "restart_down_removes"}

\* No part comes twice.
LEMMA PartsOnce ==
    /\ DOMAIN Stag!Parts = 1..31 /\ Len(Stag!Parts) = 31
    /\ \A i, j \in 1..31 : Stag!Parts[i] = Stag!Parts[j] => i = j
    /\ \A i \in 1..31 : Stag!PartAfter(Stag!Parts[i]) = IF i = 31 THEN "passed" ELSE Stag!Parts[i + 1]
<1>1. DOMAIN Stag!Parts = 1..31 /\ Len(Stag!Parts) = 31
      BY DEF Stag!Parts
<1>2. \A i, j \in 1..31 : Stag!Parts[i] = Stag!Parts[j] => i = j
      BY DEF Stag!Parts
<1>3. ASSUME NEW i \in 1..31
      PROVE  Stag!PartAfter(Stag!Parts[i]) = IF i = 31 THEN "passed" ELSE Stag!Parts[i + 1]
  <2> DEFINE k == CHOOSE k \in DOMAIN Stag!Parts : Stag!Parts[k] = Stag!Parts[i]
  <2>1. k \in 1..31 /\ Stag!Parts[k] = Stag!Parts[i]
        BY <1>1
  <2>2. k = i
        BY <1>2, <2>1
  <2> QED  BY <1>1, <2>2 DEF Stag!PartAfter
<1> QED
    BY <1>1, <1>2, <1>3

\* The parts by name.
LEMMA PartNames ==
    /\ Stag!PartAfter("admission") = "build" /\ Stag!PartAfter("build") = "up"
    /\ Stag!PartAfter("up") = "database" /\ Stag!PartAfter("database") = "principals"
    /\ Stag!PartAfter("principals") = "observability" /\ Stag!PartAfter("observability") = "outage_stop"
    /\ Stag!PartAfter("outage_stop") = "outage_ready" /\ Stag!PartAfter("outage_ready") = "outage_submit"
    /\ Stag!PartAfter("outage_submit") = "outage_start" /\ Stag!PartAfter("outage_start") = "outage_pause"
    /\ Stag!PartAfter("outage_pause") = "outage_window" /\ Stag!PartAfter("outage_window") = "outage_resume"
    /\ Stag!PartAfter("outage_resume") = "provider_stop" /\ Stag!PartAfter("provider_stop") = "provider_start"
    /\ Stag!PartAfter("provider_start") = "adapter_stop" /\ Stag!PartAfter("adapter_stop") = "adapter_callbacks"
    /\ Stag!PartAfter("adapter_callbacks") = "adapter_start" /\ Stag!PartAfter("adapter_start") = "review"
    /\ Stag!PartAfter("review") = "principals_again" /\ Stag!PartAfter("principals_again") = "trace"
    /\ Stag!PartAfter("trace") = "recreate_stop" /\ Stag!PartAfter("recreate_stop") = "recreate_up"
    /\ Stag!PartAfter("recreate_up") = "recreate_logs" /\ Stag!PartAfter("recreate_logs") = "postgres_stop"
    /\ Stag!PartAfter("postgres_stop") = "postgres_start" /\ Stag!PartAfter("postgres_start") = "restart_down"
    /\ Stag!PartAfter("restart_down") = "restart_up" /\ Stag!PartAfter("restart_up") = "restart_replay"
    /\ Stag!PartAfter("restart_replay") = "stalled" /\ Stag!PartAfter("stalled") = "logs"
    /\ Stag!PartAfter("logs") = "passed"
<1>1. \A i \in 1..31 : Stag!PartAfter(Stag!Parts[i]) = IF i = 31 THEN "passed" ELSE Stag!Parts[i + 1]
      BY PartsOnce
<1>2. /\ Stag!PartAfter("admission") = "build"
      /\ Stag!PartAfter("build") = "up"
      /\ Stag!PartAfter("up") = "database"
      /\ Stag!PartAfter("database") = "principals"
      BY <1>1 DEF Stag!Parts
<1>3. /\ Stag!PartAfter("principals") = "observability"
      /\ Stag!PartAfter("observability") = "outage_stop"
      /\ Stag!PartAfter("outage_stop") = "outage_ready"
      /\ Stag!PartAfter("outage_ready") = "outage_submit"
      BY <1>1 DEF Stag!Parts
<1>4. /\ Stag!PartAfter("outage_submit") = "outage_start"
      /\ Stag!PartAfter("outage_start") = "outage_pause"
      /\ Stag!PartAfter("outage_pause") = "outage_window"
      /\ Stag!PartAfter("outage_window") = "outage_resume"
      BY <1>1 DEF Stag!Parts
<1>5. /\ Stag!PartAfter("outage_resume") = "provider_stop"
      /\ Stag!PartAfter("provider_stop") = "provider_start"
      /\ Stag!PartAfter("provider_start") = "adapter_stop"
      /\ Stag!PartAfter("adapter_stop") = "adapter_callbacks"
      BY <1>1 DEF Stag!Parts
<1>6. /\ Stag!PartAfter("adapter_callbacks") = "adapter_start"
      /\ Stag!PartAfter("adapter_start") = "review"
      /\ Stag!PartAfter("review") = "principals_again"
      /\ Stag!PartAfter("principals_again") = "trace"
      BY <1>1 DEF Stag!Parts
<1>7. /\ Stag!PartAfter("trace") = "recreate_stop"
      /\ Stag!PartAfter("recreate_stop") = "recreate_up"
      /\ Stag!PartAfter("recreate_up") = "recreate_logs"
      /\ Stag!PartAfter("recreate_logs") = "postgres_stop"
      BY <1>1 DEF Stag!Parts
<1>8. /\ Stag!PartAfter("postgres_stop") = "postgres_start"
      /\ Stag!PartAfter("postgres_start") = "restart_down"
      /\ Stag!PartAfter("restart_down") = "restart_up"
      /\ Stag!PartAfter("restart_up") = "restart_replay"
      BY <1>1 DEF Stag!Parts
<1>9. /\ Stag!PartAfter("restart_replay") = "stalled"
      /\ Stag!PartAfter("stalled") = "logs"
      /\ Stag!PartAfter("logs") = "passed"
      BY <1>1 DEF Stag!Parts
<1> QED
    BY <1>2, <1>3, <1>4, <1>5, <1>6, <1>7, <1>8, <1>9

\* The steps of execute are its parts.
LEMMA StepNames ==
    StageSteps = Stag!Working \cup {"outage_finally", "restart_down_removes"}
<1>1. \A p : p \in Stag!Working <=> \E i \in 1..31 : p = Stag!Parts[i]
      BY PartsOnce DEF Stag!Working
<1>2. \A p : (\E i \in 1..31 : p = Stag!Parts[i]) <=>
                p \in StageSteps \ {"outage_finally", "restart_down_removes"}
  <2>1. \A i \in 1..31 : Stag!Parts[i] \in StageSteps \ {"outage_finally", "restart_down_removes"}
        BY DEF Stag!Parts, StageSteps
  <2>2. ASSUME NEW p \in StageSteps \ {"outage_finally", "restart_down_removes"}
        PROVE  \E i \in 1..31 : p = Stag!Parts[i]
        BY DEF Stag!Parts, StageSteps
  <2> QED  BY <2>1, <2>2
<1>3. {"outage_finally", "restart_down_removes"} \subseteq StageSteps
      BY DEF StageSteps
<1> QED
    BY <1>1, <1>2, <1>3

-----------------------------------------------------------------------------
(* A week 4 run: the stack, the evidence, the logs and the exit code. *)

\* The containers that may be down when execute has come to step p.
StoppedAt(p) ==
    CASE p \in {"admission", "build", "up", "restart_up"} -> Stag!Services
      [] p \in {"outage_ready", "outage_start", "outage_window"} ->
           Stag!Dispatchers \cup {"provider-simulator"}
      [] p \in {"outage_submit", "outage_pause"} -> {"outbox-dispatcher-b", "provider-simulator"}
      [] p \in {"outage_finally", "provider_start", "adapter_callbacks", "adapter_start"} ->
           Stag!Dispatchers
      [] p = "outage_resume" -> {"outbox-dispatcher-b"}
      [] p = "recreate_up" -> Stag!Dispatchers \cup {"inbox-reconciler"}
      [] p = "postgres_start" -> {"postgres"}
      [] OTHER -> {}

Evidence == {"image_ids", "restart_callback", "restart_manual"}

\* The evidence that the steps before p have set.
EvidenceAt(p) ==
    CASE p \in {"admission", "build", "up"} -> {}
      [] p \in {"database", "principals", "observability", "outage_stop", "outage_ready",
                "outage_submit", "outage_start", "outage_pause", "outage_window", "outage_finally",
                "outage_resume", "provider_stop", "provider_start", "adapter_stop",
                "adapter_callbacks"} -> {"image_ids"}
      [] p \in {"adapter_start", "review"} -> {"image_ids", "restart_callback"}
      [] OTHER -> Evidence

StackAsLeft ==
    pc \in StageSteps => /\ \A s \in Stag!Services \ StoppedAt(pc) : svc[s] = "running"
                         /\ EvidenceAt(pc) \subseteq evidence

StackArmed == (left => armed) /\ (pc = "build" => armed) /\ (pc = "start" => ~left)

\* Where every secret that a container still has in its log was written since the last capture.
SinceCapture == {"recreate_up", "restart_down_removes"}
LogsRead ==
    /\ pc \in SinceCapture /\ ~caught => \A s \in Stag!Services : dirty[s] \in {pc, "none"}
    /\ pc = "passed" => \A s \in Stag!Services : dirty[s] \in {pc, "none"}

StageOpen ==
    pc \in StageSteps \cup {"start", "passed"} =>
        /\ code = 2 /\ status = "error" /\ ~failed /\ cleaned = "no"
        /\ lost \subseteq Stag!Uncollected

\* What an exit code stands for from the verdict on.
StageVerdict ==
    /\ code \in {0, 1} => /\ status = IF code = 0 THEN "passed" ELSE "failed"
                          /\ pc = "exit" => report = status
    /\ code = 0 => /\ ~failed /\ cleaned # "failed"
                   /\ lost \subseteq Stag!Uncollected
                   /\ \A s \in Stag!Services : dirty[s] \in Stag!Uncollected \cup {"none"}
    /\ pc = "cleanup" => cleaned = "no"
    /\ pc \in {"report", "exit"} /\ left /\ ~KeepStack =>
          cleaned = "failed" \/ (pc = "exit" /\ code = 130)

SInv ==
    /\ Stag!TypeOK
    /\ StackAsLeft /\ StackArmed /\ LogsRead /\ StageOpen /\ StageVerdict

\* execute goes on with the next step.
LEMMA StageMoves ==
    ASSUME SInv, NEW p \in StageSteps, NEW q \in StageSteps, pc = p, pc' = q,
           NEW S \in SUBSET Stag!Services, NEW state \in {"absent", "running", "stopped", "paused"},
           svc' = Stag!Set(S, state),
           (IF state = "running" THEN StoppedAt(p) \ S ELSE StoppedAt(p) \cup S) \subseteq StoppedAt(q),
           NEW E \in SUBSET Evidence, evidence' = evidence \cup E,
           EvidenceAt(q) \subseteq EvidenceAt(p) \cup E,
           dirty' \in [Stag!Services -> Stag!Where \cup {"none"}], caught' \in BOOLEAN,
           lost' \subseteq lost \cup Stag!Uncollected,
           q \in SinceCapture /\ ~caught' => \A s \in Stag!Services : dirty'[s] = "none",
           UNCHANGED <<failed, cleaned, status, code, report>>,
           armed' \in BOOLEAN, left' \in BOOLEAN, left' => armed', q = "build" => armed'
    PROVE  SInv'
<1>1. /\ Stag!TypeOK /\ code = 2 /\ status = "error" /\ ~failed /\ cleaned = "no"
      /\ lost \subseteq Stag!Uncollected
      BY DEF SInv, StageOpen
<1>2. /\ p \in Stag!Where /\ q \in Stag!Where
      /\ q \notin {"start", "passed", "cleanup", "report", "exit"}
  <2>1. p \in Stag!Where /\ q \in Stag!Where
        BY StepNames DEF Stag!Where, Stag!Uncollected
  <2>2. q \notin {"start", "passed", "cleanup", "report", "exit"}
        BY DEF StageSteps
  <2> QED  BY <2>1, <2>2
<1>3. /\ svc' \in [Stag!Services -> {"absent", "running", "stopped", "paused"}]
      /\ \A s \in Stag!Services : svc'[s] = IF s \in S THEN state ELSE svc[s]
      BY <1>1 DEF Stag!TypeOK, Stag!Set
<1>4. Stag!TypeOK'
      BY <1>1, <1>2, <1>3 DEF Stag!TypeOK, Evidence, Stag!Where
<1>5. /\ \A s \in Stag!Services \ StoppedAt(q) : svc'[s] = "running"
      /\ EvidenceAt(q) \subseteq evidence'
      BY <1>3 DEF SInv, StackAsLeft
<1>6. StackAsLeft'
      BY <1>5 DEF StackAsLeft
<1>7. StackArmed' /\ LogsRead'
      BY <1>2 DEF StackArmed, LogsRead
<1>8. StageOpen' /\ StageVerdict'
      BY <1>1, <1>2 DEF StageOpen, StageVerdict
<1> QED
    BY <1>4, <1>6, <1>7, <1>8 DEF SInv

\* main takes an exception, and goes on with cleanup.
LEMMA StageHandled ==
    ASSUME SInv, pc \in StageSteps, NEW kind, Stag!Handled(kind),
           svc' \in [Stag!Services -> {"absent", "running", "stopped", "paused"}],
           failed' \in BOOLEAN, caught' \in BOOLEAN, left' \in BOOLEAN, left' => armed,
           UNCHANGED <<dirty, lost, evidence, armed, cleaned, report>>
    PROVE  SInv'
<1>1. /\ Stag!TypeOK /\ code = 2 /\ status = "error" /\ cleaned = "no"
      BY DEF SInv, StageOpen
<1>2. /\ pc' = "cleanup" /\ "cleanup" \notin StageSteps \cup SinceCapture \cup {"start", "passed"}
      /\ code' \in {1, 2} /\ (code' = 1 => status' = "failed") /\ status' \in {"failed", "error"}
      BY DEF Stag!Handled, StageSteps, SinceCapture
<1>3. Stag!TypeOK'
      BY <1>1, <1>2 DEF Stag!TypeOK, Stag!Where, Stag!Uncollected
<1>4. StackAsLeft' /\ StackArmed' /\ LogsRead' /\ StageOpen'
      BY <1>2 DEF StackAsLeft, StackArmed, LogsRead, StageOpen
<1>5. StageVerdict'
      BY <1>1, <1>2 DEF StageVerdict
<1> QED
    BY <1>3, <1>4, <1>5 DEF SInv

\* The stack and the evidence after a step from p to q are those q expects.
Leads(p, q, S, state, E) ==
    /\ p \in StageSteps /\ q \in StageSteps /\ q \notin SinceCapture \cup {"build"}
    /\ S \subseteq Stag!Services /\ E \subseteq Evidence
    /\ state \in {"absent", "running", "stopped", "paused"}
    /\ (IF state = "running" THEN StoppedAt(p) \ S ELSE StoppedAt(p) \cup S) \subseteq StoppedAt(q)
    /\ EvidenceAt(q) \subseteq EvidenceAt(p) \cup E

\* A step with one compose command, or none.
LEMMA QuietMoves ==
    ASSUME SInv, NEW p, NEW q, NEW S, NEW state, NEW E, Leads(p, q, S, state, E),
           pc = p, pc' = q, svc' = Stag!Set(S, state), evidence' = evidence \cup E,
           UNCHANGED <<dirty, caught, lost, failed, armed, left, cleaned, status, code, report>>
    PROVE  SInv'
<1>1. /\ dirty' \in [Stag!Services -> Stag!Where \cup {"none"}] /\ caught' \in BOOLEAN
      /\ armed' \in BOOLEAN /\ left' \in BOOLEAN /\ (left' => armed')
      /\ lost' \subseteq lost \cup Stag!Uncollected
      BY DEF SInv, Stag!TypeOK, StackArmed
<1>2. q \notin SinceCapture /\ q # "build"
      BY DEF Leads
<1> QED
    BY <1>1, <1>2, StageMoves DEF Leads

LEMMA QuietStages ==
    ASSUME SInv,
           \/ Stag!AdmissionUp \/ Stag!DatabaseContract \/ Stag!RuntimePrincipals \/ Stag!Observability
           \/ Stag!OutageStop \/ Stag!OutageReady \/ Stag!OutageSubmit \/ Stag!OutageStart
           \/ Stag!OutagePause \/ Stag!OutageWindow \/ Stag!OutageFinally \/ Stag!OutageResume
           \/ Stag!ProviderStop \/ Stag!ProviderStart \/ Stag!AdapterStop \/ Stag!AdapterCallbacks
           \/ Stag!AdapterStart \/ Stag!Review \/ Stag!Trace \/ Stag!LogHygiene("recreate_logs")
           \/ Stag!PostgresStop \/ Stag!PostgresStart \/ Stag!RestartUp \/ Stag!RestartReplay
           \/ Stag!Stalled
    PROVE  SInv'
<1> USE DEF Stag!Goes, Stag!Quiet, Stag!ending, Stag!stack
<1>1. svc = Stag!Set({}, "running") /\ evidence = evidence \cup {}
      BY DEF SInv, Stag!TypeOK, Stag!Set
<1>2. CASE \/ Stag!DatabaseContract \/ Stag!RuntimePrincipals \/ Stag!Observability \/ Stag!Trace
           \/ Stag!LogHygiene("recreate_logs") \/ Stag!RestartReplay \/ Stag!Stalled
  <2> DEFINE Same == {"database", "principals", "observability", "principals_again", "trace",
                      "recreate_logs", "restart_replay", "stalled"}
  <2>1. /\ pc \in Same /\ pc' = Stag!PartAfter(pc) /\ svc' = svc /\ evidence' = evidence
        /\ UNCHANGED <<dirty, caught, lost, failed, armed, left, cleaned, status, code, report>>
        BY <1>2 DEF Stag!DatabaseContract, Stag!RuntimePrincipals, Stag!Observability, Stag!Trace,
           Stag!LogHygiene, Stag!RestartReplay, Stag!Stalled, Stag!Stay
  <2>2. Leads(pc, pc', {}, "running", {})
        BY <2>1, PartNames DEF Leads, StageSteps, StoppedAt, EvidenceAt, SinceCapture, Evidence
  <2> QED  BY <1>1, <2>1, <2>2, QuietMoves
<1>3. CASE Stag!AdmissionUp
  <2>1. /\ pc = "up" /\ pc' = "database"
        /\ svc' = Stag!Set(Stag!Services, "running") /\ evidence' = evidence \cup {"image_ids"}
        /\ UNCHANGED <<dirty, caught, lost, failed, armed, left, cleaned, status, code, report>>
        BY <1>3, PartNames DEF Stag!AdmissionUp, Stag!Up
  <2>2. Leads("up", "database", Stag!Services, "running", {"image_ids"})
        BY DEF Leads, StageSteps, StoppedAt, EvidenceAt, SinceCapture, Evidence, Stag!Services,
           Stag!Candidate, Stag!Python, Stag!Dispatchers
  <2> QED  BY <1>1, <2>1, <2>2, QuietMoves
<1>4. CASE Stag!OutageStop
  <2>1. /\ pc = "outage_stop" /\ pc' = "outage_ready"
        /\ svc' = Stag!Set(Stag!Dispatchers \cup {"provider-simulator"}, "stopped") /\ evidence' = evidence
        /\ UNCHANGED <<dirty, caught, lost, failed, armed, left, cleaned, status, code, report>>
        BY <1>4, PartNames DEF Stag!OutageStop, Stag!Stop
  <2>2. Leads("outage_stop", "outage_ready", Stag!Dispatchers \cup {"provider-simulator"}, "stopped", {})
        BY DEF Leads, StageSteps, StoppedAt, EvidenceAt, SinceCapture, Evidence, Stag!Services,
           Stag!Candidate, Stag!Python, Stag!Dispatchers
  <2> QED  BY <1>1, <2>1, <2>2, QuietMoves
<1>5. CASE Stag!OutageReady
  <2>1. /\ pc = "outage_ready" /\ pc' = "outage_submit"
        /\ svc' = Stag!Set({"outbox-dispatcher"}, "running") /\ evidence' = evidence
        /\ UNCHANGED <<dirty, caught, lost, failed, armed, left, cleaned, status, code, report>>
        BY <1>5, PartNames DEF Stag!OutageReady, Stag!Up
  <2>2. Leads("outage_ready", "outage_submit", {"outbox-dispatcher"}, "running", {})
        BY DEF Leads, StageSteps, StoppedAt, EvidenceAt, SinceCapture, Evidence, Stag!Services,
           Stag!Candidate, Stag!Python, Stag!Dispatchers
  <2> QED  BY <1>1, <2>1, <2>2, QuietMoves
<1>6. CASE Stag!OutageSubmit
  <2>1. /\ pc = "outage_submit" /\ pc' = "outage_start"
        /\ svc' = Stag!Set({"outbox-dispatcher"}, "stopped") /\ evidence' = evidence
        /\ UNCHANGED <<dirty, caught, lost, failed, armed, left, cleaned, status, code, report>>
        BY <1>6, PartNames DEF Stag!OutageSubmit, Stag!Stop
  <2>2. Leads("outage_submit", "outage_start", {"outbox-dispatcher"}, "stopped", {})
        BY DEF Leads, StageSteps, StoppedAt, EvidenceAt, SinceCapture, Evidence, Stag!Services,
           Stag!Candidate, Stag!Python, Stag!Dispatchers
  <2> QED  BY <1>1, <2>1, <2>2, QuietMoves
<1>7. CASE Stag!OutageStart
  <2>1. /\ pc = "outage_start" /\ pc' = "outage_pause"
        /\ svc' = Stag!Set({"outbox-dispatcher"}, "running") /\ evidence' = evidence
        /\ UNCHANGED <<dirty, caught, lost, failed, armed, left, cleaned, status, code, report>>
        BY <1>7, PartNames DEF Stag!OutageStart, Stag!Up
  <2>2. Leads("outage_start", "outage_pause", {"outbox-dispatcher"}, "running", {})
        BY DEF Leads, StageSteps, StoppedAt, EvidenceAt, SinceCapture, Evidence, Stag!Services,
           Stag!Candidate, Stag!Python, Stag!Dispatchers
  <2> QED  BY <1>1, <2>1, <2>2, QuietMoves
<1>8. CASE Stag!OutagePause
  <2>1. /\ pc = "outage_pause" /\ pc' = "outage_window"
        /\ svc' = Stag!Set({"outbox-dispatcher"}, "paused") /\ evidence' = evidence
        /\ UNCHANGED <<dirty, caught, lost, failed, armed, left, cleaned, status, code, report>>
        BY <1>8, PartNames DEF Stag!OutagePause
  <2>2. Leads("outage_pause", "outage_window", {"outbox-dispatcher"}, "paused", {})
        BY DEF Leads, StageSteps, StoppedAt, EvidenceAt, SinceCapture, Evidence, Stag!Services,
           Stag!Candidate, Stag!Python, Stag!Dispatchers
  <2> QED  BY <1>1, <2>1, <2>2, QuietMoves
<1>9. CASE Stag!OutageWindow
  <2>1. /\ pc = "outage_window" /\ pc' = "outage_finally"
        /\ svc' = Stag!Set({"provider-simulator"}, "running") /\ evidence' = evidence
        /\ UNCHANGED <<dirty, caught, lost, failed, armed, left, cleaned, status, code, report>>
        BY <1>9 DEF Stag!OutageWindow, Stag!Up
  <2>2. Leads("outage_window", "outage_finally", {"provider-simulator"}, "running", {})
        BY DEF Leads, StageSteps, StoppedAt, EvidenceAt, SinceCapture, Evidence, Stag!Services,
           Stag!Candidate, Stag!Python, Stag!Dispatchers
  <2> QED  BY <1>1, <2>1, <2>2, QuietMoves
<1>10. CASE Stag!OutageFinally
  <2>1. /\ pc = "outage_finally" /\ pc' = "outage_resume"
        /\ svc' = Stag!Set({"outbox-dispatcher"}, "running") /\ evidence' = evidence
        /\ UNCHANGED <<dirty, caught, lost, failed, armed, left, cleaned, status, code, report>>
        BY <1>10 DEF Stag!OutageFinally, Stag!Up
  <2>2. Leads("outage_finally", "outage_resume", {"outbox-dispatcher"}, "running", {})
        BY DEF Leads, StageSteps, StoppedAt, EvidenceAt, SinceCapture, Evidence, Stag!Services,
           Stag!Candidate, Stag!Python, Stag!Dispatchers
  <2> QED  BY <1>1, <2>1, <2>2, QuietMoves
<1>11. CASE Stag!OutageResume
  <2>1. /\ pc = "outage_resume" /\ pc' = "provider_stop"
        /\ svc' = Stag!Set({"outbox-dispatcher-b"}, "running") /\ evidence' = evidence
        /\ UNCHANGED <<dirty, caught, lost, failed, armed, left, cleaned, status, code, report>>
        BY <1>11, PartNames DEF Stag!OutageResume, Stag!Up
  <2>2. Leads("outage_resume", "provider_stop", {"outbox-dispatcher-b"}, "running", {})
        BY DEF Leads, StageSteps, StoppedAt, EvidenceAt, SinceCapture, Evidence, Stag!Services,
           Stag!Candidate, Stag!Python, Stag!Dispatchers
  <2> QED  BY <1>1, <2>1, <2>2, QuietMoves
<1>12. CASE Stag!ProviderStop
  <2>1. /\ pc = "provider_stop" /\ pc' = "provider_start"
        /\ svc' = Stag!Set(Stag!Dispatchers, "stopped") /\ evidence' = evidence
        /\ UNCHANGED <<dirty, caught, lost, failed, armed, left, cleaned, status, code, report>>
        BY <1>12, PartNames DEF Stag!ProviderStop, Stag!Stop
  <2>2. Leads("provider_stop", "provider_start", Stag!Dispatchers, "stopped", {})
        BY DEF Leads, StageSteps, StoppedAt, EvidenceAt, SinceCapture, Evidence, Stag!Services,
           Stag!Candidate, Stag!Python, Stag!Dispatchers
  <2> QED  BY <1>1, <2>1, <2>2, QuietMoves
<1>13. CASE Stag!ProviderStart
  <2>1. /\ pc = "provider_start" /\ pc' = "adapter_stop"
        /\ svc' = Stag!Set(Stag!Dispatchers, "running") /\ evidence' = evidence
        /\ UNCHANGED <<dirty, caught, lost, failed, armed, left, cleaned, status, code, report>>
        BY <1>13, PartNames DEF Stag!ProviderStart, Stag!Up
  <2>2. Leads("provider_start", "adapter_stop", Stag!Dispatchers, "running", {})
        BY DEF Leads, StageSteps, StoppedAt, EvidenceAt, SinceCapture, Evidence, Stag!Services,
           Stag!Candidate, Stag!Python, Stag!Dispatchers
  <2> QED  BY <1>1, <2>1, <2>2, QuietMoves
<1>14. CASE Stag!AdapterStop
  <2>1. /\ pc = "adapter_stop" /\ pc' = "adapter_callbacks"
        /\ svc' = Stag!Set(Stag!Dispatchers, "stopped") /\ evidence' = evidence
        /\ UNCHANGED <<dirty, caught, lost, failed, armed, left, cleaned, status, code, report>>
        BY <1>14, PartNames DEF Stag!AdapterStop, Stag!Stop
  <2>2. Leads("adapter_stop", "adapter_callbacks", Stag!Dispatchers, "stopped", {})
        BY DEF Leads, StageSteps, StoppedAt, EvidenceAt, SinceCapture, Evidence, Stag!Services,
           Stag!Candidate, Stag!Python, Stag!Dispatchers
  <2> QED  BY <1>1, <2>1, <2>2, QuietMoves
<1>15. CASE Stag!AdapterCallbacks
  <2>1. /\ pc = "adapter_callbacks" /\ pc' = "adapter_start"
        /\ svc' = svc /\ evidence' = evidence \cup {"restart_callback"}
        /\ UNCHANGED <<dirty, caught, lost, failed, armed, left, cleaned, status, code, report>>
        BY <1>15, PartNames DEF Stag!AdapterCallbacks
  <2>2. Leads("adapter_callbacks", "adapter_start", {}, "running", {"restart_callback"})
        BY DEF Leads, StageSteps, StoppedAt, EvidenceAt, SinceCapture, Evidence, Stag!Services,
           Stag!Candidate, Stag!Python, Stag!Dispatchers
  <2> QED  BY <1>1, <2>1, <2>2, QuietMoves
<1>16. CASE Stag!AdapterStart
  <2>1. /\ pc = "adapter_start" /\ pc' = "review"
        /\ svc' = Stag!Set(Stag!Dispatchers, "running") /\ evidence' = evidence
        /\ UNCHANGED <<dirty, caught, lost, failed, armed, left, cleaned, status, code, report>>
        BY <1>16, PartNames DEF Stag!AdapterStart, Stag!Up
  <2>2. Leads("adapter_start", "review", Stag!Dispatchers, "running", {})
        BY DEF Leads, StageSteps, StoppedAt, EvidenceAt, SinceCapture, Evidence, Stag!Services,
           Stag!Candidate, Stag!Python, Stag!Dispatchers
  <2> QED  BY <1>1, <2>1, <2>2, QuietMoves
<1>17. CASE Stag!Review
  <2>1. /\ pc = "review" /\ pc' = "principals_again"
        /\ svc' = svc /\ evidence' = evidence \cup {"restart_manual"}
        /\ UNCHANGED <<dirty, caught, lost, failed, armed, left, cleaned, status, code, report>>
        BY <1>17, PartNames DEF Stag!Review
  <2>2. Leads("review", "principals_again", {}, "running", {"restart_manual"})
        BY DEF Leads, StageSteps, StoppedAt, EvidenceAt, SinceCapture, Evidence, Stag!Services,
           Stag!Candidate, Stag!Python, Stag!Dispatchers
  <2> QED  BY <1>1, <2>1, <2>2, QuietMoves
<1>18. CASE Stag!PostgresStop
  <2>1. /\ pc = "postgres_stop" /\ pc' = "postgres_start"
        /\ svc' = Stag!Set({"postgres"}, "stopped") /\ evidence' = evidence
        /\ UNCHANGED <<dirty, caught, lost, failed, armed, left, cleaned, status, code, report>>
        BY <1>18, PartNames DEF Stag!PostgresStop, Stag!Stop
  <2>2. Leads("postgres_stop", "postgres_start", {"postgres"}, "stopped", {})
        BY DEF Leads, StageSteps, StoppedAt, EvidenceAt, SinceCapture, Evidence, Stag!Services,
           Stag!Candidate, Stag!Python, Stag!Dispatchers
  <2> QED  BY <1>1, <2>1, <2>2, QuietMoves
<1>19. CASE Stag!PostgresStart
  <2>1. /\ pc = "postgres_start" /\ pc' = "restart_down"
        /\ svc' = Stag!Set({"postgres"}, "running") /\ evidence' = evidence
        /\ UNCHANGED <<dirty, caught, lost, failed, armed, left, cleaned, status, code, report>>
        BY <1>19, PartNames DEF Stag!PostgresStart, Stag!Up
  <2>2. Leads("postgres_start", "restart_down", {"postgres"}, "running", {})
        BY DEF Leads, StageSteps, StoppedAt, EvidenceAt, SinceCapture, Evidence, Stag!Services,
           Stag!Candidate, Stag!Python, Stag!Dispatchers
  <2> QED  BY <1>1, <2>1, <2>2, QuietMoves
<1>20. CASE Stag!RestartUp
  <2>1. /\ pc = "restart_up" /\ pc' = "restart_replay"
        /\ svc' = Stag!Set(Stag!Services, "running") /\ evidence' = evidence
        /\ UNCHANGED <<dirty, caught, lost, failed, armed, left, cleaned, status, code, report>>
        BY <1>20, PartNames DEF Stag!RestartUp, Stag!Up
  <2>2. Leads("restart_up", "restart_replay", Stag!Services, "running", {})
        BY DEF Leads, StageSteps, StoppedAt, EvidenceAt, SinceCapture, Evidence, Stag!Services,
           Stag!Candidate, Stag!Python, Stag!Dispatchers
  <2> QED  BY <1>1, <2>1, <2>2, QuietMoves
<1> QED
    BY <1>2, <1>3, <1>4, <1>5, <1>6, <1>7, <1>8, <1>9, <1>10, <1>11, <1>12, <1>13,
       <1>14, <1>15, <1>16, <1>17, <1>18, <1>19, <1>20

\* What down or a recreation does to the logs of the containers of S.
LEMMA RemovedLogs ==
    ASSUME SInv, NEW S \in SUBSET Stag!Services, NEW state, Stag!Removed(S, state),
           ~caught => \A s \in Stag!Services : dirty[s] \in Stag!Uncollected \cup {"none"}
    PROVE  /\ dirty' \in [Stag!Services -> Stag!Where \cup {"none"}]
           /\ lost' \subseteq lost \cup Stag!Uncollected /\ caught' = caught
           /\ \A s \in Stag!Services : dirty'[s] \in {dirty[s], "none"}
<1>1. dirty \in [Stag!Services -> Stag!Where \cup {"none"}]
      BY DEF SInv, Stag!TypeOK
<1> QED
    BY <1>1 DEF Stag!Removed

\* The steps of execute that arm cleanup, read the logs or remove containers.
LEMMA OtherStages ==
    ASSUME SInv,
           \/ Stag!Admission \/ Stag!AdmissionBuild \/ Stag!RecreateStop \/ Stag!RecreateUp
           \/ Stag!LogHygiene("logs") \/ Stag!RestartCapture \/ Stag!RestartDown
           \/ \E part \in {"recreate_logs", "logs"} : Stag!LogHygieneFails(part)
    PROVE  SInv'
<1> USE DEF Stag!Goes, Stag!Quiet, Stag!ending, Stag!stack
<1>1. /\ svc = Stag!Set({}, "running") /\ evidence = evidence \cup {} /\ Stag!TypeOK
      /\ lost \subseteq lost \cup Stag!Uncollected
      /\ dirty \in [Stag!Services -> Stag!Where \cup {"none"}] /\ caught \in BOOLEAN
      /\ armed \in BOOLEAN /\ left \in BOOLEAN /\ (left => armed)
      /\ failed \in BOOLEAN
      BY DEF SInv, Stag!TypeOK, Stag!Set, StackArmed
<1>2. {} \in SUBSET Stag!Services /\ {} \in SUBSET Evidence
      OBVIOUS
<1>3. CASE Stag!Admission
  <2>1. /\ pc = "admission" /\ pc' = "build" /\ armed' = TRUE /\ svc' = svc /\ evidence' = evidence
        /\ UNCHANGED <<dirty, caught, lost, failed, left, cleaned, status, code, report>>
        BY <1>3, PartNames DEF Stag!Admission
  <2>2. /\ "admission" \in StageSteps /\ "build" \in StageSteps /\ "build" \notin SinceCapture
        /\ StoppedAt("admission") \ {} \subseteq StoppedAt("build")
        /\ EvidenceAt("build") \subseteq EvidenceAt("admission") \cup {}
        BY DEF StageSteps, StoppedAt, EvidenceAt, SinceCapture
  <2> QED  BY <1>1, <1>2, <2>1, <2>2, StageMoves
<1>4. CASE Stag!AdmissionBuild
  <2>1. /\ pc = "build" /\ pc' = "up" /\ left' = TRUE /\ svc' = svc /\ evidence' = evidence
        /\ UNCHANGED <<dirty, caught, lost, failed, armed, cleaned, status, code, report>>
        BY <1>4, PartNames DEF Stag!AdmissionBuild
  <2>2. /\ "build" \in StageSteps /\ "up" \in StageSteps /\ "up" \notin SinceCapture
        /\ StoppedAt("build") \ {} \subseteq StoppedAt("up") /\ "up" # "build"
        /\ EvidenceAt("up") \subseteq EvidenceAt("build") \cup {}
        BY DEF StageSteps, StoppedAt, EvidenceAt, SinceCapture
  <2>3. armed
        BY <2>1 DEF SInv, StackArmed
  <2> QED  BY <1>1, <1>2, <2>1, <2>2, <2>3, StageMoves
<1>5. CASE Stag!RecreateStop
  <2> DEFINE S == Stag!Dispatchers \cup {"inbox-reconciler"}
  <2>1. /\ pc = "recreate_stop" /\ pc' = "recreate_up" /\ svc' = Stag!Set(S, "stopped")
        /\ evidence' = evidence /\ caught' = (caught \/ Stag!Leaked)
        /\ UNCHANGED <<dirty, lost, failed, armed, left, cleaned, status, code, report>>
        BY <1>5, PartNames DEF Stag!RecreateStop
  <2>2. /\ "recreate_stop" \in StageSteps /\ "recreate_up" \in StageSteps
        /\ StoppedAt("recreate_stop") \cup S \subseteq StoppedAt("recreate_up")
        /\ EvidenceAt("recreate_up") \subseteq EvidenceAt("recreate_stop") \cup {}
        /\ S \in SUBSET Stag!Services /\ "recreate_up" # "build"
        BY DEF StageSteps, StoppedAt, EvidenceAt, Stag!Services, Stag!Candidate, Stag!Python,
           Stag!Dispatchers
  <2>3. caught' \in BOOLEAN /\ (~caught' => \A s \in Stag!Services : dirty'[s] = "none")
        BY <1>1, <2>1 DEF Stag!Leaked
  <2> HIDE DEF S
  <2> QED  BY <1>1, <1>2, <2>1, <2>2, <2>3, StageMoves
<1>6. CASE Stag!RecreateUp
  <2>1. /\ pc = "recreate_up" /\ pc' = "recreate_logs" /\ Stag!Removed(Stag!Python, "running")
        /\ svc' = Stag!Set(Stag!Python, "running")
        /\ evidence' = evidence /\ UNCHANGED <<failed, armed, left, cleaned, status, code, report>>
        BY <1>6, PartNames DEF Stag!RecreateUp, Stag!Removed
  <2>2. /\ "recreate_up" \in StageSteps /\ "recreate_logs" \in StageSteps
        /\ StoppedAt("recreate_up") \ Stag!Python \subseteq StoppedAt("recreate_logs")
        /\ EvidenceAt("recreate_logs") \subseteq EvidenceAt("recreate_up") \cup {}
        /\ Stag!Python \in SUBSET Stag!Services /\ "recreate_logs" # "build"
        /\ "recreate_logs" \notin SinceCapture
        BY DEF StageSteps, StoppedAt, EvidenceAt, Stag!Services, Stag!Candidate, Stag!Python,
           Stag!Dispatchers, SinceCapture
  <2>3. ~caught => \A s \in Stag!Services : dirty[s] \in Stag!Uncollected \cup {"none"}
        BY <2>1 DEF SInv, LogsRead, SinceCapture, Stag!Uncollected
  <2>4. /\ dirty' \in [Stag!Services -> Stag!Where \cup {"none"}] /\ caught' = caught
        /\ lost' \subseteq lost \cup Stag!Uncollected
        BY <2>1, <2>2, <2>3, RemovedLogs
  <2> QED  BY <1>1, <1>2, <2>1, <2>2, <2>4, StageMoves
<1>7. CASE Stag!RestartCapture
  <2>1. /\ pc = "restart_down" /\ pc' = "restart_down_removes" /\ svc' = svc
        /\ evidence' = evidence /\ caught' = (caught \/ Stag!Leaked)
        /\ UNCHANGED <<dirty, lost, failed, armed, left, cleaned, status, code, report>>
        BY <1>7 DEF Stag!RestartCapture
  <2>2. /\ "restart_down" \in StageSteps /\ "restart_down_removes" \in StageSteps
        /\ StoppedAt("restart_down") \ {} \subseteq StoppedAt("restart_down_removes")
        /\ EvidenceAt("restart_down_removes") \subseteq EvidenceAt("restart_down") \cup {}
        /\ "restart_down_removes" # "build"
        BY DEF StageSteps, StoppedAt, EvidenceAt
  <2>3. caught' \in BOOLEAN /\ (~caught' => \A s \in Stag!Services : dirty'[s] = "none")
        BY <1>1, <2>1 DEF Stag!Leaked
  <2> QED  BY <1>1, <1>2, <2>1, <2>2, <2>3, StageMoves
<1>8. CASE Stag!RestartDown
  <2>1. /\ pc = "restart_down_removes" /\ pc' = "restart_up"
        /\ Stag!Removed(Stag!Services, "absent") /\ svc' = Stag!Set(Stag!Services, "absent")
        /\ evidence' = evidence /\ UNCHANGED <<failed, armed, left, cleaned, status, code, report>>
        BY <1>8 DEF Stag!RestartDown, Stag!Removed
  <2>2. /\ "restart_down_removes" \in StageSteps /\ "restart_up" \in StageSteps
        /\ StoppedAt("restart_down_removes") \cup Stag!Services \subseteq StoppedAt("restart_up")
        /\ EvidenceAt("restart_up") \subseteq EvidenceAt("restart_down_removes") \cup {}
        /\ Stag!Services \in SUBSET Stag!Services /\ "restart_up" # "build"
        /\ "restart_up" \notin SinceCapture
        BY DEF StageSteps, StoppedAt, EvidenceAt, SinceCapture
  <2>3. ~caught => \A s \in Stag!Services : dirty[s] \in Stag!Uncollected \cup {"none"}
        BY <2>1 DEF SInv, LogsRead, SinceCapture, Stag!Uncollected
  <2>4. /\ dirty' \in [Stag!Services -> Stag!Where \cup {"none"}] /\ caught' = caught
        /\ lost' \subseteq lost \cup Stag!Uncollected
        BY <2>1, <2>2, <2>3, RemovedLogs
  <2> QED  BY <1>1, <1>2, <2>1, <2>2, <2>4, StageMoves
<1>9. CASE Stag!LogHygiene("logs")
  <2>1. /\ pc = "logs" /\ pc' = "passed" /\ ~Stag!Leaked
        /\ UNCHANGED <<svc, dirty, caught, lost, evidence, failed, armed, left, cleaned, status, code,
                       report>>
        BY <1>9, PartNames DEF Stag!LogHygiene, Stag!Stay
  <2>2. /\ "logs" \in StageSteps /\ "passed" \notin StageSteps \cup SinceCapture
        /\ \A s \in Stag!Services : dirty[s] = "none"
        BY <2>1 DEF StageSteps, SinceCapture, Stag!Leaked
  <2>3. Stag!TypeOK'
        BY <1>1, <2>1 DEF Stag!TypeOK, Stag!Where, Stag!Uncollected
  <2>4. StackAsLeft' /\ StackArmed' /\ LogsRead' /\ StageOpen' /\ StageVerdict'
        BY <2>1, <2>2 DEF SInv, StackAsLeft, StackArmed, LogsRead, StageOpen, StageVerdict
  <2> QED  BY <2>3, <2>4 DEF SInv
<1>10. ASSUME NEW part \in {"recreate_logs", "logs"}, Stag!LogHygieneFails(part)
       PROVE  SInv'
  <2>1. /\ pc \in StageSteps /\ Stag!Handled("ContractError") /\ failed' = TRUE /\ caught' = TRUE
        /\ UNCHANGED <<svc, dirty, lost, evidence, armed, left, cleaned, report>>
        BY <1>10 DEF Stag!LogHygieneFails, StageSteps
  <2> QED  BY <1>1, <2>1, StageHandled DEF Stag!TypeOK
<1> QED
    BY <1>3, <1>4, <1>5, <1>6, <1>7, <1>8, <1>9, <1>10

\* The exceptions of the stages, and Ctrl-C.
LEMMA StageRaises ==
    ASSUME SInv,
           \/ Stag!Construct \/ Stag!Interrupt
           \/ \E kind \in Stag!Kinds : \/ Stag!Raise(kind) \/ Stag!OutageWindowRaises(kind)
                                       \/ Stag!OutageFinallyRaises(kind)
    PROVE  SInv'
<1> USE DEF Stag!ending, Stag!stack
<1>1. /\ Stag!TypeOK /\ armed \in BOOLEAN /\ left \in BOOLEAN /\ (left => armed)
      /\ failed \in BOOLEAN /\ caught \in BOOLEAN /\ (pc = "build" => armed)
      BY DEF SInv, Stag!TypeOK, StackArmed
<1>2. CASE Stag!Construct
  <2>1. /\ pc = "start" /\ pc' \in {"admission", "report"}
        /\ UNCHANGED <<svc, dirty, caught, lost, evidence, failed, armed, left, cleaned, status, code,
                       report>>
        BY <1>2 DEF Stag!Construct
  <2>2. /\ "report" \notin StageSteps \cup SinceCapture
        /\ "admission" \notin SinceCapture
        /\ "admission" \in StageSteps /\ StoppedAt("admission") = Stag!Services
        /\ EvidenceAt("admission") = {}
        BY DEF StageSteps, SinceCapture, StoppedAt, EvidenceAt
  <2>3. Stag!TypeOK'
        BY <1>1, <2>1, <2>2, StepNames DEF Stag!TypeOK, Stag!Where
  <2>4. StackAsLeft' /\ StackArmed' /\ LogsRead' /\ StageOpen' /\ StageVerdict'
        BY <2>1, <2>2 DEF SInv, StackAsLeft, StackArmed, LogsRead, StageOpen, StageVerdict
  <2> QED  BY <2>3, <2>4 DEF SInv
<1>3. CASE Stag!Interrupt
  <2>1. /\ pc' = "exit" /\ code' = 130 /\ left' = (left \/ pc = "build")
        /\ UNCHANGED <<svc, dirty, caught, lost, evidence, failed, armed, cleaned, status, report>>
        BY <1>3 DEF Stag!Interrupt
  <2>2. "exit" \notin StageSteps \cup SinceCapture
        BY DEF StageSteps, SinceCapture
  <2>3. Stag!TypeOK'
        BY <1>1, <2>1 DEF Stag!TypeOK
  <2>4. StackAsLeft' /\ StackArmed' /\ LogsRead' /\ StageOpen' /\ StageVerdict'
        BY <1>1, <2>1, <2>2 DEF StackAsLeft, StackArmed, LogsRead, StageOpen, StageVerdict
  <2> QED  BY <2>3, <2>4 DEF SInv
<1>4. ASSUME NEW kind \in Stag!Kinds,
             Stag!Raise(kind) \/ Stag!OutageWindowRaises(kind) \/ Stag!OutageFinallyRaises(kind)
      PROVE  SInv'
  <2>1. /\ pc \in StageSteps /\ Stag!Handled(kind) /\ failed' \in {failed, TRUE}
        /\ (left' <=> left) \/ (left' <=> left \/ pc = "build")
        /\ left' \in BOOLEAN
        /\ UNCHANGED <<dirty, caught, lost, evidence, armed, cleaned, report>>
    <3>1. "outage_window" \in StageSteps /\ "outage_finally" \in StageSteps
          BY DEF StageSteps
    <3>2. CASE Stag!Raise(kind)
          BY <1>1, <3>2, StepNames DEF Stag!Raise
    <3>3. CASE Stag!OutageWindowRaises(kind)
          BY <1>1, <3>1, <3>3 DEF Stag!OutageWindowRaises
    <3>4. CASE Stag!OutageFinallyRaises(kind)
          BY <1>1, <3>1, <3>4 DEF Stag!OutageFinallyRaises
    <3> QED  BY <1>4, <3>2, <3>3, <3>4
  <2>2. svc' \in [Stag!Services -> {"absent", "running", "stopped", "paused"}]
        BY <1>1, <1>4 DEF Stag!Raise, Stag!OutageWindowRaises, Stag!OutageFinallyRaises, Stag!TypeOK,
           Stag!Set
  <2>3. failed' \in BOOLEAN /\ left' \in BOOLEAN /\ (left' => armed)
        BY <1>1, <2>1
  <2> QED  BY <1>1, <2>1, <2>2, <2>3, StageHandled
<1> QED
    BY <1>2, <1>3, <1>4

\* The verdict, cleanup and the report.
LEMMA EndingKeeps ==
    ASSUME SInv, Stag!Ending
    PROVE  SInv'
<1> USE DEF Stag!ending, Stag!stack
<1>1. Stag!TypeOK /\ StackArmed /\ StageVerdict
      BY DEF SInv
<1>2. pc' \in {"cleanup", "report", "exit"}
      BY DEF Stag!Ending, Stag!Verdict, Stag!Cleanup, Stag!CleanupFails, Stag!WriteReport, Stag!Reported,
         Stag!WriteFails
<1>3. pc' \notin StageSteps \cup SinceCapture \cup {"start", "passed", "build"}
      BY <1>2 DEF StageSteps, SinceCapture
<1>4. StackAsLeft' /\ LogsRead' /\ StageOpen'
      BY <1>3 DEF StackAsLeft, LogsRead, StageOpen
<1>5. CASE Stag!Verdict
  <2>1. /\ pc = "passed" /\ pc' = "cleanup" /\ status' = "passed" /\ code' = 0
        /\ UNCHANGED <<svc, dirty, caught, lost, evidence, failed, armed, left, cleaned, report>>
        BY <1>5 DEF Stag!Verdict
  <2>2. ~failed /\ cleaned = "no" /\ lost \subseteq Stag!Uncollected
        BY <2>1 DEF SInv, StageOpen
  <2>3. \A s \in Stag!Services : dirty[s] \in Stag!Uncollected \cup {"none"}
        BY <2>1 DEF SInv, LogsRead, Stag!Uncollected
  <2>4. Stag!TypeOK' /\ StackArmed'
        BY <1>1, <1>3, <2>1 DEF Stag!TypeOK, StackArmed, Stag!Where, Stag!Uncollected
  <2>5. StageVerdict'
        BY <2>1, <2>2, <2>3 DEF StageVerdict
  <2> QED  BY <1>4, <2>4, <2>5 DEF SInv
<1>6. CASE Stag!Cleanup
  <2>1. /\ pc = "cleanup" /\ pc' = "report" /\ left' = (left /\ (KeepStack \/ ~armed))
        /\ cleaned' = IF armed /\ ~KeepStack THEN "done" ELSE "no"
        /\ Stag!Removed(Stag!Services, "absent") \/ UNCHANGED <<svc, dirty, caught, lost>>
        /\ UNCHANGED <<evidence, failed, armed, status, code, report>>
        BY <1>6 DEF Stag!Cleanup
  <2>2. left' \in BOOLEAN /\ (left' => left /\ KeepStack)
        BY <1>1, <2>1, CheckersTypes DEF Stag!TypeOK, StackArmed
  <2>3. /\ svc' \in [Stag!Services -> {"absent", "running", "stopped", "paused"}]
        /\ dirty' \in [Stag!Services -> Stag!Where \cup {"none"}]
        /\ caught' \in BOOLEAN /\ lost' \subseteq Stag!Where
    <3>1. CASE Stag!Removed(Stag!Services, "absent")
      <4>1. /\ svc' = Stag!Set(Stag!Services, "absent") /\ caught' = caught
            /\ dirty' = [s \in Stag!Services |-> "none"]
            /\ lost' \subseteq lost \cup ({dirty[s] : s \in Stag!Services} \ {"none"})
            BY <3>1 DEF Stag!Removed
      <4>2. svc' = [s \in Stag!Services |-> "absent"]
            BY <4>1 DEF Stag!Set
      <4>3. \A s \in Stag!Services : dirty[s] \in Stag!Where \cup {"none"}
            BY <1>1 DEF Stag!TypeOK
      <4>4. lost \subseteq Stag!Where /\ caught \in BOOLEAN
            BY <1>1 DEF Stag!TypeOK
      <4> QED  BY <4>1, <4>2, <4>3, <4>4
    <3>2. CASE UNCHANGED <<svc, dirty, caught, lost>>
          BY <1>1, <3>2 DEF Stag!TypeOK
    <3> QED  BY <2>1, <3>1, <3>2
  <2>4. code = 0 => /\ lost' \subseteq Stag!Uncollected
                    /\ \A s \in Stag!Services : dirty'[s] \in Stag!Uncollected \cup {"none"}
    <3> SUFFICES ASSUME code = 0
                 PROVE  /\ lost' \subseteq Stag!Uncollected
                        /\ \A s \in Stag!Services : dirty'[s] \in Stag!Uncollected \cup {"none"}
        OBVIOUS
    <3>1. /\ lost \subseteq Stag!Uncollected
          /\ \A s \in Stag!Services : dirty[s] \in Stag!Uncollected \cup {"none"}
          BY <1>1 DEF StageVerdict
    <3>2. CASE Stag!Removed(Stag!Services, "absent")
          BY <3>1, <3>2, RemovedLogs
    <3> QED  BY <2>1, <3>1, <3>2
  <2>5. Stag!TypeOK' /\ StackArmed'
        BY <1>1, <1>3, <2>1, <2>2, <2>3 DEF Stag!TypeOK, StackArmed
  <2>6. StageVerdict'
        BY <1>1, <2>1, <2>2, <2>4 DEF StageVerdict
  <2> QED  BY <1>4, <2>5, <2>6 DEF SInv
<1>7. CASE Stag!CleanupFails
  <2>1. /\ pc = "cleanup" /\ pc' = "report" /\ cleaned' = "failed"
        /\ status' = IF status = "passed" THEN "error" ELSE status
        /\ code' = IF status = "passed" THEN 2 ELSE code
        /\ UNCHANGED <<svc, dirty, caught, lost, evidence, failed, armed, left, report>>
        BY <1>7 DEF Stag!CleanupFails
  <2>2. Stag!TypeOK' /\ StackArmed'
        BY <1>1, <1>3, <2>1 DEF Stag!TypeOK, StackArmed
  <2>3. StageVerdict'
        BY <1>1, <2>1 DEF StageVerdict
  <2> QED  BY <1>4, <2>2, <2>3 DEF SInv
<1>8. CASE Stag!WriteReport \/ Stag!WriteFails
  <2>1. /\ pc = "report" /\ pc' = "exit"
        /\ \/ report' = status /\ code' = code
           \/ report' \in {report, "error"} /\ code' = 2
        /\ UNCHANGED <<svc, dirty, caught, lost, evidence, failed, armed, left, cleaned, status>>
        BY <1>8 DEF Stag!WriteReport, Stag!Reported, Stag!WriteFails
  <2>2. Stag!TypeOK' /\ StackArmed'
        BY <1>1, <1>3, <2>1 DEF Stag!TypeOK, StackArmed
  <2>3. StageVerdict'
        BY <1>1, <2>1 DEF StageVerdict
  <2> QED  BY <1>4, <2>2, <2>3 DEF SInv
<1> QED
    BY <1>5, <1>6, <1>7, <1>8 DEF Stag!Ending

\* A secret is written to a log.
LEMMA LeakKeeps ==
    ASSUME SInv, NEW s \in Stag!Services, Stag!Leak(s)
    PROVE  SInv'
<1>1. /\ pc \in Stag!Where /\ dirty' = [dirty EXCEPT ![s] = pc] /\ Stag!TypeOK
      /\ UNCHANGED <<pc, svc, caught, lost, evidence, failed, armed, left, cleaned, status, code,
                     report>>
      BY DEF Stag!Leak, Stag!ending, SInv
<1>2. /\ dirty' \in [Stag!Services -> Stag!Where \cup {"none"}]
      /\ \A t \in Stag!Services : dirty'[t] \in {dirty[t], pc}
      BY <1>1 DEF Stag!TypeOK
<1>3. Stag!TypeOK' /\ StackAsLeft' /\ StackArmed' /\ StageOpen'
      BY <1>1, <1>2 DEF SInv, Stag!TypeOK, StackAsLeft, StackArmed, StageOpen
<1>4. LogsRead'
      BY <1>1, <1>2 DEF SInv, LogsRead
<1>5. code = 0 => pc \in Stag!Uncollected
  <2>1. pc \in StageSteps \cup {"passed", "cleanup"}
    <3>1. {"recreate_up", "restart_down_removes", "outage_finally"} \subseteq StageSteps
          BY DEF StageSteps
    <3> QED  BY <1>1, <3>1, StepNames DEF Stag!Where, Stag!Uncollected
  <2> QED  BY <2>1 DEF SInv, StageOpen, Stag!Uncollected
<1>6. StageVerdict'
      BY <1>1, <1>2, <1>5 DEF SInv, StageVerdict
<1> QED
    BY <1>3, <1>4, <1>6 DEF SInv

\* The inductive invariant of a week 4 run, and what follows from it.
LEMMA StageInvariant ==
    /\ Stag!Init => SInv
    /\ SInv /\ Stag!Next => SInv'
    /\ SInv => Stag!ExitMatchesReport /\ Stag!SecretsFound /\ Stag!StageFindsStack
<1>1. Stag!Init => SInv
  <2> SUFFICES ASSUME Stag!Init
               PROVE  SInv
      OBVIOUS
  <2>1. "start" \notin StageSteps \cup SinceCapture
        BY DEF StageSteps, SinceCapture
  <2>2. Stag!TypeOK
        BY DEF Stag!Init, Stag!TypeOK
  <2> QED  BY <2>1, <2>2 DEF SInv, Stag!Init, StackAsLeft, StackArmed, LogsRead, StageOpen, StageVerdict
<1>2. SInv /\ Stag!Next => SInv'
  <2>1. SInv /\ Stag!Stage => SInv'
        BY QuietStages, OtherStages DEF Stag!Stage
  <2> QED  BY <2>1, StageRaises, EndingKeeps, LeakKeeps DEF Stag!Next
<1>3. SInv => Stag!ExitMatchesReport
      BY DEF SInv, StageVerdict, Stag!ExitMatchesReport, Stag!Ended
<1>4. SInv => Stag!SecretsFound
      BY DEF SInv, StageVerdict, Stag!SecretsFound
<1>5. SInv => Stag!StageFindsStack
  <2> SUFFICES ASSUME SInv, pc \in DOMAIN Stag!Needs
               PROVE  /\ \A s \in Stag!Services : svc[s] = "running"
                      /\ Stag!Needs[pc] \subseteq evidence
      BY DEF Stag!StageFindsStack
  <2>1. /\ pc \in StageSteps /\ StoppedAt(pc) = {} /\ Stag!Needs[pc] \subseteq EvidenceAt(pc)
        BY DEF Stag!Needs, StageSteps, StoppedAt, EvidenceAt, Evidence
  <2> QED  BY <2>1 DEF SInv, StackAsLeft
<1> QED
    BY <1>1, <1>2, <1>3, <1>4, <1>5

-----------------------------------------------------------------------------
(* The runs among the programs of the checkers *)

RunsInv ==
    /\ program = "run" => RInv
    /\ program = "stages" => SInv

LEMMA RunsInvStep ==
    ASSUME RunsInv, [Next]_vars
    PROVE  RunsInv'
<1>1. CASE RunStep
  <2>1. program = "run" /\ program' = "run" /\ Run!Next
        BY <1>1 DEF RunStep
  <2> QED  BY <2>1, RunInvariant DEF RunsInv
<1>2. CASE StagStep
  <2>1. program = "stages" /\ program' = "stages" /\ Stag!Next
        BY <1>2 DEF StagStep
  <2> QED  BY <2>1, StageInvariant DEF RunsInv
<1>3. CASE WorkStep \/ SignStep \/ OutaStep \/ ReceStep
      BY <1>3 DEF WorkStep, SignStep, OutaStep, ReceStep, RunsInv
<1>4. CASE UNCHANGED vars
  <2>1. /\ UNCHANGED <<program, pc, checks, extra, raised, armed, left, status, code, report>>
        /\ UNCHANGED <<svc, dirty, caught, lost, evidence, failed, cleaned>>
        BY <1>4 DEF vars, main, runOnly, stageOnly
  <2>2. RInv => RInv'
        BY <2>1 DEF RInv, Run!TypeOK, AdmissionRecords, PhaseRecords, VerdictRecords, CleanupArmed,
           NoVerdictYet, Interrupted, VerdictStands, Run!Failed
  <2>3. SInv => SInv'
        BY <2>1 DEF SInv, Stag!TypeOK, StackAsLeft, StackArmed, LogsRead, StageOpen, StageVerdict
  <2> QED  BY <2>1, <2>2, <2>3 DEF RunsInv
<1> QED
    BY <1>1, <1>2, <1>3, <1>4 DEF Next

LEMMA RunsInvHolds == Spec => []RunsInv
<1>1. Init => RunsInv
      BY RunInvariant, StageInvariant DEF Init, RunsInv
<1> QED
    BY <1>1, RunsInvStep, PTL DEF Spec

\* The exit code, the report, the recorded checks and what is left of the project agree, for
\* the main of week 2 and the main of week 4: 0 only when every check ran and passed, 1 only
\* with a report of this run, whatever is raised and whatever fails at the end.
THEOREM ExitCodesTellVerdicts == Spec => []ExitTellsVerdict
<1>1. RunsInv => ExitTellsVerdict
      BY RunInvariant, StageInvariant DEF RunsInv, ExitTellsVerdict
<1> QED
    BY <1>1, RunsInvHolds, PTL

\* record and fail_missing never turn a failed check of a week 2 run into a passed one.
THEOREM RecordedFailuresStay == Spec => FailureStays
<1>1. RunsInv /\ [Next]_vars => [program = "run" => Run!FailureKept]_vars
  <2> SUFFICES ASSUME RunsInv, Next, program = "run"
               PROVE  Run!FailureKept
      OBVIOUS
  <2>1. Run!TypeOK /\ Run!Next
        BY DEF RunsInv, RInv, Next, RunStep, WorkStep, SignStep, StagStep, OutaStep, ReceStep
  <2> QED  BY <2>1, RunKeepsRecords
<1> QED
    BY <1>1, RunsInvHolds, PTL DEF Spec, FailureStays

\* A week 4 run that passes has missed a secret in a log only where it was written between
\* the last capture of that log and the removal of its container.
THEOREM SecretsAreFound == Spec => []SecretsFound
<1>1. RunsInv => SecretsFound
      BY StageInvariant DEF RunsInv, SecretsFound
<1> QED
    BY <1>1, RunsInvHolds, PTL

===============================================================================
