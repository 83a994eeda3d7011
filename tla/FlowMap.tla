------------------------------- MODULE FlowMap -------------------------------
(***************************************************************************)
(* A published flow map as the workflow functions read it: the step,       *)
(* transition and task definitions that a process instance pins when it is *)
(* started (workflow.flow_version, step_definition, transition_definition, *)
(* task_definition).  A published version is immutable, so the map is a    *)
(* constant.  The assumptions are what the flow map validation of the CLI  *)
(* guarantees of every map it lets through.                                *)
(***************************************************************************)
EXTENDS Naturals

CONSTANTS
    Steps,          \* step keys of the map
    Outcome,        \* outcomes named anywhere in the map
    StartStep,      \* start_step
    StepType,       \* step key -> AUTOMATIC, WAIT_SIGNAL, MANUAL or END
    Allowed,        \* step key -> outcomes that have a transition
    Target,         \* step key -> outcome -> next step key
    SignalTypes,    \* signal types
    SignalType,     \* step key -> signal_type of a WAIT_SIGNAL step
    ParamOutcome,   \* step key -> outcome of a WAIT_SIGNAL or END step
    MaxAttempts,    \* step key -> retry.max_attempts of an AUTOMATIC step
    Rank            \* a topological numbering of the steps

StepTypes == {"AUTOMATIC", "WAIT_SIGNAL", "MANUAL", "END"}

AutoSteps == {s \in Steps : StepType[s] = "AUTOMATIC"}
WaitSteps == {s \in Steps : StepType[s] = "WAIT_SIGNAL"}

ASSUME MapTypes ==
    /\ StartStep \in Steps
    /\ StepType \in [Steps -> StepTypes]
    /\ Allowed \in [Steps -> SUBSET Outcome]
    /\ Target \in [Steps -> [Outcome -> Steps]]
    /\ SignalType \in [Steps -> SignalTypes]
    /\ ParamOutcome \in [Steps -> Outcome]
    /\ MaxAttempts \in [Steps -> Nat \ {0}]

\* A WAIT_SIGNAL step has one transition, for the outcome it declares.
ASSUME WaitCovered == \A s \in WaitSteps : ParamOutcome[s] \in Allowed[s]

\* HasCycle rejects a cyclic map: transitions go up in some numbering.
ASSUME Acyclic ==
    /\ Rank \in [Steps -> Nat]
    /\ \A s \in Steps : \A o \in Allowed[s] : Rank[s] < Rank[Target[s][o]]

\* No transition leads from one WAIT_SIGNAL step straight to another (true of
\* every map the migrations publish): one call of _enter_step passes at most
\* one of them.
ASSUME NoAdjacentWaits ==
    \A s \in WaitSteps : \A o \in Allowed[s] : Target[s][o] \notin WaitSteps

==============================================================================
