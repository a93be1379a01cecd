-------------------------- MODULE MCEngineIsolation --------------------------
(* EngineIsolation for TLC.  A scenario, chosen in the initial state, says    *)
(* which calls are made and of which engines: one progressive call with       *)
(* native parameters, or two buffered calls that compete for the slots.       *)
EXTENDS EngineIsolation, TLC

CONSTANTS c1, c2, c3, e1, e2

VARIABLES
    scenario,
    claim       \* the liveness claim that is followed

MCKindOf == [c \in Call |-> IF c = c1 THEN "native_stream" ELSE "buffered"]

Streamed == c1 :> {e1}
Competing == c2 :> {e1} @@ c3 :> {e1, e2}

Made == DOMAIN scenario
Called == UNION {scenario[c] : c \in Made}

\* Nobody stops or prepares what the scenario does not use; of the competing
\* calls only c3 is cancelled on its own.
WithinScenario ==
    /\ \A c \in Call \ Made : caller'[c] = "idle"
    /\ token' \subseteq Made \ {c2}
    /\ \A c \in Made : engine'[c] \in scenario[c] \cup {NoEngine}
    /\ \A e \in Engine \ Called : stop_epoch'[e] = 0 /\ ~recover'[e]

ScenarioInit ==
    /\ IsolationInit
    /\ \/ scenario = Streamed /\ claim \in IsolationClaims
       \/ scenario = Competing /\ claim = "freed"

MadeReturned ==
    /\ \A c \in Made : caller[c] = "returned" /\ task[c] \in {"none", "ended", "panicked"}
    /\ UNCHANGED isolationVars

ScenarioNext == ((Next /\ WithinScenario) \/ MadeReturned) /\ UNCHANGED <<scenario, claim>>

\* The fairness of PollingSpec; for the claim that slots come back also that
\* native calls return sooner or later, and that their tasks are scheduled.
ScenarioSpec ==
    /\ ScenarioInit /\ [][ScenarioNext]_<<isolationVars, scenario, claim>>
    /\ \A c \in Call : WF_isolationVars(CallerStep(c))
    /\ \A c \in Call : WF_isolationVars(claim = "freed" /\ TaskStep(c))

\* Superseded callers return, also from a native call that never does; and the
\* slots their calls held come back when those calls return.  `claim' never
\* changes, so this one formula is the leads-to of both.
CallsGiveWay == IsolationOwed(claim) ~> IsolationMet(claim)
=============================================================================
