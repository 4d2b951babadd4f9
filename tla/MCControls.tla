---------------------------- MODULE MCControls ----------------------------
(***************************************************************************)
(* For TLC: the controls in front of and around a model call, the quota    *)
(* gate, the token budget and the circuit breaker, and the process that    *)
(* serves them. They share no state, so each is explored by itself: focus  *)
(* says which one moves.                                                   *)
(***************************************************************************)
EXTENDS Resilience, Quota, TokenBudget, Service

\* The orchestrator with the model named by the environment or not, without what it
\* needs, under the production profile; federation; the model policy service.
Base ==
    [target |-> "agent-orchestrator", prod |-> FALSE, defaultTenant |-> TRUE,
     devHeaders |-> FALSE, metricsAuth |-> FALSE, peersFile |-> FALSE, tls |-> "none",
     provider |-> "openai", envModel |-> "none", baseURL |-> TRUE, apiKey |-> TRUE,
     mcp |-> TRUE]
MCConfigs ==
    {Base, [Base EXCEPT !.envModel = "e"],
     [Base EXCEPT !.provider = "anthropic", !.mcp = FALSE],
     [Base EXCEPT !.baseURL = FALSE], [Base EXCEPT !.envModel = "e", !.apiKey = FALSE],
     [Base EXCEPT !.prod = TRUE],
     [Base EXCEPT !.target = "federation", !.prod = TRUE, !.defaultTenant = FALSE,
                  !.metricsAuth = TRUE, !.peersFile = TRUE],
     [Base EXCEPT !.target = "model-policy", !.tls = "half"]}
MCBackoffs == <<1, 1, 2>>
MCRequired == <<FALSE, TRUE, FALSE>>

VARIABLE focus

vars == <<breakerVars, quotaVars, budgetVars, serviceVars, focus>>

Init ==
    /\ focus \in {"breaker", "quota", "budget", "service"}
    /\ BreakerInit /\ QuotaInit /\ BudgetInit /\ ServiceInit
    /\ focus # "quota" => backend = "memory"
    /\ focus # "budget" => hasStore
    /\ focus # "service" => config = Base

Next ==
    /\ UNCHANGED focus
    /\ IF focus = "breaker" THEN BreakerNext ELSE UNCHANGED breakerVars
    /\ IF focus = "quota" THEN QuotaNext ELSE UNCHANGED quotaVars
    /\ IF focus = "budget" THEN BudgetNext ELSE UNCHANGED budgetVars
    /\ IF focus = "service" THEN ServiceNext ELSE UNCHANGED serviceVars

\* A process that does not move gets no signal, and its fairness asks for nothing.
Spec == Init /\ [][Next]_vars /\ ServiceFairness /\ (focus = "breaker" => BreakerFairness)

\* The types of the components, and their counters within their limits: the half-open
\* slots of the breaker and the attempts of a call.
ControlsInBounds ==
    /\ BreakerTypeOK /\ SlotsBounded /\ AttemptsBounded
    /\ QuotaTypeOK /\ BudgetTypeOK /\ ServiceTypeOK
=============================================================================
