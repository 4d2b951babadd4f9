------------------------------ MODULE Service ------------------------------
(***************************************************************************)
(* The life of one process of "agentos serve": the configuration checks,   *)
(* the resolution of the default model against a backend that may still be *)
(* starting, the listeners, the wait for a signal or a server error, and   *)
(* the shutdown of the MCP server, the HTTP server and the executor, one   *)
(* after the other within one deadline.  Also what the health and the      *)
(* readiness endpoint answer.  Sockets, signals and net/http are external. *)
(***************************************************************************)
EXTENDS Integers, Sequences

CONSTANTS Configs,         \* the environments a process is started in
          Models,          \* model ids the backend may list first
          Backoffs,        \* defaultResolveBackoffs
          AttemptTimeout,  \* defaultResolveAttemptTimeout
          ResolveDeadline, \* defaultResolveDeadline
          StartDeadline,   \* the context serve gives ResolveDefaultModel
          MaxBusy,         \* bound on the requests in flight, and on the jobs
          Required         \* Required[i]: whether the i-th health check is required

ASSUME ServiceConstants ==
  /\ AttemptTimeout \in Nat /\ ResolveDeadline \in Nat /\ StartDeadline \in Nat
  /\ \A i \in DOMAIN Backoffs : Backoffs[i] \in Nat
  /\ \A c \in Configs : c.target \in {"agent-orchestrator", "model-policy", "federation"}

VARIABLES config,    \* the environment
          stage,     \* where serve is
          upstream,  \* the state of the model backend
          tries, waited,     \* of resolveWithBackoffs
          model,     \* the default model of the HTTP server and of the MCP tools
          ready,     \* Checker.ready
          listener, busy,     \* of the two servers: [http, mcp]
          jobs,      \* runs the executor works on
          signal, serverError, expired,  \* what select and the shutdown wait for
          exit       \* how the process ended

serviceVars == <<config, stage, upstream, tries, waited, model, ready, listener, busy,
                 jobs, signal, serverError, expired, exit>>

startVars == <<tries, waited, model, ready>>
runVars == <<listener, busy, jobs, signal, serverError, expired>>

None == "none"
Servers == {"http", "mcp"}
Orchestrator == config.target = "agent-orchestrator"
UsesMcp == Orchestrator /\ config.mcp

ServiceInit ==
  /\ config \in Configs
  /\ stage = "boot" /\ exit = None
  /\ upstream = "down"
  /\ tries = 0 /\ waited = 0
  /\ model = [s \in Servers |-> None]
  /\ ready = FALSE
  /\ listener = [s \in Servers |-> "off"] /\ busy = [s \in Servers |-> 0]
  /\ jobs = 0
  /\ signal = FALSE /\ serverError = FALSE /\ expired = FALSE

Leave(how) == stage' = "exit" /\ exit' = how

(***************************************************************************)
(* Startup.                                                                *)
(***************************************************************************)
EnsureSafeProfile(c) == c.prod => ~c.defaultTenant /\ ~c.devHeaders

ValidateServiceConfig(c) ==
  c.prod => c.metricsAuth /\ (c.target = "federation" => c.peersFile)

TlsLoads(c) == c.tls # "half"

\* ModelConfig.Validate, for the provider that the orchestrator builds.
ModelConfigValid(c) ==
  CASE c.provider = "stub"      -> TRUE
    [] c.provider = "openai"    -> c.baseURL /\ c.apiKey
    [] c.provider = "anthropic" -> c.apiKey
    [] OTHER                    -> FALSE

\* serve up to the switch on the target.
Boot ==
  /\ stage = "boot"
  /\ IF EnsureSafeProfile(config) /\ ValidateServiceConfig(config) /\ TlsLoads(config)
     THEN stage' = (IF Orchestrator THEN "resolve" ELSE "notify") /\ UNCHANGED exit
     ELSE Leave("failed")
  /\ UNCHANGED <<config, upstream, startVars, runVars>>

\* ResolveDefaultModel, when the backend is not asked.
ResolveFromEnv ==
  /\ stage = "resolve" /\ tries = 0 /\ waited = 0
  /\ config.envModel # None \/ config.provider # "openai" \/ ~config.baseURL
  /\ IF config.envModel # None \/ config.provider # "openai"
     THEN /\ stage' = "build"
          /\ model' = [s \in Servers |-> config.envModel]
          /\ UNCHANGED exit
     ELSE Leave("failed") /\ UNCHANGED model
  /\ UNCHANGED <<config, upstream, tries, waited, ready, runVars>>

\* Time spent waiting ends when the context of the resolution does.
AfterDelay(t, d) ==
  [waited   |-> IF t + d < StartDeadline THEN t + d ELSE StartDeadline,
   cancelled |-> t + d >= StartDeadline]

\* One round of resolveWithBackoffs: QueryFirstModelID, then the backoff.
Attempt ==
  /\ stage = "resolve"
  /\ config.envModel = None /\ config.provider = "openai" /\ config.baseURL
  /\ IF tries = Len(Backoffs) \/ waited >= ResolveDeadline
     THEN Leave("failed") /\ UNCHANGED <<tries, waited, model>>
     ELSE \E d \in 0..AttemptTimeout :
            LET asked == AfterDelay(waited, d)
                next  == AfterDelay(asked.waited, Backoffs[tries + 1])
            IN IF upstream \in Models /\ ~asked.cancelled
               THEN /\ stage' = "build" /\ waited' = asked.waited
                    /\ model' = [s \in Servers |-> upstream]
                    /\ UNCHANGED <<tries, exit>>
               ELSE /\ waited' = IF upstream = "empty" THEN asked.waited ELSE next.waited
                    /\ tries' = tries + 1
                    /\ IF upstream = "empty" \/ asked.cancelled \/ next.cancelled
                       THEN Leave("failed")
                       ELSE UNCHANGED <<stage, exit>>
                    /\ UNCHANGED model
  /\ UNCHANGED <<config, upstream, ready, runVars>>

BackendChanges ==
  /\ stage \in {"boot", "resolve", "build"}
  /\ upstream' \in {"down", "error", "empty"} \union Models
  /\ UNCHANGED <<config, stage, exit, startVars, runVars>>

\* NewServer (the stores, the provider, the intent router, the counters) and
\* then the MCP tools, which get the model that was resolved.
Build ==
  /\ stage = "build"
  /\ \/ /\ ModelConfigValid(config)
        /\ stage' = "notify" /\ ready' = TRUE
        /\ UNCHANGED exit
     \/ Leave("failed") /\ UNCHANGED ready
  /\ UNCHANGED <<config, upstream, tries, waited, model, runVars>>

(***************************************************************************)
(* Serving.                                                                *)
(***************************************************************************)
Serving == stage \in {"notify", "listen", "drain_mcp", "drain_http", "drain_exec"}

\* The goroutine of a server binds its address, or reports that it cannot.
Listen(s) ==
  /\ Serving /\ listener[s] = "off" /\ (s = "mcp" => UsesMcp)
  /\ \/ listener' = [listener EXCEPT ![s] = "open"] /\ UNCHANGED serverError
     \/ listener' = [listener EXCEPT ![s] = "failed"] /\ serverError' = TRUE
  /\ UNCHANGED <<config, stage, upstream, startVars, busy, jobs, signal, expired, exit>>

Accept(s) ==
  /\ Serving /\ listener[s] = "open" /\ busy[s] < MaxBusy
  /\ busy' = [busy EXCEPT ![s] = @ + 1]
  /\ UNCHANGED <<config, stage, upstream, startVars, listener, jobs, signal, serverError, expired, exit>>

\* A request ends; one to the orchestrator may have started a run.
Reply(s) ==
  /\ Serving /\ busy[s] > 0
  /\ busy' = [busy EXCEPT ![s] = @ - 1]
  /\ \/ UNCHANGED jobs
     \/ /\ s = "http" /\ Orchestrator /\ jobs < MaxBusy /\ stage # "drain_exec"
        /\ jobs' = jobs + 1
  /\ UNCHANGED <<config, stage, upstream, startVars, listener, signal, serverError, expired, exit>>

JobEnds ==
  /\ Serving /\ jobs > 0
  /\ jobs' = jobs - 1
  /\ UNCHANGED <<config, stage, upstream, startVars, listener, busy, signal, serverError, expired, exit>>

\* The servers are started, then serve asks for the signals.
Notify ==
  /\ stage = "notify"
  /\ stage' = "listen"
  /\ UNCHANGED <<config, upstream, startVars, runVars, exit>>

\* Before signal.Notify the default action of the signal ends the process.
Signal ==
  /\ stage # "exit" /\ ~signal
  /\ IF Serving /\ stage # "notify"
     THEN signal' = TRUE /\ UNCHANGED <<stage, exit>>
     ELSE Leave("killed") /\ UNCHANGED signal
  /\ UNCHANGED <<config, upstream, startVars, listener, busy, jobs, serverError, expired>>

\* The run of the check functions, in the order they were registered.
RunChecks(results) ==
  LET After[i \in 0..Len(Required)] ==
        IF i = 0 THEN "healthy"
        ELSE IF results[i] = "healthy" THEN After[i - 1]
        ELSE IF Required[i] THEN "unhealthy"
        ELSE IF After[i - 1] = "healthy" THEN "degraded" ELSE After[i - 1]
  IN After[Len(Required)]

\* ReadyHandler: 503 until New has finished, and then as the checks say.
ReadyAnswer(results) ==
  IF ~ready THEN 503 ELSE IF RunChecks(results) = "unhealthy" THEN 503 ELSE 200

(***************************************************************************)
(* Shutdown.                                                               *)
(***************************************************************************)
Close(s) == listener' = [listener EXCEPT ![s] = "closed"]

\* The select of serve: a server error ends the process at once; a signal
\* starts the shutdown, of the MCP server first when there is one.
Select ==
  /\ stage = "listen"
  /\ \/ serverError /\ Leave("failed") /\ UNCHANGED listener
     \/ /\ signal
        /\ stage' = IF UsesMcp THEN "drain_mcp" ELSE "drain_http"
        /\ Close(IF UsesMcp THEN "mcp" ELSE "http")
        /\ UNCHANGED exit
  /\ UNCHANGED <<config, upstream, startVars, busy, jobs, signal, serverError, expired>>

\* The deadline that the three shutdowns share.
Expire ==
  /\ stage \in {"drain_mcp", "drain_http", "drain_exec"} /\ ~expired
  /\ expired' = TRUE
  /\ UNCHANGED <<config, stage, upstream, startVars, listener, busy, jobs, signal, serverError, exit>>

McpDrainedFully ==
  /\ stage = "drain_mcp" /\ busy["mcp"] = 0
  /\ stage' = "drain_http" /\ Close("http")
  /\ UNCHANGED <<config, upstream, startVars, busy, jobs, signal, serverError, expired, exit>>

\* An error of the MCP shutdown is only logged.
McpDrained ==
  /\ stage = "drain_mcp" /\ (busy["mcp"] = 0 \/ expired)
  /\ stage' = "drain_http" /\ Close("http")
  /\ UNCHANGED <<config, upstream, startVars, busy, jobs, signal, serverError, expired, exit>>

HttpDrainedAnyway ==
  /\ stage = "drain_http" /\ (busy["http"] = 0 \/ expired)
  /\ IF Orchestrator THEN stage' = "drain_exec" /\ UNCHANGED exit ELSE Leave("ok")
  /\ UNCHANGED <<config, upstream, startVars, runVars>>

\* http.Server.Shutdown fails when a request is still in flight at the
\* deadline; ServerPair.Shutdown drains the executor in either case and
\* returns that error, which exit keeps until then.
HttpDrained ==
  /\ stage = "drain_http" /\ (busy["http"] = 0 \/ expired)
  /\ LET how == IF busy["http"] = 0 THEN "ok" ELSE "failed"
     IN IF Orchestrator THEN stage' = "drain_exec" /\ exit' = (IF how = "ok" THEN None ELSE how)
                        ELSE Leave(how)
  /\ UNCHANGED <<config, upstream, startVars, runVars>>

\* Executor.Shutdown returns when its workers are done or at the deadline,
\* and says nothing of which.
ExecutorDrained ==
  /\ stage = "drain_exec" /\ (jobs = 0 \/ expired)
  /\ Leave(IF exit = None THEN "ok" ELSE exit)
  /\ UNCHANGED <<config, upstream, startVars, runVars>>

Shutdown == Select \/ Expire \/ McpDrained \/ HttpDrained \/ ExecutorDrained

ServiceNext ==
  \/ Boot \/ ResolveFromEnv \/ Attempt \/ BackendChanges \/ Build
  \/ \E s \in Servers : Listen(s) \/ Accept(s) \/ Reply(s)
  \/ JobEnds \/ Notify \/ Signal
  \/ Shutdown

\* serve goes on by itself, and its deadline passes; requests and runs may
\* take for ever.
ServiceFairness == WF_serviceVars(Shutdown)

\* Type invariant of the process.
ServiceTypeOK ==
  /\ stage \in {"boot", "resolve", "build", "notify", "listen", "drain_mcp",
                "drain_http", "drain_exec", "exit"}
  /\ exit \in {None, "ok", "failed", "killed"}
  /\ tries \in 0..Len(Backoffs) /\ waited \in 0..StartDeadline + AttemptTimeout
  /\ model \in [Servers -> Models \union {c.envModel : c \in Configs} \union {None}]
  /\ listener \in [Servers -> {"off", "open", "failed", "closed"}]
  /\ busy \in [Servers -> 0..MaxBusy] /\ jobs \in 0..MaxBusy

Outcomes == {"healthy", "degraded", "unhealthy"}

\* The orchestrator serves with one default model on both interfaces ("MCP
\* tools see the same default"), the configured one if there is one and else
\* one the backend named, never without one for an openai provider; the
\* resolution ends in time; and readiness is answered exactly when New has
\* finished and no required check fails (ReadyHandler).
StartupIsSound ==
  /\ Serving /\ Orchestrator =>
       /\ model["http"] = model["mcp"]
       /\ config.envModel # None => model["http"] = config.envModel
       /\ config.provider = "openai" /\ config.envModel = None => model["http"] \in Models
  /\ waited <= StartDeadline
  /\ \A results \in [DOMAIN Required -> Outcomes] :
       ReadyAnswer(results) = 200
         <=> /\ Orchestrator /\ (Serving \/ stage = "exit") /\ ready
             /\ \A i \in DOMAIN Required : Required[i] => results[i] = "healthy"
  /\ ready => ModelConfigValid(config)

\* A process that says it stopped cleanly was asked to stop and has answered
\* every HTTP request it had accepted; runs and MCP requests are left
\* unfinished only when the deadline of the shutdown has passed.
CleanStop ==
  exit = "ok" /\ stage = "exit" =>
    /\ signal
    /\ busy["http"] = 0
    /\ busy["mcp"] > 0 \/ jobs > 0 => expired

\* The process starts with what it needs and reports a clean stop only after one.
ServiceIsSound == StartupIsSound /\ CleanStop

\* A signal ends a serving process, however long requests and runs take
\* (serve: every wait of the shutdown ends at the deadline).
SignalStops == Serving /\ signal ~> stage = "exit"

=============================================================================
