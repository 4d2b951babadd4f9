--------------------------- MODULE MCPersistence ---------------------------
(***************************************************************************)
(* For TLC: the parts that live off stored state and share nothing else,   *)
(* the background job queue, the run store, the agent registry and the     *)
(* storage migration. Init chooses which of them runs.                     *)
(***************************************************************************)
EXTENDS JobQueue, RunStore, AgentRegistry, Migration, TLC

CONSTANTS j1, j2, j3, agentRec, runRec, orphanRun, memoryRec, kvRec, eventRec

\* One webhook job, one with another handler, one nobody handles.
MixedKinds == j1 :> "webhook" @@ j2 :> "other" @@ j3 :> "unhandled"

\* A record of each store; the orphan is a run of a tenant with no agents.
RecordStores ==
    agentRec :> "agents" @@ runRec :> "runs" @@ orphanRun :> "runs"
        @@ memoryRec :> "memory" @@ kvRec :> "kv" @@ eventRec :> "events"

VARIABLE focus

mcVars == <<jobVars, runStoreVars, registryVars, migrationVars, focus>>

Init ==
    /\ focus \in {"jobs", "runs", "registry", "migration"}
    /\ JobsInit /\ RunStoreInit /\ RegistryInit /\ MigrationInit
    /\ focus # "jobs" => ~durable
    /\ focus # "migration" => \A r \in Records : target[r] = 0

\* Bound: Postgres has no cap for a third job to exceed, so it is given two.
JobsInScope == durable' => Cardinality({j \in Jobs : job'[j].status # "absent"}) <= 2

Next ==
    \/ /\ focus = "jobs" /\ JobsNext /\ JobsInScope
       /\ UNCHANGED <<runStoreVars, registryVars, migrationVars, focus>>
    \/ /\ focus = "runs" /\ RunStoreNext
       /\ UNCHANGED <<jobVars, registryVars, migrationVars, focus>>
    \/ /\ focus = "registry" /\ RegistryNext
       /\ UNCHANGED <<jobVars, runStoreVars, migrationVars, focus>>
    \/ /\ focus = "migration" /\ MigrationNext
       /\ UNCHANGED <<jobVars, runStoreVars, registryVars, focus>>

\* Where the queue is not in focus it has no job, and its fairness asks for nothing.
Spec == Init /\ [][Next]_mcVars /\ JobsFairness

\* The type of the part that moves; for the queue, its cap and the invariant its
\* contract rests on.
PersistenceInBounds ==
    CASE focus = "jobs"      -> JobsInv /\ CapRespected
      [] focus = "runs"      -> RunStoreTypeOK
      [] focus = "registry"  -> RegistryTypeOK
      [] focus = "migration" -> MigrationTypeOK
=============================================================================
