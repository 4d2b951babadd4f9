--------------------------- MODULE AgentRegistry ---------------------------
(***************************************************************************)
(* One agent of the registry and the snapshots of its configuration:       *)
(* create, update, rollback and delete, as requests that run concurrently  *)
(* and call the two stores one after the other. The agent is persisted,    *)
(* the snapshots live in memory only.                                      *)
(***************************************************************************)
EXTENDS Integers, Sequences, FiniteSets

CONSTANTS
    Handlers,      \* concurrent requests
    Configs,       \* agent configurations
    NoConfig,
    MaxSnapshots,  \* maxVersionsPerAgent
    MaxWrites      \* bound: writes of the agent record

ASSUME RegistryConstants ==
    /\ IsFiniteSet(Handlers) /\ MaxWrites \in Nat
    /\ MaxSnapshots \in Nat /\ MaxSnapshots >= Cardinality(Handlers)
    /\ NoConfig \notin Configs

VARIABLES
    agent,      \* the store's record: [version, config, write], version 0 when absent
    agentFile,  \* the record a restart loads
    snapshots,  \* memoryAgentVersionStore.versions: sequence of [label, config]
    request,    \* request[h]: its step, and what it has read so far
    writes,     \* writes of the record so far; numbers them
    missed,     \* history: writes that got no snapshot, or lost it in a restart
    regular     \* history: no overlap, failure, deletion, eviction or restart yet

registryVars ==
    <<agent, agentFile, snapshots, request, writes, missed, regular>>

NoAgent == [version |-> 0, config |-> NoConfig, write |-> 0]
NoRequest == [step |-> "idle", version |-> 0, config |-> NoConfig, write |-> 0, label |-> 0]

RegistryInit ==
    /\ agent = NoAgent /\ agentFile = NoAgent /\ snapshots = <<>>
    /\ request = [h \in Handlers |-> NoRequest]
    /\ writes = 0 /\ missed = {} /\ regular = TRUE

-----------------------------------------------------------------------------
Quiet(others) == \A h \in others : request[h] = NoRequest

\* A request reads the agent, when there is one.
Begin(h, step, c) ==
    /\ request[h] = NoRequest /\ agent # NoAgent
    /\ request' = [request EXCEPT ![h] =
          [NoRequest EXCEPT !.step = step, !.config = c, !.version = agent.version]]
    /\ regular' = (regular /\ Quiet(Handlers \ {h}))

UpdateGet(h, c) ==
    Begin(h, "save", c) /\ UNCHANGED <<agent, agentFile, snapshots, writes, missed>>

RollbackGet(h) ==
    /\ Begin(h, "lookup", NoConfig)
    /\ UNCHANGED <<agent, agentFile, snapshots, writes, missed>>

\* GetVersion: the newest snapshot with the label, 0 when there is none.
NewestWith(label) ==
    LET found == {i \in DOMAIN snapshots : snapshots[i].label = label}
    IN IF found = {} THEN 0 ELSE CHOOSE i \in found : \A j \in found : j <= i

RollbackLookup(h, label) ==
    /\ request[h].step = "lookup"
    /\ request' = [request EXCEPT ![h] =
          IF NewestWith(label) = 0 THEN NoRequest
          ELSE [@ EXCEPT !.step = "check", !.config = snapshots[NewestWith(label)].config]]
    /\ UNCHANGED <<agent, agentFile, snapshots, writes, missed, regular>>

\* A rollback is refused when one of the agent's latest 100 runs is queued or running.
RollbackCheck(h, active) ==
    /\ request[h].step = "check"
    /\ request' = [request EXCEPT ![h] = IF active THEN NoRequest ELSE [@ EXCEPT !.step = "save"]]
    /\ UNCHANGED <<agent, agentFile, snapshots, writes, missed, regular>>

\* A write of the record: it may fail before it has any effect, or with the record
\* changed in memory and not in the file; the request then ends without a snapshot.
Put(h, version, c, next) ==
    LET record == [version |-> version, config |-> c, write |-> writes + 1]
    IN /\ writes < MaxWrites /\ writes' = writes + 1
       /\ \/ /\ agent' = record /\ agentFile' = record
             /\ request' = [request EXCEPT ![h] = next]
             /\ UNCHANGED <<missed, regular>>
          \/ /\ agent' \in {agent, record} /\ agentFile' = agentFile
             /\ request' = [request EXCEPT ![h] = NoRequest]
             /\ missed' = missed \cup {writes + 1} /\ regular' = FALSE
       /\ UNCHANGED snapshots

\* Create refuses an agent that exists; its snapshot is labelled v1.
AgentCreate(h, c) ==
    /\ request[h] = NoRequest /\ agent = NoAgent
    /\ Put(h, 1, c, [step |-> "snapshot", version |-> 1, config |-> c,
                     write |-> writes + 1, label |-> 1])

\* Update and rollback: Save writes the record whether or not it is still there.
AgentSave(h) ==
    /\ request[h].step = "save"
    /\ Put(h, request[h].version + 1, request[h].config,
           [request[h] EXCEPT !.step = "count", !.write = writes + 1])

\* CountVersions: the label is one more than the snapshots there are.
CountVersions(h) ==
    /\ request[h].step = "count"
    /\ request' = [request EXCEPT ![h].step = "snapshot", ![h].label = Len(snapshots) + 1]
    /\ UNCHANGED <<agent, agentFile, snapshots, writes, missed, regular>>

\* Snapshots that stay: the most recent ones.
KeepOldest(s) == IF Len(s) > MaxSnapshots THEN SubSeq(s, 1, MaxSnapshots) ELSE s
KeepNewest(s) ==
    IF Len(s) > MaxSnapshots THEN SubSeq(s, Len(s) - MaxSnapshots + 1, Len(s)) ELSE s

CreateSnapshot(h) ==
    /\ request[h].step = "snapshot"
    /\ LET s == [label |-> request[h].label, config |-> request[h].config]
       IN snapshots' = KeepNewest(Append(snapshots, s))
    /\ request' = [request EXCEPT ![h] = NoRequest]
    /\ regular' = (regular /\ Len(snapshots) < MaxSnapshots)
    /\ UNCHANGED <<agent, agentFile, writes, missed>>

\* The request's context ends first: the count or the snapshot fails, with a log line.
SnapshotFails(h) ==
    /\ request[h].step \in {"count", "snapshot"}
    /\ request' = [request EXCEPT ![h] = NoRequest]
    /\ missed' = missed \cup {request[h].write} /\ regular' = FALSE
    /\ UNCHANGED <<agent, agentFile, snapshots, writes>>

\* Delete leaves the snapshots; removing the file may fail.
AgentDelete ==
    /\ agent # NoAgent
    /\ agent' = NoAgent /\ agentFile' \in {agentFile, NoAgent}
    /\ regular' = FALSE
    /\ UNCHANGED <<snapshots, request, writes, missed>>

RegistryRestart ==
    /\ agent' = agentFile /\ snapshots' = <<>>
    /\ request' = [h \in Handlers |-> NoRequest]
    /\ missed' = 1..writes /\ regular' = FALSE
    /\ UNCHANGED <<agentFile, writes>>

-----------------------------------------------------------------------------
RegistryNext ==
    \/ \E h \in Handlers :
          \/ \E c \in Configs : AgentCreate(h, c) \/ UpdateGet(h, c)
          \/ RollbackGet(h)
          \/ \E label \in 1..(MaxSnapshots + 1) : RollbackLookup(h, label)
          \/ \E active \in BOOLEAN : RollbackCheck(h, active)
          \/ AgentSave(h)
          \/ CountVersions(h) \/ CreateSnapshot(h) \/ SnapshotFails(h)
    \/ AgentDelete \/ RegistryRestart

RegistrySpec == RegistryInit /\ [][RegistryNext]_registryVars

-----------------------------------------------------------------------------
(* Properties *)

\* Type invariant, with the cap on snapshots.
RegistryTypeOK ==
    /\ {agent, agentFile} \subseteq [version : 0..MaxWrites,
                                     config : Configs \cup {NoConfig}, write : 0..MaxWrites]
    /\ Len(snapshots) <= MaxSnapshots
    /\ \A i \in DOMAIN snapshots :
          snapshots[i] \in [label : 1..(MaxSnapshots + 1), config : Configs]
    /\ \A h \in Handlers : request[h].step \in
          {"idle", "lookup", "check", "save", "count", "snapshot"}
    /\ writes \in 0..MaxWrites /\ missed \subseteq 1..writes
    /\ regular \in BOOLEAN

\* When no request is under way, the configuration the agent has can be rolled back
\* to: it is in a snapshot, unless its own snapshot failed or a restart took it. And
\* while requests came one at a time, the newest snapshot is that of the agent's
\* version, label included.
CurrentConfigIsKept ==
    Quiet(Handlers) /\ agent # NoAgent /\ agent.write \notin missed =>
        /\ \E i \in DOMAIN snapshots : snapshots[i].config = agent.config
        /\ regular => snapshots[Len(snapshots)] = [label |-> agent.version, config |-> agent.config]
=============================================================================
