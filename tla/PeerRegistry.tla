---------------------------- MODULE PeerRegistry ----------------------------
(***************************************************************************)
(* The federation's peers: registration and removal through the API while  *)
(* one goroutine checks their health. A peer is registered with an         *)
(* endpoint; registering it again may change that.                         *)
(***************************************************************************)
EXTENDS Integers, FiniteSets

CONSTANTS
    Peers,      \* stack ids
    Endpoints,  \* base URLs
    NoEndpoint,
    NoPeer,
    MaxChanges  \* bound: registrations, removals and outages

ASSUME PeerConstants ==
    /\ NoEndpoint \notin Endpoints /\ NoPeer \notin Peers /\ MaxChanges \in Nat
    /\ IsFiniteSet(Peers) /\ IsFiniteSet(Endpoints)

VARIABLES
    peers,    \* Registry.peers: each peer's endpoint
    health,   \* Registry.health: "none" (no entry), "unhealthy", "healthy"
    checker,  \* the health checker: the peers left of its snapshot, the one it asks
    up,       \* the endpoints that answer
    stopped,  \* is stopCh closed?
    changes

peerRegistryVars == <<peers, health, checker, up, stopped, changes>>

NoCheck == [peer |-> NoPeer, endpoint |-> NoEndpoint, ok |-> FALSE]
Waiting == [pc |-> "waiting", todo |-> {}, now |-> NoCheck]

RegistryInit ==
    /\ peers \in [Peers -> Endpoints \cup {NoEndpoint}]
    /\ health = [p \in Peers |-> "none"]
    /\ checker = [Waiting EXCEPT !.pc = "starting"] /\ up \in SUBSET Endpoints /\ stopped = FALSE /\ changes = 0

Registered == {p \in Peers : peers[p] # NoEndpoint}
HealthyPeers == {p \in Registered : health[p] = "healthy"}

-----------------------------------------------------------------------------
Change == changes < MaxChanges /\ changes' = changes + 1

\* AddPeer keeps what is known of the health of a peer it replaces.
AddPeer(p, url) ==
    /\ Change
    /\ peers' = [peers EXCEPT ![p] = url]
    /\ health' = [health EXCEPT ![p] = IF @ = "none" THEN "unhealthy" ELSE @]
    /\ UNCHANGED <<checker, up, stopped>>

RemovePeer(p) ==
    /\ Change /\ p \in Registered
    /\ peers' = [peers EXCEPT ![p] = NoEndpoint]
    /\ health' = [health EXCEPT ![p] = "none"]
    /\ UNCHANGED <<checker, up, stopped>>

\* An endpoint starts or stops answering.
Outage(url) ==
    /\ Change
    /\ up' = IF url \in up THEN up \ {url} ELSE up \cup {url}
    /\ UNCHANGED <<peers, health, checker, stopped>>

StopHealthChecks ==
    /\ Change /\ ~stopped
    /\ stopped' = TRUE
    /\ UNCHANGED <<peers, health, checker, up>>

-----------------------------------------------------------------------------
(* checkAllPeers: a snapshot under the read lock, then one peer at a time *)

Snapshot == {<<p, peers[p]>> : p \in Registered}

\* The first round, or a tick of the loop, which sees the stop channel only between
\* two rounds.
CheckAllPeers ==
    /\ checker.pc \in {"starting", "waiting"}
    /\ \/ checker' = [checker EXCEPT !.pc = "checking", !.todo = Snapshot]
       \/ stopped /\ checker.pc = "waiting" /\ checker' = [checker EXCEPT !.pc = "stopped"]
    /\ UNCHANGED <<peers, health, up, stopped, changes>>

\* The request to a peer's /health, at the endpoint of the snapshot.
AskPeer ==
    /\ checker.pc = "checking" /\ checker.now = NoCheck
    /\ IF checker.todo = {} THEN checker' = Waiting
       ELSE \E t \in checker.todo :
               checker' = [checker EXCEPT !.todo = @ \ {t},
                   !.now = [peer |-> t[1], endpoint |-> t[2], ok |-> t[2] \in up]]
    /\ UNCHANGED <<peers, health, up, stopped, changes>>

UpdateHealthKeepsFailure(h, ok) == IF h = "unhealthy" THEN h ELSE IF ok THEN "healthy" ELSE "unhealthy"

UpdateHealth(h, ok) == IF ok THEN "healthy" ELSE "unhealthy"

\* updateHealth: the entry is made if it is missing, the peer removed or not.
Answered ==
    /\ checker.now # NoCheck
    /\ health' = [health EXCEPT ![checker.now.peer] = UpdateHealth(@, checker.now.ok)]
    /\ checker' = [checker EXCEPT !.now = NoCheck]
    /\ UNCHANGED <<peers, up, stopped, changes>>

-----------------------------------------------------------------------------
RegistryNext ==
    \/ \E p \in Peers : RemovePeer(p) \/ \E url \in Endpoints : AddPeer(p, url)
    \/ \E url \in Endpoints : Outage(url)
    \/ StopHealthChecks \/ CheckAllPeers \/ AskPeer \/ Answered

RegistrySpec == RegistryInit /\ [][RegistryNext]_peerRegistryVars

\* The ticker fires and every check ends (its context times out after 5 seconds).
RegistryFairness == WF_peerRegistryVars(CheckAllPeers \/ AskPeer \/ Answered)

-----------------------------------------------------------------------------
(* Properties *)

\* Type invariant of the registry.
RegistryTypeOK ==
    /\ peers \in [Peers -> Endpoints \cup {NoEndpoint}]
    /\ health \in [Peers -> {"none", "unhealthy", "healthy"}]
    /\ checker.todo \subseteq Peers \X Endpoints
    /\ checker.now.peer \in Peers \cup {NoPeer}
    /\ up \subseteq Endpoints /\ stopped \in BOOLEAN /\ changes \in 0..MaxChanges

\* While the checks go on, HealthyPeers comes to be and stays exactly the registered
\* peers whose endpoints answer, whatever was registered, removed or out of service
\* while earlier checks were under way.
HealthConverges ==
    <>[](stopped \/ HealthyPeers = {p \in Registered : peers[p] \in up})
=============================================================================
