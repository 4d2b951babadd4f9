---------------------------- MODULE MCFederation ----------------------------
(***************************************************************************)
(* For TLC: what connects the processes of a deployment.  Forwarding,      *)
(* events ingested from peers, the peer registry and the notifications of  *)
(* the shared event log share no state, and focus says which of them       *)
(* moves.                                                                  *)
(***************************************************************************)
EXTENDS Forwarding, FederatedEvents, PeerRegistry, EventNotify, TLC

CONSTANTS a, b, d, a1, a2, a3, a0, b1, d1, s1, s2, l2, l3

\* Three runs: one with three events and one that has no sequence, two with one.
MCRunOf == a1 :> a @@ a2 :> a @@ a3 :> a @@ a0 :> a @@ b1 :> b @@ d1 :> d
MCSequenceOf == a1 :> 1 @@ a2 :> 2 @@ a3 :> 3 @@ a0 :> 0 @@ b1 :> 1 @@ d1 :> 1

\* One run of the shared log that is followed, and others that push it out of the
\* listener's memory.
MCEmitted == [r \in LogRuns |-> IF r \in Followed THEN 2 ELSE 1]

\* Two subscriptions, and the two runs nobody follows, are interchangeable: it is enough
\* to see one of each begin before the other.
FirstComesFirst ==
    /\ channel'[s2].state # "new" => channel'[s1].state # "new"
    /\ emitted'[l3] > 0 => emitted'[l2] > 0

VARIABLE focus

vars == <<forwardVars, fedEventVars, peerRegistryVars, notifyVars, focus>>

Init ==
    /\ focus \in {"forward", "events", "registry", "notify"}
    /\ ForwardInit /\ FedEventsInit /\ RegistryInit /\ NotifyInit
    /\ focus # "forward" => peerStore = "file"
    /\ focus # "registry" => up = {} /\ Registered = {}
    /\ focus # "events" => \A c \in Readers : reader[c].run = a

Next ==
    /\ UNCHANGED focus
    /\ IF focus = "forward" THEN ForwardNext ELSE UNCHANGED forwardVars
    /\ IF focus = "events" THEN FedEventsNext ELSE UNCHANGED fedEventVars
    /\ IF focus = "registry" THEN RegistryNext ELSE UNCHANGED peerRegistryVars
    /\ IF focus = "notify" THEN NotifyNext /\ FirstComesFirst ELSE UNCHANGED notifyVars

Spec == Init /\ [][Next]_vars /\ (focus = "registry" => RegistryFairness)

\* The types of the components, the caps of the forward index, its file and the
\* subscriptions, and the lists that evict by age in step with their maps.
FederationInBounds ==
    /\ ForwardTypeOK /\ IndexBounded /\ FedEventsTypeOK /\ OrderMatchesMap /\ RegistryTypeOK
    /\ NotifyTypeOK

\* Events of another process arrive in order and complete as far as was promised: those
\* a peer sends, and those of the shared log (eventStore.Ingest and ListFromSequence,
\* EventLogStore.StartListener and Subscribe).
RemoteEventsInOrder == EventsInOrder /\ SubscribersAreServed /\ SubscriptionsAddUp
=============================================================================
