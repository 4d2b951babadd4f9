---------------------------- MODULE MCRunSafety ----------------------------
(***************************************************************************)
(* For TLC: RunLifecycle with everything that can happen to it, and        *)
(* failing storage calls, within bounds on what happens together: clients  *)
(* use every operation while the process is up, without keys; they create  *)
(* runs with idempotency keys; the process is shut down, crashes and comes *)
(* back, with one request at a time.                                       *)
(***************************************************************************)
EXTENDS MCRunLifecycle

WithKeys == (\E p \in Procs : hs[p].key # NoKey) \/ \E r \in Runs : key[r] # NoKey
WithRestarts == phase # "up" \/ crashes > 0

OpsInUse == {hs[h].op : h \in Handlers}

\* Bound: what happens together.
Together ==
  /\ WithKeys => phase = "up" /\ OpsInUse \subseteq {"none", "create", "batch"}
  /\ WithRestarts => /\ Cardinality({h \in Handlers : hs[h].pc # "idle"}) <= 1
                     /\ OpsInUse \subseteq {"none", "create", "cancel"}

\* A step stays within it.
InScope == Together'
=============================================================================
