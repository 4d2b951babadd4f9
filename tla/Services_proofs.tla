-------------------------- MODULE Services_proofs ---------------------------
(***************************************************************************)
(* Proofs about two services around the runs: that a run forwarded to a    *)
(* peer is created once and stays in the forward index as long as the      *)
(* index promises, and that the jobs over a tenant's data miss nothing and *)
(* take nothing else while it is being written.  They share no state; each *)
(* has its inductive invariant, a lemma per step, and the theorems the     *)
(* invariant is for.                                                       *)
(***************************************************************************)
EXTENDS Forwarding, TenantData, SetFacts, TLAPS

-----------------------------------------------------------------------------
(* Forwarding *)

FwdPcs == {"idle", "sending", "backoff", "indexing", "answered", "failed", "aborted"}
FwdRecord == [pc : FwdPcs, attempt : 0..MaxForwardAttempts, run : 0..MaxForwardAttempts]

\* There is an attempt left for whoever is about to make one.
TriesLeft ==
    \A f \in Forwards : /\ fwd[f].pc = "idle" => fwd[f].attempt = 0
                        /\ fwd[f].pc = "backoff" => fwd[f].attempt < MaxForwardAttempts

\* A keyed forward has one run at the peer; with file stores that is so because, once
\* there is one, nobody is between the lookup and the creation.
OneCreation(f) ==
    (peerStore = "file" => f \notin overlap) =>
        /\ \A m, n \in peerRuns[f] : m = n
        /\ peerStore = "file" /\ peerRuns[f] # {} =>
              \A n \in Attempts : post[f][n] # "creating"

\* When an entry was made: by Set, or by the start that loaded it.
Stamp(f) == IF setAt[f] > bootAt THEN setAt[f] ELSE bootAt

StampsAreRight ==
    /\ bootAt < time
    /\ \A f \in Forwards : /\ setAt[f] < time
                           /\ setAt[f] # NoEntry <=> fwd[f].pc = "answered"
    /\ \A f, g \in Forwards : setAt[f] = setAt[g] /\ setAt[f] # NoEntry => f = g
    /\ \A f \in Forwards : index[f] # NoEntry => setAt[f] # NoEntry /\ index[f] = Stamp(f)
    /\ \A f \in file : setAt[f] # NoEntry
    /\ Indexed \ file \subseteq unsaved

CreationsAreOne == \A f \in Keyed : OneCreation(f)

ForwardInv ==
    /\ ForwardTypeOK /\ TriesLeft /\ CreationsAreOne
    /\ StampsAreRight /\ AnsweredIsIndexed /\ IndexBounded

\* The parts of the type invariant the steps need.
LEMMA ForwardTypes ==
    ASSUME ForwardTypeOK
    PROVE  /\ fwd \in [Forwards -> FwdRecord]
           /\ post \in [Forwards -> [Attempts -> {"none", "sent", "lost", "creating", "served"}]]
           /\ peerRuns \in [Forwards -> SUBSET Attempts]
           /\ index \in [Forwards -> Nat \cup {NoEntry}] /\ setAt \in [Forwards -> Nat \cup {NoEntry}]
           /\ file \subseteq Forwards /\ unsaved \subseteq Forwards /\ forgotten \subseteq Forwards
           /\ time \in Nat /\ bootAt \in Nat /\ restarts \in Nat
           /\ peerStore \in {"file", "postgres"} /\ overlap \subseteq Forwards
  BY DEF ForwardTypeOK, FwdRecord, FwdPcs

\* Who crowds an entry out: those set later, or all others for one a start has loaded.
Others(f) == {g \in Forwards \ {f} : setAt[g] # NoEntry}
Later(f) == {g \in Others(f) : setAt[g] > setAt[f]}
Crowded(f) ==
    Cardinality(IF setAt[f] > bootAt THEN Later(f) ELSE Others(f)) >= MaxForwardEntries
Excused(f) ==
    f \in Indexed \/ f \in forgotten \/ setAt[f] + EntryTTL < time \/ Crowded(f)

\* What the property says of the index, in terms of the above.
LEMMA AnsweredExcused ==
    AnsweredIsIndexed <=> \A f \in Forwards : fwd[f].pc = "answered" => Excused(f)
  BY DEF AnsweredIsIndexed, Excused, Crowded, Later, Others

\* A set of forwards is counted, and a larger one counts no less.
LEMMA ForwardsCounted ==
    ASSUME FiniteFacts, NEW S \in SUBSET Forwards
    PROVE  /\ IsFiniteSet(S) /\ Cardinality(S) \in Nat
           /\ \A R \in SUBSET S : Cardinality(R) \in Nat /\ Cardinality(R) <= Cardinality(S)
<1>1. IsFiniteSet(S)  BY ForwardConstants DEF FiniteFacts, SubsetFacts
<1>2. \A R \in SUBSET S : IsFiniteSet(R) /\ Cardinality(R) <= Cardinality(S)
  BY <1>1 DEF FiniteFacts, SubsetFacts
<1>. QED  BY <1>1, <1>2 DEF FiniteFacts, CardinalityFacts

\* Being crowded out lasts: entries are set once, and a start only adds to the others.
LEMMA CrowdStays ==
    ASSUME FiniteFacts, NEW f \in Forwards, Crowded(f),
           Later(f) \subseteq Later(f)', Others(f) \subseteq Others(f)',
           (setAt[f] > bootAt)' => setAt[f] > bootAt
    PROVE  Crowded(f)'
<1>. DEFINE S == IF setAt[f] > bootAt THEN Later(f) ELSE Others(f)
<1>1. S \subseteq S'  BY DEF Later
<1>2. S' \in SUBSET Forwards  BY DEF Later, Others
<1>3. Cardinality(S) <= Cardinality(S') /\ Cardinality(S) \in Nat /\ Cardinality(S') \in Nat
  <2>. HIDE DEF S
  <2>. QED  BY <1>1, <1>2, ForwardsCounted
<1>. QED  BY <1>3, ForwardConstants DEF Crowded

-----------------------------------------------------------------------------
\* A step of the Forwarder or of the peer does not touch the index.
LEMMA IndexFrame ==
    ASSUME ForwardInv, UNCHANGED <<bootVars, indexVars>>,
           \A f \in Forwards : fwd'[f].pc = "answered" <=> fwd[f].pc = "answered"
    PROVE  StampsAreRight' /\ AnsweredIsIndexed' /\ IndexBounded'
<1>. USE DEF bootVars, indexVars
<1>1. StampsAreRight'  BY DEF ForwardInv, StampsAreRight, Stamp, Indexed
<1>2. IndexBounded'  BY DEF ForwardInv, IndexBounded, Indexed
<1>3. AnsweredIsIndexed'
  BY DEF ForwardInv, AnsweredIsIndexed, Indexed
<1>. QED  BY <1>1, <1>2, <1>3

\* The answer of the peer changes the handler that still waits for it.
LEMMA ToldEffect ==
    ASSUME ForwardInv, NEW f \in Forwards, NEW n \in Attempts, NEW run \in 0..MaxForwardAttempts,
           NEW pc \in {"failed", "indexing", AfterFailure(f)}, Told(f, n, pc, run)
    PROVE  /\ fwd' \in [Forwards -> FwdRecord] /\ TriesLeft'
           /\ \A g \in Forwards : fwd'[g].pc = "answered" <=> fwd[g].pc = "answered"
<1>0. fwd \in [Forwards -> FwdRecord] /\ MaxForwardAttempts \in Nat
  BY ForwardTypes, ForwardConstants DEF ForwardInv
<1>1. CASE fwd' = fwd  BY <1>1, <1>0 DEF ForwardInv, TriesLeft
<1>2. CASE Hears(f, n) /\ fwd' = [fwd EXCEPT ![f].pc = pc, ![f].run = run]
  <2>1. /\ pc \in {"failed", "indexing", "backoff"}
        /\ pc = "backoff" => fwd[f].attempt < MaxForwardAttempts
    BY DEF AfterFailure
  <2>2. [fwd[f] EXCEPT !.pc = pc, !.run = run] \in FwdRecord
    BY <2>1, <1>0, Zenon DEF FwdRecord, FwdPcs
  <2>3. fwd' = [fwd EXCEPT ![f] = [fwd[f] EXCEPT !.pc = pc, !.run = run]]
    BY <1>0, <1>2, Zenon
  <2>4. fwd' \in [Forwards -> FwdRecord]  BY <2>2, <2>3, <1>0, Zenon
  <2>5. /\ \A g \in Forwards \ {f} : fwd'[g] = fwd[g]
        /\ fwd'[f].pc = pc /\ fwd'[f].attempt = fwd[f].attempt
    BY <2>3, <1>0 DEF FwdRecord
  <2>6. fwd[f].pc = "sending"  BY <1>2 DEF Hears
  <2>7. TriesLeft'  BY <2>1, <2>5 DEF ForwardInv, TriesLeft
  <2>. QED  BY <2>1, <2>4, <2>5, <2>6, <2>7
<1>. QED  BY <1>1, <1>2 DEF Told

\* Requests may get lost or be served, as long as no further one creates.
LEMMA NoCreation ==
    ASSUME CreationsAreOne, UNCHANGED <<peerRuns, overlap, peerStore>>,
           \A f \in Forwards, n \in Attempts : post'[f][n] = "creating" => post[f][n] = "creating"
    PROVE  CreationsAreOne'
  BY ForwardConstants DEF CreationsAreOne, OneCreation

\* Send takes one of the attempts that are left.
LEMMA SendKeeps ==
    ASSUME ForwardInv, NEW f \in Forwards, SendAttempt(f) PROVE ForwardInv'
<1>0. /\ fwd \in [Forwards -> FwdRecord]
      /\ post \in [Forwards -> [Attempts -> {"none", "sent", "lost", "creating", "served"}]]
      /\ MaxForwardAttempts \in Nat \ {0}
  BY ForwardTypes, ForwardConstants DEF ForwardInv
<1>1. fwd[f].attempt \in 0..MaxForwardAttempts - 1
  BY <1>0 DEF SendAttempt, ForwardInv, TriesLeft, FwdRecord
<1>2. fwd' = [fwd EXCEPT ![f] = [fwd[f] EXCEPT !.pc = "sending", !.attempt = fwd[f].attempt + 1]]
  BY <1>0, Zenon DEF SendAttempt
<1>3. fwd' \in [Forwards -> FwdRecord]
  <2>1. [fwd[f] EXCEPT !.pc = "sending", !.attempt = fwd[f].attempt + 1] \in FwdRecord
    <3>1. fwd[f].attempt + 1 \in 0..MaxForwardAttempts  BY <1>0, <1>1
    <3>. QED  BY <1>0, <3>1, Zenon DEF FwdRecord, FwdPcs
  <2>. QED  BY <2>1, <1>0, <1>2, Zenon
<1>4. /\ \A g \in Forwards \ {f} : fwd'[g] = fwd[g]
      /\ fwd'[f].pc = "sending" /\ fwd[f].pc \in {"idle", "backoff"}
  BY <1>0, <1>2 DEF SendAttempt, FwdRecord
<1>5. /\ post' \in [Forwards -> [Attempts -> {"none", "sent", "lost", "creating", "served"}]]
      /\ \A g \in Forwards, n \in Attempts : post'[g][n] = "creating" => post[g][n] = "creating"
  BY <1>0, <1>1 DEF SendAttempt, Attempts
<1>6. UNCHANGED <<peerRuns, overlap, peerStore, bootVars, indexVars>>  BY DEF SendAttempt
<1>7. ForwardTypeOK'
  BY <1>3, <1>5, <1>6 DEF ForwardInv, ForwardTypeOK, FwdRecord, FwdPcs, bootVars, indexVars
<1>8. TriesLeft'  BY <1>4 DEF ForwardInv, TriesLeft
<1>9. CreationsAreOne'  BY <1>5, <1>6, NoCreation DEF ForwardInv
<1>10. StampsAreRight' /\ AnsweredIsIndexed' /\ IndexBounded'  BY <1>4, <1>6, IndexFrame
<1>. QED  BY <1>7, <1>8, <1>9, <1>10 DEF ForwardInv

\* An attempt that fails is lost or still on its way to the peer.
LEMMA AttemptFailsKeeps ==
    ASSUME ForwardInv, NEW f \in Forwards, AttemptFails(f) PROVE ForwardInv'
<1>0. /\ fwd \in [Forwards -> FwdRecord]
      /\ post \in [Forwards -> [Attempts -> {"none", "sent", "lost", "creating", "served"}]]
      /\ MaxForwardAttempts \in Nat \ {0}
  BY ForwardTypes, ForwardConstants DEF ForwardInv
<1>1. /\ AfterFailure(f) \in {"backoff", "failed"}
      /\ AfterFailure(f) = "backoff" => fwd[f].attempt < MaxForwardAttempts
  BY DEF AfterFailure
<1>2. fwd' = [fwd EXCEPT ![f] = [fwd[f] EXCEPT !.pc = AfterFailure(f)]]
  BY <1>0 DEF AttemptFails
<1>3. fwd' \in [Forwards -> FwdRecord]
  <2>1. [fwd[f] EXCEPT !.pc = AfterFailure(f)] \in FwdRecord
    BY <1>0, <1>1 DEF FwdRecord, FwdPcs
  <2>. QED  BY <2>1, <1>0, <1>2, Zenon
<1>4. /\ \A g \in Forwards \ {f} : fwd'[g] = fwd[g]
      /\ fwd'[f].pc = AfterFailure(f) /\ fwd'[f].attempt = fwd[f].attempt /\ fwd[f].pc = "sending"
  BY <1>0, <1>2 DEF AttemptFails, FwdRecord
<1>5. /\ post' \in [Forwards -> [Attempts -> {"none", "sent", "lost", "creating", "served"}]]
      /\ \A g \in Forwards, n \in Attempts : post'[g][n] = "creating" => post[g][n] = "creating"
  <2>. DEFINE n == fwd[f].attempt
              s == IF post[f][n] = "sent" THEN "lost" ELSE post[f][n]
  <2>1. post' = post \/ post' = [post EXCEPT ![f] = [post[f] EXCEPT ![n] = s]]
    BY <1>0 DEF AttemptFails
  <2>2. n \in Attempts => s \in {"none", "sent", "lost", "creating", "served"}  BY <1>0
  <2>3. s = "creating" => post[f][n] = "creating"  OBVIOUS
  <2>. HIDE DEF n, s
  <2>. QED  BY <1>0, <2>1, <2>2, <2>3
<1>6. UNCHANGED <<peerRuns, overlap, peerStore, bootVars, indexVars>>  BY DEF AttemptFails
<1>7. ForwardTypeOK'
  BY <1>3, <1>5, <1>6 DEF ForwardInv, ForwardTypeOK, FwdRecord, FwdPcs, bootVars, indexVars
<1>8. TriesLeft'  BY <1>1, <1>4 DEF ForwardInv, TriesLeft
<1>9. CreationsAreOne'  BY <1>5, <1>6, NoCreation DEF ForwardInv
<1>10. StampsAreRight' /\ AnsweredIsIndexed' /\ IndexBounded'  BY <1>1, <1>4, <1>6, IndexFrame
<1>. QED  BY <1>7, <1>8, <1>9, <1>10 DEF ForwardInv

\* What one request's new state leaves of the others.
LEMMA PostUpdate ==
    ASSUME ForwardInv, NEW f \in Forwards, NEW n \in Attempts, NEW s \in {"creating", "served"},
           post' = [post EXCEPT ![f][n] = s]
    PROVE  /\ post' \in [Forwards -> [Attempts -> {"none", "sent", "lost", "creating", "served"}]]
           /\ \A g \in Forwards, m \in Attempts :
                 post'[g][m] = IF g = f /\ m = n THEN s ELSE post[g][m]
<1>1. post \in [Forwards -> [Attempts -> {"none", "sent", "lost", "creating", "served"}]]
  BY ForwardTypes DEF ForwardInv
<1>. QED  BY <1>1

\* The request is served: no other one changes, and none begins to create.
Served(f, n) ==
    /\ post' \in [Forwards -> [Attempts -> {"none", "sent", "lost", "creating", "served"}]]
    /\ \A g \in Forwards, m \in Attempts :
          post'[g][m] = IF g = f /\ m = n THEN "served" ELSE post[g][m]
    /\ \A g \in Forwards, m \in Attempts : post'[g][m] = "creating" => post[g][m] = "creating"

\* That is what the assignment does.
LEMMA PostServed ==
    ASSUME ForwardInv, NEW f \in Forwards, NEW n \in Attempts,
           post' = [post EXCEPT ![f][n] = "served"]
    PROVE  Served(f, n)
<1>1. post \in [Forwards -> [Attempts -> {"none", "sent", "lost", "creating", "served"}]]
  BY ForwardTypes DEF ForwardInv
<1>2. /\ post' \in [Forwards -> [Attempts -> {"none", "sent", "lost", "creating", "served"}]]
      /\ \A g \in Forwards, m \in Attempts :
            post'[g][m] = IF g = f /\ m = n THEN "served" ELSE post[g][m]
  BY <1>1
<1>. QED  BY <1>2 DEF Served

\* A request the peer answers without creating anything.
LEMMA AnswerKeeps ==
    ASSUME ForwardInv, NEW f \in Forwards, NEW n \in Attempts, NEW run \in 0..MaxForwardAttempts,
           NEW pc \in {"failed", "indexing", AfterFailure(f)}, Told(f, n, pc, run),
           post' = [post EXCEPT ![f][n] = "served"],
           UNCHANGED <<peerRuns, overlap, peerStore, bootVars, indexVars>>
    PROVE  ForwardInv'
<1>1. /\ fwd' \in [Forwards -> FwdRecord] /\ TriesLeft'
      /\ \A g \in Forwards : fwd'[g].pc = "answered" <=> fwd[g].pc = "answered"
  BY ToldEffect
<1>2. /\ post' \in [Forwards -> [Attempts -> {"none", "sent", "lost", "creating", "served"}]]
      /\ \A g \in Forwards, m \in Attempts : post'[g][m] = "creating" => post[g][m] = "creating"
  <2>1. Served(f, n)  BY PostServed, Zenon
  <2>. QED  BY <2>1 DEF Served
<1>3. ForwardTypeOK'
  BY <1>1, <1>2 DEF ForwardInv, ForwardTypeOK, FwdRecord, FwdPcs, bootVars, indexVars
<1>4. CreationsAreOne'  BY <1>2, NoCreation DEF ForwardInv
<1>5. StampsAreRight' /\ AnsweredIsIndexed' /\ IndexBounded'  BY <1>1, IndexFrame
<1>. QED  BY <1>1, <1>3, <1>4, <1>5 DEF ForwardInv

\* The peer refuses, and has created nothing.
LEMMA PeerRefusesKeeps ==
    ASSUME ForwardInv, NEW f \in Forwards, NEW n \in Attempts, PeerRefuses(f, n) PROVE ForwardInv'
<1>1. PICK pc \in {"failed", AfterFailure(f)} : Told(f, n, pc, NoAttempt)  BY DEF PeerRefuses
<1>2. NoAttempt \in 0..MaxForwardAttempts  BY ForwardConstants DEF NoAttempt
<1>. QED  BY <1>1, <1>2, AnswerKeeps, Zenon DEF PeerRefuses

\* The peer looks the key up: the run it finds is the answer, else it goes on to create.
LEMMA PeerLooksUpKeeps ==
    ASSUME ForwardInv, NEW f \in Forwards, NEW n \in Attempts, PeerLooksUp(f, n) PROVE ForwardInv'
<1>0. peerRuns \in [Forwards -> SUBSET Attempts]  BY ForwardTypes DEF ForwardInv
<1>1. CASE post' = [post EXCEPT ![f][n] = "served"] /\ \E run \in peerRuns[f] : Told(f, n, "indexing", run)
  <2>1. PICK run \in peerRuns[f] : Told(f, n, "indexing", run)  BY <1>1
  <2>2. run \in 0..MaxForwardAttempts  BY <1>0, ForwardConstants DEF Attempts
  <2>. QED  BY <1>1, <2>1, <2>2, AnswerKeeps, Zenon DEF PeerLooksUp
<1>2. CASE /\ ~HasKey(f) \/ peerRuns[f] = {} \/ peerStore = "postgres"
           /\ post' = [post EXCEPT ![f][n] = "creating"] /\ UNCHANGED fwd
  <2>0. UNCHANGED <<peerRuns, overlap, peerStore, bootVars, indexVars>>  BY DEF PeerLooksUp
  <2>1. /\ post' \in [Forwards -> [Attempts -> {"none", "sent", "lost", "creating", "served"}]]
        /\ \A g \in Forwards \ {f}, m \in Attempts : post'[g][m] = post[g][m]
    BY <1>2, PostUpdate, Zenon
  <2>2. ForwardTypeOK'
    BY <1>2, <2>0, <2>1 DEF ForwardInv, ForwardTypeOK, bootVars, indexVars
  <2>3. TriesLeft'  BY <1>2 DEF ForwardInv, TriesLeft
  <2>4. CreationsAreOne'
    BY <1>2, <2>0, <2>1, ForwardConstants DEF ForwardInv, CreationsAreOne, OneCreation, HasKey
  <2>5. StampsAreRight' /\ AnsweredIsIndexed' /\ IndexBounded'  BY <1>2, <2>0, IndexFrame
  <2>. QED  BY <2>2, <2>3, <2>4, <2>5 DEF ForwardInv
<1>. QED  BY <1>1, <1>2 DEF PeerLooksUp

\* The peer creates the run: a store that looks again does so only for the first of a key.
LEMMA PeerCreatesKeeps ==
    ASSUME ForwardInv, NEW f \in Forwards, NEW n \in Attempts, PeerCreates(f, n) PROVE ForwardInv'
<1>0. NoAttempt \in 0..MaxForwardAttempts /\ n \in 0..MaxForwardAttempts
  BY ForwardConstants DEF NoAttempt, Attempts
<1>1. post[f][n] = "creating" /\ post' = [post EXCEPT ![f][n] = "served"]  BY DEF PeerCreates
<1>2. /\ post' \in [Forwards -> [Attempts -> {"none", "sent", "lost", "creating", "served"}]]
      /\ \A g \in Forwards, m \in Attempts :
            post'[g][m] = IF g = f /\ m = n THEN "served" ELSE post[g][m]
  <2>1. Served(f, n)  BY <1>1, PostServed, Zenon
  <2>. QED  BY <2>1 DEF Served
<1>3. CASE Told(f, n, AfterFailure(f), NoAttempt) /\ UNCHANGED <<peerRuns, overlap>>
  BY <1>0, <1>3, AnswerKeeps, Zenon DEF PeerCreates
<1>4. CASE /\ ~KeyTaken(f)
           /\ peerRuns' = [peerRuns EXCEPT ![f] = @ \cup {n}]
           /\ overlap' = IF \E m \in Attempts \ {n} : post[f][m] = "creating"
                         THEN overlap \cup {f} ELSE overlap
           /\ \/ Told(f, n, "indexing", n)
              \/ peerStore = "file" /\ Told(f, n, AfterFailure(f), NoAttempt)
              \/ Told(f, n, "failed", NoAttempt)
  <2>0. /\ post[f][n] = "creating" /\ post' = [post EXCEPT ![f][n] = "served"]
        /\ UNCHANGED <<peerStore, bootVars, indexVars>>
        /\ peerRuns \in [Forwards -> SUBSET Attempts] /\ overlap \subseteq Forwards
        /\ peerStore \in {"file", "postgres"}
    BY ForwardTypes DEF PeerCreates, ForwardInv
  <2>1. /\ fwd' \in [Forwards -> FwdRecord] /\ TriesLeft'
        /\ \A g \in Forwards : fwd'[g].pc = "answered" <=> fwd[g].pc = "answered"
    BY <1>0, <1>4, ToldEffect
  <2>3. /\ peerRuns' \in [Forwards -> SUBSET Attempts] /\ overlap' \subseteq Forwards
        /\ peerRuns'[f] = peerRuns[f] \cup {n}
        /\ \A g \in Forwards \ {f} : peerRuns'[g] = peerRuns[g]
        /\ overlap \subseteq overlap' /\ overlap' \subseteq overlap \cup {f}
        /\ f \notin overlap' => \A m \in Attempts \ {n} : post[f][m] # "creating"
    BY <1>4, <2>0
  <2>4. ForwardTypeOK'
    BY <2>0, <2>1, <1>2, <2>3 DEF ForwardInv, ForwardTypeOK, FwdRecord, FwdPcs, bootVars, indexVars
  <2>5. ASSUME NEW g \in Keyed PROVE OneCreation(g)'
    <3>1. OneCreation(g) /\ g \in Forwards
      BY ForwardConstants DEF ForwardInv, CreationsAreOne
    <3>2. CASE g # f  BY <2>0, <1>2, <2>3, <3>1, <3>2 DEF OneCreation
    <3>3. CASE g = f
      <4>. SUFFICES ASSUME peerStore = "file" => f \notin overlap'
                    PROVE  /\ \A k, m \in peerRuns'[f] : k = m
                           /\ peerStore = "file" => \A m \in Attempts : post'[f][m] # "creating"
        BY <2>0, <3>3 DEF OneCreation
      <4>1. peerRuns[f] = {}
        BY <1>4, <2>0, <2>3, <3>1, <3>3 DEF OneCreation, KeyTaken, HasKey
      <4>. QED  BY <1>2, <4>1, <2>3
    <3>. QED  BY <3>2, <3>3
  <2>6. CreationsAreOne'  BY <2>5 DEF CreationsAreOne
  <2>7. StampsAreRight' /\ AnsweredIsIndexed' /\ IndexBounded'  BY <2>0, <2>1, IndexFrame
  <2>. QED  BY <2>1, <2>4, <2>6, <2>7 DEF ForwardInv
<1>. QED  BY <1>3, <1>4 DEF PeerCreates

-----------------------------------------------------------------------------
Entries(e) == {f \in Forwards : e[f] # NoEntry}

\* evictOldestLocked leaves the map within its cap, and whom it drops all others in the
\* map are as old as.
LEMMA Eviction ==
    ASSUME FiniteFacts, NEW e \in [Forwards -> Nat \cup {NoEntry}], NEW gone \in Evicted(e),
           Cardinality(Entries(e)) <= MaxForwardEntries + 1
    PROVE  /\ Without(e, gone) \in [Forwards -> Nat \cup {NoEntry}]
           /\ Cardinality(Entries(Without(e, gone))) <= MaxForwardEntries
           /\ \A f \in Forwards : Without(e, gone)[f] \in {e[f], NoEntry}
           /\ \A f \in Forwards : e[f] # NoEntry /\ Without(e, gone)[f] = NoEntry =>
                 /\ \A g \in Forwards : e[g] # NoEntry => e[f] <= e[g]
                 /\ Cardinality(Entries(e) \ {f}) >= MaxForwardEntries
<1>0. /\ IsFiniteSet(Entries(e)) /\ Cardinality(Entries(e)) \in Nat /\ MaxForwardEntries \in Nat
  BY ForwardsCounted, ForwardConstants DEF Entries
<1>1. /\ Without(e, gone) \in [Forwards -> Nat \cup {NoEntry}]
      /\ \A f \in Forwards : Without(e, gone)[f] \in {e[f], NoEntry}
  BY DEF Without
<1>2. CASE Cardinality(Entries(e)) <= MaxForwardEntries
  <2>1. gone = {}  BY <1>0, <1>2 DEF Evicted, Entries
  <2>2. Without(e, gone) = e  BY <2>1 DEF Without
  <2>. QED  BY <1>1, <1>2, <2>2
<1>3. CASE Cardinality(Entries(e)) > MaxForwardEntries
  <2>1. PICK x \in Oldest(e) : gone = {x}  BY <1>3 DEF Evicted, Entries
  <2>2. x \in Entries(e) /\ \A g \in Forwards : e[g] # NoEntry => e[x] <= e[g]
    BY DEF Oldest, Entries
  <2>3. Entries(Without(e, gone)) = Entries(e) \ {x}  BY <2>1 DEF Without, Entries
  <2>4. Cardinality(Entries(e) \ {x}) = Cardinality(Entries(e)) - 1
    BY <1>0, <2>2, Zenon DEF FiniteFacts, RemoveFacts
  <2>5. \A f \in Forwards : e[f] # NoEntry /\ Without(e, gone)[f] = NoEntry => f = x
    BY <2>1 DEF Without
  <2>6. Cardinality(Entries(Without(e, gone))) <= MaxForwardEntries
        /\ Cardinality(Entries(e) \ {x}) >= MaxForwardEntries
    BY <1>0, <1>3, <2>3, <2>4
  <2>. QED  BY <1>1, <2>2, <2>5, <2>6
<1>4. Cardinality(Entries(e)) <= MaxForwardEntries \/ Cardinality(Entries(e)) > MaxForwardEntries
  BY <1>0
<1>. QED  BY <1>2, <1>3, <1>4, Zenon

\* Set keeps the index in order: its own entry is the newest, and what it drops has
\* expired or has given way to as many others as fit.
LEMMA IndexSetKeeps ==
    ASSUME FiniteFacts, ForwardInv, NEW f \in Forwards, IndexSet(f) PROVE ForwardInv'
<1>0. /\ fwd \in [Forwards -> FwdRecord] /\ file \subseteq Forwards
      /\ index \in [Forwards -> Nat \cup {NoEntry}] /\ setAt \in [Forwards -> Nat \cup {NoEntry}]
      /\ time \in Nat /\ bootAt \in Nat /\ EntryTTL \in Nat /\ MaxForwardEntries \in Nat
  BY ForwardTypes, ForwardConstants DEF ForwardInv
<1>1. PICK sweep \in BOOLEAN :
         LET added == [index EXCEPT ![f] = time]
             swept == IF sweep THEN Without(added, Expired(added)) ELSE added
         IN \E gone \in Evicted(swept) :
               index' = Without(swept, gone) /\ Persist(Without(swept, gone))
  BY DEF IndexSet
<1>. DEFINE added == [index EXCEPT ![f] = time]
            swept == IF sweep THEN Without(added, Expired(added)) ELSE added
<1>2. PICK gone \in Evicted(swept) : index' = Without(swept, gone) /\ Persist(Without(swept, gone))
  BY <1>1
<1>3. /\ fwd[f].pc = "indexing" /\ time' = time + 1 /\ setAt' = [setAt EXCEPT ![f] = time]
      /\ fwd' = [fwd EXCEPT ![f] = [fwd[f] EXCEPT !.pc = "answered"]]
      /\ UNCHANGED <<peerVars, bootVars>>
  BY <1>0 DEF IndexSet
<1>4. /\ fwd' \in [Forwards -> FwdRecord]
      /\ fwd'[f].pc = "answered" /\ \A g \in Forwards \ {f} : fwd'[g] = fwd[g]
  <2>1. [fwd[f] EXCEPT !.pc = "answered"] \in FwdRecord  BY <1>0 DEF FwdRecord, FwdPcs
  <2>2. fwd' \in [Forwards -> FwdRecord]  BY <2>1, <1>0, <1>3, Zenon
  <2>. QED  BY <2>2, <1>0, <1>3 DEF FwdRecord
<1>5. /\ setAt' \in [Forwards -> Nat \cup {NoEntry}] /\ setAt'[f] = time /\ setAt[f] = NoEntry
      /\ \A g \in Forwards \ {f} : setAt'[g] = setAt[g]
      /\ bootAt < time /\ \A g \in Forwards : setAt[g] < time
  BY <1>0, <1>3 DEF ForwardInv, StampsAreRight
<1>6. /\ added \in [Forwards -> Nat \cup {NoEntry}]
      /\ \A g \in Entries(added) : setAt'[g] # NoEntry /\ added[g] = Stamp(g)'
      /\ Entries(added) \subseteq Indexed \cup {f}
  BY <1>0, <1>3, <1>5 DEF ForwardInv, StampsAreRight, Stamp, Entries, Indexed, NoEntry, bootVars
<1>7. Cardinality(Entries(added)) <= MaxForwardEntries + 1
  <2>1. IsFiniteSet(Indexed) /\ Cardinality(Indexed) \in Nat  BY ForwardsCounted DEF Indexed
  <2>2. /\ Cardinality(Indexed \cup {f}) \in {Cardinality(Indexed), Cardinality(Indexed) + 1}
    BY <2>1 DEF FiniteFacts, AddFacts
  <2>3. Indexed \cup {f} \in SUBSET Forwards  BY DEF Indexed
  <2>4. Cardinality(Entries(added)) <= Cardinality(Indexed \cup {f})
        /\ Cardinality(Entries(added)) \in Nat
    <3>1. Entries(added) \in SUBSET (Indexed \cup {f})  BY <1>6, Zenon
    <3>. HIDE DEF added
    <3>. QED  BY <2>3, <3>1, ForwardsCounted
  <2>5. Cardinality(Indexed) <= MaxForwardEntries  BY DEF ForwardInv, IndexBounded
  <2>. QED  BY <1>0, <2>1, <2>2, <2>4, <2>5
<1>8. /\ swept \in [Forwards -> Nat \cup {NoEntry}]
      /\ \A g \in Forwards : swept[g] \in {added[g], NoEntry}
      /\ \A g \in Forwards : added[g] # NoEntry /\ swept[g] = NoEntry => added[g] + EntryTTL < time
  <2>. HIDE DEF added
  <2>. QED  BY <1>6 DEF Without, Expired
<1>. HIDE DEF added, swept
<1>9. Entries(swept) \subseteq Entries(added)  BY <1>8 DEF Entries
<1>10. Cardinality(Entries(swept)) <= MaxForwardEntries + 1
  <2>1. Entries(added) \in SUBSET Forwards  BY DEF Entries
  <2>2. Cardinality(Entries(swept)) <= Cardinality(Entries(added)) /\ Cardinality(Entries(added)) \in Nat
        /\ Cardinality(Entries(swept)) \in Nat
    BY <1>9, <2>1, ForwardsCounted
  <2>. QED  BY <1>0, <1>7, <2>2
<1>11. /\ index' \in [Forwards -> Nat \cup {NoEntry}]
       /\ Cardinality(Entries(index')) <= MaxForwardEntries
       /\ \A g \in Forwards : index'[g] \in {swept[g], NoEntry}
       /\ \A g \in Forwards : swept[g] # NoEntry /\ index'[g] = NoEntry =>
             /\ \A h \in Forwards : swept[h] # NoEntry => swept[g] <= swept[h]
             /\ Cardinality(Entries(swept) \ {g}) >= MaxForwardEntries
  BY <1>2, <1>8, <1>10, Eviction
<1>12. /\ Entries(index') \subseteq Entries(added)
       /\ \A g \in Entries(index') : index'[g] = added[g]
  BY <1>8, <1>11 DEF Entries
<1>13. /\ Entries(index') = Indexed'
       /\ \/ file' = Indexed' /\ unsaved' = {}
          \/ file' = file /\ unsaved' = Indexed' \ file
  BY <1>2 DEF Entries, Indexed, Persist
<1>14. ForwardTypeOK'
  <2>1. file' \subseteq Forwards /\ unsaved' \subseteq Forwards
    BY <1>0, <1>13 DEF Indexed
  <2>. QED
    BY <1>0, <1>3, <1>4, <1>5, <1>11, <2>1
       DEF ForwardInv, ForwardTypeOK, FwdRecord, FwdPcs, peerVars, bootVars
<1>15. TriesLeft'  BY <1>4 DEF ForwardInv, TriesLeft
<1>16. CreationsAreOne'  BY <1>3, NoCreation DEF ForwardInv, peerVars
<1>17. StampsAreRight'
  <2>1. bootAt' = bootAt /\ bootAt' < time'  BY <1>0, <1>3, <1>5 DEF bootVars
  <2>2. \A g \in Forwards : /\ setAt'[g] < time'
                            /\ setAt'[g] # NoEntry <=> fwd'[g].pc = "answered"
    BY <1>0, <1>3, <1>4, <1>5 DEF ForwardInv, StampsAreRight, NoEntry
  <2>3. \A g, h \in Forwards : setAt'[g] = setAt'[h] /\ setAt'[g] # NoEntry => g = h
    BY <1>0, <1>5, SMTT(30) DEF ForwardInv, StampsAreRight
  <2>4. \A g \in Forwards : index'[g] # NoEntry => setAt'[g] # NoEntry /\ index'[g] = Stamp(g)'
    BY <1>6, <1>12, SMTT(30) DEF Entries
  <2>5. \A g \in file' : setAt'[g] # NoEntry
    <3>1. \A g \in file : setAt'[g] # NoEntry
      BY <1>0, <1>5 DEF ForwardInv, StampsAreRight
    <3>. QED  BY <3>1, <2>4, <1>13 DEF Indexed
  <2>6. Indexed' \ file' \subseteq unsaved'  BY <1>13
  <2>. QED  BY <2>1, <2>2, <2>3, <2>4, <2>5, <2>6 DEF StampsAreRight
<1>18. ASSUME NEW g \in Forwards, fwd'[g].pc = "answered" PROVE Excused(g)'
  <2>0. setAt'[g] # NoEntry /\ setAt'[g] \in Nat
    BY <1>5, <1>18, <1>17 DEF StampsAreRight
  <2>1. CASE g \in Indexed'  BY <2>1 DEF Excused
  <2>2. CASE added[g] # NoEntry /\ swept[g] = NoEntry
    <3>1. added[g] + EntryTTL < time /\ added[g] = Stamp(g)'
      BY <2>2, <1>6, <1>8 DEF Entries
    <3>2. Stamp(g)' \in Nat /\ Stamp(g)' >= setAt'[g]
      BY <1>0, <1>3, <2>0 DEF Stamp, bootVars
    <3>3. setAt'[g] + EntryTTL < time'  BY <3>1, <3>2, <2>0, <1>0, <1>3
    <3>. QED  BY <3>3 DEF Excused
  <2>3. CASE swept[g] # NoEntry /\ g \notin Indexed'
    <3>. DEFINE S == Entries(swept) \ {g}
    <3>1. index'[g] = NoEntry  BY <2>3 DEF Indexed
    <3>2. /\ \A h \in Forwards : swept[h] # NoEntry => swept[g] <= swept[h]
          /\ Cardinality(S) >= MaxForwardEntries
      BY <2>3, <3>1, <1>11
    <3>3. \A h \in Entries(swept) : setAt'[h] # NoEntry /\ swept[h] = Stamp(h)'
      BY <1>6, <1>8, <1>9, SMTT(30) DEF Entries
    <3>4. S \subseteq Others(g)'  BY <3>3 DEF Others, Entries
    <3>5. ASSUME setAt'[g] > bootAt' PROVE S \subseteq Later(g)'
      <4>1. ASSUME NEW h \in S PROVE setAt'[h] > setAt'[g]
        <5>1. h \in Forwards /\ h # g /\ h \in Entries(swept) /\ g \in Entries(swept)
          BY <2>3 DEF Entries
        <5>2. Stamp(g)' <= Stamp(h)' /\ setAt'[h] \in Nat /\ bootAt' \in Nat
          BY <5>1, <3>2, <3>3, <1>0, <1>3, <1>5 DEF Entries, bootVars
        <5>3. setAt'[h] >= setAt'[g]  BY <5>2, <3>5, <2>0, SMTT(30) DEF Stamp
        <5>4. setAt'[h] # setAt'[g]  BY <5>1, <2>0, <1>17 DEF StampsAreRight
        <5>. QED  BY <5>2, <5>3, <5>4, <2>0
      <4>. QED  BY <4>1, <3>4 DEF Later
    <3>. DEFINE T == IF setAt'[g] > bootAt' THEN Later(g)' ELSE Others(g)'
    <3>6. S \subseteq T /\ T \in SUBSET Forwards  BY <3>4, <3>5 DEF Later, Others
    <3>7. Cardinality(S) <= Cardinality(T) /\ Cardinality(S) \in Nat /\ Cardinality(T) \in Nat
      <4>. HIDE DEF S, T
      <4>. QED  BY <3>6, ForwardsCounted
    <3>8. Cardinality(T) >= MaxForwardEntries
      <4>. HIDE DEF S, T
      <4>. QED  BY <3>2, <3>7, <1>0
    <3>9. Crowded(g)'  BY <3>8 DEF Crowded
    <3>. QED  BY <3>9 DEF Excused
  <2>4. CASE added[g] = NoEntry
    <3>1. g # f /\ g \notin Indexed
      BY <2>4, <1>0 DEF added, Indexed, NoEntry
    <3>2. fwd[g].pc = "answered"  BY <1>4, <1>18, <3>1
    <3>3. g \in forgotten \/ setAt[g] + EntryTTL < time \/ Crowded(g)
      BY <3>1, <3>2, AnsweredExcused DEF ForwardInv, Excused
    <3>4. CASE g \in forgotten  BY <3>4, <1>3 DEF Excused, bootVars
    <3>5. CASE setAt[g] + EntryTTL < time
      <4>1. setAt'[g] + EntryTTL < time'  BY <3>1, <3>5, <1>0, <1>3, <1>5 DEF NoEntry
      <4>. QED  BY <4>1 DEF Excused
    <3>6. CASE Crowded(g)
      <4>1. Others(g) \subseteq Others(g)'  BY <1>5, <2>0 DEF Others
      <4>2. Later(g) \subseteq Later(g)'  BY <1>5, <3>1, <4>1 DEF Later, Others
      <4>3. (setAt[g] > bootAt)' => setAt[g] > bootAt  BY <1>3, <1>5, <3>1, SMTT(30) DEF bootVars
      <4>4. Crowded(g)'  BY <3>6, <4>1, <4>2, <4>3, CrowdStays, SMTT(30)
      <4>. QED  BY <4>4 DEF Excused
    <3>. QED  BY <3>3, <3>4, <3>5, <3>6
  <2>. QED  BY <2>1, <2>2, <2>3, <2>4
<1>19. AnsweredIsIndexed'
  <2>1. (\A g \in Forwards : fwd[g].pc = "answered" => Excused(g))'  BY <1>18
  <2>. QED  BY <2>1 DEF AnsweredIsIndexed, Excused, Crowded, Later, Others
<1>20. IndexBounded'
  BY <1>11, <1>13 DEF ForwardInv, IndexBounded
<1>. QED  BY <1>14, <1>15, <1>16, <1>17, <1>19, <1>20 DEF ForwardInv

\* As time passes entries only get older.
LEMMA ForwardTickKeeps ==
    ASSUME ForwardInv, ForwardTick PROVE ForwardInv'
<1>. USE DEF ForwardTick, peerVars, bootVars
<1>0. /\ time \in Nat /\ EntryTTL \in Nat /\ setAt \in [Forwards -> Nat \cup {NoEntry}]
      /\ bootAt < time /\ \A f \in Forwards : setAt[f] < time
  BY ForwardTypes, ForwardConstants DEF ForwardInv, StampsAreRight
<1>1. ForwardTypeOK' /\ TriesLeft'  BY <1>0 DEF ForwardInv, ForwardTypeOK, TriesLeft
<1>2. CreationsAreOne'  BY NoCreation DEF ForwardInv
<1>3. StampsAreRight'
  <2>1. (bootAt < time)' /\ \A f \in Forwards : (setAt[f] < time)'
    BY <1>0, ForwardTypes DEF ForwardInv, NoEntry
  <2>. QED  BY <2>1, Zenon DEF ForwardInv, StampsAreRight, Stamp, Indexed
<1>4. IndexBounded'  BY DEF ForwardInv, IndexBounded, Indexed
<1>5. ASSUME NEW f \in Forwards, fwd'[f].pc = "answered" PROVE Excused(f)'
  <2>1. Excused(f)  BY <1>5, AnsweredExcused DEF ForwardInv
  <2>2. setAt[f] + EntryTTL < time => (setAt[f] + EntryTTL < time)'  BY <1>0 DEF NoEntry
  <2>3. Crowded(f) <=> Crowded(f)'  BY DEF Crowded, Later, Others
  <2>. QED  BY <2>1, <2>2, <2>3 DEF Excused, Indexed
<1>6. AnsweredIsIndexed'
  <2>1. (\A f \in Forwards : fwd[f].pc = "answered" => Excused(f))'  BY <1>5
  <2>. QED  BY <2>1 DEF AnsweredIsIndexed, Excused, Crowded, Later, Others
<1>. QED  BY <1>1, <1>2, <1>3, <1>4, <1>6 DEF ForwardInv

\* A start loads what the file holds; what it does not hold was never written.
LEMMA ForwardRestartKeeps ==
    ASSUME FiniteFacts, ForwardInv, ForwardRestart PROVE ForwardInv'
<1>0. /\ fwd \in [Forwards -> FwdRecord] /\ file \subseteq Forwards /\ unsaved \subseteq Forwards
      /\ index \in [Forwards -> Nat \cup {NoEntry}] /\ setAt \in [Forwards -> Nat \cup {NoEntry}]
      /\ time \in Nat /\ bootAt \in Nat /\ restarts \in Nat /\ EntryTTL \in Nat
      /\ bootAt < time /\ \A f \in Forwards : setAt[f] < time
  BY ForwardTypes, ForwardConstants DEF ForwardInv, StampsAreRight
<1>1. /\ restarts' = restarts + 1 /\ time' = time + 1 /\ bootAt' = time
      /\ forgotten' = forgotten \cup unsaved /\ unsaved' = {}
      /\ UNCHANGED <<post, peerRuns, overlap, peerStore, file, setAt>>
  BY DEF ForwardRestart, peerVars
<1>2. /\ index' \in [Forwards -> Nat \cup {NoEntry}] /\ Indexed' = file
      /\ \A f \in Forwards : index'[f] = IF f \in file THEN time ELSE NoEntry
  <2>1. index' = [f \in Forwards |-> IF f \in file THEN time ELSE NoEntry]  BY DEF ForwardRestart
  <2>. QED  BY <2>1, <1>0 DEF Indexed, NoEntry
<1>3. /\ fwd' \in [Forwards -> FwdRecord]
      /\ \A f \in Forwards : fwd'[f] = fwd[f] \/ (fwd'[f].pc = "aborted" /\ fwd[f].pc # "answered")
  <2>1. fwd' = [f \in Forwards |->
                  IF fwd[f].pc \in {"sending", "backoff", "indexing"}
                  THEN [fwd[f] EXCEPT !.pc = "aborted"] ELSE fwd[f]]
    BY DEF ForwardRestart
  <2>2. \A f \in Forwards : /\ [fwd[f] EXCEPT !.pc = "aborted"] \in FwdRecord
                            /\ [fwd[f] EXCEPT !.pc = "aborted"].pc = "aborted"
    BY <1>0 DEF FwdRecord, FwdPcs
  <2>. QED  BY <2>1, <2>2, <1>0
<1>4. \A f \in Forwards : fwd'[f].pc = "answered" <=> fwd[f].pc = "answered"  BY <1>3, SMTT(30)
<1>5. ForwardTypeOK'
  BY <1>0, <1>1, <1>2, <1>3 DEF ForwardInv, ForwardTypeOK, FwdRecord, FwdPcs
<1>6. TriesLeft'  BY <1>3 DEF ForwardInv, TriesLeft
<1>7. CreationsAreOne'  BY <1>1, NoCreation, Zenon DEF ForwardInv
<1>8. StampsAreRight'
  <2>1. bootAt' < time' /\ \A f \in Forwards : setAt'[f] < time'
    BY <1>0, <1>1 DEF NoEntry
  <2>2. \A f \in file : setAt[f] # NoEntry  BY DEF ForwardInv, StampsAreRight
  <2>3. \A f \in Forwards : Stamp(f)' = time  BY <1>0, <1>1 DEF Stamp, NoEntry
  <2>4. \A f \in Forwards : index'[f] # NoEntry => setAt'[f] # NoEntry /\ index'[f] = Stamp(f)'
    BY <1>1, <1>2, <2>2, <2>3, Zenon
  <2>5. \A f \in Forwards : setAt'[f] # NoEntry <=> fwd'[f].pc = "answered"
    BY <1>1, <1>4, Zenon DEF ForwardInv, StampsAreRight
  <2>6. \A f, g \in Forwards : setAt'[f] = setAt'[g] /\ setAt'[f] # NoEntry => f = g
    BY <1>1 DEF ForwardInv, StampsAreRight
  <2>7. Indexed' \ file' \subseteq unsaved'  BY <1>1, <1>2
  <2>. QED  BY <1>1, <2>1, <2>2, <2>4, <2>5, <2>6, <2>7 DEF StampsAreRight
<1>9. IndexBounded'  BY <1>1, <1>2 DEF ForwardInv, IndexBounded
<1>10. ASSUME NEW f \in Forwards, fwd'[f].pc = "answered" PROVE Excused(f)'
  <2>1. Excused(f)  BY <1>4, <1>10, AnsweredExcused DEF ForwardInv
  <2>2. CASE f \in Indexed
    <3>1. f \in file \/ f \in unsaved  BY <2>2 DEF ForwardInv, StampsAreRight
    <3>. QED  BY <3>1, <1>1, <1>2 DEF Excused
  <2>3. CASE f \in forgotten  BY <2>3, <1>1 DEF Excused
  <2>4. CASE setAt[f] + EntryTTL < time
    <3>1. setAt'[f] + EntryTTL < time'  BY <2>4, <1>0, <1>1 DEF NoEntry
    <3>. QED  BY <3>1 DEF Excused
  <2>5. CASE Crowded(f)
    <3>1. Others(f) \subseteq Others(f)' /\ Later(f) \subseteq Later(f)'
      BY <1>1 DEF Others, Later
    <3>2. ~(setAt[f] > bootAt)'  BY <1>0, <1>1, SMTT(30) DEF NoEntry
    <3>3. Crowded(f)'  BY <2>5, <3>1, <3>2, CrowdStays, SMTT(30)
    <3>. QED  BY <3>3 DEF Excused
  <2>. QED  BY <2>1, <2>2, <2>3, <2>4, <2>5 DEF Excused
<1>11. AnsweredIsIndexed'
  <2>1. (\A f \in Forwards : fwd[f].pc = "answered" => Excused(f))'  BY <1>10
  <2>. QED  BY <2>1 DEF AnsweredIsIndexed, Excused, Crowded, Later, Others
<1>. QED  BY <1>5, <1>6, <1>7, <1>8, <1>9, <1>11 DEF ForwardInv

\* The invariant holds at the start.
LEMMA ForwardInitInv == FiniteFacts /\ ForwardInit => ForwardInv
<1>. SUFFICES ASSUME FiniteFacts, ForwardInit PROVE ForwardInv  OBVIOUS
<1>. USE DEF ForwardInit
<1>1. fwd \in [Forwards -> FwdRecord] /\ \A f \in Forwards : fwd[f].pc = "idle" /\ fwd[f].attempt = 0
  <2>1. 0 \in 0..MaxForwardAttempts  BY ForwardConstants, SMTT(30)
  <2>. QED  BY <2>1 DEF FwdRecord, FwdPcs, NoAttempt
<1>2. ForwardTypeOK
  BY <1>1, ForwardConstants DEF ForwardTypeOK, FwdRecord, FwdPcs
<1>3. TriesLeft  BY <1>1 DEF TriesLeft
<1>4. CreationsAreOne  BY ForwardConstants DEF CreationsAreOne, OneCreation
<1>5. Indexed = {} /\ file = {}  BY DEF Indexed
<1>6. StampsAreRight  BY <1>1, <1>5, SMTT(30) DEF StampsAreRight, NoEntry
<1>7. AnsweredIsIndexed  BY <1>1 DEF AnsweredIsIndexed
<1>8. IndexBounded  BY <1>5, ForwardConstants DEF FiniteFacts, EmptySetFacts, IndexBounded
<1>. QED  BY <1>2, <1>3, <1>4, <1>6, <1>7, <1>8 DEF ForwardInv

\* Every step of the Forwarder, the peer and the index keeps the invariant.
LEMMA ForwardNextInv == FiniteFacts /\ ForwardInv /\ [ForwardNext]_forwardVars => ForwardInv'
<1>. SUFFICES ASSUME FiniteFacts, ForwardInv, [ForwardNext]_forwardVars PROVE ForwardInv'  OBVIOUS
<1>1. ASSUME NEW f \in Forwards, SendAttempt(f) PROVE ForwardInv'  BY <1>1, SendKeeps
<1>2. ASSUME NEW f \in Forwards, AttemptFails(f) PROVE ForwardInv'  BY <1>2, AttemptFailsKeeps
<1>3. ASSUME NEW f \in Forwards, IndexSet(f) PROVE ForwardInv'  BY <1>3, IndexSetKeeps
<1>4. ASSUME NEW f \in Forwards, NEW n \in Attempts, PeerRefuses(f, n) PROVE ForwardInv'
  BY <1>4, PeerRefusesKeeps
<1>5. ASSUME NEW f \in Forwards, NEW n \in Attempts, PeerLooksUp(f, n) PROVE ForwardInv'
  BY <1>5, PeerLooksUpKeeps
<1>6. ASSUME NEW f \in Forwards, NEW n \in Attempts, PeerCreates(f, n) PROVE ForwardInv'
  BY <1>6, PeerCreatesKeeps
<1>7. CASE ForwardTick  BY <1>7, ForwardTickKeeps
<1>8. CASE ForwardRestart  BY <1>8, ForwardRestartKeeps
<1>9. CASE UNCHANGED forwardVars
  <2>. USE <1>9 DEF forwardVars, peerVars
  <2>1. ForwardTypeOK' /\ TriesLeft'
    BY DEF ForwardInv, ForwardTypeOK, TriesLeft, bootVars, indexVars
  <2>2. CreationsAreOne'  BY NoCreation, Zenon DEF ForwardInv
  <2>3. StampsAreRight' /\ AnsweredIsIndexed' /\ IndexBounded'  BY IndexFrame
  <2>. QED  BY <2>1, <2>2, <2>3, SMTT(30) DEF ForwardInv
<1>. QED
  BY <1>1, <1>2, <1>3, <1>4, <1>5, <1>6, <1>7, <1>8, <1>9 DEF ForwardNext, ForwardStep, PeerStep

\* One run is a set of at most one attempt.
LEMMA OneRun ==
    ASSUME FiniteFacts, ForwardInv PROVE KeyedForwardsMakeOneRun
<1>. SUFFICES ASSUME NEW f \in Keyed, Cardinality(peerRuns[f]) > 1
              PROVE  peerStore = "file" /\ f \in overlap
  BY DEF KeyedForwardsMakeOneRun
<1>1. OneCreation(f)  BY DEF ForwardInv, CreationsAreOne
<1>2. ASSUME \A m, n \in peerRuns[f] : m = n PROVE FALSE
  <2>1. CASE peerRuns[f] = {}  BY <2>1 DEF FiniteFacts, EmptySetFacts
  <2>2. CASE \E m \in peerRuns[f] : TRUE
    <3>1. PICK m \in peerRuns[f] : TRUE  BY <2>2
    <3>2. peerRuns[f] = {m}  BY <1>2
    <3>3. Cardinality({m}) = 1  BY SMTT(30) DEF FiniteFacts, SingletonFacts
    <3>4. Cardinality(peerRuns[f]) = 1  BY <3>2, <3>3
    <3>. QED  BY <3>4
  <2>. QED  BY <2>1, <2>2
<1>. QED  BY <1>1, <1>2 DEF OneCreation

-----------------------------------------------------------------------------
(* Deletion, purge and export of a tenant's data *)

DeletionRecord == [pc : {"idle", "table", "done", "failed"}, table : 0..Len(TenantTables) + 1]
PurgeRecord == [pc : {"idle", "table"}, table : 0..Len(PurgeTables) + 1, now : Nat]

\* A row that a purge begun on that day removes.
Due(r, now) ==
    /\ \E i \in DOMAIN PurgeTables : TableOf[r] = PurgeTables[i]
    /\ rowDay[r] < now - Retention[TableOf[r]]
    /\ TableOf[r] = "runs" => r \in final

DataTypes ==
    /\ day \in Nat /\ Stored \subseteq RowIds /\ rowDay \in [Stored -> Nat] /\ final \subseteq Stored
    /\ deletion \in [TenantIds -> DeletionRecord] /\ purge \in PurgeRecord
    /\ doomed \in [TenantIds -> SUBSET Stored] /\ overdue \subseteq Stored

\* The jobs are at a table, and their rows are still the rows they are after.
JobsOnTrack ==
    /\ \A t \in TenantIds : /\ deletion[t].pc = "table" => deletion[t].table >= 1
                            /\ \A r \in doomed[t] : OwnerOf[r] = t
    /\ purge.pc = "table" => purge.table >= 1
    /\ purge.now <= day
    /\ \A r \in overdue : Due(r, purge.now)

DataInv == DataTypes /\ JobsOnTrack /\ NothingIsMissed

\* The tables of both jobs are numbered from one.
LEMMA TablesAreNumbered ==
    /\ Len(TenantTables) \in Nat /\ DOMAIN TenantTables = 1..Len(TenantTables)
    /\ Len(PurgeTables) \in Nat /\ DOMAIN PurgeTables = 1..Len(PurgeTables)
  BY TenantConstants

\* A statement that removes nothing found nothing; one that removes less than a batch
\* removes all it found.
LEMMA BatchIsThorough ==
    ASSUME FiniteFacts, NEW S \in SUBSET RowIds, NEW b \in Batches(S)
    PROVE  /\ b \subseteq S /\ Cardinality(b) \in Nat
           /\ Cardinality(b) = 0 => S = {}
           /\ Cardinality(b) < Batch => b = S
<1>1. IsFiniteSet(S) /\ Batch \in Nat \ {0}  BY TenantConstants DEF FiniteFacts, SubsetFacts
<1>2. b \subseteq S /\ (Cardinality(b) = Batch \/ (Cardinality(b) < Batch /\ b = S))
  <2>1. b \in {c \in SUBSET S : Cardinality(c) = Batch \/ (Cardinality(c) < Batch /\ c = S)}
    BY DEF Batches
  <2>. QED  BY <2>1, Zenon
<1>3. IsFiniteSet(b)  BY <1>1, <1>2 DEF FiniteFacts, SubsetFacts
<1>4. Cardinality(b) \in Nat  BY <1>3 DEF FiniteFacts, CardinalityFacts
<1>5. Cardinality(b) = 0 => b = {}  BY <1>3 DEF FiniteFacts, EmptySetFacts
<1>. QED  BY <1>1, <1>2, <1>4, <1>5, SMTT(30)

\* The next table: whoever has no rows in this one is not missed by going on.
LEMMA BeforeNext ==
    ASSUME NEW n \in Nat, NEW r, NEW tables, tables \in Seq(STRING),
           ~Before(tables, n, r), n \in DOMAIN tables => TableOf[r] # tables[n]
    PROVE  ~Before(tables, n + 1, r)
<1>1. DOMAIN tables \subseteq Nat  OBVIOUS
<1>2. \A i \in DOMAIN tables : i < n + 1 => i < n \/ i = n  BY <1>1
<1>. QED  BY <1>2 DEF Before

\* Behind the first table there is nothing.
LEMMA BeforeFirst ==
    ASSUME NEW n \in {0, 1}, NEW r, NEW tables, tables \in Seq(STRING)
    PROVE  ~Before(tables, n, r)
<1>1. \A i \in DOMAIN tables : i \in Nat /\ i >= 1  OBVIOUS
<1>. QED  BY <1>1 DEF Before

\* Rows that are removed leave the jobs' lists too, and what stays is as it was.
LEMMA DropRowsKeeps ==
    ASSUME DataTypes, NEW b, DropRows(b)
    PROVE  /\ Stored' = Stored \ b /\ Stored' \subseteq RowIds /\ rowDay' \in [Stored' -> Nat]
           /\ \A r \in Stored' : rowDay'[r] = rowDay[r]
           /\ final' = final \ b /\ final' \subseteq Stored'
           /\ doomed' \in [TenantIds -> SUBSET Stored']
           /\ \A t \in TenantIds : doomed'[t] = doomed[t] \ b
           /\ overdue' = overdue \ b /\ overdue' \subseteq Stored'
<1>1. /\ Stored \subseteq RowIds /\ rowDay \in [Stored -> Nat] /\ final \subseteq Stored
      /\ doomed \in [TenantIds -> SUBSET Stored] /\ overdue \subseteq Stored
  BY DEF DataTypes
<1>2. rowDay' = [r \in Stored \ b |-> rowDay[r]]  BY DEF DropRows
<1>3. Stored' = Stored \ b  BY <1>2 DEF Stored
<1>4. rowDay' \in [Stored' -> Nat] /\ \A r \in Stored' : rowDay'[r] = rowDay[r]
  BY <1>1, <1>2, <1>3, SMTT(30)
<1>5. final' = final \ b /\ overdue' = overdue \ b
      /\ doomed' = [t \in TenantIds |-> doomed[t] \ b]
  BY SMTT(30) DEF DropRows
<1>. QED  BY <1>1, <1>3, <1>4, <1>5

\* A row that is due stays due.
LEMMA DueStays ==
    ASSUME NEW r \in Stored', NEW now, Due(r, now), rowDay'[r] = rowDay[r], r \in final => r \in final'
    PROVE  Due(r, now)'
  BY DEF Due

\* A new row is on neither list.
LEMMA WriteRowKeeps ==
    ASSUME DataInv, NEW r \in RowIds, WriteRow(r) PROVE DataInv'
<1>0. /\ r \notin Stored /\ rowDay' = [x \in Stored \cup {r} |-> IF x = r THEN day ELSE rowDay[x]]
      /\ UNCHANGED <<day, tenantRow, final, deletion, doomed, purge, overdue>>
  BY DEF WriteRow
<1>1. /\ day \in Nat /\ Stored \subseteq RowIds /\ rowDay \in [Stored -> Nat] /\ final \subseteq Stored
      /\ deletion \in [TenantIds -> DeletionRecord] /\ purge \in PurgeRecord
      /\ doomed \in [TenantIds -> SUBSET Stored] /\ overdue \subseteq Stored
  BY DEF DataInv, DataTypes
<1>2. Stored' = Stored \cup {r}  BY <1>0 DEF Stored
<1>3. rowDay' \in [Stored' -> Nat] /\ \A x \in Stored : rowDay'[x] = rowDay[x]
  BY <1>0, <1>1, <1>2
<1>4. DataTypes'
  <2>1. doomed' \in [TenantIds -> SUBSET Stored']  BY <1>0, <1>1, <1>2
  <2>. QED  BY <1>0, <1>1, <1>2, <1>3, <2>1 DEF DataTypes
<1>5. JobsOnTrack'
  <2>1. \A x \in overdue : Due(x, purge.now)'
    BY <1>0, <1>1, <1>2, <1>3, DueStays DEF DataInv, JobsOnTrack, Due
  <2>. QED  BY <1>0, <2>1, Zenon DEF DataInv, JobsOnTrack, Due
<1>6. NothingIsMissed'  BY <1>0, Zenon DEF DataInv, NothingIsMissed, Before
<1>. QED  BY <1>4, <1>5, <1>6, SMTT(30) DEF DataInv

\* A run that ends is due no later for it.
LEMMA FinishRunKeeps ==
    ASSUME DataInv, NEW r \in RowIds, FinishRun(r) PROVE DataInv'
<1>0. /\ r \in Stored /\ final' = final \cup {r}
      /\ UNCHANGED <<day, tenantRow, rowDay, deletion, doomed, purge, overdue>>
  BY DEF FinishRun
<1>1. DataTypes'  BY <1>0, Zenon DEF DataInv, DataTypes, Stored
<1>2. JobsOnTrack'  BY <1>0, Zenon DEF DataInv, JobsOnTrack, Due
<1>3. NothingIsMissed'  BY <1>0 DEF DataInv, NothingIsMissed, Before
<1>. QED  BY <1>1, <1>2, <1>3 DEF DataInv

\* The pass keeps the day on which it began.
LEMMA NextDayKeeps ==
    ASSUME DataInv, NextDay PROVE DataInv'
<1>0. /\ day' = day + 1 /\ day \in Nat /\ purge \in PurgeRecord
      /\ UNCHANGED <<tenantRow, rowDay, final, deletion, doomed, purge, overdue>>
  BY DEF NextDay, DataInv, DataTypes
<1>1. DataTypes'  BY <1>0 DEF DataInv, DataTypes, Stored
<1>2. (purge.now <= day)'
  <2>1. purge.now \in Nat /\ purge.now <= day  BY <1>0 DEF DataInv, JobsOnTrack, PurgeRecord
  <2>. QED  BY <1>0, <2>1, SMTT(30)
<1>3. JobsOnTrack'  BY <1>0, <1>2, Zenon DEF DataInv, JobsOnTrack, Due
<1>4. NothingIsMissed'  BY <1>0, SMTT(30) DEF DataInv, NothingIsMissed, Before
<1>. QED  BY <1>1, <1>3, <1>4 DEF DataInv

\* A deletion begins at the first table, with all rows of the tenant.
LEMMA HandleDeleteKeeps ==
    ASSUME DataInv, NEW t \in TenantIds, HandleDelete(t) PROVE DataInv'
<1>0. /\ deletion' = [deletion EXCEPT ![t] = [pc |-> "table", table |-> 1]]
      /\ doomed' = [doomed EXCEPT ![t] = {r \in Stored : OwnerOf[r] = t}]
      /\ UNCHANGED <<day, rowDay, final, purge, overdue>>
  BY DEF HandleDelete
<1>1. deletion \in [TenantIds -> DeletionRecord] /\ doomed \in [TenantIds -> SUBSET Stored]
  BY DEF DataInv, DataTypes
<1>2. [pc |-> "table", table |-> 1] \in DeletionRecord
  BY TablesAreNumbered DEF DeletionRecord
<1>3. deletion' \in [TenantIds -> DeletionRecord] /\ doomed' \in [TenantIds -> SUBSET Stored]
  BY <1>0, <1>1, <1>2, SMTT(30)
<1>4. /\ deletion'[t].pc = "table" /\ deletion'[t].table = 1
      /\ \A r \in doomed'[t] : OwnerOf[r] = t
      /\ \A u \in TenantIds \ {t} : deletion'[u] = deletion[u] /\ doomed'[u] = doomed[u]
  BY <1>0, <1>1
<1>5. DataTypes'  BY <1>0, <1>3, Zenon DEF DataInv, DataTypes, Stored
<1>6. JobsOnTrack'
  <2>1. \A u \in TenantIds : /\ deletion'[u].pc = "table" => deletion'[u].table >= 1
                             /\ \A r \in doomed'[u] : OwnerOf[r] = u
    BY <1>4 DEF DataInv, JobsOnTrack
  <2>. QED  BY <1>0, <2>1, Zenon DEF DataInv, JobsOnTrack, Due
<1>7. NothingIsMissed'
  <2>1. \A r : ~Before(TenantTables, 1, r)  BY BeforeFirst, TenantConstants
  <2>2. \A u \in TenantIds : \A r \in doomed'[u] : ~Before(TenantTables, deletion'[u].table, r)
    BY <1>4, <2>1, Zenon DEF DataInv, NothingIsMissed
  <2>. QED  BY <1>0, <2>2, Zenon DEF DataInv, NothingIsMissed, Before
<1>. QED  BY <1>5, <1>6, <1>7 DEF DataInv

\* The parts of a statement of either job that concern the rows of the other one.
LEMMA DropKeepsPurge ==
    ASSUME DataInv, NEW b, DropRows(b), UNCHANGED <<day, purge>>
    PROVE  /\ \A r \in overdue' : Due(r, purge.now)'
           /\ \A r \in overdue' : ~Before(PurgeTables, purge.table, r)
<1>1. /\ Stored' = Stored \ b /\ \A r \in Stored' : rowDay'[r] = rowDay[r]
      /\ final' = final \ b /\ overdue' = overdue \ b /\ overdue' \subseteq Stored'
  BY DropRowsKeeps, Zenon DEF DataInv
<1>2. \A r \in overdue : Due(r, purge.now) /\ ~Before(PurgeTables, purge.table, r)
  BY DEF DataInv, JobsOnTrack, NothingIsMissed
<1>3. \A r \in overdue' : Due(r, purge.now)'  BY <1>1, <1>2, Zenon DEF Due
<1>. QED  BY <1>1, <1>2, <1>3, Zenon

\* The rows a deletion is after, when a statement of either job removes some.
LEMMA DropKeepsDoomed ==
    ASSUME DataInv, NEW b, DropRows(b), NEW t \in TenantIds
    PROVE  \A r \in doomed'[t] : OwnerOf[r] = t /\ ~Before(TenantTables, deletion[t].table, r)
<1>1. doomed'[t] = doomed[t] \ b  BY DropRowsKeeps, Zenon DEF DataInv
<1>. QED  BY <1>1 DEF DataInv, JobsOnTrack, NothingIsMissed

\* DeleteAllData goes on to the next table only when it has found nothing in this one.
LEMMA DeleteStepKeeps ==
    ASSUME FiniteFacts, DataInv, NEW t \in TenantIds, DeleteStep(t) PROVE DataInv'
<1>0. /\ deletion[t].pc = "table" /\ UNCHANGED <<day, purge>>
      /\ deletion \in [TenantIds -> DeletionRecord] /\ purge \in PurgeRecord /\ day \in Nat
      /\ doomed \in [TenantIds -> SUBSET Stored] /\ Stored \subseteq RowIds
      /\ deletion[t].table \in 1..Len(TenantTables) + 1
  BY DEF DeleteStep, DataInv, DataTypes, DeletionRecord, JobsOnTrack
<1>1. CASE deletion[t].table > Len(TenantTables)
  <2>0. /\ deletion' = [deletion EXCEPT ![t].pc = "done"]
        /\ UNCHANGED <<rowDay, final, doomed, overdue>>
    BY <1>1 DEF DeleteStep
  <2>1. [deletion[t] EXCEPT !.pc = "done"] \in DeletionRecord  BY <1>0 DEF DeletionRecord
  <2>2. deletion' = [deletion EXCEPT ![t] = [deletion[t] EXCEPT !.pc = "done"]]  BY <2>0
  <2>3. deletion' \in [TenantIds -> DeletionRecord]  BY <1>0, <2>1, <2>2, Zenon
  <2>4. \A u \in TenantIds : /\ deletion'[u].table = deletion[u].table
                             /\ deletion'[u].pc = "table" => deletion[u].pc = "table"
    BY <1>0, <2>2 DEF DeletionRecord
  <2>5. DataTypes'  BY <1>0, <2>0, <2>3 DEF DataInv, DataTypes, Stored
  <2>6. JobsOnTrack'  BY <1>0, <2>0, <2>4 DEF DataInv, JobsOnTrack, Due
  <2>7. NothingIsMissed'  BY <1>0, <2>0, <2>4, SMTT(30) DEF DataInv, NothingIsMissed, Before
  <2>. QED  BY <2>5, <2>6, <2>7 DEF DataInv
<1>2. CASE ~(deletion[t].table > Len(TenantTables))
  <2>. DEFINE n == deletion[t].table
              S == {r \in Stored : OwnerOf[r] = t /\ TableOf[r] = TenantTables[n]}
  <2>1. PICK b \in Batches(S) :
           /\ DropRows(b)
           /\ deletion' = [deletion EXCEPT ![t].table = IF LeavesTable(Cardinality(b)) THEN @ + 1 ELSE @]
    BY <1>2, Zenon DEF DeleteStep
  <2>. DEFINE m == IF Cardinality(b) = 0 THEN n + 1 ELSE n
  <2>2. n \in 1..Len(TenantTables) /\ m \in {n, n + 1} /\ m \in 1..Len(TenantTables) + 1
    BY <1>0, <1>2, TablesAreNumbered, SMTT(30)
  <2>3. deletion' = [deletion EXCEPT ![t] = [deletion[t] EXCEPT !.table = m]]
    BY <2>1, Zenon DEF LeavesTable
  <2>4. S \in SUBSET RowIds  BY <1>0
  <2>5. Cardinality(b) = 0 => S = {}  BY <2>4, BatchIsThorough, ZenonT(30)
  <2>6. m = n \/ (m = n + 1 /\ S = {})  BY <2>5
  <2>. HIDE DEF m
  <2>7. [deletion[t] EXCEPT !.table = m] \in DeletionRecord
    BY <1>0, <2>2, TablesAreNumbered DEF DeletionRecord
  <2>8. deletion' \in [TenantIds -> DeletionRecord]  BY <1>0, <2>3, <2>7, Zenon
  <2>9. /\ deletion'[t].table = m /\ deletion'[t].pc = "table"
        /\ \A u \in TenantIds \ {t} : deletion'[u] = deletion[u]
    BY <1>0, <2>3 DEF DeletionRecord
  <2>10. /\ Stored' \subseteq RowIds /\ rowDay' \in [Stored' -> Nat] /\ final' \subseteq Stored'
         /\ doomed' \in [TenantIds -> SUBSET Stored'] /\ overdue' \subseteq Stored'
         /\ doomed'[t] \subseteq doomed[t]
    BY <2>1, DropRowsKeeps DEF DataInv
  <2>11. DataTypes'  BY <1>0, <2>8, <2>10, Zenon DEF DataTypes
  <2>12. /\ \A r \in overdue' : Due(r, purge.now)'
         /\ \A r \in overdue' : ~Before(PurgeTables, purge.table, r)
    BY <1>0, <2>1, DropKeepsPurge
  <2>13. \A u \in TenantIds : \A r \in doomed'[u] :
            OwnerOf[r] = u /\ ~Before(TenantTables, deletion[u].table, r)
    BY <2>1, DropKeepsDoomed
  <2>14. JobsOnTrack'
    <3>1. \A u \in TenantIds : deletion'[u].pc = "table" => deletion'[u].table >= 1
      BY <2>2, <2>9 DEF DataInv, JobsOnTrack
    <3>. QED  BY <1>0, <2>12, <2>13, <3>1, Zenon DEF DataInv, JobsOnTrack
  <2>15. \A r \in doomed'[t] : ~Before(TenantTables, m, r)
    <3>1. CASE m = n  BY <2>13, <3>1, SMTT(30)
    <3>2. CASE m = n + 1 /\ S = {}
      <4>1. ASSUME NEW r \in doomed'[t] PROVE ~Before(TenantTables, n + 1, r)
        <5>1. r \in Stored /\ OwnerOf[r] = t /\ ~Before(TenantTables, n, r)
          BY <1>0, <2>10, <2>13, Zenon
        <5>2. TableOf[r] # TenantTables[n]  BY <3>2, <5>1, Zenon
        <5>3. n \in Nat /\ TenantTables \in Seq(STRING)  BY <2>2, TenantConstants, SMTT(30)
        <5>. QED  BY <5>1, <5>2, <5>3, BeforeNext, Zenon
      <4>. QED  BY <3>2, <4>1
    <3>. QED  BY <2>6, <3>1, <3>2, Zenon
  <2>16. NothingIsMissed'
    <3>1. \A u \in TenantIds : \A r \in doomed'[u] : ~Before(TenantTables, deletion'[u].table, r)
      BY <2>9, <2>13, <2>15, Zenon
    <3>. QED  BY <1>0, <2>12, <3>1 DEF NothingIsMissed, Before
  <2>. QED  BY <2>11, <2>14, <2>16 DEF DataInv
<1>. QED  BY <1>1, <1>2

\* A deletion that fails stays where it is.
LEMMA DeleteFailsKeeps ==
    ASSUME DataInv, NEW t \in TenantIds, DeleteFails(t) PROVE DataInv'
<1>0. /\ deletion' = [deletion EXCEPT ![t].pc = "failed"]
      /\ UNCHANGED <<day, rowDay, final, doomed, purge, overdue>>
      /\ deletion \in [TenantIds -> DeletionRecord]
  BY DEF DeleteFails, DataInv, DataTypes
<1>1. [deletion[t] EXCEPT !.pc = "failed"] \in DeletionRecord  BY <1>0 DEF DeletionRecord
<1>2. deletion' = [deletion EXCEPT ![t] = [deletion[t] EXCEPT !.pc = "failed"]]  BY <1>0
<1>3. deletion' \in [TenantIds -> DeletionRecord]  BY <1>0, <1>1, <1>2, Zenon
<1>4. \A u \in TenantIds : /\ deletion'[u].table = deletion[u].table
                           /\ deletion'[u].pc = "table" => deletion[u].pc = "table"
  BY <1>0, <1>2 DEF DeletionRecord
<1>5. DataTypes'  BY <1>0, <1>3 DEF DataInv, DataTypes, Stored
<1>6. JobsOnTrack'  BY <1>0, <1>4 DEF DataInv, JobsOnTrack, Due
<1>7. NothingIsMissed'  BY <1>0, <1>4, SMTT(30) DEF DataInv, NothingIsMissed, Before
<1>. QED  BY <1>5, <1>6, <1>7 DEF DataInv

\* A purge begins at the first table, with all rows that are due.
LEMMA StartPurgeKeeps ==
    ASSUME DataInv, StartPurge PROVE DataInv'
<1>0. /\ purge' = [pc |-> "table", table |-> 1, now |-> day] /\ day \in Nat
      /\ overdue' = UNION {Purgeable(PurgeTables[i], day) : i \in DOMAIN PurgeTables}
      /\ UNCHANGED <<day, rowDay, final, deletion, doomed>>
  BY DEF StartPurge, DataInv, DataTypes
<1>1. purge' \in PurgeRecord  BY <1>0, TablesAreNumbered DEF PurgeRecord
<1>2. purge'.table = 1 /\ purge'.now = day  BY <1>0, SMTT(30)
<1>3. \A r \in overdue' : r \in Stored /\ Due(r, day)
  BY <1>0 DEF Purgeable, Due
<1>4. DataTypes'  BY <1>0, <1>1, <1>3, Zenon DEF DataInv, DataTypes, Stored
<1>5. JobsOnTrack'
  <2>1. \A r \in overdue' : Due(r, purge.now)'  BY <1>0, <1>2, <1>3, Zenon DEF Due
  <2>. QED  BY <1>0, <1>2, <2>1 DEF DataInv, JobsOnTrack
<1>6. NothingIsMissed'
  <2>1. \A r : ~Before(PurgeTables, 1, r)  BY BeforeFirst, TenantConstants, Zenon
  <2>. QED  BY <1>0, <1>2, <2>1, Zenon DEF DataInv, NothingIsMissed, Before
<1>. QED  BY <1>4, <1>5, <1>6 DEF DataInv

\* The purge goes on to the next table when a batch is short, and has then removed all.
LEMMA PurgeStepKeeps ==
    ASSUME FiniteFacts, DataInv, PurgeStep PROVE DataInv'
<1>. DEFINE n == purge.table
            S == Purgeable(PurgeTables[n], purge.now)
<1>0. /\ purge.pc = "table" /\ n <= Len(PurgeTables) /\ UNCHANGED <<day, deletion>>
      /\ purge \in PurgeRecord /\ Stored \subseteq RowIds /\ overdue \subseteq Stored /\ day \in Nat
  BY DEF PurgeStep, DataInv, DataTypes
<1>1. PICK b \in Batches(S) :
         /\ DropRows(b)
         /\ purge' = [purge EXCEPT !.table = IF Cardinality(b) < Batch THEN @ + 1 ELSE @]
  BY Zenon DEF PurgeStep
<1>. DEFINE m == IF Cardinality(b) < Batch THEN n + 1 ELSE n
<1>2. n \in 1..Len(PurgeTables) /\ m \in {n, n + 1} /\ m \in 1..Len(PurgeTables) + 1
  BY <1>0, TablesAreNumbered DEF DataInv, JobsOnTrack, PurgeRecord
<1>3. purge' = [purge EXCEPT !.table = m]  BY <1>1, Zenon
<1>4. S \in SUBSET RowIds  BY <1>0 DEF Purgeable
<1>5. m = n \/ (m = n + 1 /\ b = S)  BY <1>4, BatchIsThorough
<1>. HIDE DEF m
<1>6. purge' \in PurgeRecord /\ purge'.table = m /\ purge'.now = purge.now /\ purge'.pc = "table"
  BY <1>0, <1>2, <1>3, TablesAreNumbered DEF PurgeRecord
<1>7. /\ Stored' \subseteq RowIds /\ rowDay' \in [Stored' -> Nat] /\ final' \subseteq Stored'
      /\ doomed' \in [TenantIds -> SUBSET Stored'] /\ overdue' \subseteq Stored'
      /\ overdue' = overdue \ b /\ Stored' = Stored \ b /\ final' = final \ b
      /\ \A r \in Stored' : rowDay'[r] = rowDay[r]
  BY <1>1, DropRowsKeeps, SMTT(30) DEF DataInv
<1>8. DataTypes'  BY <1>0, <1>6, <1>7 DEF DataInv, DataTypes
<1>9. \A r \in overdue : Due(r, purge.now) /\ ~Before(PurgeTables, n, r)
  BY Zenon DEF DataInv, JobsOnTrack, NothingIsMissed
<1>10. \A t \in TenantIds : \A r \in doomed'[t] :
          OwnerOf[r] = t /\ ~Before(TenantTables, deletion[t].table, r)
  BY <1>1, DropKeepsDoomed
<1>11. JobsOnTrack'
  <2>1. \A r \in overdue' : Due(r, purge.now)'  BY <1>6, <1>7, <1>9, Zenon DEF Due
  <2>2. purge'.table >= 1  BY <1>2, <1>6
  <2>. QED  BY <1>0, <1>6, <1>10, <2>1, <2>2, Zenon DEF DataInv, JobsOnTrack
<1>12. \A r \in overdue' : ~Before(PurgeTables, m, r)
  <2>1. CASE m = n  BY <1>7, <1>9, <2>1, Zenon
  <2>2. CASE m = n + 1 /\ b = S
    <3>1. ASSUME NEW r \in overdue' PROVE ~Before(PurgeTables, n + 1, r)
      <4>1. r \in overdue /\ r \in Stored /\ r \notin S /\ Due(r, purge.now)
            /\ ~Before(PurgeTables, n, r)
        BY <1>0, <1>7, <1>9, <2>2
      <4>2. TableOf[r] # PurgeTables[n]  BY <4>1, Zenon DEF Purgeable, Due
      <4>3. PurgeTables \in Seq(STRING)  BY TenantConstants, Zenon
      <4>4. n \in Nat
        <5>1. n \in 1..Len(PurgeTables)  BY <1>2, Zenon
        <5>. QED  BY <5>1
      <4>. QED  BY <4>1, <4>2, <4>3, <4>4, BeforeNext, Zenon
    <3>. QED  BY <2>2, <3>1
  <2>. QED  BY <1>5, <2>1, <2>2
<1>13. NothingIsMissed'
  BY <1>0, <1>6, <1>10, <1>12, Zenon DEF NothingIsMissed, Before
<1>. QED  BY <1>8, <1>11, <1>13 DEF DataInv

\* The end of a pass.
LEMMA EndPurgeKeeps ==
    ASSUME DataInv, EndPurge PROVE DataInv'
<1>0. /\ purge' = [pc |-> "idle", table |-> 0, now |-> 0] /\ overdue' = {} /\ day \in Nat
      /\ UNCHANGED <<day, rowDay, final, deletion, doomed>>
  BY DEF EndPurge, DataInv, DataTypes
<1>1. purge' \in PurgeRecord  BY <1>0, TablesAreNumbered DEF PurgeRecord
<1>2. purge'.pc = "idle" /\ purge'.now = 0  BY <1>0
<1>3. DataTypes'  BY <1>0, <1>1 DEF DataInv, DataTypes, Stored
<1>4. JobsOnTrack'  BY <1>0, <1>2 DEF DataInv, JobsOnTrack
<1>5. NothingIsMissed'  BY <1>0 DEF DataInv, NothingIsMissed, Before
<1>. QED  BY <1>3, <1>4, <1>5 DEF DataInv

\* The invariant of the rows and their jobs holds at the start.
LEMMA DataInitInv == DataInit => DataInv
<1>. SUFFICES ASSUME DataInit PROVE DataInv  OBVIOUS
<1>1. Stored = {} /\ rowDay \in [{} -> Nat]  BY DEF DataInit, Stored
<1>2. NoJob \in DeletionRecord /\ NoJob.pc = "idle"
  BY TablesAreNumbered DEF NoJob, DeletionRecord
<1>3. purge \in PurgeRecord /\ purge.pc = "idle" /\ purge.now = 0
  BY TablesAreNumbered DEF DataInit, PurgeRecord
<1>4. DataTypes  BY <1>1, <1>2, <1>3 DEF DataInit, DataTypes
<1>5. JobsOnTrack  BY <1>2, <1>3 DEF DataInit, JobsOnTrack
<1>6. NothingIsMissed  BY DEF DataInit, NothingIsMissed
<1>. QED  BY <1>4, <1>5, <1>6 DEF DataInv

\* Every step of the tenants, the deletions and the purge keeps the invariant.
LEMMA DataNextInv == FiniteFacts /\ DataInv /\ (DataNext \/ UNCHANGED dataVars) => DataInv'
<1>. SUFFICES ASSUME FiniteFacts, DataInv, DataNext \/ UNCHANGED dataVars PROVE DataInv'  OBVIOUS
<1>1. ASSUME NEW t \in TenantIds, HandleDelete(t) PROVE DataInv'  BY <1>1, HandleDeleteKeeps
<1>2. ASSUME NEW t \in TenantIds, DeleteStep(t) PROVE DataInv'  BY <1>2, DeleteStepKeeps
<1>3. ASSUME NEW t \in TenantIds, DeleteFails(t) PROVE DataInv'  BY <1>3, DeleteFailsKeeps
<1>4. ASSUME NEW r \in RowIds, WriteRow(r) PROVE DataInv'  BY <1>4, WriteRowKeeps
<1>5. ASSUME NEW r \in RowIds, FinishRun(r) PROVE DataInv'  BY <1>5, FinishRunKeeps
<1>6. CASE NextDay  BY <1>6, NextDayKeeps
<1>7. CASE StartPurge  BY <1>7, StartPurgeKeeps
<1>8. CASE PurgeStep  BY <1>8, PurgeStepKeeps
<1>9. CASE EndPurge  BY <1>9, EndPurgeKeeps
<1>10. CASE UNCHANGED dataVars
  <2>. USE <1>10 DEF dataVars
  <2>1. DataTypes'  BY Zenon DEF DataInv, DataTypes, Stored
  <2>2. JobsOnTrack'  BY DEF DataInv, JobsOnTrack, Due
  <2>3. NothingIsMissed'  BY Zenon DEF DataInv, NothingIsMissed, Before
  <2>. QED  BY <2>1, <2>2, <2>3 DEF DataInv
<1>. QED
  BY <1>1, <1>2, <1>3, <1>4, <1>5, <1>6, <1>7, <1>8, <1>9, <1>10 DEF DataNext

-----------------------------------------------------------------------------
(* The export jobs *)

ExportRecord == [status : {"", "pending", "complete", "expired"}, file : BOOLEAN]
Ended(j) == exporter[j] \in {"failed", "done"}

ExportTypes ==
    /\ exportList \in Seq(Exports) /\ Len(exportList) <= MaxExports
    /\ exportJob \in [Exports -> ExportRecord]
    /\ exporter \in [Exports -> {"new", "collect", "status", "failed", "done"}]
    /\ told \subseteq [job : Exports, url : BOOLEAN]

\* A job that is complete has ended; one with its file written has it; and who has read a
\* complete status has read it of a job that has ended.
ExportsInOrder ==
    /\ \A j \in Exports : /\ exportJob[j].status \in {"complete", "expired"} => Ended(j)
                          /\ exporter[j] \in {"status", "done"} => exportJob[j].file
    /\ poller = NoPoll \/ poller \in [pc : {"file"}, job : Exports,
                                      status : {"", "pending", "complete", "expired"}]
    /\ poller.pc = "file" /\ poller.status = "complete" => Ended(poller.job)

ExportInv == ExportTypes /\ ExportsInOrder /\ CompleteHasFile

\* Whoever polls, polls for a job.
LEMMA PollerReads ==
    /\ NoPoll.pc = "idle"
    /\ ExportsInOrder /\ poller.pc = "file" => poller.job \in Exports
<1>1. NoPoll.pc = "idle"  BY DEF NoPoll
<1>2. ASSUME ExportsInOrder, poller.pc = "file" PROVE poller.job \in Exports
  <2>1. poller # NoPoll  BY <1>1, <1>2
  <2>2. poller \in [pc : {"file"}, job : Exports, status : {"", "pending", "complete", "expired"}]
    BY <1>2, <2>1, Zenon DEF ExportsInOrder
  <2>. QED  BY <2>2, Zenon
<1>. QED  BY <1>1, <1>2

\* A step of an export that has not ended: its record changes with its stage.
LEMMA ExportStepKeeps ==
    ASSUME ExportInv, NEW j \in Exports, NEW stage \in {"collect", "status", "failed", "done"},
           NEW record \in ExportRecord,
           exporter[j] \notin {"failed", "done"},
           exporter' = [exporter EXCEPT ![j] = stage],
           exportJob' = [exportJob EXCEPT ![j] = record],
           record.status \in {"complete", "expired"} => stage \in {"failed", "done"},
           stage \in {"status", "done"} => record.file,
           exportList' \in Seq(Exports), Len(exportList') <= MaxExports,
           UNCHANGED <<poller, told>>
    PROVE  ExportInv'
<1>1. /\ exportJob \in [Exports -> ExportRecord]
      /\ exporter \in [Exports -> {"new", "collect", "status", "failed", "done"}]
  BY DEF ExportInv, ExportTypes
<1>2. /\ exportJob' \in [Exports -> ExportRecord]
      /\ exporter' \in [Exports -> {"new", "collect", "status", "failed", "done"}]
      /\ exporter'[j] = stage /\ exportJob'[j] = record
      /\ \A i \in Exports \ {j} : exporter'[i] = exporter[i] /\ exportJob'[i] = exportJob[i]
  BY <1>1
<1>3. ExportTypes'  BY <1>2 DEF ExportInv, ExportTypes
<1>4. ExportsInOrder'
  <2>1. \A i \in Exports : /\ exportJob'[i].status \in {"complete", "expired"} => Ended(i)'
                           /\ exporter'[i] \in {"status", "done"} => exportJob'[i].file
    BY <1>2, Zenon DEF ExportInv, ExportsInOrder, Ended
  <2>2. \A i \in Exports : Ended(i) => Ended(i)'  BY <1>2 DEF Ended
  <2>3. poller = NoPoll \/ poller \in [pc : {"file"}, job : Exports,
                                       status : {"", "pending", "complete", "expired"}]
    BY Zenon DEF ExportInv, ExportsInOrder
  <2>4. poller.pc = "file" => poller.job \in Exports  BY PollerReads DEF ExportInv
  <2>5. poller.pc = "file" /\ poller.status = "complete" => Ended(poller.job)'
    BY <2>2, <2>4, Zenon DEF ExportInv, ExportsInOrder
  <2>. QED  BY <2>1, <2>3, <2>5, Zenon DEF ExportsInOrder, Ended
<1>5. CompleteHasFile'
  <2>1. \A i \in Exports : exporter[i] = "failed" => exporter'[i] = "failed"  BY <1>2
  <2>2. \A answer \in told : answer.job \in Exports  BY DEF ExportInv, ExportTypes
  <2>. QED  BY <2>1, <2>2 DEF ExportInv, CompleteHasFile
<1>. QED  BY <1>3, <1>4, <1>5 DEF ExportInv

\* A new job, for which the oldest of a full list is forgotten.
LEMMA HandleCreateKeeps ==
    ASSUME ExportInv, NEW j \in Exports, HandleCreate(j) PROVE ExportInv'
<1>1. /\ exportJob \in [Exports -> ExportRecord] /\ exportList \in Seq(Exports)
      /\ Len(exportList) <= MaxExports /\ MaxExports \in Nat \ {0}
  BY TenantConstants DEF ExportInv, ExportTypes
<1>2. exportList' \in Seq(Exports) /\ Len(exportList') <= MaxExports
  <2>1. CASE Len(exportList) >= MaxExports
    <3>1. exportList # <<>>  BY <1>1, <2>1
    <3>2. Tail(exportList) \in Seq(Exports) /\ Len(Tail(exportList)) = Len(exportList) - 1
      BY <1>1, <3>1
    <3>3. exportList' = Append(Tail(exportList), j)  BY <2>1 DEF HandleCreate
    <3>4. exportList' \in Seq(Exports) /\ Len(exportList') = Len(Tail(exportList)) + 1
      BY <3>2, <3>3
    <3>. QED  BY <1>1, <3>2, <3>4
  <2>2. CASE ~(Len(exportList) >= MaxExports)
    <3>1. exportList' = Append(exportList, j)  BY <2>2 DEF HandleCreate
    <3>2. exportList' \in Seq(Exports) /\ Len(exportList') = Len(exportList) + 1
      BY <1>1, <3>1
    <3>. QED  BY <1>1, <2>2, <3>2
  <2>. QED  BY <2>1, <2>2
<1>. DEFINE record == [exportJob[j] EXCEPT !.status = "pending"]
<1>3. record \in ExportRecord /\ record.status = "pending"  BY <1>1, Zenon DEF ExportRecord
<1>4. /\ exporter[j] = "new" /\ exporter' = [exporter EXCEPT ![j] = "collect"]
      /\ exportJob' = [exportJob EXCEPT ![j] = record] /\ UNCHANGED <<poller, told>>
  BY DEF HandleCreate
<1>. HIDE DEF record
<1>. QED  BY <1>2, <1>3, <1>4, ExportStepKeeps, Zenon

\* An export without data is complete, and has no file.
LEMMA CollectFailsKeeps ==
    ASSUME ExportInv, NEW j \in Exports, CollectFails(j) PROVE ExportInv'
<1>1. exportJob \in [Exports -> ExportRecord] /\ exportList \in Seq(Exports) /\ Len(exportList) <= MaxExports
  BY DEF ExportInv, ExportTypes
<1>. DEFINE record == [exportJob[j] EXCEPT !.status = "complete"]
<1>2. record \in ExportRecord /\ record.status = "complete"  BY <1>1, Zenon DEF ExportRecord
<1>3. /\ exporter[j] = "collect" /\ exporter' = [exporter EXCEPT ![j] = "failed"]
      /\ exportJob' = [exportJob EXCEPT ![j] = record] /\ UNCHANGED <<exportList, poller, told>>
  BY DEF CollectFails
<1>. HIDE DEF record
<1>. QED  BY <1>1, <1>2, <1>3, ExportStepKeeps, Zenon

\* The file is set before the status is.
LEMMA SetFilePathKeeps ==
    ASSUME ExportInv, NEW j \in Exports, SetFilePath(j) PROVE ExportInv'
<1>1. exportJob \in [Exports -> ExportRecord] /\ exportList \in Seq(Exports) /\ Len(exportList) <= MaxExports
  BY DEF ExportInv, ExportTypes
<1>. DEFINE record == [exportJob[j] EXCEPT !.file = TRUE]
<1>2. record \in ExportRecord /\ record.status = exportJob[j].status /\ record.file
  BY <1>1, Zenon DEF ExportRecord
<1>3. /\ exporter[j] = "collect" /\ exporter' = [exporter EXCEPT ![j] = "status"]
      /\ exportJob' = [exportJob EXCEPT ![j] = record] /\ UNCHANGED <<exportList, poller, told>>
  BY DEF SetFilePath
<1>4. record.status \notin {"complete", "expired"}
  BY <1>2, <1>3, Zenon DEF ExportInv, ExportsInOrder, Ended
<1>. HIDE DEF record
<1>. QED  BY <1>1, <1>2, <1>3, <1>4, ExportStepKeeps, Zenon

\* The status is set when the file is there.
LEMMA SetStatusKeeps ==
    ASSUME ExportInv, NEW j \in Exports, SetStatus(j) PROVE ExportInv'
<1>1. exportList \in Seq(Exports) /\ Len(exportList) <= MaxExports
  BY DEF ExportInv, ExportTypes
<1>. DEFINE record == [status |-> "complete", file |-> TRUE]
<1>2. record \in ExportRecord /\ record.file  BY DEF ExportRecord
<1>3. /\ exporter[j] = "status" /\ exporter' = [exporter EXCEPT ![j] = "done"]
      /\ exportJob' = [exportJob EXCEPT ![j] = record] /\ UNCHANGED <<exportList, poller, told>>
  BY DEF SetStatus
<1>. HIDE DEF record
<1>. QED  BY <1>1, <1>2, <1>3, ExportStepKeeps, Zenon

\* HandleStatus reads the status: when that is complete, the export has ended.
LEMMA ReadStatusKeeps ==
    ASSUME ExportInv, NEW j \in Exports, ReadStatus(j) PROVE ExportInv'
<1>0. /\ poller' = [pc |-> "file", job |-> j, status |-> exportJob[j].status]
      /\ UNCHANGED <<exportList, exportJob, exporter, told>>
      /\ exportJob[j] \in ExportRecord
  BY DEF ReadStatus, ExportInv, ExportTypes
<1>1. /\ poller' \in [pc : {"file"}, job : Exports, status : {"", "pending", "complete", "expired"}]
      /\ poller'.job = j /\ poller'.status = exportJob[j].status
  BY <1>0, Zenon DEF ExportRecord
<1>2. poller'.status = "complete" => Ended(j)  BY <1>1, Zenon DEF ExportInv, ExportsInOrder
<1>3. ExportTypes'  BY <1>0 DEF ExportInv, ExportTypes
<1>4. ExportsInOrder'  BY <1>0, <1>1, <1>2, Zenon DEF ExportInv, ExportsInOrder, Ended
<1>5. CompleteHasFile'  BY <1>0, Zenon DEF ExportInv, CompleteHasFile
<1>. QED  BY <1>3, <1>4, <1>5 DEF ExportInv

\* HandleStatus reads the file: an export that has ended well has one.
LEMMA ReadFileKeeps ==
    ASSUME ExportInv, ReadFile PROVE ExportInv'
<1>0. /\ poller.pc = "file" /\ poller' = NoPoll /\ UNCHANGED <<exportList, exporter>>
      /\ exportJob \in [Exports -> ExportRecord]
      /\ told \subseteq [job : Exports, url : BOOLEAN]
      /\ exporter \in [Exports -> {"new", "collect", "status", "failed", "done"}]
  BY DEF ReadFile, ExportInv, ExportTypes
<1>. DEFINE j == poller.job
<1>1. j \in Exports  BY <1>0, PollerReads DEF ExportInv
<1>2. poller.status = "complete" => Ended(j)  BY <1>0, Zenon DEF ExportInv, ExportsInOrder
<1>3. NoPoll.pc = "idle"  BY PollerReads
<1>. HIDE DEF j
<1>4. CASE UNCHANGED <<exportJob, told>>
  <2>1. ExportTypes'  BY <1>0, <1>4 DEF ExportInv, ExportTypes
  <2>2. ExportsInOrder'  BY <1>0, <1>3, <1>4, Zenon DEF ExportInv, ExportsInOrder, Ended
  <2>3. CompleteHasFile'  BY <1>0, <1>4 DEF ExportInv, CompleteHasFile
  <2>. QED  BY <2>1, <2>2, <2>3 DEF ExportInv
<1>5. CASE /\ poller.status = "complete" /\ UNCHANGED exportJob
           /\ told' = told \cup {[job |-> j, url |-> exportJob[j].file]}
  <2>1. exportJob[j].file \in BOOLEAN  BY <1>0, <1>1, Zenon DEF ExportRecord
  <2>2. ExportTypes'  BY <1>0, <1>1, <1>5, <2>1 DEF ExportInv, ExportTypes
  <2>3. ExportsInOrder'  BY <1>0, <1>3, <1>5, Zenon DEF ExportInv, ExportsInOrder, Ended
  <2>4. exporter[j] # "failed" => exportJob[j].file
    BY <1>1, <1>2, <1>5, Zenon DEF ExportInv, ExportsInOrder, Ended
  <2>5. CompleteHasFile'
    <3>1. ASSUME NEW answer \in told' PROVE exporter[answer.job] # "failed" => answer.url
      <4>1. CASE answer \in told  BY <4>1, Zenon DEF ExportInv, CompleteHasFile
      <4>2. CASE answer = [job |-> j, url |-> exportJob[j].file]  BY <2>4, <4>2
      <4>. QED  BY <1>5, <4>1, <4>2
    <3>. QED  BY <1>0, <3>1, Zenon DEF CompleteHasFile
  <2>. QED  BY <2>2, <2>3, <2>5 DEF ExportInv
<1>6. CASE /\ poller.status = "complete" /\ UNCHANGED told
           /\ exportJob' = [exportJob EXCEPT ![j].status = "expired"]
  <2>. DEFINE record == [exportJob[j] EXCEPT !.status = "expired"]
  <2>1. record \in ExportRecord /\ record.file = exportJob[j].file
    BY <1>0, <1>1, Zenon DEF ExportRecord
  <2>2. exportJob' = [exportJob EXCEPT ![j] = record]  BY <1>6
  <2>. HIDE DEF record
  <2>3. /\ exportJob' \in [Exports -> ExportRecord]
        /\ exportJob'[j] = record /\ \A i \in Exports \ {j} : exportJob'[i] = exportJob[i]
    BY <1>0, <1>1, <2>1, <2>2
  <2>4. ExportTypes'  BY <1>0, <1>6, <2>3, Zenon DEF ExportInv, ExportTypes
  <2>5. ExportsInOrder'
    <3>1. \A i \in Exports : /\ exportJob'[i].status \in {"complete", "expired"} => Ended(i)
                             /\ exporter[i] \in {"status", "done"} => exportJob'[i].file
      BY <1>2, <1>6, <2>1, <2>3, Zenon DEF ExportInv, ExportsInOrder
    <3>. QED  BY <1>0, <1>3, <3>1 DEF ExportsInOrder, Ended
  <2>6. CompleteHasFile'  BY <1>0, <1>6 DEF ExportInv, CompleteHasFile
  <2>. QED  BY <2>4, <2>5, <2>6 DEF ExportInv
<1>. QED  BY <1>4, <1>5, <1>6 DEF ReadFile, j

\* The invariant of the exports holds at the start.
LEMMA ExportInitInv == ExportInit => ExportInv
<1>. SUFFICES ASSUME ExportInit PROVE ExportInv  OBVIOUS
<1>1. exportList \in Seq(Exports) /\ Len(exportList) = 0
  <2>1. exportList = <<>>  BY Zenon DEF ExportInit
  <2>2. <<>> \in Seq(Exports) /\ Len(<<>>) = 0  OBVIOUS
  <2>. QED  BY <2>1, <2>2, Zenon
<1>2. [status |-> "", file |-> FALSE] \in ExportRecord  BY DEF ExportRecord
<1>3. ExportTypes
  <2>1. Len(exportList) <= MaxExports  BY <1>1, TenantConstants
  <2>2. /\ exportJob \in [Exports -> ExportRecord]
        /\ exporter \in [Exports -> {"new", "collect", "status", "failed", "done"}]
    BY <1>2, Zenon DEF ExportInit
  <2>3. told \subseteq [job : Exports, url : BOOLEAN]  BY Zenon DEF ExportInit
  <2>. QED  BY <1>1, <2>1, <2>2, <2>3, Zenon DEF ExportTypes
<1>4. ExportsInOrder
  <2>1. \A j \in Exports : exportJob[j].status = "" /\ exporter[j] = "new"  BY Zenon DEF ExportInit
  <2>2. poller = NoPoll /\ poller.pc # "file"  BY PollerReads, Zenon DEF ExportInit
  <2>. QED  BY <2>1, <2>2, Zenon DEF ExportsInOrder
<1>5. CompleteHasFile  BY Zenon DEF ExportInit, CompleteHasFile
<1>. QED  BY <1>3, <1>4, <1>5 DEF ExportInv

\* Every step of the exports and of their pollers keeps the invariant.
LEMMA ExportNextInv == ExportInv /\ (ExportNext \/ UNCHANGED exportVars) => ExportInv'
<1>. SUFFICES ASSUME ExportInv, ExportNext \/ UNCHANGED exportVars PROVE ExportInv'  OBVIOUS
<1>1. ASSUME NEW j \in Exports, HandleCreate(j) PROVE ExportInv'  BY <1>1, HandleCreateKeeps
<1>2. ASSUME NEW j \in Exports, CollectFails(j) PROVE ExportInv'  BY <1>2, CollectFailsKeeps
<1>3. ASSUME NEW j \in Exports, SetFilePath(j) PROVE ExportInv'  BY <1>3, SetFilePathKeeps
<1>4. ASSUME NEW j \in Exports, SetStatus(j) PROVE ExportInv'  BY <1>4, SetStatusKeeps
<1>5. ASSUME NEW j \in Exports, ReadStatus(j) PROVE ExportInv'  BY <1>5, ReadStatusKeeps
<1>6. CASE ReadFile  BY <1>6, ReadFileKeeps
<1>7. CASE UNCHANGED exportVars
  <2>. USE <1>7 DEF exportVars
  <2>1. ExportTypes'  BY DEF ExportInv, ExportTypes
  <2>2. ExportsInOrder'  BY Zenon DEF ExportInv, ExportsInOrder, Ended
  <2>3. CompleteHasFile'  BY DEF ExportInv, CompleteHasFile
  <2>. QED  BY <2>1, <2>2, <2>3 DEF ExportInv
<1>. QED  BY <1>1, <1>2, <1>3, <1>4, <1>5, <1>6, <1>7 DEF ExportNext

-----------------------------------------------------------------------------
INSTANCE FiniteSetTheorems

\* What the lemmas assume of finite sets, from the library.
LEMMA FiniteFactsHold == FiniteFacts
<1>1. EmptySetFacts  BY FS_EmptySet DEF EmptySetFacts
<1>2. CardinalityFacts  BY FS_CardinalityType DEF CardinalityFacts
<1>3. SubsetFacts  BY FS_Subset DEF SubsetFacts
<1>4. AddFacts  BY FS_AddElement DEF AddFacts
<1>5. RemoveFacts  BY FS_RemoveElement DEF RemoveFacts
<1>6. SingletonFacts  BY FS_Singleton, Zenon DEF SingletonFacts
<1>. QED  BY <1>1, <1>2, <1>3, <1>4, <1>5, <1>6 DEF FiniteFacts

\* The forwarding service: a keyed request leaves one run at the peer unless two of its
\* attempts were creating at once at a peer with file stores, and a client that was told
\* of its run finds it in the index until it expires or is crowded out; for every number
\* of forwards, attempts, entries and restarts.
THEOREM ForwardedRunsKept ==
    ForwardSpec => [](ForwardTypeOK /\ IndexBounded /\ ForwardsAreKept)
<1>1. ForwardInv => ForwardTypeOK /\ IndexBounded /\ ForwardsAreKept
  BY FiniteFactsHold, OneRun DEF ForwardInv, ForwardsAreKept
<1>2. ForwardInit => ForwardInv  BY FiniteFactsHold, ForwardInitInv
<1>3. ForwardInv /\ [ForwardNext]_forwardVars => ForwardInv'  BY FiniteFactsHold, ForwardNextInv
<1>. QED  BY <1>1, <1>2, <1>3, PTL DEF ForwardSpec

\* The invariants of the tenant's data and of the exports hold throughout.
LEMMA TenantInvariant == TenantSpec => [](DataInv /\ ExportInv)
<1>1. DataInit /\ ExportInit => DataInv /\ ExportInv  BY DataInitInv, ExportInitInv
<1>2. DataInv /\ ExportInv
      /\ [\/ DataNext /\ UNCHANGED exportVars
          \/ ExportNext /\ UNCHANGED dataVars]_<<dataVars, exportVars>>
      => (DataInv /\ ExportInv)'
  BY FiniteFactsHold, DataNextInv, ExportNextInv, Zenon
<1>. QED  BY <1>1, <1>2, PTL DEF TenantSpec

\* What a deletion or a purge found when it began is gone from every table it has passed, although
\* both work in batches while rows are written; and whoever is told that an export is complete is
\* given its file. For any rows, tables, batch size, retention and number of exports.
THEOREM TenantJobsThorough == TenantSpec => [](TenantTypeOK /\ JobsAreThorough)
<1>1. DataInv => NothingIsMissed /\ Stored \subseteq RowIds /\ final \subseteq Stored
                 /\ (\A t \in TenantIds : deletion[t].table \in 0 .. Len(TenantTables) + 1)
                 /\ purge.table \in 0 .. Len(PurgeTables) + 1
  BY DEF DataInv, DataTypes, DeletionRecord, PurgeRecord
<1>2. ExportInv => /\ CompleteHasFile /\ Len(exportList) <= MaxExports
                   /\ \A j \in Exports : exportJob[j].status \in {"", "pending", "complete", "expired"}
  BY Zenon DEF ExportInv, ExportTypes, ExportRecord
<1>3. DataInv /\ ExportInv => TenantTypeOK /\ JobsAreThorough
  BY <1>1, <1>2, Zenon DEF TenantTypeOK, JobsAreThorough
<1>. QED  BY <1>3, TenantInvariant, PTL

\* A row leaves the database only by the deletion of its tenant or past its retention, a run only
\* once it has ended: for any rows, tables, batch size and retention.
THEOREM RemovalsAreDue == TenantSpec => RowsLeaveRightly
<1>. DEFINE Rightly ==
        \A r \in Stored \ DOMAIN rowDay' :
          \/ deletion[OwnerOf[r]].pc = "table"
          \/ rowDay[r] < day - Retention[TableOf[r]] /\ (TableOf[r] = "runs" => r \in final)
<1>1. ASSUME DataInv, DataNext, NEW r \in Stored, r \notin DOMAIN rowDay'
      PROVE  \/ deletion[OwnerOf[r]].pc = "table"
             \/ rowDay[r] < day - Retention[TableOf[r]] /\ (TableOf[r] = "runs" => r \in final)
  <2>0. \A b : DropRows(b) => r \in b
    <3>1. \A b : DropRows(b) => Stored' = Stored \ b  BY <1>1, DropRowsKeeps DEF DataInv
    <3>. QED  BY <1>1, <3>1, Zenon DEF Stored
  <2>1. ASSUME NEW x \in RowIds, WriteRow(x) PROVE FALSE  BY <1>1, <2>1 DEF WriteRow, Stored
  <2>2. rowDay' # rowDay  BY <1>1 DEF Stored
  <2>3. ASSUME NEW t \in TenantIds, DeleteStep(t) PROVE deletion[OwnerOf[r]].pc = "table"
    <3>1. PICK b \in Batches({x \in Stored : OwnerOf[x] = t
                                             /\ TableOf[x] = TenantTables[deletion[t].table]}) :
             DropRows(b)
      BY <2>2, <2>3, Zenon DEF DeleteStep
    <3>2. r \in b  BY <2>0, <3>1
    <3>3. OwnerOf[r] = t  BY <3>1, <3>2, Zenon DEF Batches
    <3>. QED  BY <2>3, <3>3 DEF DeleteStep
  <2>4. ASSUME PurgeStep
        PROVE  rowDay[r] < day - Retention[TableOf[r]] /\ (TableOf[r] = "runs" => r \in final)
    <3>0. /\ purge.pc = "table" /\ purge.table <= Len(PurgeTables) /\ purge.table >= 1
          /\ purge.now \in Nat /\ purge.now <= day /\ day \in Nat /\ purge.table \in Nat
          /\ rowDay \in [Stored -> Nat]
      BY <1>1, <2>4, TablesAreNumbered DEF PurgeStep, DataInv, DataTypes, JobsOnTrack, PurgeRecord
    <3>1. PICK b \in Batches(Purgeable(PurgeTables[purge.table], purge.now)) : DropRows(b)
      BY <2>4, Zenon DEF PurgeStep
    <3>2. r \in Purgeable(PurgeTables[purge.table], purge.now)  BY <2>0, <3>1, Zenon DEF Batches
    <3>3. TableOf[r] = PurgeTables[purge.table] /\ (TableOf[r] = "runs" => r \in final)
          /\ rowDay[r] < purge.now - Retention[TableOf[r]]
      BY <3>2, Zenon DEF Purgeable
    <3>4. Retention[TableOf[r]] \in Nat /\ rowDay[r] \in Nat
      BY <1>1, <3>0, <3>3, TablesAreNumbered, TenantConstants
    <3>5. rowDay[r] < day - Retention[TableOf[r]]  BY <3>0, <3>3, <3>4
    <3>. QED  BY <3>3, <3>5
  <2>5. ASSUME NEW t \in TenantIds, HandleDelete(t) \/ DeleteFails(t) PROVE FALSE
    BY <2>2, <2>5 DEF HandleDelete, DeleteFails
  <2>6. ASSUME NEW x \in RowIds, FinishRun(x) PROVE FALSE  BY <2>2, <2>6, Zenon DEF FinishRun
  <2>7. ~NextDay /\ ~StartPurge /\ ~EndPurge  BY <2>2 DEF NextDay, StartPurge, EndPurge
  <2>. QED  BY <1>1, <2>1, <2>3, <2>4, <2>5, <2>6, <2>7, Zenon DEF DataNext
<1>2. DataInv /\ [\/ DataNext /\ UNCHANGED exportVars
                  \/ ExportNext /\ UNCHANGED dataVars]_<<dataVars, exportVars>>
      => [Rightly]_dataVars
  <2>1. DataInv /\ DataNext => Rightly  BY <1>1, Zenon
  <2>. QED  BY <2>1, Zenon
<1>. QED  BY <1>2, TenantInvariant, PTL DEF TenantSpec, RowsLeaveRightly

=============================================================================
