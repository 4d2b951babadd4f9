--------------------------- MODULE Agents_proofs ----------------------------
(***************************************************************************)
(* Proofs about the agents: that the registry keeps the configurations it  *)
(* acknowledged, whatever requests run at the same time, and that the      *)
(* requests of the agents' web tools go where they may.                    *)
(***************************************************************************)
EXTENDS AgentRegistry, WebFetch, SetFacts, TLAPS

\* What Append does to a sequence.
LEMMA AppendFacts ==
    ASSUME NEW S, NEW s \in Seq(S), NEW e \in S
    PROVE  /\ Append(s, e) \in Seq(S) /\ Len(Append(s, e)) = Len(s) + 1
           /\ Append(s, e)[Len(s) + 1] = e
           /\ \A i \in 1 .. Len(s) : Append(s, e)[i] = s[i]
OBVIOUS

\* What a subsequence holds.
LEMMA SubSeqFacts ==
    ASSUME NEW S, NEW s, NEW m \in Int, NEW n \in Int, \A i \in m .. n : s[i] \in S
    PROVE  LET t == SubSeq(s, m, n)
           IN  /\ t \in Seq(S) /\ Len(t) = IF m <= n THEN n - m + 1 ELSE 0
               /\ \A i \in 1 .. n - m + 1 : t[i] = s[m + i - 1]
OBVIOUS

AgentRecord == [version : 0 .. writes, config : Configs \cup {NoConfig}, write : 0 .. writes]
Snapshot == [label : 1 .. MaxSnapshots + 1, config : Configs]
Request == [step : {"idle", "lookup", "check", "save", "count", "snapshot"},
            version : 0 .. writes, config : Configs \cup {NoConfig}, write : 0 .. writes,
            label : 0 .. MaxSnapshots + 1]

\* A request that has written the record and not yet taken the snapshot of it.
Owes(h) == request[h].step \in {"count", "snapshot"}
OwedBefore(w) == {h \in Handlers : Owes(h) /\ request[h].write < w}

\* The agent's configuration is on its way into a snapshot, or in one that the
\* snapshots which are still owed for earlier writes cannot push out.
ConfigIsHeld ==
    agent # NoAgent /\ agent.write \notin missed =>
        \/ \E h \in Handlers : Owes(h) /\ request[h].write = agent.write
        \/ \E i \in DOMAIN snapshots :
              /\ snapshots[i].config = agent.config
              /\ Len(snapshots) - i + Cardinality(OwedBefore(agent.write)) < MaxSnapshots

\* An owed snapshot is of the agent's write or of an earlier one.
DebtsAreOld ==
    \A h \in Handlers : Owes(h) =>
        /\ request[h].write >= 1
        /\ agent # NoAgent => /\ request[h].write <= agent.write
                              /\ request[h].write = agent.write => request[h].config = agent.config

\* While requests came one at a time, a snapshot was taken of each version in turn.
SnapshotsFollowVersions ==
    regular =>
        /\ \A h, g \in Handlers : h = g \/ request[h] = NoRequest \/ request[g] = NoRequest
        /\ agent = NoAgent => Quiet(Handlers) /\ snapshots = <<>>
        /\ agent # NoAgent =>
              /\ \A h \in Handlers :
                    /\ request[h].step \in {"lookup", "check", "save"} =>
                          request[h].version = agent.version
                    /\ Owes(h) => /\ request[h].config = agent.config
                                  /\ Len(snapshots) + 1 = agent.version
                    /\ request[h].step = "snapshot" => request[h].label = agent.version
              /\ (\A h \in Handlers : ~Owes(h)) =>
                    /\ Len(snapshots) = agent.version /\ Len(snapshots) > 0
                    /\ snapshots[Len(snapshots)] =
                          [label |-> agent.version, config |-> agent.config]

\* The types, with what a request has set when it comes to use it.
RegistryTypes ==
    /\ writes \in 0 .. MaxWrites /\ missed \subseteq 1 .. writes /\ regular \in BOOLEAN
    /\ agent \in AgentRecord /\ (agent.write = 0 => agent = NoAgent)
    /\ agentFile \in AgentRecord /\ (agentFile.write = 0 => agentFile = NoAgent)
    /\ request \in [Handlers -> Request]
    /\ snapshots \in Seq(Snapshot) /\ Len(snapshots) <= MaxSnapshots
    /\ \A h \in Handlers :
          /\ request[h].step \in {"check", "save", "count", "snapshot"} =>
                request[h].config \in Configs
          /\ request[h].step = "snapshot" => request[h].label # 0

\* What CurrentConfigIsKept rests on.
RegistryInv == RegistryTypes /\ DebtsAreOld /\ ConfigIsHeld /\ SnapshotsFollowVersions

\* A set of positions has a last one.
LEMMA LastPosition ==
    ASSUME LeastFacts, NEW n \in Nat, NEW I \in SUBSET (1 .. n), I # {}
    PROVE  \E x \in I : \A y \in I : y <= x
<1>. DEFINE J == {n - i : i \in I}
<1>1. J \subseteq Nat /\ J # {}
  <2>1. \A i \in I : n - i \in Nat  OBVIOUS
  <2>. QED  BY <2>1, Zenon
<1>2. PICK j \in J : \A m \in J : j <= m  BY <1>1, Zenon DEF LeastFacts
<1>3. \A m \in J : ~(m < j)
  <2>1. ASSUME NEW m \in J PROVE m \in Nat /\ j \in Nat /\ j <= m  BY <1>1, <1>2, Zenon
  <2>. HIDE DEF J
  <2>. QED  BY <2>1
<1>4. PICK x \in I : j = n - x  OBVIOUS
<1>5. \A y \in I : y <= x
  <2>1. ASSUME NEW y \in I PROVE y <= x
    <3>1. n - y \in J /\ x \in 1 .. n /\ y \in 1 .. n  OBVIOUS
    <3>2. ~(n - y < n - x)  BY <3>1, <1>3, <1>4
    <3>. HIDE DEF J
    <3>. QED  BY <3>1, <3>2
  <2>. QED  BY <2>1
<1>. QED  BY <1>5

\* A snapshot that those still owed could not push out is there, and safe from the
\* others, when one of them has been taken and the oldest may have been dropped.
LEMMA RoomForOwed ==
    ASSUME NEW len \in Nat, NEW i \in 1 .. len, NEW off \in 0 .. 1, NEW max \in Nat,
           NEW owed \in Nat, NEW left \in Nat, left < owed, len - i + owed < max
    PROVE  /\ (off = 1 => len = max) => i > off
           /\ len + 1 - off - (i - off) + left < max
OBVIOUS

\* GetVersion returns a snapshot or nothing.
LEMMA NewestIsThere ==
    ASSUME LeastFacts, snapshots \in Seq(Snapshot), NEW label
    PROVE  NewestWith(label) = 0 \/ NewestWith(label) \in 1 .. Len(snapshots)
<1>. DEFINE I == {i \in 1 .. Len(snapshots) : snapshots[i].label = label}
<1>1. DOMAIN snapshots = 1 .. Len(snapshots) /\ Len(snapshots) \in Nat  OBVIOUS
<1>2. NewestWith(label) = IF I = {} THEN 0 ELSE CHOOSE i \in I : \A j \in I : j <= i
  BY <1>1 DEF NewestWith
<1>3. I # {} => \E x \in I : \A y \in I : y <= x  BY <1>1, LastPosition, Zenon
<1>. QED  BY <1>2, <1>3

\* t is s with e at the end, and without its first off elements.
Shifted(S, s, e, t, off) ==
    /\ t \in Seq(S) /\ Len(t) = Len(s) + 1 - off /\ Len(t) <= MaxSnapshots
    /\ Len(t) \in 1 .. Len(t) /\ t[Len(t)] = e
    /\ off = 1 <=> Len(s) = MaxSnapshots
    /\ \A i \in 1 .. Len(s) : i > off => i - off \in 1 .. Len(t) /\ t[i - off] = s[i]

\* CreateVersion: the new snapshot comes last, and at the cap the first one goes.
LEMMA SnapshotIsAdded ==
    ASSUME NEW S, NEW s \in Seq(S), NEW e \in S, NEW t, t = KeepNewest(Append(s, e)),
           Len(s) <= MaxSnapshots, MaxSnapshots \in Nat \ {0}
    PROVE  \E off \in 0 .. 1 : Shifted(S, s, e, t, off)
<1>. DEFINE a == Append(s, e)
<1>1. /\ a \in Seq(S) /\ Len(a) = Len(s) + 1 /\ Len(s) \in Nat /\ a[Len(s) + 1] = e
      /\ \A i \in 1 .. Len(s) : a[i] = s[i]
  BY AppendFacts
<1>. HIDE DEF a
<1>2. CASE Len(s) < MaxSnapshots
  <2>1. t = a  BY <1>1, <1>2 DEF KeepNewest, a
  <2>2. /\ Len(a) = Len(s) + 1 - 0 /\ Len(a) <= MaxSnapshots /\ Len(a) \in 1 .. Len(a)
        /\ a[Len(a)] = e /\ 0 \in 0 .. 1 /\ (0 = 1 <=> Len(s) = MaxSnapshots)
        /\ \A i \in 1 .. Len(s) : i > 0 => i - 0 \in 1 .. Len(a) /\ a[i - 0] = s[i]
    BY <1>1, <1>2
  <2>3. Shifted(S, s, e, t, 0)  BY <2>1, <2>2, <1>1, Zenon DEF Shifted
  <2>. QED  BY <2>3
<1>3. CASE Len(s) = MaxSnapshots
  <2>1. t = SubSeq(a, 2, Len(a))
    <3>1. Len(a) > MaxSnapshots /\ Len(a) - MaxSnapshots + 1 = 2  BY <1>1, <1>3
    <3>. QED  BY <3>1, Zenon DEF KeepNewest, a
  <2>2. /\ t \in Seq(S) /\ Len(t) = IF 2 <= Len(a) THEN Len(a) - 2 + 1 ELSE 0
        /\ \A i \in 1 .. Len(a) - 2 + 1 : t[i] = a[2 + i - 1]
    <3>1. 2 \in Nat /\ Len(a) \in Nat /\ \A i \in 2 .. Len(a) : a[i] \in S  BY <1>1
    <3>. QED  BY <3>1, <2>1, <1>1, SubSeqFacts
  <2>3. Len(t) = Len(s) /\ Len(s) >= 1  BY <2>2, <1>1, <1>3
  <2>4. /\ Len(t) = Len(s) + 1 - 1 /\ Len(t) <= MaxSnapshots /\ Len(t) \in 1 .. Len(t)
        /\ 1 \in 0 .. 1 /\ (1 = 1 <=> Len(s) = MaxSnapshots)
    BY <2>3, <1>1, <1>3
  <2>5. t[Len(t)] = e
    <3>1. Len(t) \in 1 .. Len(a) - 2 + 1 /\ 2 + Len(t) - 1 = Len(s) + 1  BY <2>3, <1>1
    <3>. QED  BY <3>1, <2>2, <1>1
  <2>6. ASSUME NEW i \in 1 .. Len(s), i > 1
        PROVE  i - 1 \in 1 .. Len(t) /\ t[i - 1] = s[i]
    <3>1. /\ i - 1 \in 1 .. Len(a) - 2 + 1 /\ 2 + (i - 1) - 1 = i /\ i - 1 \in 1 .. Len(t)
      BY <2>3, <2>6, <1>1
    <3>. QED  BY <3>1, <2>2, <1>1, Zenon
  <2>7. Shifted(S, s, e, t, 1)  BY <2>2, <2>4, <2>5, <2>6, Zenon DEF Shifted
  <2>. QED  BY <2>7
<1>. QED  BY <1>1, <1>2, <1>3

\* The handlers are finitely many, and no more than the snapshots that are kept.
LEMMA DebtsAreFew ==
    ASSUME FiniteFacts, NEW h \in Handlers, NEW B \in SUBSET Handlers
    PROVE  /\ IsFiniteSet(B) /\ Cardinality(B) \in Nat
           /\ \A A \in SUBSET B : Cardinality(A) \in Nat /\ Cardinality(A) <= Cardinality(B)
           /\ \A A \in SUBSET B : \A g \in B \ A : Cardinality(A) < Cardinality(B)
           /\ h \notin B => Cardinality(B) < MaxSnapshots
           /\ MaxSnapshots \in Nat \ {0}
<1>1. \A D \in SUBSET Handlers : IsFiniteSet(D) /\ Cardinality(D) \in Nat
  BY RegistryConstants DEF FiniteFacts, SubsetFacts, CardinalityFacts
<1>2. ASSUME NEW D \in SUBSET Handlers, NEW A \in SUBSET D, NEW g \in D, g \notin A
      PROVE  Cardinality(A) < Cardinality(D)
  <2>1. IsFiniteSet(D) /\ A # D /\ A \subseteq D  BY <1>1, <1>2
  <2>2. /\ Cardinality(A) <= Cardinality(D)
        /\ Cardinality(A) = Cardinality(D) => A = D
    BY <2>1 DEF FiniteFacts, SubsetFacts
  <2>. QED  BY <2>1, <2>2, <1>1
<1>3. \A A \in SUBSET B : Cardinality(A) <= Cardinality(B)  BY <1>1 DEF FiniteFacts, SubsetFacts
<1>4. h \notin B => Cardinality(B) < Cardinality(Handlers)  BY <1>2
<1>5. Cardinality(Handlers) \in Nat /\ 0 < Cardinality(Handlers)
  <2>1. Cardinality({}) = 0  BY DEF FiniteFacts, EmptySetFacts
  <2>2. Cardinality({}) < Cardinality(Handlers)  BY <1>2
  <2>. QED  BY <2>1, <2>2, <1>1
<1>6. MaxSnapshots \in Nat /\ MaxSnapshots >= Cardinality(Handlers)  BY RegistryConstants
<1>7. MaxSnapshots \in Nat \ {0}  BY <1>5, <1>6
<1>8. h \notin B => Cardinality(B) < MaxSnapshots  BY <1>1, <1>4, <1>5, <1>6
<1>. QED  BY <1>1, <1>2, <1>3, <1>7, <1>8

\* A step of one request that leaves the record and the snapshots alone, and gives up a
\* snapshot that it owes only by noting so.
LEMMA RequestStep ==
    ASSUME FiniteFacts, RegistryInv, NEW h \in Handlers, NEW x,
           request' = [request EXCEPT ![h] = x],
           agent' = agent, snapshots' = snapshots, missed \subseteq missed',
           x.step \in {"count", "snapshot"} =>
               Owes(h) /\ x.write = request[h].write /\ x.config = request[h].config,
           Owes(h) /\ x.step \notin {"count", "snapshot"} => request[h].write \in missed'
    PROVE  DebtsAreOld' /\ ConfigIsHeld'
<1>1. \A g \in Handlers : request'[g] = IF g = h THEN x ELSE request[g]
  BY DEF RegistryInv, RegistryTypes
<1>2. \A g \in Handlers :
        Owes(g)' => /\ Owes(g) /\ request'[g].write = request[g].write
                    /\ request'[g].config = request[g].config
  BY <1>1 DEF Owes
<1>3. DebtsAreOld'
  <2>1. DebtsAreOld  BY DEF RegistryInv
  <2>. QED  BY <2>1, <1>2, Zenon DEF DebtsAreOld
<1>4. ConfigIsHeld'
  <2>. SUFFICES ASSUME agent # NoAgent, agent.write \notin missed'
                PROVE  \/ \E g \in Handlers : Owes(g)' /\ request'[g].write = agent.write
                       \/ \E i \in DOMAIN snapshots :
                             /\ snapshots[i].config = agent.config
                             /\ Len(snapshots) - i + Cardinality(OwedBefore(agent.write)')
                                   < MaxSnapshots
    BY DEF ConfigIsHeld
  <2>1. ConfigIsHeld /\ agent.write \notin missed  BY DEF RegistryInv
  <2>2. CASE \E g \in Handlers : Owes(g) /\ request[g].write = agent.write
    <3>1. PICK g \in Handlers : Owes(g) /\ request[g].write = agent.write  BY <2>2
    <3>2. Owes(g)' /\ request'[g].write = agent.write  BY <3>1, <1>1 DEF Owes
    <3>. QED  BY <3>2
  <2>3. ASSUME NEW i \in DOMAIN snapshots, snapshots[i].config = agent.config,
               Len(snapshots) - i + Cardinality(OwedBefore(agent.write)) < MaxSnapshots
        PROVE  Len(snapshots) - i + Cardinality(OwedBefore(agent.write)') < MaxSnapshots
    <3>1. OwedBefore(agent.write)' \subseteq OwedBefore(agent.write)
      BY <1>2, Zenon DEF OwedBefore
    <3>2. OwedBefore(agent.write) \in SUBSET Handlers  BY DEF OwedBefore
    <3>3. /\ Cardinality(OwedBefore(agent.write)) \in Nat
          /\ Cardinality(OwedBefore(agent.write)') \in Nat
          /\ Cardinality(OwedBefore(agent.write)') <= Cardinality(OwedBefore(agent.write))
      BY <3>1, <3>2, DebtsAreFew
    <3>4. Len(snapshots) - i \in Int /\ MaxSnapshots \in Int
      BY RegistryConstants DEF RegistryInv, RegistryTypes
    <3>. QED  BY <2>3, <3>3, <3>4
  <2>. QED  BY <2>1, <2>2, <2>3, Zenon DEF ConfigIsHeld
<1>. QED  BY <1>3, <1>4

\* Types of such a step.
LEMMA RequestTypes ==
    ASSUME RegistryTypes, NEW h \in Handlers, NEW x \in Request,
           request' = [request EXCEPT ![h] = x], regular' \in BOOLEAN,
           agent' = agent, agentFile' = agentFile, snapshots' = snapshots,
           writes' = writes, missed' \subseteq 1 .. writes,
           x.step \in {"check", "save", "count", "snapshot"} => x.config \in Configs,
           x.step = "snapshot" => x.label # 0
    PROVE  RegistryTypes'
<1>1. /\ AgentRecord' = AgentRecord /\ Snapshot' = Snapshot /\ Request' = Request
  BY DEF AgentRecord, Snapshot, Request
<1>2. /\ request' \in [Handlers -> Request]
      /\ \A g \in Handlers : request'[g] = IF g = h THEN x ELSE request[g]
  BY DEF RegistryTypes
<1>3. \A g \in Handlers :
        /\ request'[g].step \in {"check", "save", "count", "snapshot"} =>
              request'[g].config \in Configs
        /\ request'[g].step = "snapshot" => request'[g].label # 0
  BY <1>2 DEF RegistryTypes
<1>. QED  BY <1>1, <1>2, <1>3, Zenon DEF RegistryTypes

\* A step of a request that owes no snapshot, and takes up the agent's version.
LEMMA VersionsStayInStep ==
    ASSUME FiniteFacts, RegistryInv, NEW h \in Handlers, NEW x \in Request,
           request' = [request EXCEPT ![h] = x],
           agent' = agent, snapshots' = snapshots, regular' => regular,
           ~Owes(h), x.step \notin {"count", "snapshot"},
           regular' /\ x # NoRequest =>
               Quiet(Handlers \ {h}) /\ agent # NoAgent /\ x.version = agent.version
    PROVE  SnapshotsFollowVersions'
<1>. SUFFICES ASSUME regular' PROVE SnapshotsFollowVersions'  BY DEF SnapshotsFollowVersions
<1>1. \A g \in Handlers : request'[g] = IF g = h THEN x ELSE request[g]
  BY DEF RegistryInv, RegistryTypes
<1>2. SnapshotsFollowVersions /\ regular  BY DEF RegistryInv
<1>3. \A g \in Handlers : Owes(g)' => Owes(g) /\ g # h  BY <1>1 DEF Owes
<1>4. \A g, k \in Handlers : g = k \/ request'[g] = NoRequest \/ request'[k] = NoRequest
  BY <1>1, <1>2 DEF SnapshotsFollowVersions, Quiet
<1>5. agent = NoAgent => Quiet(Handlers)' /\ snapshots = <<>>
  BY <1>1, <1>2 DEF SnapshotsFollowVersions, Quiet
<1>6. ASSUME agent # NoAgent, NEW g \in Handlers
      PROVE  /\ request'[g].step \in {"lookup", "check", "save"} =>
                   request'[g].version = agent.version
             /\ Owes(g)' => /\ request'[g].config = agent.config
                            /\ Len(snapshots) + 1 = agent.version
             /\ request'[g].step = "snapshot" => request'[g].label = agent.version
  <2>1. CASE g = h
    <3>1. x = NoRequest => x.step = "idle"  BY DEF NoRequest
    <3>. QED  BY <3>1, <2>1, <1>1, <1>3
  <2>2. CASE g # h  BY <2>2, <1>1, <1>2, <1>3, <1>6 DEF SnapshotsFollowVersions
  <2>. QED  BY <2>1, <2>2
<1>7. (\A g \in Handlers : ~Owes(g)') => \A g \in Handlers : ~Owes(g)
  BY <1>1 DEF Owes
<1>8. agent # NoAgent /\ (\A g \in Handlers : ~Owes(g)) =>
        /\ Len(snapshots) = agent.version /\ Len(snapshots) > 0
        /\ snapshots[Len(snapshots)] = [label |-> agent.version, config |-> agent.config]
  BY <1>2 DEF SnapshotsFollowVersions
<1>. QED  BY <1>4, <1>5, <1>6, <1>7, <1>8, Zenon DEF SnapshotsFollowVersions

\* Update and rollback begin by reading the agent.
LEMMA BeginKeeps ==
    ASSUME FiniteFacts, RegistryInv, NEW h \in Handlers, NEW step \in {"save", "lookup"},
           NEW c \in Configs \cup {NoConfig}, step = "save" => c \in Configs,
           Begin(h, step, c), UNCHANGED <<agent, agentFile, snapshots, writes, missed>>
    PROVE  RegistryInv'
<1>. DEFINE x == [NoRequest EXCEPT !.step = step, !.config = c, !.version = agent.version]
<1>1. /\ request[h] = NoRequest /\ agent # NoAgent
      /\ request' = [request EXCEPT ![h] = x]
      /\ regular' = (regular /\ Quiet(Handlers \ {h}))
  BY DEF Begin
<1>2. RegistryTypes /\ MaxSnapshots \in Nat  BY RegistryConstants DEF RegistryInv
<1>3. agent.version \in 0 .. writes /\ writes \in Nat
  BY <1>2 DEF RegistryTypes, AgentRecord
<1>4. /\ x \in Request /\ x.step = step /\ x.config = c /\ x.version = agent.version
  <2>1. NoRequest \in Request  BY <1>2, <1>3 DEF NoRequest, Request
  <2>2. step \in {"idle", "lookup", "check", "save", "count", "snapshot"}  OBVIOUS
  <2>3. x \in Request  BY <2>1, <2>2, <1>3, Zenon DEF Request
  <2>4. x.step = step /\ x.config = c /\ x.version = agent.version  BY <2>1 DEF Request
  <2>. QED  BY <2>3, <2>4
<1>5. ~Owes(h)  BY <1>1 DEF Owes, NoRequest
<1>. HIDE DEF x
<1>6. RegistryTypes'
  <2>1. regular' \in BOOLEAN /\ missed' \subseteq 1 .. writes
    BY <1>1, <1>2 DEF RegistryTypes
  <2>. QED  BY <2>1, <1>1, <1>2, <1>4, RequestTypes, Zenon
<1>7. DebtsAreOld' /\ ConfigIsHeld'  BY <1>1, <1>4, <1>5, RequestStep, Zenon
<1>8. SnapshotsFollowVersions'  BY <1>1, <1>4, <1>5, VersionsStayInStep, Zenon
<1>. QED  BY <1>6, <1>7, <1>8 DEF RegistryInv

\* The steps of a rollback before it saves.
LEMMA RollbackKeeps ==
    ASSUME FiniteFacts, RegistryInv, NEW h \in Handlers, request[h].step \in {"lookup", "check"},
           NEW x \in Request, request' = [request EXCEPT ![h] = x],
           x = NoRequest \/ /\ x.step \in {"check", "save"} /\ x.config \in Configs
                            /\ x.version = request[h].version,
           UNCHANGED <<agent, agentFile, snapshots, writes, missed, regular>>
    PROVE  RegistryInv'
<1>1. RegistryTypes  BY DEF RegistryInv
<1>2. ~Owes(h) /\ request[h] # NoRequest  BY DEF Owes, NoRequest
<1>3. x.step \in {"idle", "check", "save"} /\ (x.step # "idle" => x.config \in Configs)
  BY DEF NoRequest
<1>4. RegistryTypes'
  <2>1. regular' \in BOOLEAN /\ missed' \subseteq 1 .. writes  BY <1>1 DEF RegistryTypes
  <2>. QED  BY <2>1, <1>1, <1>3, RequestTypes, Zenon
<1>5. DebtsAreOld' /\ ConfigIsHeld'  BY <1>2, <1>3, RequestStep, Zenon
<1>6. regular => Quiet(Handlers \ {h}) /\ agent # NoAgent /\ request[h].version = agent.version
  BY <1>2 DEF RegistryInv, SnapshotsFollowVersions, Quiet
<1>7. SnapshotsFollowVersions'  BY <1>2, <1>3, <1>6, VersionsStayInStep, Zenon
<1>. QED  BY <1>4, <1>5, <1>7 DEF RegistryInv

\* CountVersions gives the snapshot its label.
LEMMA CountKeeps ==
    ASSUME FiniteFacts, RegistryInv, NEW h \in Handlers, CountVersions(h)
    PROVE  RegistryInv'
<1>. DEFINE x == [request[h] EXCEPT !.step = "snapshot", !.label = Len(snapshots) + 1]
<1>1. RegistryTypes /\ MaxSnapshots \in Nat  BY RegistryConstants DEF RegistryInv
<1>2. request[h] \in Request /\ request[h].step = "count" /\ Len(snapshots) \in Nat
      /\ Len(snapshots) <= MaxSnapshots
  BY <1>1 DEF RegistryTypes, CountVersions
<1>3. request' = [request EXCEPT ![h] = x]  BY <1>1, Zenon DEF CountVersions, RegistryTypes
<1>4. /\ x \in Request /\ x.step = "snapshot" /\ x.label = Len(snapshots) + 1
      /\ x.config = request[h].config /\ x.write = request[h].write
  <2>1. Len(snapshots) + 1 \in 0 .. MaxSnapshots + 1  BY <1>1, <1>2
  <2>2. x \in Request  BY <2>1, <1>2, Zenon DEF Request
  <2>3. /\ x.step = "snapshot" /\ x.label = Len(snapshots) + 1
        /\ x.config = request[h].config /\ x.write = request[h].write
    BY <1>2 DEF Request
  <2>. QED  BY <2>2, <2>3
<1>5. /\ agent' = agent /\ agentFile' = agentFile /\ snapshots' = snapshots
      /\ writes' = writes /\ missed' = missed /\ regular' = regular
  BY DEF CountVersions
<1>. HIDE DEF x
<1>6. Owes(h) /\ request[h].config \in Configs  BY <1>1, <1>2 DEF Owes, RegistryTypes
<1>7. RegistryTypes'
  <2>1. regular' \in BOOLEAN /\ missed' \subseteq 1 .. writes /\ x.label # 0
    BY <1>1, <1>2, <1>4, <1>5 DEF RegistryTypes
  <2>. QED  BY <2>1, <1>1, <1>3, <1>4, <1>5, <1>6, RequestTypes, Zenon
<1>8. DebtsAreOld' /\ ConfigIsHeld'  BY <1>3, <1>4, <1>5, <1>6, RequestStep, Zenon
<1>9. SnapshotsFollowVersions'
  <2>. SUFFICES ASSUME regular PROVE SnapshotsFollowVersions'
    BY <1>5 DEF SnapshotsFollowVersions
  <2>1. \A g \in Handlers : request'[g] = IF g = h THEN x ELSE request[g]
    BY <1>1, <1>3 DEF RegistryTypes
  <2>2. request[h] # NoRequest /\ SnapshotsFollowVersions
    BY <1>2 DEF NoRequest, RegistryInv
  <2>3. \A g \in Handlers : g # h => request[g] = NoRequest /\ request'[g] = NoRequest
    BY <2>1, <2>2 DEF SnapshotsFollowVersions
  <2>4. agent # NoAgent  BY <2>2 DEF SnapshotsFollowVersions, Quiet
  <2>5. request[h].config = agent.config /\ Len(snapshots) + 1 = agent.version
    BY <2>2, <2>4, <1>6 DEF SnapshotsFollowVersions
  <2>6. Owes(h)' /\ request'[h] = x  BY <2>1, <1>4 DEF Owes
  <2>7. NoRequest.step = "idle"  BY DEF NoRequest
  <2>8. \A g \in Handlers :
          /\ request'[g].step \in {"lookup", "check", "save"} =>
                request'[g].version = agent.version
          /\ Owes(g)' => /\ request'[g].config = agent.config
                         /\ Len(snapshots) + 1 = agent.version
          /\ request'[g].step = "snapshot" => request'[g].label = agent.version
    BY <2>3, <2>5, <2>6, <2>7, <1>4 DEF Owes
  <2>9. \A g, k \in Handlers : g = k \/ request'[g] = NoRequest \/ request'[k] = NoRequest
    BY <2>3
  <2>. QED  BY <2>4, <2>6, <2>8, <2>9, <1>5, Zenon DEF SnapshotsFollowVersions
<1>. QED  BY <1>7, <1>8, <1>9 DEF RegistryInv

\* A snapshot that fails is noted as missed.
LEMMA SnapshotFailsKeeps ==
    ASSUME FiniteFacts, RegistryInv, NEW h \in Handlers, SnapshotFails(h)
    PROVE  RegistryInv'
<1>1. RegistryTypes /\ MaxSnapshots \in Nat  BY RegistryConstants DEF RegistryInv
<1>2. /\ Owes(h) /\ request' = [request EXCEPT ![h] = NoRequest]
      /\ missed' = missed \cup {request[h].write} /\ regular' = FALSE
      /\ agent' = agent /\ agentFile' = agentFile /\ snapshots' = snapshots /\ writes' = writes
  BY DEF SnapshotFails, Owes
<1>3. NoRequest \in Request /\ NoRequest.step = "idle"
  BY <1>1 DEF NoRequest, Request, RegistryTypes
<1>4. RegistryTypes'
  <2>1. request[h].write \in 1 .. writes
    <3>1. request[h].write \in 0 .. writes  BY <1>1 DEF RegistryTypes, Request
    <3>2. request[h].write >= 1  BY <1>2 DEF RegistryInv, DebtsAreOld
    <3>. QED  BY <3>1, <3>2
  <2>2. regular' \in BOOLEAN /\ missed' \subseteq 1 .. writes
    BY <2>1, <1>1, <1>2, Zenon DEF RegistryTypes
  <2>. QED  BY <2>2, <1>1, <1>2, <1>3, RequestTypes, Zenon
<1>5. DebtsAreOld' /\ ConfigIsHeld'  BY <1>2, <1>3, RequestStep, Zenon
<1>6. SnapshotsFollowVersions'  BY <1>2 DEF SnapshotsFollowVersions
<1>. QED  BY <1>4, <1>5, <1>6 DEF RegistryInv

\* CreateVersion: a snapshot owed for an earlier write pushes out none that the agent's
\* configuration is held in; the agent's own one comes last.
LEMMA CreateSnapshotKeeps ==
    ASSUME FiniteFacts, RegistryInv, NEW h \in Handlers, CreateSnapshot(h)
    PROVE  RegistryInv'
<1>. DEFINE e == [label |-> request[h].label, config |-> request[h].config]
<1>1. RegistryTypes /\ MaxSnapshots \in Nat \ {0}  BY DebtsAreFew DEF RegistryInv
<1>2. /\ request[h].step = "snapshot" /\ snapshots' = KeepNewest(Append(snapshots, e))
      /\ request' = [request EXCEPT ![h] = NoRequest]
      /\ regular' = (regular /\ Len(snapshots) < MaxSnapshots)
      /\ agent' = agent /\ agentFile' = agentFile /\ writes' = writes /\ missed' = missed
  BY Zenon DEF CreateSnapshot
<1>3. e \in Snapshot
  <2>1. /\ request[h].label \in 0 .. MaxSnapshots + 1 /\ request[h].label # 0
        /\ request[h].config \in Configs
    BY <1>1, <1>2 DEF RegistryTypes, Request
  <2>. QED  BY <2>1, <1>1 DEF Snapshot
<1>4. Owes(h)  BY <1>2 DEF Owes
<1>5. snapshots \in Seq(Snapshot) /\ Len(snapshots) <= MaxSnapshots  BY <1>1 DEF RegistryTypes
<1>. HIDE DEF e
<1>6. PICK off \in 0 .. 1 :
        /\ snapshots' \in Seq(Snapshot) /\ Len(snapshots') = Len(snapshots) + 1 - off
        /\ Len(snapshots') <= MaxSnapshots
        /\ Len(snapshots') \in 1 .. Len(snapshots') /\ snapshots'[Len(snapshots')] = e
        /\ off = 1 <=> Len(snapshots) = MaxSnapshots
        /\ \A i \in 1 .. Len(snapshots) : i > off =>
              i - off \in 1 .. Len(snapshots') /\ snapshots'[i - off] = snapshots[i]
  <2>. DEFINE t == snapshots'
  <2>1. t = KeepNewest(Append(snapshots, e))  BY <1>2
  <2>. HIDE DEF t
  <2>2. PICK off \in 0 .. 1 : Shifted(Snapshot, snapshots, e, t, off)
    BY <2>1, <1>1, <1>3, <1>5, SnapshotIsAdded, Zenon
  <2>. QED  BY <2>2, Zenon DEF t, Shifted
<1>7. /\ \A g \in Handlers : request'[g] = IF g = h THEN NoRequest ELSE request[g]
      /\ NoRequest.step = "idle"
  BY <1>1, <1>2 DEF RegistryTypes, NoRequest
<1>8. RegistryTypes'
  <2>1. NoRequest \in Request  BY <1>1 DEF NoRequest, Request, RegistryTypes
  <2>2. AgentRecord' = AgentRecord /\ Snapshot' = Snapshot /\ Request' = Request
    BY <1>2 DEF AgentRecord, Snapshot, Request
  <2>3. request' \in [Handlers -> Request]  BY <2>1, <1>1, <1>2 DEF RegistryTypes
  <2>4. \A g \in Handlers :
          /\ request'[g].step \in {"check", "save", "count", "snapshot"} =>
                request'[g].config \in Configs
          /\ request'[g].step = "snapshot" => request'[g].label # 0
    BY <1>1, <1>7 DEF RegistryTypes
  <2>5. regular' \in BOOLEAN  BY <1>1, <1>2 DEF RegistryTypes
  <2>. QED  BY <2>2, <2>3, <2>4, <2>5, <1>1, <1>2, <1>6, Zenon DEF RegistryTypes
<1>9. \A g \in Handlers : Owes(g)' => g # h /\ Owes(g) /\ request'[g] = request[g]
  BY <1>7 DEF Owes
<1>10. DebtsAreOld'
  <2>1. DebtsAreOld  BY DEF RegistryInv
  <2>. QED  BY <2>1, <1>2, <1>9, Zenon DEF DebtsAreOld
<1>11. ConfigIsHeld'
  <2>. SUFFICES ASSUME agent # NoAgent, agent.write \notin missed
                PROVE  \/ \E g \in Handlers : Owes(g)' /\ request'[g].write = agent.write
                       \/ \E i \in DOMAIN snapshots' :
                             /\ snapshots'[i].config = agent.config
                             /\ Len(snapshots') - i + Cardinality(OwedBefore(agent.write)')
                                   < MaxSnapshots
    BY <1>2 DEF ConfigIsHeld
  <2>. DEFINE before == OwedBefore(agent.write)
              after == OwedBefore(agent.write)'
  <2>1. DOMAIN snapshots' = 1 .. Len(snapshots') /\ DOMAIN snapshots = 1 .. Len(snapshots)
    BY <1>5, <1>6
  <2>2. after = {g \in Handlers : Owes(g)' /\ request'[g].write < agent.write}
    BY <1>2, Zenon DEF OwedBefore
  <2>3. before = {g \in Handlers : Owes(g) /\ request[g].write < agent.write}
    BY Zenon DEF OwedBefore
  <2>. HIDE DEF before, after
  <2>4. after \subseteq before /\ before \subseteq Handlers /\ h \notin after
    BY <2>2, <2>3, <1>9, Zenon
  <2>5. /\ Cardinality(after) \in Nat /\ Cardinality(before) \in Nat
        /\ Cardinality(after) <= Cardinality(before) /\ Cardinality(after) < MaxSnapshots
        /\ h \in before => Cardinality(after) < Cardinality(before)
    <3>1. after \in SUBSET Handlers /\ before \in SUBSET Handlers /\ after \in SUBSET before
      BY <2>4
    <3>. QED  BY <3>1, <2>4, DebtsAreFew
  <2>6. CASE request[h].write = agent.write
    <3>1. request[h].config = agent.config
      BY <2>6, <1>4 DEF RegistryInv, DebtsAreOld
    <3>2. snapshots'[Len(snapshots')].config = agent.config  BY <3>1, <1>6 DEF e
    <3>3. Len(snapshots') - Len(snapshots') + Cardinality(after) < MaxSnapshots
      BY <2>5, <1>6
    <3>. QED  BY <3>2, <3>3, <2>1, <1>6, Zenon DEF after
  <2>7. CASE request[h].write # agent.write
    <3>1. h \in before
      <4>1. request[h].write <= agent.write
        BY <1>4 DEF RegistryInv, DebtsAreOld
      <4>2. request[h].write \in Int /\ agent.write \in Int
        BY <1>1 DEF RegistryTypes, Request, AgentRecord
      <4>. QED  BY <4>1, <4>2, <2>3, <2>7, <1>4
    <3>2. CASE \E g \in Handlers : Owes(g) /\ request[g].write = agent.write
      <4>1. PICK g \in Handlers : Owes(g) /\ request[g].write = agent.write  BY <3>2
      <4>2. Owes(g)' /\ request'[g].write = agent.write  BY <4>1, <2>7, <1>7 DEF Owes
      <4>. QED  BY <4>2
    <3>3. ASSUME NEW i \in DOMAIN snapshots, snapshots[i].config = agent.config,
                 Len(snapshots) - i + Cardinality(before) < MaxSnapshots
          PROVE  \E j \in DOMAIN snapshots' :
                    /\ snapshots'[j].config = agent.config
                    /\ Len(snapshots') - j + Cardinality(after) < MaxSnapshots
      <4>1. i \in 1 .. Len(snapshots) /\ Len(snapshots) \in Nat /\ off \in 0 .. 1
        BY <2>1, <1>5
      <4>2. /\ MaxSnapshots \in Nat /\ Cardinality(before) \in Nat /\ Cardinality(after) \in Nat
            /\ Cardinality(after) < Cardinality(before)
        BY <3>1, <2>5, RegistryConstants
      <4>3. i > off
        <5>1. off = 1 => Len(snapshots) = MaxSnapshots  BY <1>6
        <5>. QED  BY <5>1, <4>1, <4>2, <3>3, RoomForOwed, Zenon
      <4>4. i - off \in 1 .. Len(snapshots') /\ snapshots'[i - off] = snapshots[i]
        BY <4>1, <4>3, <1>6, Zenon
      <4>5. Len(snapshots') - (i - off) + Cardinality(after) < MaxSnapshots
        <5>1. Len(snapshots) + 1 - off - (i - off) + Cardinality(after) < MaxSnapshots
          BY <4>1, <4>2, <3>3, RoomForOwed, Zenon
        <5>2. Len(snapshots') = Len(snapshots) + 1 - off  BY <1>6
        <5>. QED  BY <5>1, <5>2
      <4>. QED  BY <4>4, <4>5, <3>3, <2>1, Zenon
    <3>4. ConfigIsHeld  BY DEF RegistryInv
    <3>. QED  BY <3>2, <3>3, <3>4, Zenon DEF ConfigIsHeld, before, after
  <2>. QED  BY <2>6, <2>7
<1>12. SnapshotsFollowVersions'
  <2>. SUFFICES ASSUME regular, Len(snapshots) < MaxSnapshots PROVE SnapshotsFollowVersions'
    BY <1>2, Zenon DEF SnapshotsFollowVersions
  <2>1. SnapshotsFollowVersions /\ request[h] # NoRequest
    BY <1>2, <1>7 DEF RegistryInv
  <2>2. \A g \in Handlers : request'[g] = NoRequest
    BY <2>1, <1>7 DEF SnapshotsFollowVersions
  <2>3. agent # NoAgent  BY <2>1, Zenon DEF SnapshotsFollowVersions, Quiet
  <2>4. /\ request[h].config = agent.config /\ Len(snapshots) + 1 = agent.version
        /\ request[h].label = agent.version
    BY <2>1, <2>3, <1>2, <1>4 DEF SnapshotsFollowVersions
  <2>5. off = 0  BY <1>6
  <2>6. Len(snapshots') = agent.version /\ Len(snapshots') > 0
    BY <2>4, <2>5, <1>6
  <2>7. snapshots'[Len(snapshots')] = [label |-> agent.version, config |-> agent.config]
    BY <2>4, <1>6, Zenon DEF e
  <2>8. \A g \in Handlers : ~Owes(g)' /\ request'[g].step = "idle"
    BY <2>2, <1>7 DEF Owes
  <2>9. /\ \A g, k \in Handlers : g = k \/ request'[g] = NoRequest \/ request'[k] = NoRequest
        /\ \A g \in Handlers :
              /\ request'[g].step \in {"lookup", "check", "save"} =>
                    request'[g].version = agent.version
              /\ Owes(g)' => /\ request'[g].config = agent.config
                             /\ Len(snapshots') + 1 = agent.version
              /\ request'[g].step = "snapshot" => request'[g].label = agent.version
    BY <2>2, <2>8
  <2>. QED  BY <2>3, <2>6, <2>7, <2>9, <1>2, Zenon DEF SnapshotsFollowVersions
<1>. QED  BY <1>8, <1>10, <1>11, <1>12 DEF RegistryInv

\* A write of the record gets the next number, and leaves its request owing the
\* snapshot, or is noted as missed.
LEMMA PutKeeps ==
    ASSUME FiniteFacts, RegistryInv, NEW h \in Handlers, ~Owes(h), NEW version \in 1 .. writes + 1,
           NEW c \in Configs, NEW next, Put(h, version, c, next),
           next \in [step : {"count", "snapshot"}, version : 0 .. writes + 1, config : {c},
                     write : {writes + 1}, label : 0 .. MaxSnapshots + 1],
           next.step = "snapshot" => next.label = version,
           next.step = "snapshot" => next.label # 0,
           regular => /\ Quiet(Handlers \ {h}) /\ Len(snapshots) + 1 = version
    PROVE  RegistryInv'
<1>. DEFINE record == [version |-> version, config |-> c, write |-> writes + 1]
<1>1. RegistryTypes /\ MaxSnapshots \in Nat /\ writes \in Nat
  BY RegistryConstants DEF RegistryInv, RegistryTypes
<1>2. /\ writes' = writes + 1 /\ writes < MaxWrites /\ snapshots' = snapshots
      /\ \/ /\ agent' = record /\ agentFile' = record
            /\ request' = [request EXCEPT ![h] = next]
            /\ missed' = missed /\ regular' = regular
         \/ /\ agent' \in {agent, record} /\ agentFile' = agentFile
            /\ request' = [request EXCEPT ![h] = NoRequest]
            /\ missed' = missed \cup {writes + 1} /\ regular' = FALSE
  BY Zenon DEF Put
<1>3. /\ record.write = writes + 1 /\ record.config = c /\ record.version = version
      /\ record # NoAgent
  <2>1. record.write = writes + 1 /\ record.config = c /\ record.version = version  OBVIOUS
  <2>2. NoAgent.write = 0  BY DEF NoAgent
  <2>. QED  BY <2>1, <2>2, <1>1
<1>4. /\ \A w \in 0 .. writes : w \in 0 .. writes + 1
      /\ \A w \in 1 .. writes : w \in 1 .. writes + 1
      /\ writes + 1 \in 0 .. writes + 1 /\ writes + 1 \in 1 .. writes + 1
      /\ writes + 1 \in 0 .. MaxWrites /\ 0 \in 0 .. writes + 1 /\ 0 \in 0 .. MaxSnapshots + 1
      /\ version \in 0 .. writes + 1
  BY <1>1, <1>2, RegistryConstants
<1>5. /\ AgentRecord' = [version : 0 .. writes + 1, config : Configs \cup {NoConfig},
                         write : 0 .. writes + 1]
      /\ Request' = [step : {"idle", "lookup", "check", "save", "count", "snapshot"},
                     version : 0 .. writes + 1, config : Configs \cup {NoConfig},
                     write : 0 .. writes + 1, label : 0 .. MaxSnapshots + 1]
      /\ Snapshot' = Snapshot
  BY <1>2 DEF AgentRecord, Request, Snapshot
<1>6. /\ AgentRecord \subseteq AgentRecord' /\ Request \subseteq Request'
      /\ record \in AgentRecord' /\ next \in Request' /\ NoRequest \in Request'
  <2>1. AgentRecord \subseteq AgentRecord'  BY <1>4, <1>5, Zenon DEF AgentRecord
  <2>2. Request \subseteq Request'  BY <1>4, <1>5, Zenon DEF Request
  <2>3. record \in AgentRecord'  BY <1>4, <1>5
  <2>4. next \in Request'
    <3>1. /\ \A st \in {"count", "snapshot"} :
                st \in {"idle", "lookup", "check", "save", "count", "snapshot"}
          /\ \A d \in {c} : d \in Configs \cup {NoConfig}
          /\ \A w \in {writes + 1} : w \in 0 .. writes + 1
      BY <1>4
    <3>. QED  BY <3>1, <1>5, Zenon
  <2>5. NoRequest \in Request'  BY <1>4, <1>5 DEF NoRequest
  <2>. QED  BY <2>1, <2>2, <2>3, <2>4, <2>5
<1>7. /\ next.step \in {"count", "snapshot"} /\ next.config = c /\ next.write = writes + 1
  OBVIOUS
<1>8. NoRequest.step = "idle"  BY DEF NoRequest
<1>. HIDE DEF record
<1>9. /\ agent' \in AgentRecord' /\ agentFile' \in AgentRecord'
      /\ (agent'.write = 0 => agent' = NoAgent) /\ (agentFile'.write = 0 => agentFile' = NoAgent)
      /\ request' \in [Handlers -> Request'] /\ missed' \subseteq 1 .. writes'
      /\ regular' \in BOOLEAN /\ writes' \in 0 .. MaxWrites
  <2>1. /\ agent \in AgentRecord /\ agentFile \in AgentRecord /\ missed \subseteq 1 .. writes
        /\ request \in [Handlers -> Request] /\ regular \in BOOLEAN
    BY <1>1 DEF RegistryTypes
  <2>2. /\ agent' \in AgentRecord' /\ agentFile' \in AgentRecord'
    BY <2>1, <1>2, <1>6, Zenon
  <2>3. request' \in [Handlers -> Request']
    <3>1. request \in [Handlers -> Request']  BY <2>1, <1>6, Zenon
    <3>. QED  BY <3>1, <1>2, <1>6, Zenon
  <2>4. missed' \subseteq 1 .. writes + 1  BY <2>1, <1>2, <1>4, Zenon
  <2>5. regular' \in BOOLEAN  BY <2>1, <1>2, Zenon
  <2>6. (agent'.write = 0 => agent' = NoAgent) /\ (agentFile'.write = 0 => agentFile' = NoAgent)
    <3>1. record.write # 0  BY <1>1, <1>3
    <3>2. (agent.write = 0 => agent = NoAgent) /\ (agentFile.write = 0 => agentFile = NoAgent)
      BY <1>1 DEF RegistryTypes
    <3>. QED  BY <3>1, <3>2, <1>2, Zenon
  <2>. QED  BY <2>2, <2>3, <2>4, <2>5, <2>6, <1>2, <1>4, Zenon
<1>10. CASE /\ agent' = record /\ agentFile' = record
            /\ request' = [request EXCEPT ![h] = next]
            /\ missed' = missed /\ regular' = regular
  <2>1. \A g \in Handlers : request'[g] = IF g = h THEN next ELSE request[g]
    BY <1>1, <1>10 DEF RegistryTypes
  <2>2. RegistryTypes'
    <3>1. \A g \in Handlers :
            /\ request'[g].step \in {"check", "save", "count", "snapshot"} =>
                  request'[g].config \in Configs
            /\ request'[g].step = "snapshot" => request'[g].label # 0
      BY <2>1, <1>1, <1>7 DEF RegistryTypes
    <3>. QED  BY <3>1, <1>1, <1>2, <1>5, <1>9, Zenon DEF RegistryTypes
  <2>3. /\ Owes(h)' /\ request'[h] = next
        /\ \A g \in Handlers : g # h => request'[g] = request[g] /\ (Owes(g)' <=> Owes(g))
    BY <2>1, <1>7 DEF Owes
  <2>4. DebtsAreOld'
    <3>1. ASSUME NEW g \in Handlers, Owes(g)', g # h
          PROVE  /\ request'[g].write >= 1 /\ request'[g].write <= agent'.write
                 /\ request'[g].write # agent'.write
      <4>1. request[g].write >= 1 /\ request'[g] = request[g]
        BY <3>1, <2>3 DEF RegistryInv, DebtsAreOld
      <4>2. request[g].write \in 0 .. writes  BY <1>1 DEF RegistryTypes, Request
      <4>. QED  BY <4>1, <4>2, <1>1, <1>3, <1>10, SMTT(30)
    <3>2. /\ request'[h].write >= 1 /\ request'[h].write <= agent'.write
          /\ request'[h].config = agent'.config
      BY <2>3, <1>1, <1>3, <1>7, <1>10, SMTT(30)
    <3>. QED  BY <3>1, <3>2, Zenon DEF DebtsAreOld
  <2>5. ConfigIsHeld'  BY <2>3, <1>3, <1>7, <1>10 DEF ConfigIsHeld
  <2>6. SnapshotsFollowVersions'
    <3>. SUFFICES ASSUME regular PROVE SnapshotsFollowVersions'
      BY <1>10, Zenon DEF SnapshotsFollowVersions
    <3>1. \A g \in Handlers : g # h => request'[g] = NoRequest  BY <2>3, Zenon DEF Quiet
    <3>2. \A g \in Handlers :
            /\ request'[g].step \in {"lookup", "check", "save"} =>
                  request'[g].version = agent'.version
            /\ Owes(g)' => /\ request'[g].config = agent'.config
                           /\ Len(snapshots') + 1 = agent'.version
            /\ request'[g].step = "snapshot" => request'[g].label = agent'.version
      <4>1. CASE TRUE
        BY <3>1, <2>3, <1>2, <1>3, <1>7, <1>8, <1>10 DEF Owes
      <4>. QED  BY <4>1
    <3>3. \A g, k \in Handlers : g = k \/ request'[g] = NoRequest \/ request'[k] = NoRequest
      BY <3>1
    <3>. QED  BY <3>2, <3>3, <2>3, <1>3, <1>10, Zenon DEF SnapshotsFollowVersions
  <2>. QED  BY <2>2, <2>4, <2>5, <2>6 DEF RegistryInv
<1>11. CASE /\ agent' \in {agent, record} /\ agentFile' = agentFile
            /\ request' = [request EXCEPT ![h] = NoRequest]
            /\ missed' = missed \cup {writes + 1} /\ regular' = FALSE
  <2>1. \A g \in Handlers : request'[g] = IF g = h THEN NoRequest ELSE request[g]
    BY <1>1, <1>11, Zenon DEF RegistryTypes
  <2>2. RegistryTypes'
    <3>1. \A g \in Handlers :
            /\ request'[g].step \in {"check", "save", "count", "snapshot"} =>
                  request'[g].config \in Configs
            /\ request'[g].step = "snapshot" => request'[g].label # 0
      BY <2>1, <1>1, <1>8 DEF RegistryTypes
    <3>. QED  BY <3>1, <1>1, <1>2, <1>5, <1>9, Zenon DEF RegistryTypes
  <2>3. SnapshotsFollowVersions'  BY <1>11, Zenon DEF SnapshotsFollowVersions
  <2>4. CASE agent' = agent
    <3>1. DebtsAreOld' /\ ConfigIsHeld'
      BY <2>4, <1>2, <1>8, <1>11, RequestStep, Zenon
    <3>. QED  BY <3>1, <2>2, <2>3 DEF RegistryInv
  <2>5. CASE agent' = record
    <3>1. ASSUME NEW g \in Handlers, Owes(g)'
          PROVE  request'[g].write >= 1 /\ request'[g].write < agent'.write
      <4>1. Owes(g) /\ request'[g] = request[g]  BY <3>1, <2>1, <1>8 DEF Owes
      <4>2. request[g].write >= 1  BY <4>1, Zenon DEF RegistryInv, DebtsAreOld
      <4>3. request[g].write \in 0 .. writes  BY <1>1 DEF RegistryTypes, Request
      <4>. QED  BY <4>1, <4>2, <4>3, <2>5, <1>1, <1>3
    <3>2. DebtsAreOld'
      <4>1. \A g \in Handlers : Owes(g)' => request'[g].write \in Int /\ agent'.write \in Int
        <5>1. \A g \in Handlers : Owes(g)' => request'[g] = request[g]
          BY <2>1, <1>8 DEF Owes
        <5>2. \A g \in Handlers : request[g].write \in 0 .. writes
          BY <1>1, Zenon DEF RegistryTypes, Request
        <5>. QED  BY <5>1, <5>2, <2>5, <1>1, <1>3
      <4>2. \A g \in Handlers : Owes(g)' =>
              request'[g].write <= agent'.write /\ request'[g].write # agent'.write
        BY <4>1, <3>1
      <4>. QED  BY <4>2, <3>1 DEF DebtsAreOld
    <3>3. ConfigIsHeld'  BY <2>5, <1>3, <1>11 DEF ConfigIsHeld
    <3>. QED  BY <3>2, <3>3, <2>2, <2>3 DEF RegistryInv
  <2>. QED  BY <2>4, <2>5, <1>11
<1>. QED  BY <1>2, <1>10, <1>11, Zenon

\* Create and Save, with what they read.
LEMMA AgentWritesKeep ==
    ASSUME FiniteFacts, RegistryInv, NEW h \in Handlers,
           AgentSave(h) \/ \E c \in Configs : AgentCreate(h, c)
    PROVE  RegistryInv'
<1>1. RegistryTypes /\ SnapshotsFollowVersions /\ MaxSnapshots \in Nat /\ writes \in Nat
  BY RegistryConstants DEF RegistryInv, RegistryTypes
<1>2. 1 \in 0 .. MaxSnapshots + 1 /\ 1 \in 1 .. writes + 1 /\ 1 \in 0 .. writes + 1  BY <1>1
<1>3. ASSUME NEW c \in Configs, AgentCreate(h, c) PROVE RegistryInv'
  <2>. DEFINE next == [step |-> "snapshot", version |-> 1, config |-> c,
                       write |-> writes + 1, label |-> 1]
  <2>1. request[h] = NoRequest /\ agent = NoAgent /\ Put(h, 1, c, next)
    BY <1>3 DEF AgentCreate
  <2>2. /\ next \in [step : {"count", "snapshot"}, version : 0 .. writes + 1, config : {c},
                     write : {writes + 1}, label : 0 .. MaxSnapshots + 1]
        /\ next.step = "snapshot" /\ next.label = 1 /\ next.label # 0
    BY <1>2
  <2>3. ~Owes(h)  BY <2>1, SMTT(30) DEF Owes, NoRequest
  <2>4. regular => Quiet(Handlers \ {h}) /\ Len(snapshots) + 1 = 1
    BY <2>1, <1>1 DEF SnapshotsFollowVersions, Quiet
  <2>. HIDE DEF next
  <2>. QED  BY <2>1, <2>2, <2>3, <2>4, <1>2, PutKeeps, Zenon
<1>4. CASE AgentSave(h)
  <2>. DEFINE next == [request[h] EXCEPT !.step = "count", !.write = writes + 1]
              version == request[h].version + 1
  <2>1. request[h].step = "save" /\ Put(h, version, request[h].config, next)
    BY <1>4 DEF AgentSave
  <2>2. /\ request[h] \in Request /\ request[h].config \in Configs
        /\ request[h].version \in 0 .. writes /\ request[h].label \in 0 .. MaxSnapshots + 1
    BY <2>1, <1>1 DEF RegistryTypes, Request
  <2>3. /\ next.step = "count" /\ next.config = request[h].config
        /\ next \in [step : {"count", "snapshot"}, version : 0 .. writes + 1,
                     config : {request[h].config},
                     write : {writes + 1}, label : 0 .. MaxSnapshots + 1]
    <3>1. next.step = "count" /\ next.config = request[h].config  BY <2>2 DEF Request
    <3>2. request[h] \in [step : {"idle", "lookup", "check", "save", "count", "snapshot"},
                          version : 0 .. writes + 1, config : {request[h].config},
                          write : 0 .. writes, label : 0 .. MaxSnapshots + 1]
      <4>1. request[h].version \in 0 .. writes + 1  BY <2>2, <1>1
      <4>. QED  BY <4>1, <2>2 DEF Request
    <3>3. next \in [step : {"count", "snapshot"}, version : 0 .. writes + 1,
                    config : {request[h].config},
                    write : {writes + 1}, label : 0 .. MaxSnapshots + 1]
      BY <3>2, Zenon
    <3>. QED  BY <3>1, <3>3
  <2>4. version \in 1 .. writes + 1  BY <2>2, <1>1
  <2>5. ~Owes(h) /\ request[h] # NoRequest  BY <2>1 DEF Owes, NoRequest
  <2>6. ASSUME regular PROVE Quiet(Handlers \ {h}) /\ Len(snapshots) + 1 = version
    <3>1. /\ \A g \in Handlers : g # h => request[g] = NoRequest
          /\ agent # NoAgent
      BY <2>5, <2>6, <1>1, SMTT(30) DEF SnapshotsFollowVersions, Quiet
    <3>2. \A g \in Handlers : ~Owes(g)  BY <3>1, <2>5 DEF Owes, NoRequest
    <3>3. request[h].version = agent.version /\ Len(snapshots) = agent.version
      BY <3>1, <3>2, <2>1, <2>6, <1>1 DEF SnapshotsFollowVersions
    <3>. QED  BY <3>1, <3>3 DEF Quiet
  <2>. HIDE DEF next, version
  <2>. QED  BY <2>1, <2>2, <2>3, <2>4, <2>5, <2>6, PutKeeps, Zenon
<1>. QED  BY <1>3, <1>4

\* Delete leaves no agent to be held; a restart notes every snapshot as missed.
LEMMA DeleteAndRestartKeep ==
    ASSUME RegistryInv, AgentDelete \/ RegistryRestart
    PROVE  RegistryInv'
<1>1. RegistryTypes /\ MaxSnapshots \in Nat /\ writes \in Nat
  BY RegistryConstants DEF RegistryInv, RegistryTypes
<1>2. writes' = writes /\ regular' = FALSE  BY DEF AgentDelete, RegistryRestart
<1>3. AgentRecord' = AgentRecord /\ Snapshot' = Snapshot /\ Request' = Request
  BY <1>2 DEF AgentRecord, Snapshot, Request
<1>4. NoAgent \in AgentRecord /\ NoRequest \in Request
  BY <1>1 DEF NoAgent, AgentRecord, NoRequest, Request
<1>5. SnapshotsFollowVersions'  BY <1>2 DEF SnapshotsFollowVersions
<1>6. CASE AgentDelete
  <2>1. /\ agent' = NoAgent /\ agentFile' \in {agentFile, NoAgent}
        /\ snapshots' = snapshots /\ request' = request /\ missed' = missed
    BY <1>6 DEF AgentDelete
  <2>2. RegistryTypes'
    <3>1. agent' \in AgentRecord /\ agentFile' \in AgentRecord
      BY <2>1, <1>1, <1>4 DEF RegistryTypes
    <3>2. regular' \in BOOLEAN  BY <1>2, Zenon
    <3>3. /\ agent'.write = 0 => agent' = NoAgent
          /\ agentFile'.write = 0 => agentFile' = NoAgent
      BY <2>1, <1>1, Zenon DEF RegistryTypes
    <3>. QED  BY <3>1, <3>2, <3>3, <2>1, <1>1, <1>2, <1>3, Zenon DEF RegistryTypes
  <2>3. DebtsAreOld'  BY <2>1, Zenon DEF RegistryInv, DebtsAreOld, Owes
  <2>4. ConfigIsHeld'  BY <2>1 DEF ConfigIsHeld
  <2>. QED  BY <2>2, <2>3, <2>4, <1>5 DEF RegistryInv
<1>7. CASE RegistryRestart
  <2>1. /\ agent' = agentFile /\ snapshots' = <<>> /\ missed' = 1 .. writes
        /\ request' = [h \in Handlers |-> NoRequest] /\ agentFile' = agentFile
    BY <1>7 DEF RegistryRestart
  <2>2. \A h \in Handlers : request'[h] = NoRequest /\ request'[h].step = "idle"
    BY <2>1 DEF NoRequest
  <2>3. RegistryTypes'
    <3>1. agent' \in AgentRecord /\ agentFile' \in AgentRecord  BY <2>1, <1>1 DEF RegistryTypes
    <3>2. regular' \in BOOLEAN  BY <1>2, Zenon
    <3>3. snapshots' \in Seq(Snapshot) /\ Len(snapshots') <= MaxSnapshots  BY <2>1, <1>1
    <3>4. request' \in [Handlers -> Request]  BY <2>1, <1>4
    <3>5. \A h \in Handlers :
            /\ request'[h].step \in {"check", "save", "count", "snapshot"} =>
                  request'[h].config \in Configs
            /\ request'[h].step = "snapshot" => request'[h].label # 0
      BY <2>2
    <3>. QED  BY <3>1, <3>2, <3>3, <3>4, <3>5, <2>1, <1>1, <1>2, <1>3, Zenon DEF RegistryTypes
  <2>4. DebtsAreOld'  BY <2>2 DEF DebtsAreOld, Owes
  <2>5. ConfigIsHeld'
    <3>1. agentFile.write \in 0 .. writes  BY <1>1 DEF RegistryTypes, AgentRecord
    <3>2. agentFile.write # 0 => agentFile.write \in missed'  BY <3>1, <2>1, <1>1
    <3>3. agentFile.write = 0 => agentFile = NoAgent  BY <1>1 DEF RegistryTypes
    <3>. QED  BY <3>2, <3>3, <2>1, Zenon DEF ConfigIsHeld
  <2>. QED  BY <2>3, <2>4, <2>5, <1>5 DEF RegistryInv
<1>. QED  BY <1>6, <1>7

\* At the start there is neither an agent nor a request.
LEMMA RegistryInitInv == RegistryInit => RegistryInv
<1>. SUFFICES ASSUME RegistryInit PROVE RegistryInv  OBVIOUS
<1>1. /\ writes = 0 /\ missed = {} /\ regular = TRUE /\ snapshots = <<>>
      /\ agent = NoAgent /\ agentFile = NoAgent
      /\ request = [h \in Handlers |-> NoRequest]
  BY DEF RegistryInit
<1>2. \A h \in Handlers : request[h] = NoRequest /\ request[h].step = "idle"
  BY <1>1 DEF NoRequest
<1>3. NoAgent \in AgentRecord /\ NoRequest \in Request
  BY <1>1, RegistryConstants DEF NoAgent, AgentRecord, NoRequest, Request
<1>4. RegistryTypes
  <2>1. /\ writes \in 0 .. MaxWrites /\ snapshots \in Seq(Snapshot)
        /\ Len(snapshots) <= MaxSnapshots
    BY <1>1, RegistryConstants
  <2>2. regular \in BOOLEAN /\ missed \subseteq 1 .. writes  BY <1>1, Zenon
  <2>3. request \in [Handlers -> Request]  BY <1>1, <1>3
  <2>. QED  BY <2>1, <2>2, <2>3, <1>1, <1>2, <1>3 DEF RegistryTypes
<1>5. DebtsAreOld /\ ConfigIsHeld  BY <1>1, <1>2, Zenon DEF DebtsAreOld, Owes, ConfigIsHeld
<1>6. SnapshotsFollowVersions  BY <1>1, <1>2 DEF SnapshotsFollowVersions, Quiet
<1>. QED  BY <1>4, <1>5, <1>6 DEF RegistryInv

\* Every step of the handlers, a delete and a restart keep the invariant.
LEMMA RegistryNextInv ==
    FiniteFacts /\ LeastFacts /\ RegistryInv /\ [RegistryNext]_registryVars => RegistryInv'
<1>. SUFFICES ASSUME FiniteFacts, LeastFacts, RegistryInv, [RegistryNext]_registryVars PROVE RegistryInv'
  OBVIOUS
<1>0. RegistryTypes /\ MaxSnapshots \in Nat /\ writes \in Nat
  BY RegistryConstants DEF RegistryInv, RegistryTypes
<1>1. ASSUME NEW h \in Handlers, NEW c \in Configs, UpdateGet(h, c) PROVE RegistryInv'
  BY <1>1, BeginKeeps DEF UpdateGet
<1>2. ASSUME NEW h \in Handlers, RollbackGet(h) PROVE RegistryInv'
  BY <1>2, BeginKeeps DEF RollbackGet
<1>3. ASSUME NEW h \in Handlers, NEW label, RollbackLookup(h, label) PROVE RegistryInv'
  <2>. DEFINE n == NewestWith(label)
              found == [request[h] EXCEPT !.step = "check", !.config = snapshots[n].config]
              x == IF n = 0 THEN NoRequest ELSE found
  <2>1. /\ request[h].step = "lookup"
        /\ UNCHANGED <<agent, agentFile, snapshots, writes, missed, regular>>
    BY <1>3 DEF RollbackLookup
  <2>2. request' = [request EXCEPT ![h] = x]
    BY <1>3, <1>0 DEF RollbackLookup, RegistryTypes
  <2>3. request[h] \in Request /\ snapshots \in Seq(Snapshot)  BY <1>0 DEF RegistryTypes
  <2>4. n = 0 \/ n \in 1 .. Len(snapshots)  BY <2>3, NewestIsThere
  <2>. HIDE DEF n
  <2>5. n # 0 => snapshots[n].config \in Configs
    <3>1. n # 0 => snapshots[n] \in Snapshot  BY <2>3, <2>4
    <3>. QED  BY <3>1 DEF Snapshot
  <2>6. n # 0 => /\ found \in Request /\ found.step = "check"
                 /\ found.config = snapshots[n].config /\ found.version = request[h].version
    <3>1. n # 0 => found \in Request  BY <2>3, <2>5, Zenon DEF Request
    <3>2. /\ found.step = "check" /\ found.config = snapshots[n].config
          /\ found.version = request[h].version
      BY <2>3 DEF Request
    <3>. QED  BY <3>1, <3>2
  <2>7. NoRequest \in Request  BY <1>0 DEF NoRequest, Request
  <2>. HIDE DEF found
  <2>8. /\ x \in Request
        /\ x = NoRequest \/ /\ x.step \in {"check", "save"} /\ x.config \in Configs
                            /\ x.version = request[h].version
    BY <2>5, <2>6, <2>7
  <2>. HIDE DEF x
  <2>. QED  BY <2>1, <2>2, <2>8, RollbackKeeps, Zenon
<1>4. ASSUME NEW h \in Handlers, NEW active \in BOOLEAN, RollbackCheck(h, active)
      PROVE  RegistryInv'
  <2>. DEFINE passed == [request[h] EXCEPT !.step = "save"]
              x == IF active THEN NoRequest ELSE passed
  <2>1. /\ request[h].step = "check"
        /\ UNCHANGED <<agent, agentFile, snapshots, writes, missed, regular>>
    BY <1>4 DEF RollbackCheck
  <2>2. request' = [request EXCEPT ![h] = x]
    BY <1>4, <1>0 DEF RollbackCheck, RegistryTypes
  <2>3. request[h] \in Request /\ request[h].config \in Configs
    BY <2>1, <1>0 DEF RegistryTypes
  <2>4. passed \in Request  BY <2>3, Zenon DEF Request
  <2>5. /\ passed.step = "save" /\ passed.config = request[h].config
        /\ passed.version = request[h].version
    BY <2>3 DEF Request
  <2>6. NoRequest \in Request  BY <1>0 DEF NoRequest, Request
  <2>. HIDE DEF passed
  <2>7. /\ x \in Request
        /\ x = NoRequest \/ /\ x.step \in {"check", "save"} /\ x.config \in Configs
                            /\ x.version = request[h].version
    BY <2>3, <2>4, <2>5, <2>6
  <2>. HIDE DEF x
  <2>. QED  BY <2>1, <2>2, <2>7, RollbackKeeps, Zenon
<1>5. ASSUME NEW h \in Handlers, AgentSave(h) \/ \E c \in Configs : AgentCreate(h, c)
      PROVE  RegistryInv'
  BY <1>5, AgentWritesKeep
<1>6. ASSUME NEW h \in Handlers, CountVersions(h) PROVE RegistryInv'  BY <1>6, CountKeeps
<1>7. ASSUME NEW h \in Handlers, CreateSnapshot(h) PROVE RegistryInv'
  BY <1>7, CreateSnapshotKeeps
<1>8. ASSUME NEW h \in Handlers, SnapshotFails(h) PROVE RegistryInv'
  BY <1>8, SnapshotFailsKeeps
<1>9. CASE AgentDelete \/ RegistryRestart  BY <1>9, DeleteAndRestartKeep
<1>10. CASE UNCHANGED registryVars
  <2>1. /\ AgentRecord' = AgentRecord /\ Request' = Request /\ Snapshot' = Snapshot
    BY <1>10, Zenon DEF registryVars, AgentRecord, Request, Snapshot
  <2>2. \A h \in Handlers : Owes(h)' <=> Owes(h)  BY <1>10 DEF registryVars, Owes
  <2>3. RegistryTypes'  BY <1>0, <1>10, <2>1, Zenon DEF registryVars, RegistryTypes
  <2>4. DebtsAreOld' /\ SnapshotsFollowVersions'
    BY <1>10, <2>2, Zenon DEF registryVars, RegistryInv, DebtsAreOld, SnapshotsFollowVersions, Quiet
  <2>5. ConfigIsHeld'
    BY <1>10, <2>2, Zenon DEF registryVars, RegistryInv, ConfigIsHeld, OwedBefore, Owes
  <2>. QED  BY <2>3, <2>4, <2>5 DEF RegistryInv
<1>. QED
  BY <1>1, <1>2, <1>3, <1>4, <1>5, <1>6, <1>7, <1>8, <1>9, <1>10 DEF RegistryNext

\* What the invariant says when no request is under way.
LEMMA RegistryInvSuffices == RegistryInv => RegistryTypeOK /\ CurrentConfigIsKept
<1>. SUFFICES ASSUME RegistryInv PROVE RegistryTypeOK /\ CurrentConfigIsKept  OBVIOUS
<1>1. RegistryTypes /\ MaxSnapshots \in Nat  BY RegistryConstants DEF RegistryInv
<1>2. RegistryTypeOK
  <2>1. \A w \in 0 .. writes : w \in 0 .. MaxWrites
    BY <1>1, RegistryConstants DEF RegistryTypes
  <2>2. AgentRecord \subseteq [version : 0..MaxWrites, config : Configs \cup {NoConfig},
                               write : 0..MaxWrites]
    BY <2>1, Zenon DEF AgentRecord
  <2>3. {agent, agentFile} \subseteq [version : 0..MaxWrites,
                                      config : Configs \cup {NoConfig}, write : 0..MaxWrites]
    BY <2>2, <1>1, Zenon DEF RegistryTypes
  <2>4. \A i \in DOMAIN snapshots : snapshots[i] \in Snapshot
    BY <1>1 DEF RegistryTypes
  <2>5. \A h \in Handlers : request[h].step \in
          {"idle", "lookup", "check", "save", "count", "snapshot"}
    BY <1>1 DEF RegistryTypes, Request
  <2>. QED  BY <2>3, <2>4, <2>5, <1>1, Zenon DEF RegistryTypeOK, RegistryTypes, Snapshot
<1>3. CurrentConfigIsKept
  <2>. SUFFICES ASSUME Quiet(Handlers), agent # NoAgent, agent.write \notin missed
                PROVE  /\ \E i \in DOMAIN snapshots : snapshots[i].config = agent.config
                       /\ regular => snapshots[Len(snapshots)] =
                             [label |-> agent.version, config |-> agent.config]
    BY DEF CurrentConfigIsKept
  <2>1. \A h \in Handlers : ~Owes(h)  BY DEF Quiet, Owes, NoRequest
  <2>2. \E i \in DOMAIN snapshots : snapshots[i].config = agent.config
    BY <2>1, Zenon DEF RegistryInv, ConfigIsHeld
  <2>3. regular => snapshots[Len(snapshots)] =
                      [label |-> agent.version, config |-> agent.config]
    BY <2>1, Zenon DEF RegistryInv, SnapshotsFollowVersions
  <2>. QED  BY <2>2, <2>3
<1>. QED  BY <1>2, <1>3

-----------------------------------------------------------------------------
(* Outgoing requests *)

\* A target that the client of a call accepts.
Target(k, u) == u \in Urls /\ u.scheme = "http" /\ (ByFetcher(k) => DomainAllowed(u.host))

CallRecord ==
    [at : {"done", "send", "sent"}, kind : Clients, url : Urls \cup {[scheme |-> "other"]},
     hops : Seq(Urls), status : {"none", "ok", "error"}, bytes : 0..MaxBody, marked : BOOLEAN]

\* What is about to be requested is acceptable, and there is room for one more hop.
CallOK(f) ==
    /\ f.at = "send" => Target(f.kind, f.url) /\ Len(f.hops) < MaxHops[f.kind]
    /\ Len(f.hops) <= MaxHops[f.kind]
    /\ \A i \in DOMAIN f.hops : Target(f.kind, f.hops[i])
    /\ f.marked => f.bytes = MaxBody

PublicOnly == \A x \in conns : x.host \in Hosts /\ x.addr = "public"

FetchInv ==
    /\ dns \in [Hosts -> SUBSET Addresses] /\ PublicOnly
    /\ fetch \in [Fetches -> CallRecord] /\ \A c \in Fetches : CallOK(fetch[c])

\* Every client's check, before the first request and at a redirect, is at least this.
LEMMA CheckedTarget ==
    ASSUME NEW k \in Clients, NEW u \in Urls, Checked(k, u) PROVE Target(k, u)
<1>1. k \in {"fetch_url", "http_request", "ping_url", "http_fetch", "webhook"}
  BY FetchConstants
<1>. QED  BY <1>1, Zenon DEF Checked, Target, ByFetcher, ValidateURL, ValidateFetchTarget

\* A step of one call, whose record stays in order.
LEMMA FetchUpdate ==
    ASSUME fetch \in [Fetches -> CallRecord], \A c \in Fetches : CallOK(fetch[c]),
           NEW c \in Fetches, NEW f \in CallRecord, CallOK(f), fetch' = [fetch EXCEPT ![c] = f]
    PROVE  fetch' \in [Fetches -> CallRecord] /\ \A d \in Fetches : CallOK(fetch'[d])
<1>1. \A d \in Fetches : fetch'[d] = IF d = c THEN f ELSE fetch[d]  OBVIOUS
<1>. QED  BY <1>1, Zenon

\* A call that fails is done, with the hops it has made.
LEMMA FetchErrorKeeps ==
    ASSUME fetch \in [Fetches -> CallRecord], \A c \in Fetches : CallOK(fetch[c]),
           NEW c \in Fetches, FetchError(c)
    PROVE  fetch' \in [Fetches -> CallRecord] /\ \A d \in Fetches : CallOK(fetch'[d])
<1>. DEFINE f == [fetch[c] EXCEPT !.at = "done", !.status = "error"]
<1>1. fetch' = [fetch EXCEPT ![c] = f]  BY Zenon DEF FetchError
<1>2. f \in CallRecord  BY Zenon DEF CallRecord
<1>3. CallOK(fetch[c]) /\ f.at = "done" /\ f.kind = fetch[c].kind /\ f.hops = fetch[c].hops
      /\ f.bytes = fetch[c].bytes /\ f.marked = fetch[c].marked
  BY DEF CallRecord
<1>4. CallOK(f)
  <2>. HIDE DEF f
  <2>. QED  BY <1>3 DEF CallOK
<1>. HIDE DEF f
<1>. QED  BY <1>1, <1>2, <1>4, FetchUpdate

\* The request goes out to the accepted target, which becomes the last hop.
LEMMA ContactKeeps ==
    ASSUME fetch \in [Fetches -> CallRecord], \A c \in Fetches : CallOK(fetch[c]),
           NEW c \in Fetches, fetch[c].at = "send", Contact(c)
    PROVE  fetch' \in [Fetches -> CallRecord] /\ \A d \in Fetches : CallOK(fetch'[d])
<1>. DEFINE hops == Append(fetch[c].hops, fetch[c].url)
            f == [fetch[c] EXCEPT !.at = "sent", !.hops = hops]
<1>1. fetch' = [fetch EXCEPT ![c] = f]  BY Zenon DEF Contact
<1>2. /\ fetch[c] \in CallRecord /\ fetch[c].hops \in Seq(Urls) /\ fetch[c].kind \in Clients
      /\ Target(fetch[c].kind, fetch[c].url) /\ Len(fetch[c].hops) < MaxHops[fetch[c].kind]
      /\ \A i \in DOMAIN fetch[c].hops : Target(fetch[c].kind, fetch[c].hops[i])
      /\ fetch[c].marked => fetch[c].bytes = MaxBody
  BY Zenon DEF CallOK, CallRecord
<1>3. /\ hops \in Seq(Urls) /\ Len(hops) = Len(fetch[c].hops) + 1
      /\ \A i \in DOMAIN hops : Target(fetch[c].kind, hops[i])
  <2>1. fetch[c].url \in Urls  BY <1>2, Zenon DEF Target
  <2>. QED  BY <1>2, <2>1
<1>. HIDE DEF hops
<1>4. Len(hops) <= MaxHops[fetch[c].kind]
  <2>1. Len(fetch[c].hops) \in Nat  BY <1>2
  <2>2. MaxHops[fetch[c].kind] \in Nat  BY <1>2, FetchConstants, Zenon
  <2>. QED  BY <1>2, <1>3, <2>1, <2>2
<1>5. f \in CallRecord  BY <1>2, <1>3, Zenon DEF CallRecord
<1>6. /\ f.at = "sent" /\ f.kind = fetch[c].kind /\ f.hops = hops
      /\ f.bytes = fetch[c].bytes /\ f.marked = fetch[c].marked
  BY <1>2, Zenon DEF CallRecord
<1>. HIDE DEF f
<1>7. CallOK(f)  BY <1>2, <1>3, <1>4, <1>6 DEF CallOK
<1>. QED  BY <1>1, <1>5, <1>7, FetchUpdate

\* A tool call begins with a target its client accepts, or fails.
LEMMA CallKeeps ==
    ASSUME FetchInv, NEW c \in Fetches, Call(c) PROVE FetchInv'
<1>1. PICK k \in Clients, u \in Urls :
         fetch' = [fetch EXCEPT ![c] =
                     [NoFetch EXCEPT !.at = IF Checked(k, u) THEN "send" ELSE "done",
                                     !.kind = k, !.url = u]]
  BY Zenon DEF Call
<1>. DEFINE f == [NoFetch EXCEPT !.at = IF Checked(k, u) THEN "send" ELSE "done",
                                 !.kind = k, !.url = u]
<1>2. /\ f.at = (IF Checked(k, u) THEN "send" ELSE "done") /\ f.kind = k /\ f.url = u
      /\ f.hops = <<>> /\ f.bytes = 0 /\ f.marked = FALSE
  BY DEF NoFetch
<1>3. f \in CallRecord
  <2>1. 0 \in 0..MaxBody /\ <<>> \in Seq(Urls)  BY FetchConstants
  <2>. QED  BY <2>1, Zenon DEF CallRecord, NoFetch
<1>4. fetch' = [fetch EXCEPT ![c] = f]  BY <1>1
<1>. HIDE DEF f
<1>5. Len(f.hops) = 0 /\ DOMAIN f.hops = {} /\ MaxHops[k] \in Nat \ {0}
  BY <1>2, FetchConstants
<1>6. CallOK(f)  BY <1>2, <1>5, CheckedTarget DEF CallOK
<1>7. fetch' \in [Fetches -> CallRecord] /\ \A d \in Fetches : CallOK(fetch'[d])
  BY <1>3, <1>4, <1>6, FetchUpdate DEF FetchInv
<1>8. dns' = dns /\ conns' \subseteq conns  BY DEF Call
<1>9. PublicOnly'  BY <1>8 DEF FetchInv, PublicOnly
<1>. QED  BY <1>7, <1>8, <1>9 DEF FetchInv

\* The dialer connects to public addresses only.
LEMMA DialKeeps ==
    ASSUME FetchInv, NEW c \in Fetches, Dial(c) PROVE FetchInv'
<1>. DEFINE h == fetch[c].url.host
<1>1. fetch[c].at = "send" /\ Public(h) /\ Contact(c) /\ dns' = dns  BY Zenon DEF Dial
<1>2. PICK a \in dns[h] : conns' = conns \union {[pool |-> Pool(c), host |-> h, addr |-> a]}
  BY Zenon DEF Dial
<1>3. h \in Hosts  BY <1>1 DEF FetchInv, CallOK, Target, Urls
<1>4. a = "public"  BY <1>1, <1>2, <1>3 DEF FetchInv, Public, Addresses
<1>5. PublicOnly'
  <2>. DEFINE x == [pool |-> Pool(c), host |-> h, addr |-> a]
  <2>1. x.host \in Hosts /\ x.addr = "public"  BY <1>3, <1>4
  <2>. HIDE DEF x
  <2>. QED  BY <1>2, <2>1, Zenon DEF FetchInv, PublicOnly, x
<1>6. fetch' \in [Fetches -> CallRecord] /\ \A d \in Fetches : CallOK(fetch'[d])
  BY <1>1, ContactKeeps DEF FetchInv
<1>. QED  BY <1>1, <1>5, <1>6, Zenon DEF FetchInv

\* A redirect is followed to an accepted target and within the hops, or ends the call.
LEMMA RedirectKeeps ==
    ASSUME FetchInv, NEW c \in Fetches, Redirected(c) PROVE FetchInv'
<1>1. PICK u \in Urls : IF CheckRedirect(c, u)
                        THEN fetch' = [fetch EXCEPT ![c].at = "send", ![c].url = u]
                        ELSE FetchError(c)
  BY DEF Redirected
<1>2. CASE CheckRedirect(c, u)
  <2>. DEFINE f == [fetch[c] EXCEPT !.at = "send", !.url = u]
  <2>1. fetch' = [fetch EXCEPT ![c] = f]  BY <1>1, <1>2, Zenon DEF FetchInv
  <2>2. fetch[c] \in CallRecord /\ CallOK(fetch[c]) /\ fetch[c].kind \in Clients
    BY DEF FetchInv, CallRecord
  <2>3. f \in CallRecord  BY <2>2, Zenon DEF CallRecord
  <2>4. /\ f.at = "send" /\ f.kind = fetch[c].kind /\ f.hops = fetch[c].hops /\ f.url = u
        /\ f.bytes = fetch[c].bytes /\ f.marked = fetch[c].marked
    BY <2>2, Zenon DEF CallRecord
  <2>. HIDE DEF f
  <2>5. Target(f.kind, u) /\ Len(f.hops) < MaxHops[f.kind]
    BY <1>2, <2>2, <2>4, CheckedTarget, Zenon DEF CheckRedirect
  <2>6. CallOK(f)  BY <2>2, <2>4, <2>5 DEF CallOK
  <2>. QED  BY <2>1, <2>3, <2>6, FetchUpdate DEF FetchInv, Redirected, PublicOnly
<1>3. CASE FetchError(c)
  BY <1>3, FetchErrorKeeps DEF FetchInv, Redirected, PublicOnly
<1>. QED  BY <1>1, <1>2, <1>3

\* A body is read up to the limit.
LEMMA RespondKeeps ==
    ASSUME FetchInv, NEW c \in Fetches, Respond(c) PROVE FetchInv'
<1>. DEFINE k == fetch[c].kind
<1>1. PICK size \in 0..MaxBody + 2 :
         fetch' = [fetch EXCEPT
                     ![c].at = "done", ![c].status = "ok",
                     ![c].bytes = IF k = "ping_url" THEN 0 ELSE Kept(size),
                     ![c].marked = k \in {"fetch_url", "http_request"} /\ size > MaxBody]
  BY Zenon DEF Respond
<1>. DEFINE bytes == IF k = "ping_url" THEN 0 ELSE Kept(size)
            marked == k \in {"fetch_url", "http_request"} /\ size > MaxBody
            f == [fetch[c] EXCEPT !.at = "done", !.status = "ok", !.bytes = bytes, !.marked = marked]
<1>2. fetch' = [fetch EXCEPT ![c] = f]  BY <1>1, Zenon DEF FetchInv
<1>3. bytes \in 0..MaxBody /\ (marked => bytes = MaxBody) /\ marked \in BOOLEAN
  BY FetchConstants DEF Kept
<1>4. fetch[c] \in CallRecord /\ CallOK(fetch[c])  BY DEF FetchInv
<1>. HIDE DEF bytes, marked
<1>5. f \in CallRecord  BY <1>3, <1>4, Zenon DEF CallRecord
<1>6. /\ f.at = "done" /\ f.kind = fetch[c].kind /\ f.hops = fetch[c].hops
      /\ f.bytes = bytes /\ f.marked = marked
  BY <1>4, Zenon DEF CallRecord
<1>. HIDE DEF f
<1>7. CallOK(f)  BY <1>3, <1>4, <1>6 DEF CallOK
<1>. QED  BY <1>2, <1>5, <1>7, FetchUpdate DEF FetchInv, Respond, PublicOnly

\* The invariant holds at the start.
LEMMA FetchInitInv == FetchInit => FetchInv
<1>. SUFFICES ASSUME FetchInit PROVE FetchInv  OBVIOUS
<1>1. NoFetch \in CallRecord
  <2>1. 0 \in 0..MaxBody /\ <<>> \in Seq(Urls) /\ "ping_url" \in Clients  BY FetchConstants
  <2>. QED  BY <2>1 DEF CallRecord, NoFetch
<1>2. CallOK(NoFetch)
  <2>1. /\ NoFetch.at = "done" /\ NoFetch.hops = <<>> /\ NoFetch.kind = "ping_url"
        /\ NoFetch.marked = FALSE
    BY DEF NoFetch
  <2>2. Len(NoFetch.hops) = 0 /\ DOMAIN NoFetch.hops = {} /\ MaxHops["ping_url"] \in Nat \ {0}
    BY <2>1, FetchConstants
  <2>. QED  BY <2>1, <2>2 DEF CallOK
<1>3. dns \in [Hosts -> SUBSET Addresses] /\ PublicOnly
  BY DEF FetchInit, Addresses, PublicOnly
<1>4. fetch \in [Fetches -> CallRecord] /\ \A c \in Fetches : fetch[c] = NoFetch
  BY <1>1 DEF FetchInit
<1>. QED  BY <1>2, <1>3, <1>4 DEF FetchInv

\* Every step of a call, and every change of the name service, keeps the invariant.
LEMMA FetchNextInv == FetchInv /\ [FetchNext]_fetchVars => FetchInv'
<1>. SUFFICES ASSUME FetchInv, [FetchNext]_fetchVars PROVE FetchInv'  OBVIOUS
<1>1. ASSUME NEW c \in Fetches, Call(c) PROVE FetchInv'  BY <1>1, CallKeeps
<1>2. ASSUME NEW c \in Fetches, Reuse(c) PROVE FetchInv'
  BY <1>2, ContactKeeps, Zenon DEF Reuse, FetchInv, PublicOnly
<1>3. ASSUME NEW c \in Fetches, Dial(c) PROVE FetchInv'  BY <1>3, DialKeeps
<1>4. ASSUME NEW c \in Fetches, FetchFails(c) PROVE FetchInv'
  BY <1>4, FetchErrorKeeps DEF FetchFails, FetchInv, PublicOnly
<1>5. ASSUME NEW c \in Fetches, Redirected(c) PROVE FetchInv'  BY <1>5, RedirectKeeps
<1>6. ASSUME NEW c \in Fetches, Respond(c) PROVE FetchInv'  BY <1>6, RespondKeeps
<1>7. CASE NameChanges
  <2>1. PICK h \in Hosts, addrs \in SUBSET Addresses :
           dns' = [dns EXCEPT ![h] = addrs] /\ UNCHANGED <<conns, fetch>>
    BY <1>7, Zenon DEF NameChanges
  <2>2. dns' \in [Hosts -> SUBSET Addresses]  BY <2>1 DEF FetchInv
  <2>. QED  BY <2>1, <2>2 DEF FetchInv, PublicOnly
<1>8. CASE ConnectionCloses
  BY <1>8 DEF ConnectionCloses, FetchInv, PublicOnly
<1>9. CASE UNCHANGED fetchVars  BY <1>9 DEF fetchVars, FetchInv, PublicOnly
<1>. QED
  BY <1>1, <1>2, <1>3, <1>4, <1>5, <1>6, <1>7, <1>8, <1>9 DEF FetchNext

\* Whatever names resolve to and whenever that changes, for every number of callers and
\* hosts: connections lead to public addresses only, requests and redirects stay within
\* what the client accepts and the hops it allows, and bodies within their limit.
THEOREM RequestsVetted == FetchSpec => [](FetchTypeOK /\ FetchesAreVetted)
<1>1. ASSUME FetchInv PROVE FetchTypeOK /\ FetchesAreVetted
  <2>1. \A c \in Fetches : /\ fetch[c].at \in {"done", "send", "sent"}
                           /\ fetch[c].bytes \in 0..MaxBody
    BY <1>1 DEF FetchInv, CallRecord
  <2>2. FetchTypeOK  BY <1>1, <2>1, Zenon DEF FetchInv, FetchTypeOK, PublicOnly, Addresses
  <2>3. FetchesAreVetted
    BY <1>1, <2>1 DEF FetchInv, FetchesAreVetted, PublicOnly, CallOK, Target
  <2>. QED  BY <2>2, <2>3
<1>. QED  BY <1>1, FetchInitInv, FetchNextInv, PTL DEF FetchSpec

-----------------------------------------------------------------------------
INSTANCE FiniteSetTheorems

\* What the lemmas assume of finite sets, from the library.
LEMMA FiniteFactsHold == FiniteFacts
<1>1. EmptySetFacts  BY FS_EmptySet DEF EmptySetFacts
<1>2. CardinalityFacts  BY FS_CardinalityType DEF CardinalityFacts
<1>3. SubsetFacts  BY FS_Subset DEF SubsetFacts
<1>4. AddFacts  BY FS_AddElement DEF AddFacts
<1>5. RemoveFacts  BY FS_RemoveElement DEF RemoveFacts
<1>6. SingletonFacts  BY FS_Singleton, Zenon DEF SingletonFacts
<1>. QED  BY <1>1, <1>2, <1>3, <1>4, <1>5, <1>6, Zenon DEF FiniteFacts

\* What the lemmas assume of sets of numbers: the order of the numbers is well-founded.
LEMMA LeastFactsHold == LeastFacts
<1>. SUFFICES ASSUME NEW S \in SUBSET Nat, S # {} PROVE \E i \in S : \A k \in S : i <= k
  BY DEF LeastFacts
<1>1. \E i \in S : \A k \in S : ~(<<k, i>> \in OpToRel(<, Nat))
  BY Zenon, NatLessThanWellFounded, WFMin
<1>2. OpToRel(<, Nat) = {p \in Nat \X Nat : p[1] < p[2]}
  BY Zenon DEF OpToRel
<1>3. \E i \in S : \A k \in S : ~(<<k, i>> \in {p \in Nat \X Nat : p[1] < p[2]})
  BY <1>1, <1>2, Zenon
<1>4. PICK i \in S : \A k \in S : ~(<<k, i>> \in {p \in Nat \X Nat : p[1] < p[2]})
  BY <1>3
<1>5. ASSUME NEW k \in S  PROVE i <= k
  <2>1. i \in Nat /\ k \in Nat  OBVIOUS
  <2>2. k < i => <<k, i>> \in {p \in Nat \X Nat : p[1] < p[2]}  BY <2>1
  <2>. QED  BY <2>1, <2>2, <1>4
<1>. QED  BY <1>5

\* Whatever requests run at the same time, fail or are cut off by a restart, the
\* configuration an agent has can be rolled back to once no request is under way
\* (handleAgentUpdate, handleAgentRollback and memoryAgentVersionStore).
THEOREM ConfigCanBeRestored == RegistrySpec => [](RegistryTypeOK /\ CurrentConfigIsKept)
<1>1. RegistryInv /\ [RegistryNext]_registryVars => RegistryInv'
  BY FiniteFactsHold, LeastFactsHold, RegistryNextInv
<1>. QED  BY <1>1, RegistryInitInv, RegistryInvSuffices, PTL DEF RegistrySpec

=============================================================================
