----------------------------- MODULE Forwarding -----------------------------
(***************************************************************************)
(* Forwarding a run to a peer: handleForwardRun, the Forwarder's attempts  *)
(* over a network that loses requests and answers, the peer's run creation *)
(* behind it, and the forward index with its file.                         *)
(***************************************************************************)
EXTENDS Integers, FiniteSets

CONSTANTS
    Forwards,            \* requests to forward a run
    Keyed,               \* those whose run_request has an idempotency_key
    MaxForwardAttempts,  \* Forwarder.MaxAttempts
    MaxForwardEntries,   \* maxForwardEntries
    EntryTTL,            \* forwardEntryTTL, in ticks
    MaxForwardTime,      \* bound: ticks explored
    MaxForwardRestarts   \* bound: restarts of the federation service

ASSUME ForwardConstants ==
    /\ Keyed \subseteq Forwards /\ IsFiniteSet(Forwards)
    /\ MaxForwardAttempts \in Nat \ {0} /\ MaxForwardEntries \in Nat \ {0}
    /\ {EntryTTL, MaxForwardTime, MaxForwardRestarts} \subseteq Nat

VARIABLES
    fwd,       \* fwd[f]: the handler: its attempt and the run it was told of
    peerStore, \* the peer's run store: "file" or "postgres"
    post,      \* post[f][n]: the n-th attempt's request, at the peer or on the way
    peerRuns,  \* peerRuns[f]: the runs the peer created for f, by attempt
    index,     \* index[f]: createdAt of the entry of f's run, or NoEntry
    file,      \* the entries in the index file
    time,
    restarts,
    overlap,   \* history: keyed forwards two of whose requests created at once
    setAt,     \* history: setAt[f], when Set indexed f's run
    bootAt,    \* history: when the service last started
    unsaved,   \* history: entries that a failed write left out of the file
    forgotten  \* history: entries a restart lost for that reason

peerVars == <<post, peerRuns, overlap, peerStore>>
bootVars == <<restarts, bootAt, forgotten>>
indexVars == <<index, file, time, setAt, unsaved>>
forwardVars == <<fwd, peerVars, bootVars, indexVars>>

Attempts == 1..MaxForwardAttempts
NoEntry == -1
NoAttempt == 0

ForwardInit ==
    /\ fwd = [f \in Forwards |-> [pc |-> "idle", attempt |-> 0, run |-> NoAttempt]]
    /\ post = [f \in Forwards |-> [n \in Attempts |-> "none"]]
    /\ peerRuns = [f \in Forwards |-> {}] /\ peerStore \in {"file", "postgres"}
    /\ index = [f \in Forwards |-> NoEntry] /\ file = {}
    /\ time = 1 /\ restarts = 0
    /\ overlap = {} /\ setAt = [f \in Forwards |-> NoEntry]
    /\ bootAt = 0 /\ unsaved = {} /\ forgotten = {}

-----------------------------------------------------------------------------
(* The Forwarder *)

Indexed == {f \in Forwards : index[f] # NoEntry}

\* An attempt sends its request: from the handler, or after the backoff.
SendAttempt(f) ==
    /\ fwd[f].pc \in {"idle", "backoff"}
    /\ fwd' = [fwd EXCEPT ![f].pc = "sending", ![f].attempt = @ + 1]
    /\ post' = [post EXCEPT ![f][fwd[f].attempt + 1] = "sent"]
    /\ UNCHANGED <<peerRuns, overlap, peerStore, bootVars, indexVars>>

\* Nobody retries when the attempts are used up.
AfterFailure(f) == IF fwd[f].attempt < MaxForwardAttempts THEN "backoff" ELSE "failed"

\* The handler as the peer's answer finds it: waiting for attempt n, or gone on.
Hears(f, n) == fwd[f].pc = "sending" /\ fwd[f].attempt = n
Told(f, n, pc, run) ==
    fwd' = IF Hears(f, n) THEN [fwd EXCEPT ![f].pc = pc, ![f].run = run] ELSE fwd

\* Client.Do fails: the connection, or the timeout of 10 seconds. The request may
\* be on its way all the same.
AttemptFails(f) ==
    /\ fwd[f].pc = "sending"
    /\ fwd' = [fwd EXCEPT ![f].pc = AfterFailure(f)]
    /\ LET n == fwd[f].attempt
       IN post' \in {post, [post EXCEPT ![f][n] = IF @ = "sent" THEN "lost" ELSE @]}
    /\ UNCHANGED <<peerRuns, overlap, peerStore, bootVars, indexVars>>

-----------------------------------------------------------------------------
(* The peer: handleRunCreate of its orchestrator *)

\* Before the lookup: 4xx (quota, validation), which is not retried, or 5xx.
PeerRefuses(f, n) ==
    /\ post[f][n] = "sent"
    /\ post' = [post EXCEPT ![f][n] = "served"]
    /\ \E pc \in {"failed", AfterFailure(f)} : Told(f, n, pc, NoAttempt)
    /\ UNCHANGED <<peerRuns, overlap, peerStore, bootVars, indexVars>>

\* The idempotency key is copied into the request of every attempt.
HasKey(f) == f \in Keyed

\* The lookup finds a run of an earlier attempt, or the request goes on to create: so
\* it does when the database fails to answer.
PeerLooksUp(f, n) ==
    /\ post[f][n] = "sent"
    /\ \/ /\ HasKey(f)
          /\ post' = [post EXCEPT ![f][n] = "served"]
          /\ \E run \in peerRuns[f] : Told(f, n, "indexing", run)
       \/ /\ ~HasKey(f) \/ peerRuns[f] = {} \/ peerStore = "postgres"
          /\ post' = [post EXCEPT ![f][n] = "creating"] /\ UNCHANGED fwd
    /\ UNCHANGED <<peerRuns, overlap, peerStore, bootVars, indexVars>>

KeyTakenNever(f) == FALSE

\* The unique index of the database on the tenant and a key that is not empty.
KeyTaken(f) == peerStore = "postgres" /\ HasKey(f) /\ peerRuns[f] # {}

\* The run is stored and the answer is 201, or 500 (the file was not written), or a
\* 201 whose body does not arrive whole, which is not retried; or it is not stored,
\* and the answer is 500 whatever the reason.
PeerCreates(f, n) ==
    /\ post[f][n] = "creating"
    /\ post' = [post EXCEPT ![f][n] = "served"]
    /\ \/ /\ ~KeyTaken(f)
          /\ peerRuns' = [peerRuns EXCEPT ![f] = @ \cup {n}]
          /\ overlap' = IF \E m \in Attempts \ {n} : post[f][m] = "creating"
                        THEN overlap \cup {f} ELSE overlap
          /\ \/ Told(f, n, "indexing", n)
             \/ peerStore = "file" /\ Told(f, n, AfterFailure(f), NoAttempt)
             \/ Told(f, n, "failed", NoAttempt)
       \/ Told(f, n, AfterFailure(f), NoAttempt) /\ UNCHANGED <<peerRuns, overlap>>
    /\ UNCHANGED <<peerStore, bootVars, indexVars>>

-----------------------------------------------------------------------------
(* The forward index *)

Expired(entries) == {f \in Forwards : entries[f] # NoEntry /\ entries[f] + EntryTTL < time}

Without(entries, gone) == [f \in Forwards |-> IF f \in gone THEN NoEntry ELSE entries[f]]

Oldest(entries) ==
    {f \in Forwards : entries[f] # NoEntry
        /\ \A g \in Forwards : entries[g] # NoEntry => entries[f] <= entries[g]}

\* evictOldestLocked when the cap is passed; equal times are told apart by the
\* order of the map.
Evicted(entries) ==
    IF Cardinality({f \in Forwards : entries[f] # NoEntry}) > MaxForwardEntries
    THEN {{f} : f \in Oldest(entries)} ELSE {{}}

\* persistLocked: the whole map, by way of a temporary file; an error is logged.
Persist(entries) ==
    LET now == {f \in Forwards : entries[f] # NoEntry}
    IN \/ file' = now /\ unsaved' = {}
       \/ UNCHANGED file /\ unsaved' = now \ file

\* Set, then the answer to the client. Two Sets never happen at the same time.
IndexSet(f) ==
    /\ fwd[f].pc = "indexing"
    /\ time' = time + 1
    /\ setAt' = [setAt EXCEPT ![f] = time]
    /\ \E sweep \in BOOLEAN :
          LET added == [index EXCEPT ![f] = time]
              swept == IF sweep THEN Without(added, Expired(added)) ELSE added
          IN \E gone \in Evicted(swept) :
                index' = Without(swept, gone) /\ Persist(Without(swept, gone))
    /\ fwd' = [fwd EXCEPT ![f].pc = "answered"]
    /\ UNCHANGED <<peerVars, bootVars>>

TimeLeft == time + Cardinality({f \in Forwards : fwd[f].pc # "answered"}) < MaxForwardTime

ForwardTick ==
    /\ TimeLeft
    /\ time' = time + 1
    /\ UNCHANGED <<fwd, peerVars, bootVars, index, file, setAt, unsaved>>

\* The federation service restarts: the file is loaded, with new creation times,
\* and the requests it was serving are gone.
ForwardRestart ==
    /\ restarts < MaxForwardRestarts /\ TimeLeft
    /\ restarts' = restarts + 1 /\ time' = time + 1 /\ bootAt' = time
    /\ forgotten' = forgotten \cup unsaved /\ unsaved' = {}
    /\ index' = [f \in Forwards |-> IF f \in file THEN time ELSE NoEntry]
    /\ fwd' = [f \in Forwards |->
                  IF fwd[f].pc \in {"sending", "backoff", "indexing"}
                  THEN [fwd[f] EXCEPT !.pc = "aborted"] ELSE fwd[f]]
    /\ UNCHANGED <<peerVars, file, setAt>>

-----------------------------------------------------------------------------
ForwardStep(f) ==
    SendAttempt(f) \/ AttemptFails(f) \/ IndexSet(f)

PeerStep(f, n) == PeerRefuses(f, n) \/ PeerLooksUp(f, n) \/ PeerCreates(f, n)

ForwardNext ==
    \/ \E f \in Forwards : ForwardStep(f) \/ \E n \in Attempts : PeerStep(f, n)
    \/ ForwardTick \/ ForwardRestart

ForwardSpec == ForwardInit /\ [][ForwardNext]_forwardVars

-----------------------------------------------------------------------------
(* Properties *)

\* Type invariant of the forwarding component.
ForwardTypeOK ==
    /\ fwd \in [Forwards -> [pc : {"idle", "sending", "backoff", "indexing", "answered", "failed", "aborted"},
                             attempt : 0..MaxForwardAttempts, run : 0..MaxForwardAttempts]]
    /\ post \in [Forwards -> [Attempts -> {"none", "sent", "lost", "creating", "served"}]]
    /\ peerRuns \in [Forwards -> SUBSET Attempts] /\ peerStore \in {"file", "postgres"}
    /\ index \in [Forwards -> Nat \cup {NoEntry}] /\ file \subseteq Forwards
    /\ {time, restarts, bootAt} \subseteq Nat /\ setAt \in [Forwards -> Nat \cup {NoEntry}]
    /\ overlap \cup unsaved \cup forgotten \subseteq Forwards

\* ForwardRun's retries of a request with an idempotency key leave one run at the
\* peer, however answers are lost, lookups fail and late requests arrive, unless a
\* peer with file stores was creating for two attempts at the same moment.
KeyedForwardsMakeOneRun ==
    \A f \in Keyed : Cardinality(peerRuns[f]) > 1 => peerStore = "file" /\ f \in overlap

\* A client told of its remote run can have its events proxied, across restarts,
\* until the entry outlives its time to live or the index is full of others: later
\* ones if it was set since the last start, any if the start loaded it from the
\* file, where creation times are not kept. Only a failed write loses it otherwise.
AnsweredIsIndexed ==
    \A f \in Forwards : fwd[f].pc = "answered" =>
        \/ f \in Indexed \/ f \in forgotten
        \/ setAt[f] + EntryTTL < time
        \/ LET others == {g \in Forwards \ {f} : setAt[g] # NoEntry}
               later  == {g \in others : setAt[g] > setAt[f]}
           IN Cardinality(IF setAt[f] > bootAt THEN later ELSE others) >= MaxForwardEntries

\* A forwarded request makes one run at the peer and its client can find it again.
ForwardsAreKept == KeyedForwardsMakeOneRun /\ AnsweredIsIndexed

\* The index holds at most maxForwardEntries, and so does what a restart loads.
IndexBounded == Cardinality(Indexed) <= MaxForwardEntries /\ Cardinality(file) <= MaxForwardEntries
=============================================================================
