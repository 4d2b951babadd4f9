-------------------------- MODULE FederatedEvents --------------------------
(***************************************************************************)
(* Events of remote runs at the federation service: peers push them        *)
(* (events:ingest) again and in any order, and clients read them with a    *)
(* from_sequence cursor, from the ingested events or through the SSE proxy *)
(* of the peer's stream, and reconnect with the cursor they have reached.  *)
(***************************************************************************)
EXTENDS Integers, Sequences, SequencesExt, FiniteSets

CONSTANTS
    FedRuns,        \* remote runs
    FedEvents,      \* event ids
    RunOf, SequenceOf,   \* each event's run, and its sequence: 0 when it has none
    MaxStoredRuns,  \* maxStoredRuns
    MaxSeen,        \* maxSeenEventIDs
    Readers,        \* clients of GET /v1/federation/runs/{run_id}/events
    MaxStored,      \* bound: events kept of a run
    MaxGot          \* bound: events a client reads

ASSUME FedEventsConstants ==
    /\ RunOf \in [FedEvents -> FedRuns] /\ SequenceOf \in [FedEvents -> Nat]
    /\ {MaxStoredRuns, MaxSeen} \subseteq Nat \ {0} /\ {MaxStored, MaxGot} \subseteq Nat
    /\ IsFiniteSet(FedEvents) /\ IsFiniteSet(FedRuns)

VARIABLES
    ingested,  \* eventStore.m: ingested[r]
    runOrder,  \* eventStore.runOrder
    trimmed,   \* history: runs whose seenEventIDs ever lost an id
    reader     \* reader[c]: the run, the cursor and what was received

fedEventVars == <<ingested, runOrder, trimmed, reader>>

NothingStored == [known |-> FALSE, seen |-> {}, last |-> 0, events |-> <<>>]

FedEventsInit ==
    /\ ingested = [r \in FedRuns |-> NothingStored]
    /\ runOrder = <<>> /\ trimmed = {}
    /\ reader \in [Readers -> {[pc |-> "idle", run |-> r, got |-> <<>>, from |-> 0,
                                seen |-> {}, last |-> 0] : r \in FedRuns}]

-----------------------------------------------------------------------------
(* Ingest *)

AcceptedUnordered(e, st) == e \notin st.seen

\* An event is new to its run if its sequence is beyond the last and its id unseen.
Accepted(e, st) == (SequenceOf[e] = 0 \/ SequenceOf[e] > st.last) /\ e \notin st.seen

\* At the cap a tenth of the ids, and at least one, is forgotten: any of them.
Remembered(seen) ==
    IF Cardinality(seen) < MaxSeen THEN {seen}
    ELSE {seen \ gone : gone \in {s \in SUBSET seen :
             Cardinality(s) = IF MaxSeen \div 10 = 0 THEN 1 ELSE MaxSeen \div 10}}

Beyond(e, last) == IF SequenceOf[e] > last THEN SequenceOf[e] ELSE last

EnteredAgain(r) == Append(runOrder, r)

\* A run not in the map goes to the end of runOrder.
Entered(r) == IF ingested[r].known THEN runOrder ELSE Append(runOrder, r)

\* One envelope of an ingest request: the run is entered even if it is rejected, and
\* the runs entered first make room.
Ingest(e) ==
    LET r     == RunOf[e]
        st    == [ingested[r] EXCEPT !.known = TRUE]
        order == Entered(r)
        full  == Cardinality({q \in FedRuns : ingested[q].known} \cup {r}) > MaxStoredRuns
        Keep(new) == [q \in FedRuns |-> IF full /\ q = Head(order) THEN NothingStored
                                        ELSE IF q = r THEN new ELSE ingested[q]]
    IN /\ Len(st.events) < MaxStored
       /\ runOrder' = IF full THEN Tail(order) ELSE order
       /\ IF Accepted(e, st)
          THEN \E seen \in Remembered(st.seen) :
                  /\ ingested' = Keep([known |-> TRUE, seen |-> seen \cup {e},
                                       last |-> Beyond(e, st.last), events |-> Append(st.events, e)])
                  /\ trimmed' = IF seen = st.seen THEN trimmed ELSE trimmed \cup {r}
          ELSE ingested' = Keep(st) /\ UNCHANGED trimmed
       /\ UNCHANGED reader

\* The service restarts: ingested events are only in memory, connections break.
FedRestart ==
    /\ \E r \in FedRuns : ingested[r].known
    /\ ingested' = [r \in FedRuns |-> NothingStored] /\ runOrder' = <<>>
    /\ reader' = [c \in Readers |-> [reader[c] EXCEPT !.pc = "idle", !.seen = {}, !.last = 0]]
    /\ UNCHANGED trimmed

-----------------------------------------------------------------------------
(* handleRunEvents *)

\* The client asks for what is beyond the highest sequence it has received.
Reached(c, more) == LET seqs == {SequenceOf[e] : e \in ToSet(more)} \cup {reader[c].from}
                    IN CHOOSE s \in seqs : \A t \in seqs : t <= s

\* ListFromSequence.
BeyondCursor(e, from) == SequenceOf[e] = 0 \/ SequenceOf[e] > from

\* Not in the forward index: the ingested events, then the stream ends.
ReadStored(c) ==
    LET events == SelectSeq(ingested[reader[c].run].events, LAMBDA e : BeyondCursor(e, reader[c].from))
    IN /\ reader[c].pc = "idle" /\ ingested[reader[c].run].known
       /\ Len(reader[c].got) + Len(events) <= MaxGot
       /\ reader' = [reader EXCEPT ![c].got = @ \o events, ![c].from = Reached(c, events)]
       /\ UNCHANGED <<ingested, runOrder, trimmed>>

\* In the forward index: a connection to the peer.
ProxyOpen(c) ==
    /\ reader[c].pc = "idle"
    /\ reader' = [reader EXCEPT ![c].pc = "proxying", ![c].seen = {}, ![c].last = reader[c].from]
    /\ UNCHANGED <<ingested, runOrder, trimmed>>

ProxyPasses(c, e) == e \notin reader[c].seen /\ (SequenceOf[e] = 0 \/ SequenceOf[e] > reader[c].last)

\* One event line of the peer's stream, which may repeat and disorder events.
ProxyLine(c, e) ==
    /\ reader[c].pc = "proxying" /\ RunOf[e] = reader[c].run
    /\ Len(reader[c].got) < MaxGot
    /\ reader' = [reader EXCEPT ![c] =
           IF ProxyPasses(c, e)
           THEN [@ EXCEPT !.seen = @ \cup {e}, !.last = Beyond(e, reader[c].last),
                          !.got = Append(@, e), !.from = Reached(c, <<e>>)]
           ELSE [@ EXCEPT !.seen = @ \cup {e}]]
    /\ UNCHANGED <<ingested, runOrder, trimmed>>

\* The end of the peer's stream, a read error, or the client hanging up.
ProxyEnds(c) ==
    /\ reader[c].pc = "proxying"
    /\ reader' = [reader EXCEPT ![c].pc = "idle", ![c].seen = {}, ![c].last = 0]
    /\ UNCHANGED <<ingested, runOrder, trimmed>>

-----------------------------------------------------------------------------
FedEventsNext ==
    \/ \E e \in FedEvents : Ingest(e) \/ \E c \in Readers : ProxyLine(c, e)
    \/ FedRestart
    \/ \E c \in Readers : ReadStored(c) \/ ProxyOpen(c) \/ ProxyEnds(c)

-----------------------------------------------------------------------------
(* Properties *)

\* Type invariant; seenEventIDs stays within its cap.
FedEventsTypeOK ==
    /\ \A r \in FedRuns : Cardinality(ingested[r].seen) <= MaxSeen
    /\ ingested \in [FedRuns -> [known : BOOLEAN, seen : SUBSET FedEvents, last : Nat,
                                 events : Seq(FedEvents)]]
    /\ runOrder \in Seq(FedRuns) /\ trimmed \subseteq FedRuns
    /\ reader \in [Readers -> [pc : {"idle", "proxying"}, run : FedRuns, got : Seq(FedEvents),
                               from : Nat, seen : SUBSET FedEvents, last : Nat]]

\* The sequenced events of s, as their numbers, in order.
Sequenced(s) == SelectSeq([i \in DOMAIN s |-> SequenceOf[s[i]]], LAMBDA n : n # 0)

Rising(s) == \A i, j \in DOMAIN s : i < j => s[i] < s[j]

\* Whatever peers push, again or out of order, the stored events of a run are in
\* sequence; one without a sequence is stored twice only after seenEventIDs has
\* reached its cap and forgotten an id.
IngestedInOrder ==
    \A r \in FedRuns : LET events == ingested[r].events IN
        /\ Rising(Sequenced(events))
        /\ r \notin trimmed => \A i, j \in DOMAIN events : events[i] = events[j] => i = j

\* runOrder lists exactly the runs of the map, each once, and no more than the cap:
\* the eviction loop always finds the run it removes.
OrderMatchesMap ==
    /\ Len(runOrder) <= MaxStoredRuns
    /\ ToSet(runOrder) = {r \in FedRuns : ingested[r].known}
    /\ \A i, j \in DOMAIN runOrder : runOrder[i] = runOrder[j] => i = j

\* A client that reconnects with the cursor it has reached receives the sequenced
\* events of its run in order and none twice, over any number of connections, each
\* proxied or served from the store, through evictions and restarts.
ReadInOrder == \A c \in Readers : Rising(Sequenced(reader[c].got))

\* Remote events are stored and read in order, none twice.
EventsInOrder == IngestedInOrder /\ ReadInOrder
=============================================================================
