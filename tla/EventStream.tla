---------------------------- MODULE EventStream ----------------------------
(***************************************************************************)
(* The events of one run: the EventSink the worker emits into, the live    *)
(* stream (GET /v1/runs/{id}/stream), the stored-event reader (GET         *)
(* /v1/runs/{id}/events), and the event log the sink writes through.       *)
(* An event is its sequence number.                                        *)
(***************************************************************************)
EXTENDS Integers, Sequences, SequencesExt, FiniteSets, FiniteSetsExt

CONSTANTS
    Clients,     \* HTTP requests that read this run's events
    MaxEvents,   \* bound: events the run emits
    BufSize,     \* subscriberBufSize
    FromSeqs,    \* the from_sequence / Last-Event-ID values clients send
    Disconnects, \* may clients hang up?
    LogPrunes,   \* do other runs push this one out of the log's cache?
    Restarts     \* may the process be restarted?

ASSUME ConstantsAssumption ==
    /\ MaxEvents \in Nat /\ BufSize \in Nat \ {0} /\ FromSeqs \subseteq Int
    /\ IsFiniteSet(Clients)
    /\ {Disconnects, LogPrunes, Restarts} \subseteq BOOLEAN

VARIABLES
    run,      \* the worker: "new" until Submit, then its progress to "marked"
    stored,   \* is the status in the run store terminal?
    sink,     \* is the sink in Executor.eventSinks?
    seq,      \* EventSink.seq; the sink's events are 1..seq
    subs,     \* EventSink.subscribers
    buf,      \* buf[c]: events waiting in c's channel
    dropped,  \* EventSink.droppedEvents
    logged,   \* fileEventLogStore.runs[key]
    pruned,   \* history: was this run ever dropped from that map?
    client    \* client[c]: what request c is doing and has been sent

vars == <<run, stored, sink, seq, subs, buf, dropped, logged, pruned, client>>
producer == <<run, stored, sink>>
channels == <<subs, buf, dropped>>
log == <<logged, pruned>>

\* Sequences of event numbers first..last, and those after a cursor.
Span(first, last) == [i \in 1..(last - first + 1) |-> first + i - 1]
After(s, from) == SelectSeq(s, LAMBDA e : e > from)

NoRequest == [pc |-> "idle", from |-> 0, got |-> <<>>, at |-> 0, made |-> FALSE]
Gone == [NoRequest EXCEPT !.pc = "gone"]

Init ==
    /\ run = "new" /\ stored = FALSE /\ sink = FALSE
    /\ seq = 0 /\ subs = {} /\ buf = [c \in Clients |-> <<>>] /\ dropped = 0
    /\ logged = <<>> /\ pruned = FALSE
    /\ client = [c \in Clients |-> NoRequest]

-----------------------------------------------------------------------------
(* The worker's side *)

\* Submit publishes the sink before the job is queued.
Submit ==
    /\ run = "new"
    /\ run' = "emitting" /\ sink' = TRUE
    /\ UNCHANGED <<stored, seq, channels, log, client>>

\* notifySubscribers: a full channel loses the event and is counted.
NotifyUnbounded(e) ==
    /\ buf' = [c \in Clients |-> IF c \in subs /\ Len(buf[c]) <= BufSize
                                 THEN Append(buf[c], e) ELSE buf[c]]
    /\ dropped' = dropped + Cardinality({c \in subs : Len(buf[c]) > BufSize})

NotifySubscribers(e) ==
    /\ buf' = [c \in Clients |-> IF c \in subs /\ Len(buf[c]) < BufSize
                                 THEN Append(buf[c], e) ELSE buf[c]]
    /\ dropped' = dropped + Cardinality({c \in subs : Len(buf[c]) = BufSize})

\* fileEventLogStore.Append: the cache first, then the file, which nothing reads
\* back; Emit ignores the error of a failed write.
LogAppend(e) == logged' = Append(logged, e) /\ UNCHANGED pruned

\* Emit holds the sink's mutex over the sequence number, the channels and the log.
Emit ==
    /\ seq' = seq + 1
    /\ NotifySubscribers(seq + 1)
    /\ LogAppend(seq + 1)
    /\ UNCHANGED subs

EmitStep ==
    /\ run = "emitting" /\ seq < MaxEvents - 1
    /\ Emit
    /\ UNCHANGED <<producer, client>>

\* The outcome is saved (a failed save is only logged), then its event emitted.
SaveOutcome ==
    /\ run = "emitting"
    /\ run' = "saved" /\ stored' \in {TRUE, stored}
    /\ UNCHANGED <<sink, seq, channels, log, client>>

EmitOutcome ==
    /\ run = "saved"
    /\ run' = "ended"
    /\ Emit
    /\ UNCHANGED <<stored, sink, client>>

\* A cancel request stores a terminal status whatever the worker is doing.
CancelStored ==
    /\ run # "down" /\ ~stored
    /\ stored' = TRUE
    /\ UNCHANGED <<run, sink, seq, channels, log, client>>

\* Done closes every channel; what is buffered can still be received.
DoneForgets ==
    /\ run = "ended"
    /\ run' = "done"
    /\ UNCHANGED <<stored, sink, seq, channels, log, client>>

Done ==
    /\ run = "ended"
    /\ run' = "done" /\ subs' = {}
    /\ UNCHANGED <<stored, sink, seq, buf, dropped, log, client>>

\* sinkCompleted is set; a job that finishes sinkTTL later evicts the sink.
MarkCompleted ==
    /\ run = "done"
    /\ run' = "marked"
    /\ UNCHANGED <<stored, sink, seq, channels, log, client>>

EvictSink ==
    /\ run = "marked" /\ sink
    /\ sink' = FALSE
    /\ UNCHANGED <<run, stored, seq, channels, log, client>>

\* The Append of another run exceeds maxRunsInMemory and this run is the oldest.
PruneLog ==
    /\ LogPrunes /\ logged # <<>>
    /\ logged' = <<>> /\ pruned' = TRUE
    /\ UNCHANGED <<producer, seq, channels, client>>

\* The process dies and starts again: the sink, the subscribers and the log's
\* cache are gone. Connections break; the job is not resumed.
Restart ==
    /\ Restarts /\ run # "down"
    /\ run' = "down" /\ sink' = FALSE /\ subs' = {}
    /\ buf' = [c \in Clients |-> <<>>] /\ logged' = <<>> /\ pruned' = TRUE
    /\ client' = [c \in Clients |-> IF client[c].pc \in {"idle", "answered", "finished", "refused"}
                                    THEN client[c] ELSE Gone]
    /\ dropped' = 0
    /\ UNCHANGED <<stored, seq>>

-----------------------------------------------------------------------------
(* handleStream *)

Unmoved == UNCHANGED <<producer, seq, log>>
Quiet == UNCHANGED channels

\* A run that is already terminal gets {"done":true} at once.
StreamOpen(c) ==
    /\ client[c].pc = "idle"
    /\ \E from \in FromSeqs :
          client' = [client EXCEPT ![c] = [NoRequest EXCEPT
              !.pc = IF stored THEN "toldDone" ELSE "checked", !.from = from]]
    /\ Unmoved /\ Quiet

\* EventSinkForRun under the executor's mutex.
StreamLookup(c) ==
    /\ client[c].pc = "checked"
    /\ client' = [client EXCEPT ![c].pc = IF sink THEN "found" ELSE "refused"]
    /\ Unmoved /\ Quiet

\* Replay what the sink holds beyond the cursor; a negative cursor skips it.
StreamReplay(c) ==
    /\ client[c].pc = "found"
    /\ client' = [client EXCEPT ![c].pc = "replayed",
           ![c].got = IF client[c].from >= 0 THEN After(Span(1, seq), client[c].from) ELSE <<>>]
    /\ Unmoved /\ Quiet

\* Subscribe adds the channel, after Done as well as before it.
Subscribe(c) ==
    /\ client[c].pc = "replayed"
    /\ client' = [client EXCEPT ![c].pc = "live", ![c].at = seq]
    /\ subs' = subs \cup {c}
    /\ UNCHANGED <<buf, dropped>> /\ Unmoved

Receive(c) ==
    /\ client[c].pc = "live" /\ buf[c] # <<>>
    /\ client' = [client EXCEPT ![c].got = Append(@, Head(buf[c]))]
    /\ buf' = [buf EXCEPT ![c] = Tail(@)]
    /\ UNCHANGED <<subs, dropped>> /\ Unmoved

\* The channel is closed and drained: {"done":true}.
Closed(c) == c \notin subs /\ buf[c] = <<>>

SeeClosed(c) ==
    /\ client[c].pc = "live" /\ Closed(c)
    /\ client' = [client EXCEPT ![c].pc = "finished"]
    /\ Unmoved /\ Quiet

\* The client hangs up: the deferred Unsubscribe removes and closes the channel.
HangUp(c) ==
    /\ Disconnects /\ client[c].pc = "live"
    /\ client' = [client EXCEPT ![c] = Gone]
    /\ subs' = subs \ {c} /\ buf' = [buf EXCEPT ![c] = <<>>]
    /\ UNCHANGED dropped /\ Unmoved

-----------------------------------------------------------------------------
(* handleEvents *)

\* EventsFromSequence for a positive cursor, Events otherwise.
Cursor(from) == IF from > 0 THEN from ELSE 0

PollSink(c) ==
    /\ client[c].pc = "idle"
    /\ \E from \in FromSeqs :
          client' = [client EXCEPT ![c] = [NoRequest EXCEPT
              !.pc = "polled", !.from = from, !.at = seq,
              !.got = IF sink THEN After(Span(1, seq), Cursor(from)) ELSE <<>>]]
    /\ Unmoved /\ Quiet

\* Nothing in memory: the durable log; nothing there either and no cursor: one
\* synthetic event.
LogFallbackOffByOne(c) ==
    /\ client[c].pc = "polled"
    /\ LET got == IF client[c].got # <<>> THEN client[c].got
                  ELSE After(logged, Cursor(client[c].from) + 1)
       IN client' = [client EXCEPT ![c].pc = "answered", ![c].got = got,
                         ![c].made = (got = <<>> /\ client[c].from = 0)]
    /\ Unmoved /\ Quiet

LogFallback(c) ==
    /\ client[c].pc = "polled"
    /\ LET got == IF client[c].got # <<>> THEN client[c].got
                  ELSE After(logged, Cursor(client[c].from))
       IN client' = [client EXCEPT ![c].pc = "answered", ![c].got = got,
                         ![c].made = (got = <<>> /\ client[c].from = 0)]
    /\ Unmoved /\ Quiet

-----------------------------------------------------------------------------
Worker ==
    \/ Submit \/ EmitStep \/ SaveOutcome \/ EmitOutcome
    \/ Done \/ MarkCompleted \/ EvictSink

Stream(c) ==
    \/ StreamOpen(c) \/ StreamLookup(c) \/ StreamReplay(c) \/ Subscribe(c)
    \/ Receive(c) \/ SeeClosed(c) \/ HangUp(c)

Poll(c) == PollSink(c) \/ LogFallback(c)

Next ==
    \/ Worker \/ CancelStored \/ PruneLog \/ Restart
    \/ \E c \in Clients : Stream(c) \/ Poll(c)

Spec == Init /\ [][Next]_vars

\* The worker and every handler goroutine are scheduled by the Go runtime; a
\* request need not arrive, a client need not hang up.
Serve(c) ==
    \/ StreamLookup(c) \/ StreamReplay(c) \/ Subscribe(c)
    \/ Receive(c) \/ SeeClosed(c) \/ LogFallback(c)

FairSpec ==
    /\ Spec
    /\ WF_vars(Submit \/ SaveOutcome \/ EmitOutcome \/ Done \/ MarkCompleted)
    /\ \A c \in Clients : WF_vars(Serve(c))

-----------------------------------------------------------------------------
(* Properties *)

Events == 1..MaxEvents

ClientPcs == {"idle", "checked", "found", "replayed", "live", "finished",
              "toldDone", "refused", "gone", "polled", "answered"}

\* Type invariant; no channel holds more than subscriberBufSize events.
TypeOK ==
    /\ run \in {"new", "emitting", "saved", "ended", "done", "marked", "down"}
    /\ {stored, sink, pruned} \subseteq BOOLEAN
    /\ seq \in 0..MaxEvents /\ dropped \in Nat
    /\ subs \subseteq Clients
    /\ buf \in [Clients -> Seq(Events)] /\ \A c \in Clients : Len(buf[c]) <= BufSize
    /\ logged \in Seq(Events)
    /\ client \in [Clients -> [pc : ClientPcs, from : FromSeqs \cup {0},
                               got : Seq(Events), at : 0..MaxEvents, made : BOOLEAN]]

Increasing(s) == \A i, j \in DOMAIN s : i < j => s[i] < s[j]

\* What a client is sent, and what is still in its channel, is in emission order
\* with no event twice: the replay of handleStream stops before the first event
\* its subscription delivers, however emissions interleave with the two.
SentInOrder == \A c \in Clients : Increasing(client[c].got \o buf[c])

\* Events emitted since c subscribed that c neither has nor will receive.
Lost(c) == {e \in (client[c].at + 1)..seq : e \notin ToSet(client[c].got \o buf[c])}

\* A subscriber never loses an event unnoticed: droppedEvents accounts for every
\* event emitted after a subscription and missing from it, also once the sink is
\* closed and the client was told {"done":true}.
LossesAreCounted ==
    run # "down" => MapThenSumSet(LAMBDA c : Cardinality(Lost(c)),
        {c \in Clients : client[c].pc \in {"live", "finished"}}) <= dropped

\* As long as the log keeps the run in its cache, a poll reports every event
\* emitted before the request, without a hole, whether the sink or the log served
\* it; the synthetic event appears only when
\* nothing had been emitted.
PollsAreWhole ==
    ~pruned => \A c \in Clients : client[c].pc = "answered" =>
        /\ \E last \in client[c].at..seq :
               client[c].got = After(Span(1, last), Cursor(client[c].from))
        /\ client[c].made => client[c].at = 0

\* What a reader of a run's events may rely on, by stream or by poll: order, no loss that
\* is not counted, no hole.
ReadersSeeTheLog == SentInOrder /\ LossesAreCounted /\ PollsAreWhole

\* A client subscribed when the run finishes is told so: Done closes the channel
\* and the handler drains it, whatever was dropped or is still buffered.
SubscribersReleased ==
    \A c \in Clients : (client[c].pc = "live" /\ c \in subs /\ run # "done" /\ run # "marked")
                          ~> (client[c].pc # "live")

\* Documented and not so: "Terminates with {"done":true} when run completes."
\* A handler that subscribes after Done is never released.
StreamTerminates ==
    \A c \in Clients : client[c].pc = "replayed" ~> client[c].pc \in {"finished", "gone"}
=============================================================================
