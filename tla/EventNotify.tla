---------------------------- MODULE EventNotify ----------------------------
(***************************************************************************)
(* The Postgres event log as a source of live events: Append inserts a row *)
(* and then sends a notification, a listener queries what is new for the   *)
(* run that was notified and passes it to the subscribers of that run.     *)
(* Notifications can fail to be sent and are lost while the connection is  *)
(* down; subscribers come and go while the listener sends.  A run has one  *)
(* emitter, which holds the lock of its sink during Append, so its rows    *)
(* are inserted in the order of their sequence numbers.                    *)
(***************************************************************************)
EXTENDS Integers, Sequences, FiniteSets, SequencesExt

CONSTANTS LogRuns,          \* the runs, the keys "tenantID:runID"
          Followed,         \* those that have subscribers; the others only take up room
          Subscriptions,    \* calls of Subscribe
          MaxSubscriptions, \* maxSubscriptions
          SubChanCap,       \* capacity of a subscriber's channel
          MaxEmitted        \* bound on the events each run emits

ASSUME NotifyConstants ==
  /\ Followed \subseteq LogRuns
  /\ MaxSubscriptions \in Nat \ {0} /\ SubChanCap \in Nat \ {0} /\ MaxEmitted \in [LogRuns -> Nat]

VARIABLES
  emitted,     \* emitted[r]: sequence numbers used by the emitter of r
  rows,        \* rows[r]: the sequence numbers in event_log
  unannounced, \* runs whose Append has inserted its row and not yet notified
  notices,     \* the notifications on their way to the listener
  listener,    \* where StartListener is, and what it is sending
  lastSeq,     \* lastSeq, for the runs in lastSeqOrder
  lastSeqOrder,
  subscribers, \* subscribers[r]: the channels of r, in order
  subCount,
  channel,     \* channel[s]: the run, whether it is open, how many events it holds
  sent,        \* history: sent[s]: the events put into the channel
  unsent,      \* history: unsent[s]: the events it had no room for
  since,       \* history: since[s]: what had been emitted when s subscribed
  unheard,     \* history: runs a notification of which was lost
  evicted      \* history: runs that have been evicted from lastSeq

tableVars == <<emitted, rows, unannounced>>
listenVars == <<listener, lastSeq, lastSeqOrder, evicted>>
subVars == <<subscribers, subCount, channel, since>>
notifyVars == <<tableVars, notices, listenVars, subVars, sent, unsent, unheard>>

Listening == [at |-> "wait", run |-> "none", events |-> <<>>, targets |-> <<>>, next |-> 1]
NoChannel == [run |-> "none", state |-> "new", held |-> 0]

NotifyInit ==
  /\ emitted = [r \in LogRuns |-> 0] /\ rows = [r \in LogRuns |-> {}]
  /\ unannounced = {} /\ notices = <<>> /\ unheard = {}
  /\ listener = Listening /\ lastSeq = <<>> /\ lastSeqOrder = <<>> /\ evicted = {}
  /\ subscribers = [r \in LogRuns |-> <<>>] /\ subCount = 0
  /\ channel = [s \in Subscriptions |-> NoChannel]
  /\ sent = [s \in Subscriptions |-> <<>>] /\ unsent = [s \in Subscriptions |-> {}]
  /\ since = [s \in Subscriptions |-> 0]

-----------------------------------------------------------------------------
\* Append: the INSERT, which may fail and then leaves a gap in the numbers.
AppendRow(r) ==
  /\ r \notin unannounced
  /\ emitted[r] < MaxEmitted[r]
  /\ emitted' = [emitted EXCEPT ![r] = @ + 1]
  /\ \/ /\ rows' = [rows EXCEPT ![r] = @ \cup {emitted[r] + 1}]
        /\ unannounced' = unannounced \cup {r}
     \/ UNCHANGED <<rows, unannounced>>
  /\ UNCHANGED <<notices, listenVars, subVars, sent, unsent, unheard>>

\* Append: pg_notify, whose failure is logged only; or the process that appends
\* stops between the two statements.
AppendNotify(r) ==
  /\ r \in unannounced /\ unannounced' = unannounced \ {r}
  /\ \/ notices' = Append(notices, r) /\ UNCHANGED unheard
     \/ unheard' = unheard \cup {r} /\ UNCHANGED notices
  /\ UNCHANGED <<emitted, rows, listenVars, subVars, sent, unsent>>

\* The connection breaks: what was under way is lost, and the nil that follows the
\* reconnection is skipped.
Reconnect ==
  /\ notices # <<>> /\ notices' = <<>>
  /\ unheard' = unheard \cup Range(notices)
  /\ UNCHANGED <<tableVars, listenVars, subVars, sent, unsent>>

-----------------------------------------------------------------------------
Numbered(r) == r \in DOMAIN lastSeq
AfterSeq(r) == IF Numbered(r) THEN lastSeq[r] ELSE 0

QueryFromSequence(r, after) == SetToSortSeq({n \in rows[r] : n > after}, <)

\* lastSeqOrder before a new run is added: the oldest go when it is full.
Room(order) ==
  IF Len(order) >= MaxSubscriptions
  THEN SubSeq(order, Len(order) - MaxSubscriptions + 2, Len(order)) ELSE order

\* StartListener on a notification, up to fanOut; a query that fails or finds nothing
\* new ends there.  (When its context is cancelled it takes no further step.)
OnNotice ==
  /\ listener.at = "wait" /\ notices # <<>>
  /\ notices' = Tail(notices)
  /\ LET r == Head(notices)
         events == QueryFromSequence(r, AfterSeq(r))
         order == IF Numbered(r) THEN lastSeqOrder ELSE Append(Room(lastSeqOrder), r)
     IN \/ /\ events # <<>>
           /\ lastSeqOrder' = order
           /\ lastSeq' = [x \in Range(order) |-> IF x = r THEN Last(events) ELSE lastSeq[x]]
           /\ evicted' = evicted \cup (DOMAIN lastSeq \ Range(order))
           /\ listener' = [Listening EXCEPT !.at = "copy", !.run = r, !.events = events]
           /\ UNCHANGED unheard
        \/ /\ events = <<>>
           /\ UNCHANGED <<listenVars, unheard>>
        \/ /\ unheard' = unheard \cup {r}
           /\ UNCHANGED listenVars
  /\ UNCHANGED <<tableVars, subVars, sent, unsent>>

\* fanOut copies the list of channels under the lock and sends without it.
CopySubscribers ==
  /\ listener.at = "copy"
  /\ listener' =
       LET subs == subscribers[listener.run] IN
       IF subs = <<>> THEN Listening ELSE [listener EXCEPT !.at = "send", !.targets = subs]
  /\ UNCHANGED <<tableVars, notices, lastSeq, lastSeqOrder, evicted, subVars, sent, unsent,
                 unheard>>

Target == Head(listener.targets)

\* The next event of this target, then the next target.
Advanced ==
  IF listener.next < Len(listener.events) THEN [listener EXCEPT !.next = @ + 1]
  ELSE IF Len(listener.targets) > 1
  THEN [listener EXCEPT !.targets = Tail(@), !.next = 1] ELSE Listening

\* One non-blocking send of fanOut.
FanOutSend ==
  /\ listener.at = "send" /\ channel[Target].state = "open"
  /\ LET e == listener.events[listener.next]
     IN IF channel[Target].held < SubChanCap
        THEN /\ channel' = [channel EXCEPT ![Target].held = @ + 1]
             /\ sent' = [sent EXCEPT ![Target] = Append(@, e)]
             /\ UNCHANGED unsent
        ELSE /\ unsent' = [unsent EXCEPT ![Target] = @ \cup {e}]
             /\ UNCHANGED <<channel, sent>>
  /\ listener' = Advanced
  /\ UNCHANGED <<tableVars, notices, lastSeq, lastSeqOrder, evicted, subscribers, subCount,
                 since, unheard>>

\* The channel was closed since it was copied: the send panics, which ends the process.
FanOutPanics ==
  /\ listener.at = "send" /\ channel[Target].state = "closed"
  /\ listener' = [Listening EXCEPT !.at = "panicked"]
  /\ UNCHANGED <<tableVars, notices, lastSeq, lastSeqOrder, evicted, subVars, sent, unsent,
                 unheard>>

-----------------------------------------------------------------------------
\* Subscribe; at the cap it returns ErrMaxSubscriptions and changes nothing.
SubscribeToLog(s, r) ==
  /\ channel[s].state = "new" /\ subCount < MaxSubscriptions
  /\ channel' = [channel EXCEPT ![s] = [run |-> r, state |-> "open", held |-> 0]]
  /\ subscribers' = [subscribers EXCEPT ![r] = Append(@, s)]
  /\ subCount' = subCount + 1
  /\ since' = [since EXCEPT ![s] = emitted[r]]
  /\ UNCHANGED <<tableVars, notices, listenVars, sent, unsent, unheard>>

\* The function Subscribe returns; called again, it finds nothing to remove.  What was in
\* the channel is of no more interest, nor its history.
UnsubscribeFromLog(s) ==
  /\ channel[s].state = "open"
  /\ channel' = [channel EXCEPT ![s] = [NoChannel EXCEPT !.state = "closed"]]
  /\ sent' = [sent EXCEPT ![s] = <<>>] /\ unsent' = [unsent EXCEPT ![s] = {}]
  /\ since' = [since EXCEPT ![s] = 0]
  /\ subscribers' = [subscribers EXCEPT ![channel[s].run] = SelectSeq(@, LAMBDA x : x # s)]
  /\ subCount' = subCount - 1
  /\ UNCHANGED <<tableVars, notices, listenVars, unheard>>

\* The subscriber receives.
TakeEvent(s) ==
  /\ channel[s].held > 0
  /\ channel' = [channel EXCEPT ![s].held = @ - 1]
  /\ UNCHANGED <<tableVars, notices, listenVars, subscribers, subCount, since, sent, unsent,
                 unheard>>

NotifyNext ==
  /\ listener.at # "panicked"
  /\ \/ \E r \in LogRuns : AppendRow(r) \/ AppendNotify(r)
     \/ Reconnect \/ OnNotice \/ CopySubscribers \/ FanOutSend \/ FanOutPanics
     \/ \E s \in Subscriptions :
          UnsubscribeFromLog(s) \/ TakeEvent(s) \/ \E r \in Followed : SubscribeToLog(s, r)

-----------------------------------------------------------------------------
\* Type invariant: the two caps of maxSubscriptions, the room in the channels, and the
\* memory of the listener in step with the order it evicts by.
NotifyTypeOK ==
  /\ listener.at \in {"wait", "copy", "send", "panicked"}
  /\ subCount <= MaxSubscriptions /\ \A s \in Subscriptions : channel[s].held <= SubChanCap
  /\ Len(lastSeqOrder) <= MaxSubscriptions
  /\ Range(lastSeqOrder) = DOMAIN lastSeq /\ IsInjective(lastSeqOrder)

\* A subscriber sees the events of its run in order and once each, as long as the listener
\* has not had to forget the run; it misses none between two it was offered but those its
\* channel had no room for, because a lost notification is made good by the next one; and
\* with no notification lost, it has been offered every event inserted since it
\* subscribed by the time the listener has nothing left to do (Append, StartListener and
\* fanOut against Subscribe and its unsubscribe).
SubscribersAreServed ==
  \A s \in Subscriptions :
    LET r == channel[s].run
        Offered == Range(sent[s]) \cup unsent[s]
    IN channel[s].state = "open" =>
         /\ r \notin evicted =>
              \A i, j \in DOMAIN sent[s] : i < j => sent[s][i] < sent[s][j]
         /\ \A n \in rows[r] : since[s] < n /\ (\E m \in Offered : n < m) => n \in Offered
         /\ (/\ r \notin unheard \cup unannounced /\ ~Contains(notices, r)
             /\ listener.at = "wait")
              => \A n \in rows[r] : since[s] < n => n \in Offered

\* The channels that are registered are the open ones, each under its own run, and
\* subCount counts them, however subscriptions and the listener interleave.
SubscriptionsAddUp ==
  /\ \A r \in LogRuns :
       /\ IsInjective(subscribers[r])
       /\ Range(subscribers[r]) =
            {s \in Subscriptions : channel[s].state = "open" /\ channel[s].run = r}
  /\ subCount = Cardinality({s \in Subscriptions : channel[s].state = "open"})
=============================================================================
