---------------------------- MODULE Conversation ----------------------------
(***************************************************************************)
(* The conversation memory of one agent: the agent loop loads the recent   *)
(* messages when a run starts (buildPrompt) and saves the messages of the  *)
(* run when it completes (saveConversation), in the file store, which      *)
(* rewrites its file under a lock, or in Postgres, where a transaction     *)
(* inserts the messages one by one. Runs of the agent overlap.             *)
(***************************************************************************)
EXTENDS Integers, Sequences, FiniteSets, SequencesExt

CONSTANTS
    ConvRuns,      \* runs of the agent
    MaxMessages,   \* memMaxMessages
    MaxMemTokens,  \* memMaxTokens
    Cost           \* EstimateTokens of each kind of message

ASSUME ConversationConstants == MaxMessages \in Nat /\ MaxMemTokens \in Nat

VARIABLES
    convBackend,  \* "file" or "postgres"
    saved,        \* set of rows: [at, id, by, msg]; at is created_at
    nextRow,      \* the serial of the table (the position in the file)
    now,          \* a clock for transaction starts
    conv          \* the runs: messages, and the rows of the open transaction

convVars == <<convBackend, saved, nextRow, now, conv>>

Msg(r, kind) == [run |-> r, kind |-> kind]

ConvInit ==
    /\ convBackend \in {"file", "postgres"}
    /\ saved = {} /\ nextRow = 1 /\ now = 0
    /\ conv = [r \in ConvRuns |-> [pc |-> "new", messages |-> <<>>, rows |-> {}, at |-> 0]]

-----------------------------------------------------------------------------
\* The table in the order of GetRecent, oldest first: created_at, then id.
EarlierById(x, y) == x.id < y.id
Earlier(x, y) == x.at < y.at \/ (x.at = y.at /\ x.id < y.id)

InOrder ==
    [i \in 1 .. Cardinality(saved) |->
        CHOOSE x \in saved : Cardinality({y \in saved : Earlier(y, x)}) = i - 1]

TokenCount(msgs) == FoldLeft(LAMBDA n, m : n + Cost[m.kind], 0, msgs)

\* trimByTokens: drops the oldest message while the total is too large.
Trimmed(msgs) ==
    LET drop[k \in 0 .. Len(msgs)] ==
            IF TokenCount(SubSeq(msgs, k + 1, Len(msgs))) <= MaxMemTokens THEN k ELSE drop[k + 1]
    IN IF MaxMemTokens = 0 THEN msgs ELSE SubSeq(msgs, drop[0] + 1, Len(msgs))

\* GetRecent: the last MaxMessages, then trimmed.
GetRecent ==
    LET all == [i \in 1 .. Cardinality(saved) |-> InOrder[i].msg]
        last == IF MaxMessages > 0 /\ Len(all) > MaxMessages
                THEN SubSeq(all, Len(all) - MaxMessages + 1, Len(all)) ELSE all
    IN Trimmed(last)

\* The run starts: buildPrompt puts the system prompt before the history, the input after
\* it. A history that cannot be loaded counts as empty.
BuildPrompt(r) ==
    /\ conv[r].pc = "new"
    /\ \E history \in {GetRecent, <<>>} :
          conv' = [conv EXCEPT ![r].pc = "loop",
                               ![r].messages = <<Msg(r, "system")>> \o history \o <<Msg(r, "user")>>]
    /\ UNCHANGED <<convBackend, saved, nextRow, now>>

\* A model response with a tool call, and the tool's result.
ToolStep(r) ==
    /\ conv[r].pc = "loop" /\ Last(conv[r].messages).kind = "user"
    /\ conv' = [conv EXCEPT ![r].messages = @ \o <<Msg(r, "call"), Msg(r, "tool")>>]
    /\ UNCHANGED <<convBackend, saved, nextRow, now>>

\* The final response: the run is completed with its output, and its messages are saved;
\* the message of the final response is not among them.
SaveConversation(r) ==
    /\ conv[r].pc = "loop" /\ now' = now + 1
    /\ IF convBackend = "file"
       THEN /\ saved' = saved \cup {[at |-> now, id |-> nextRow + i - 1, by |-> r,
                                     msg |-> conv[r].messages[i]] : i \in DOMAIN conv[r].messages}
            /\ nextRow' = nextRow + Len(conv[r].messages)
            /\ conv' = [conv EXCEPT ![r].pc = "saved"]
       ELSE /\ conv' = [conv EXCEPT ![r].pc = "insert", ![r].at = now]
            /\ UNCHANGED <<saved, nextRow>>
    /\ UNCHANGED convBackend

\* One INSERT of the transaction; serials are drawn although others do not see the row yet.
InsertMessage(r) ==
    /\ conv[r].pc = "insert"
    /\ LET i == Cardinality(conv[r].rows) + 1
       IN /\ i <= Len(conv[r].messages)
          /\ conv' = [conv EXCEPT ![r].rows = @ \cup
                        {[at |-> conv[r].at, id |-> nextRow, by |-> r, msg |-> conv[r].messages[i]]}]
    /\ nextRow' = nextRow + 1
    /\ UNCHANGED <<convBackend, saved, now>>

Commit(r) ==
    /\ conv[r].pc = "insert" /\ Cardinality(conv[r].rows) = Len(conv[r].messages)
    /\ saved' = saved \cup conv[r].rows
    /\ conv' = [conv EXCEPT ![r].pc = "saved", ![r].rows = {}]
    /\ UNCHANGED <<convBackend, nextRow, now>>

\* The run fails, or its messages cannot be saved, which is only logged.
NotSaved(r) ==
    /\ conv[r].pc \in {"loop", "insert"} /\ conv' = [conv EXCEPT ![r].pc = "lost"]
    /\ UNCHANGED <<convBackend, saved, nextRow, now>>

\* handleMemoryClear.
ClearMemory ==
    /\ saved # {} /\ saved' = {} /\ conv' = [r \in ConvRuns |->
          IF conv[r].pc = "saved" THEN [conv[r] EXCEPT !.pc = "cleared"] ELSE conv[r]]
    /\ UNCHANGED <<convBackend, nextRow, now>>

ConvNext ==
    \/ \E r \in ConvRuns :
          \/ BuildPrompt(r) \/ ToolStep(r) \/ SaveConversation(r)
          \/ InsertMessage(r) \/ Commit(r) \/ NotSaved(r)
    \/ ClearMemory

-----------------------------------------------------------------------------
\* Type invariant of the memory: row ids are unique.
ConvTypeOK ==
    /\ \A x, y \in saved : x.id = y.id => x = y
    /\ \A x \in saved : x.id < nextRow /\ x.at < now

\* The recent history is read in whole conversations, each in its own order: the messages
\* of one save are never interleaved with another's, although two transactions of
\* PgMemoryStore.Append draw their row ids alternately.
ConversationsStayWhole ==
    \A i, j, k \in 1 .. Cardinality(saved) :
        i < j /\ j < k /\ InOrder[i].by = InOrder[k].by =>
            InOrder[j].by = InOrder[i].by /\ InOrder[i].id < InOrder[j].id

\* A run's history is the longest stretch of the newest messages within both limits.
HistoryIsNewest ==
    LET all == [i \in 1 .. Cardinality(saved) |-> InOrder[i].msg]
        fits(n) == n <= MaxMessages /\ TokenCount(SubSeq(all, Len(all) - n + 1, Len(all))) <= MaxMemTokens
        n == CHOOSE n \in 0 .. Len(all) : fits(n) /\ \A m \in 0 .. Len(all) : fits(m) => m <= n
    IN GetRecent = SubSeq(all, Len(all) - n + 1, Len(all))
=============================================================================
