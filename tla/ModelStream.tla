---------------------------- MODULE ModelStream ----------------------------
(***************************************************************************)
(* A streamed model answer: the server's lines, the goroutine of the       *)
(* provider that turns them into chunks (readSSE, readAnthropicSSE), the   *)
(* bounded channel, and the consumer at its other end, which is the SSE    *)
(* handler of /v1/chat/completions or the agent loop. A line is known by   *)
(* its place in the answer; what it says is one of a few kinds.            *)
(***************************************************************************)
EXTENDS Integers, Sequences, FiniteSets, SequencesExt

CONSTANTS ChanCap,   \* capacity of the chunk channel
          MaxLines   \* bound: lines of an answer

ASSUME StreamConstants == ChanCap \in Nat \ {0} /\ MaxLines \in Nat

VARIABLES
    provider,  \* "openai" or "anthropic"
    lines,     \* the lines read so far
    reader,    \* the goroutine: [pc, chunk]
    toolUses,  \* currentToolUses: the tool calls being put together
    chan,      \* the channel
    ended,     \* history: how the answer ended for the reader
    gone,      \* the context of the request is done
    output,    \* what the consumer passed on or gathered
    result     \* of the consumer: "", "done" or "error"

streamVars ==
    <<provider, lines, reader, toolUses, chan, ended, gone, output, result>>

Kinds == [openai |-> {"text", "tool", "finish", "junk", "marker"},
          anthropic |-> {"text", "start", "json", "tooluse", "finish", "junk", "marker"}]

Chunk(kind, at, calls) == [kind |-> kind, at |-> at, calls |-> calls]
ErrChunk == Chunk("err", 0, <<>>)
Reading == [pc |-> "read", chunk |-> ErrChunk]

StreamInit ==
    /\ provider \in {"openai", "anthropic"}
    /\ lines = <<>> /\ toolUses = <<>> /\ chan = <<>> /\ output = <<>>
    /\ reader = Reading /\ ended = "" /\ gone = FALSE /\ result = ""

-----------------------------------------------------------------------------
Sending(chunk, pc) == reader' = [pc |-> pc, chunk |-> chunk]

\* readSSE: one chunk per data line; a line that does not parse ends the stream.
OpenAILine(kind, at) ==
    /\ CASE kind = "marker" -> Sending(ErrChunk, "close") /\ ended' = "clean"
         [] kind = "junk" -> Sending(ErrChunk, "last") /\ ended' = "broken"
         [] kind = "tool" -> Sending(Chunk("tools", at, <<{at}>>), "send") /\ UNCHANGED ended
         [] OTHER -> Sending(Chunk(kind, at, <<>>), "send") /\ UNCHANGED ended
    /\ UNCHANGED toolUses

\* readAnthropicSSE: tool calls are gathered from several lines and sent with the
\* message_delta that says tool_use; a line that does not parse is skipped.
AnthropicLine(kind, at) ==
    /\ CASE kind = "marker" -> Sending(ErrChunk, "close") /\ ended' = "clean"
         [] kind \in {"junk", "start", "json"} -> UNCHANGED <<reader, ended>>
         [] kind = "tooluse" -> Sending(Chunk("tools", at, toolUses), "send") /\ UNCHANGED ended
         [] OTHER -> Sending(Chunk(kind, at, <<>>), "send") /\ UNCHANGED ended
    /\ toolUses' = CASE kind = "start" -> Append(toolUses, {at})
                     [] kind = "json" /\ toolUses # <<>> ->
                           [toolUses EXCEPT ![Len(toolUses)] = @ \cup {at}]
                     [] kind = "tooluse" -> <<>>
                     [] OTHER -> toolUses

\* scanner.Scan returned a line.
ReadLine(kind) ==
    /\ reader.pc = "read" /\ ~gone /\ Len(lines) < MaxLines
    /\ lines' = Append(lines, kind)
    /\ IF provider = "openai" THEN OpenAILine(kind, Len(lines'))
       ELSE AnthropicLine(kind, Len(lines'))
    /\ UNCHANGED <<provider, chan, gone, output, result>>

\* The answer ends without its marker: the reader closes the channel as if it were whole.
ReadEOF ==
    /\ reader.pc = "read"
    /\ Sending(ErrChunk, "close") /\ ended' = "clean"
    /\ UNCHANGED <<provider, lines, toolUses, chan, gone, output, result>>

ReadErrorIgnored ==
    /\ reader.pc = "read"
    /\ Sending(ErrChunk, "close") /\ ended' = "broken"
    /\ UNCHANGED <<provider, lines, toolUses, chan, gone, output, result>>

\* The connection fails, the client timeout passes or the context is done.
ReadError ==
    /\ reader.pc = "read"
    /\ Sending(ErrChunk, "last") /\ ended' = "broken"
    /\ UNCHANGED <<provider, lines, toolUses, chan, gone, output, result>>

SendChunk ==
    /\ reader.pc \in {"send", "last"} /\ Len(chan) < ChanCap
    /\ chan' = Append(chan, reader.chunk)
    /\ reader' = [reader EXCEPT !.pc = IF @ = "send" THEN "read" ELSE "close"]
    /\ UNCHANGED <<provider, lines, toolUses, ended, gone, output, result>>

CloseChan ==
    /\ reader.pc = "close"
    /\ reader' = [reader EXCEPT !.pc = "closed"]
    /\ UNCHANGED <<provider, lines, toolUses, chan, ended, gone, output, result>>

\* handleChatCompletionsStream and streamModelCall: range over the channel, stop at an
\* error; the end of the channel is the end of the answer. The SSE handler passes
\* each chunk on without its tool calls, the agent loop gathers text and calls.
ReceiveChunk ==
    /\ result = "" /\ chan # <<>>
    /\ chan' = Tail(chan)
    /\ IF Head(chan).kind = "err" THEN result' = "error" /\ UNCHANGED output
       ELSE /\ UNCHANGED result
            /\ output' = Append(output, Head(chan))
    /\ UNCHANGED <<provider, lines, reader, toolUses, ended, gone>>

ReceiveEnd ==
    /\ result = "" /\ chan = <<>> /\ reader.pc = "closed"
    /\ result' = "done"
    /\ UNCHANGED <<provider, lines, reader, toolUses, chan, ended, gone, output>>

\* The client goes away or the run is cancelled.
CancelContext ==
    /\ ~gone /\ gone' = TRUE
    /\ UNCHANGED <<provider, lines, reader, toolUses, chan, ended, output, result>>

StreamNext ==
    \/ \E kind \in Kinds[provider] : ReadLine(kind)
    \/ ReadEOF \/ ReadError \/ SendChunk \/ CloseChan \/ ReceiveChunk \/ ReceiveEnd \/ CancelContext

-----------------------------------------------------------------------------
\* Type invariant of the stream.
StreamTypeOK ==
    /\ lines \in Seq(Kinds[provider]) /\ Len(lines) <= MaxLines /\ Len(chan) <= ChanCap
    /\ reader.pc \in {"read", "send", "last", "close", "closed"}
    /\ ended \in {"", "clean", "broken"} /\ result \in {"", "done", "error"}

\* The lines of an answer that carry something for the consumer, in order.
Carriers == SelectSeq([i \in DOMAIN lines |-> i],
                      LAMBDA i : lines[i] \notin {"start", "json", "junk", "marker"})

\* The tool call begun at line i of an Anthropic answer: its own fragments, up to the next
\* call or to the message_delta that completes it.
CallAt(i) ==
    {i} \cup {j \in i + 1 .. Len(lines) :
                 lines[j] = "json" /\ \A l \in i + 1 .. j : lines[l] \notin {"start", "tooluse"}}

CallsFor(at) ==
    LET from == Max({0} \cup {l \in 1 .. at - 1 : lines[l] = "tooluse"}) IN
    [k \in 1 .. Cardinality({i \in from + 1 .. at : lines[i] = "start"}) |->
        CallAt(SelectSeq([i \in 1 .. at |-> i],
                         LAMBDA i : i > from /\ lines[i] = "start")[k])]

\* What the consumer has is what the server sent, in its order and without a gap, up to
\* some line, and all of it when the consumer says done. A tool call the agent loop gets
\* has all of its own fragments and no other's, and each call comes once.
AnswerIsFaithful ==
    LET at == [i \in DOMAIN output |-> output[i].at] IN
    /\ IsPrefix(at, Carriers)
    /\ result = "done" => at = Carriers
    /\ provider = "anthropic" => \A i \in DOMAIN output :
          output[i].kind = "tools" => output[i].calls = CallsFor(output[i].at)

\* The consumer reports a whole answer, with [DONE] or as the reply of the model, only when
\* the reader met no error; and when the consumer stops, the goroutine has nothing left to
\* send, so it is never left blocked on a channel nobody reads.
EndsAreHonest ==
    /\ result = "done" => ended = "clean"
    /\ result # "" => reader.pc \in {"close", "closed"}

\* A streamed answer arrives whole or is reported as broken, and leaves no goroutine behind.
StreamsAreFaithful == AnswerIsFaithful /\ EndsAreHonest
=============================================================================
