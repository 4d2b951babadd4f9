---------------------------- MODULE ChatPipeline ----------------------------
(***************************************************************************)
(* A chat request on its way to the model, by the MCP tool chat_completion *)
(* (mcp/tools/chat.go) or by POST /v1/chat/completions                     *)
(* (agentorchestrator/openai_compat.go): validation and gates, the slot of *)
(* the HTTP path, the intent classifier, the composer that puts a prompt   *)
(* and knowledge-base context before the caller's messages, the thinking   *)
(* override that operators change meanwhile, and the call itself.          *)
(***************************************************************************)
EXTENDS Integers, Sequences, FiniteSets, SequencesExt

CONSTANTS
    Chats,      \* requests
    McpChats,   \* those of them that come by MCP; they share only the override
    ChatSlots,  \* capacity of Server.chatConcurrency
    Intents,    \* what the classifier can answer; "general" is its fallback
    IntentDefs, \* intent-router.yml: [prompt, kb: BOOLEAN, thinking, destination]
    DefaultThinking,
    Setups      \* configurations: composer, router, anthropic, each present or not

ASSUME ChatConstants == ChatSlots \in Nat \ {0} /\ "general" \in Intents

VARIABLES
    setup,     \* the configuration in use
    slots,     \* len(Server.chatConcurrency)
    override,  \* chatToolsState.thinkingOverride: "unset", "on" or "off"
    chat,      \* the requests
    during     \* history: the overrides in force since a request began

chatVars == <<setup, slots, override, chat, during>>

Message(role, id, image) == [role |-> role, id |-> id, image |-> image]
SystemPrompt == Message("system", "prompt", FALSE)
KBContext == Message("system", "kb", FALSE)

\* Conversations a caller sends: plain, with a system message of its own, with an image
\* part, and one in which no user message has text.
Conversations ==
    {<<Message("user", "u1", FALSE)>>,
     <<Message("system", "s1", FALSE), Message("user", "u1", FALSE)>>,
     <<Message("user", "u1", FALSE), Message("user", "u2", TRUE)>>,
     <<Message("assistant", "a1", FALSE)>>}

NoChat == [pc |-> "idle"]

ChatInit ==
    /\ setup \in Setups
    /\ slots = 0 /\ override = "unset"
    /\ chat = [c \in Chats |-> NoChat]
    /\ during = [c \in Chats |-> {}]

-----------------------------------------------------------------------------
HasImage(msgs) == \E i \in DOMAIN msgs : msgs[i].image
HasUserText(msgs) == \E i \in DOMAIN msgs : msgs[i].role = "user"
AsText(msgs) == [i \in DOMAIN msgs |-> [msgs[i] EXCEPT !.image = FALSE]]

\* Classify: an error, a timeout or a disabled router all mean the general intent.
Classified == IF setup.router THEN Intents ELSE {"general"}

ResolvedIntent(intent) ==
    LET def == IntentDefs[intent] IN
    [def EXCEPT !.thinking = IF @ = "unset" THEN DefaultThinking ELSE @]

\* The system messages Compose puts first; found says whether the knowledge base, when it
\* is asked, answered with a result.
Prelude(def, msgs, found) ==
    (IF def.prompt THEN <<SystemPrompt>> ELSE <<>>)
    \o (IF def.kb /\ found /\ HasUserText(msgs) THEN <<KBContext>> ELSE <<>>)

Compose(intent, msgs, found) ==
    LET def == ResolvedIntent(intent) IN
    [agent |-> def.destination = "agent", thinking |-> def.thinking,
     msgs |-> Prelude(def, msgs, found) \o msgs]

Legacy(intent) == IF intent = "reasoning" THEN "on" ELSE "off"

Overridden(thinking) == IF override = "unset" THEN thinking ELSE override

RealignedAfterSystem(composed, msgs) ==
    LET n == Cardinality({i \in DOMAIN composed : composed[i].role = "system"}) IN
    [i \in DOMAIN composed |-> IF i <= n \/ i - n > Len(msgs) THEN composed[i] ELSE msgs[i - n]]

\* The composed messages with the caller's own content, image parts included, put back
\* over the flattened text: what the composer prepended is the difference in length.
Realigned(composed, msgs) ==
    LET n == Len(composed) - Len(msgs) IN
    [i \in DOMAIN composed |-> IF i <= n THEN composed[i] ELSE msgs[i - n]]

\* buildRequest of the Anthropic provider: one system text, the last there is, and the
\* other messages in order.
AnthropicRequest(msgs) ==
    LET IsSystem(m) == m.role = "system"
        IsOther(m) == m.role # "system" IN
    (IF SelectSeq(msgs, IsSystem) = <<>> THEN <<>> ELSE <<Last(SelectSeq(msgs, IsSystem))>>)
    \o SelectSeq(msgs, IsOther)

\* What goes to the server of the provider.
Wire(via, msgs) ==
    IF via = "http" /\ setup.anthropic THEN AnthropicRequest(msgs) ELSE msgs

Watch(c) == during' = [during EXCEPT ![c] = {override}]
Send(c, msgs, thinking) ==
    /\ chat' = [chat EXCEPT ![c] = [@ EXCEPT !.pc = "sent", !.intent = "general",
                           !.msgs = Wire(chat[c].via, msgs), !.thinking = thinking]]
    /\ UNCHANGED during
Finish(c) ==
    chat' = [chat EXCEPT ![c] = NoChat] /\ during' = [during EXCEPT ![c] = {}]
Step(c, pc, intent, thinking) ==
    /\ chat' = [chat EXCEPT ![c] = [@ EXCEPT !.pc = pc, !.intent = intent,
                                             !.thinking = thinking]]
    /\ UNCHANGED during

New(via, conv, pc) ==
    [pc |-> pc, via |-> via, conv |-> conv, intent |-> "general",
     msgs |-> <<>>, thinking |-> "unset"]

\* chatCompletionHandler up to the classifier. A request refused for its content, for the
\* caller's clearance or for want of a model changes nothing.
McpReceive(c) ==
    /\ chat[c].pc = "idle"
    /\ \E conv \in Conversations :
          chat' = [chat EXCEPT ![c] = New("mcp", conv, "classify")]
    /\ Watch(c)
    /\ UNCHANGED <<setup, slots, override>>

\* The classifier, bypassed for images, and the first read of the override, which only
\* the path without a composer uses.
McpClassify(c) ==
    /\ chat[c].pc = "classify" /\ chat[c].via = "mcp"
    /\ \E intent \in IF HasImage(chat[c].conv) THEN {"general"} ELSE Classified :
          Step(c, "compose", intent,
               IF setup.composer THEN "unset" ELSE Overridden(Legacy(intent)))
    /\ UNCHANGED <<setup, slots, override>>

McpCompose(c) ==
    /\ chat[c].pc = "compose"
    /\ IF ~setup.composer THEN Send(c, chat[c].conv, chat[c].thinking)
       ELSE \E found \in BOOLEAN :
               LET made == Compose(chat[c].intent, AsText(chat[c].conv), found) IN
               IF made.agent THEN Finish(c)
               ELSE /\ chat' = [chat EXCEPT ![c].pc = "override", ![c].thinking = made.thinking,
                                         ![c].msgs = made.msgs]
                    /\ UNCHANGED during
    /\ UNCHANGED <<setup, slots, override>>

\* The second read of the override, then the request body.
McpSend(c) ==
    /\ chat[c].pc = "override"
    /\ Send(c, Realigned(chat[c].msgs, chat[c].conv), Overridden(chat[c].thinking))
    /\ UNCHANGED <<setup, slots, override>>

\* handleChatCompletions: a slot or an immediate 429.
HttpReceive(c) ==
    /\ chat[c].pc = "idle" /\ slots < ChatSlots
    /\ slots' = slots + 1
    /\ \E conv \in Conversations : chat' = [chat EXCEPT ![c] = New("http", conv, "gates")]
    /\ Watch(c)
    /\ UNCHANGED <<setup, override>>

HttpReply(c) == slots' = slots - 1 /\ Finish(c)

\* Token budget, body, content, provider and scope: refused, or on to the classifier.
HttpGates(c) ==
    /\ chat[c].pc = "gates"
    /\ \/ HttpReply(c)
       \/ /\ ~(HasImage(chat[c].conv) /\ setup.anthropic)
          /\ chat' = [chat EXCEPT ![c].pc = "classify"] /\ UNCHANGED <<slots, during>>
    /\ UNCHANGED <<setup, override>>

\* Classify and Compose: images and requests without user text skip both.
HttpRoute(c) ==
    /\ chat[c].pc = "classify" /\ chat[c].via = "http"
    /\ IF HasImage(chat[c].conv) \/ ~setup.router \/ ~HasUserText(chat[c].conv)
       THEN Send(c, chat[c].conv, "unset") /\ UNCHANGED slots
       ELSE \E intent \in Intents, found \in BOOLEAN :
               LET made == Compose(intent, chat[c].conv, found) IN
               IF setup.composer /\ made.agent THEN HttpReply(c)
               ELSE /\ UNCHANGED slots
                    /\ IF setup.composer THEN Send(c, made.msgs, made.thinking)
                       ELSE Send(c, chat[c].conv, Legacy(intent))
    /\ UNCHANGED <<setup, override>>

\* The model answers, or fails; either way the handler returns.
Answer(c) ==
    /\ chat[c].pc = "sent"
    /\ IF chat[c].via = "http" THEN HttpReply(c) ELSE Finish(c) /\ UNCHANGED slots
    /\ UNCHANGED <<setup, override>>

SetThinkingMode(mode) ==
    /\ override' = mode
    /\ during' = [c \in Chats |->
                    IF chat[c].pc = "idle" THEN {} ELSE during[c] \cup {mode}]
    /\ UNCHANGED <<setup, slots, chat>>

\* The two ways in share no state, only code.
McpNext ==
    \/ \E c \in McpChats :
          \/ McpReceive(c) \/ McpClassify(c) \/ McpCompose(c) \/ McpSend(c) \/ Answer(c)
    \/ \E mode \in {"unset", "on", "off"} : SetThinkingMode(mode)

HttpNext ==
    \E c \in Chats : HttpReceive(c) \/ HttpGates(c) \/ HttpRoute(c) \/ Answer(c)

-----------------------------------------------------------------------------
\* Type invariant of the requests.
ChatTypeOK ==
    /\ slots \in 0 .. ChatSlots /\ override \in {"unset", "on", "off"}
    /\ \A c \in Chats :
          chat[c].pc \in {"idle", "gates", "classify", "compose", "override", "sent"}

\* Whatever was configured, classified and found, the model is sent the caller's messages
\* unchanged, images included, in order and last; before them only the prompt and then the
\* knowledge-base context (Compose, and the realignment in chatCompletionHandler). To
\* Anthropic at most one of these two goes, and none with a system message of the caller's.
CallerMessagesArrive ==
    \A c \in Chats : chat[c].pc = "sent" =>
        LET n == Len(chat[c].msgs) - Len(chat[c].conv) IN
        /\ n >= 0 /\ SubSeq(chat[c].msgs, n + 1, Len(chat[c].msgs)) = chat[c].conv
        /\ SubSeq(chat[c].msgs, 1, n) \in
              {<<>>, <<SystemPrompt>>, <<KBContext>>, <<SystemPrompt, KBContext>>}

\* An MCP request goes out with a thinking override that was in force at some moment while
\* it was handled: in particular the operator's setting wins over the intent's when it did
\* not change meanwhile (chatToolsState is read twice, under its own lock).
OverrideIsCurrent ==
    \A c \in Chats : chat[c].pc = "sent" /\ chat[c].via = "mcp" =>
        \E mode \in during[c] : mode \in {"unset", chat[c].thinking}

\* A slot of the HTTP path is held exactly by the requests that are being handled there, on
\* every way out of the handler (the deferred receive from chatConcurrency).
SlotsAreHandlers ==
    slots = Cardinality({c \in Chats : chat[c].pc # "idle" /\ chat[c].via = "http"})

\* What a chat request may rely on, by either way in: its messages, the operator's setting
\* and its slot.
ChatsAreFaithful == CallerMessagesArrive /\ OverrideIsCurrent /\ SlotsAreHandlers
=============================================================================
