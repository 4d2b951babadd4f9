----------------------------- MODULE MCServices -----------------------------
(***************************************************************************)
(* For TLC: the services and tools around the agent loop.  They share no   *)
(* state but the agents and tenants they serve, and focus, chosen by Init, *)
(* says which of them moves.                                               *)
(***************************************************************************)
EXTENDS Governance, ChatPipeline, ModelStream, ModelUsage, Access, TenantData,
        Conversation, AgentStore, Sandbox, WebFetch, MathEval, Codegen, Elevation, TLC

CONSTANTS ag1, ag2, u1, u2, t1, w1, w2, w3, k1, k2, k3

\* An agent cleared for everything, and one that only reaches tools through
\* invoke_tool.
MCTier == ag1 :> 2 @@ ag2 :> 1
MCAllowed == ag1 :> {"look", "act"} @@ ag2 :> {"invoke_tool"}
MCDenied == ag1 :> {} @@ ag2 :> {"act"}
MCHourLimit == "observe" :> 2 @@ "action" :> 1

\* Intents that go to the model, with or without a prompt, and one to the agent.
IntentDef(prompt, kb, thinking, destination) ==
  [prompt |-> prompt, kb |-> kb, thinking |-> thinking, destination |-> destination]
MCIntentDefs ==
  "general" :> IntentDef(FALSE, TRUE, "unset", "model")
    @@ "reasoning" :> IntentDef(TRUE, TRUE, "on", "model")
    @@ "action" :> IntentDef(FALSE, FALSE, "unset", "agent")
Setup(composer, router, anthropic) ==
  [composer |-> composer, router |-> router, anthropic |-> anthropic]
MCSetups ==
  {Setup(TRUE, TRUE, FALSE), Setup(FALSE, TRUE, TRUE), Setup(TRUE, FALSE, FALSE),
   Setup(TRUE, TRUE, TRUE)}

\* A tenant with a denied model and both limits, one with neither.
MCPolicy ==
  u1 :> [denied |-> {"m2"}, allowed |-> {}, hourly |-> 1, daily |-> 3]
    @@ u2 :> [denied |-> {}, allowed |-> {"m1"}, hourly |-> 0, daily |-> 0]

\* Two runs and an event of one tenant.
MCTableOf == w1 :> "runs" @@ w2 :> "runs" @@ w3 :> "event_log"
MCOwnerOf == w1 :> t1 @@ w2 :> t1 @@ w3 :> t1
MCRetention == "runs" :> 1 @@ "event_log" :> 0
MCTables == <<"runs", "event_log">>

MCCost == [system |-> 2, user |-> 1, call |-> 1, tool |-> 2]

MCTtl == k1 :> 0 @@ k2 :> 1 @@ k3 :> 1

\* Both streams, an unknown one, and an empty frame.
MCFrames ==
  {[type |-> 1, payload |-> <<1, 2>>], [type |-> 2, payload |-> <<3>>],
   [type |-> 0, payload |-> <<2, 1>>], [type |-> 1, payload |-> <<>>]}

MCHops == [k \in Clients |-> IF k = "http_fetch" THEN 1 ELSE 2]

MCOpenings ==
  {<<>>, <<"g", "(">>, <<"2", "/", "2">>, <<"-", "(", "2">>, <<"2", "-", "2">>}

\* A text in which a search is found twice, once or not at all, and one it may turn into.
MCContents == {<<"a", "b", "a">>, <<"b">>}
MCSearches == {<<"a">>, <<"b", "a">>, <<>>}
MCTexts == {<<"b", "b">>}

\* The parts that have two interchangeable actors share their names, since one part moves
\* at a time.
Symmetry == {p @@ q : p \in Permutations(Principals), q \in Permutations(Callers)}

VARIABLE focus

Parts == {"governance", "mcp_chat", "http_chat", "stream", "usage", "access", "tenant",
          "export", "conversation", "kv", "memory", "sandbox", "fetch", "math", "codegen",
          "elevation"}

Init ==
  /\ focus \in Parts
  /\ GovInit /\ ChatInit /\ StreamInit /\ UsageInit /\ AccessInit
  /\ DataInit /\ ExportInit /\ ConvInit /\ KvInit /\ MemInit
  /\ SandboxInit /\ FetchInit /\ MathInit /\ CodegenInit /\ ElevationInit
  \* What is chosen for the parts that do not move is of no account.
  /\ focus \notin {"mcp_chat", "http_chat"} => setup = Setup(TRUE, TRUE, FALSE)
  /\ focus # "stream" => provider = "openai"
  /\ focus # "conversation" => convBackend = "file"
  /\ focus # "kv" => kvBackend = "file"
  /\ focus # "math" => expr = <<>>
  /\ focus # "codegen" => Range(disk) = {Missing}

\* One conjunct per part: it moves, or it stays.
Next ==
  /\ UNCHANGED focus
  /\ IF focus = "governance" THEN GovNext ELSE UNCHANGED govVars
  /\ CASE focus = "mcp_chat" -> McpNext
       [] focus = "http_chat" -> HttpNext
       [] OTHER -> UNCHANGED chatVars
  /\ IF focus = "stream" THEN StreamNext ELSE UNCHANGED streamVars
  /\ IF focus = "usage" THEN UsageNext ELSE UNCHANGED usageVars
  /\ IF focus = "access" THEN AccessNext ELSE UNCHANGED accessVars
  /\ IF focus = "tenant" THEN DataNext ELSE UNCHANGED dataVars
  /\ IF focus = "export" THEN ExportNext ELSE UNCHANGED exportVars
  /\ IF focus = "conversation" THEN ConvNext ELSE UNCHANGED convVars
  /\ IF focus = "kv" THEN KvNext ELSE UNCHANGED kvVars
  /\ IF focus = "memory" THEN MemNext ELSE UNCHANGED memVars
  /\ IF focus = "sandbox" THEN SandboxNext ELSE UNCHANGED sandboxVars
  /\ IF focus = "fetch" THEN FetchNext ELSE UNCHANGED fetchVars
  /\ IF focus = "math" THEN MathNext ELSE UNCHANGED mathVars
  /\ IF focus = "codegen" THEN CodegenNext ELSE UNCHANGED codegenVars
  /\ IF focus = "elevation" THEN ElevationNext ELSE UNCHANGED elevationVars

Spec ==
  Init /\ [][Next]_<<focus, govVars, chatVars, streamVars, usageVars, accessVars, dataVars,
                     exportVars, convVars, kvVars, memVars, sandboxVars, fetchVars, mathVars,
                     codegenVars, elevationVars>>

\* The type of the part that moves, with the caps on its queues, buckets and slots.
ServicesInBounds ==
  CASE focus = "governance"               -> GovTypeOK
    [] focus \in {"mcp_chat", "http_chat"} -> ChatTypeOK
    [] focus = "stream"                   -> StreamTypeOK
    [] focus = "usage"                    -> UsageTypeOK
    [] focus = "access"                   -> AccessTypeOK
    [] focus \in {"tenant", "export"}     -> TenantTypeOK
    [] focus = "conversation"             -> ConvTypeOK
    [] focus \in {"kv", "memory"}         -> AgentStoreTypeOK
    [] focus = "sandbox"                  -> SandboxTypeOK
    [] focus = "fetch"                    -> FetchTypeOK
    [] focus = "codegen"                  -> CodegenTypeOK
    [] focus = "elevation"                -> ElevationTypeOK
    [] OTHER                              -> TRUE

\* What an agent has stored is what it reads, in whole conversations and within
\* its limits: the conversation memory, the key-value store and the memory of
\* the MCP tools (GetRecent, KVStore.Set, PostgresAgentMemoryStore.Store).
AgentDataIsSound ==
  /\ ConversationsStayWhole /\ HistoryIsNewest
  /\ KeyLimitHolds /\ QuotaHolds /\ ReadsAgree

\* Who may do what can be accounted for: requests that were let through, the
\* answers about elevation requests, and the audit list (RBACMiddleware,
\* GetElevationStatus, InMemoryAuditStore.Read).
AuthorityIsAccountedFor == AccessIsJustified /\ AnswersAreOfTheRequest /\ AuditIsNewest

\* What a tool computes is what a plain definition of its task gives: the value
\* of an expression, the files with the edits made (evalExpr,
\* extractSearchReplaceBlocks).
ToolsComputeRightly == EvaluatesTheGrammar /\ EditsAreWhole

\* Nothing is taken back or removed by the wrong step: a revoked key stays
\* revoked, a row leaves only by its tenant's deletion or past its retention.
RemovalsAreRight == RevocationIsFinal /\ RowsLeaveRightly
=============================================================================
