----------------------------- MODULE Governance -----------------------------
(***************************************************************************)
(* A tool call through the MCP server: dispatch (mcp/server.go), clearance *)
(* (mcp/auth.go), then the governance engine (internal/governance), whose  *)
(* kill switch, circuit breaker, rate limiter and loop detector each take  *)
(* their own lock, so that a check and the record it leads to are several  *)
(* steps; then the handler, and the report of its outcome to the breaker.  *)
(* The handler of invoke_tool runs another tool. GovHour ticks of the      *)
(* clock make an hour, GovDay a day.                                       *)
(***************************************************************************)
EXTENDS Integers, FiniteSets, FiniteSetsExt

CONSTANTS
    GovAgents,      \* the agents that call tools
    GovCalls,       \* concurrent requests to the server
    Tier,           \* the clearance of each agent, seeded at startup
    AllowedActions, \* governance.yml: the tools each agent may call
    Suspects,       \* the agents an operator freezes and unfreezes
    DeniedActions,  \* and those it may not, even when they are allowed
    HourLimit,      \* calls of an agent per hour in each category
    DayLimit,       \* calls of an agent per day in all categories
    MaxAttemptsPerTarget, LoopWindow, GovHour, GovDay,
    ConsecutiveFailures,            \* failures in a row that freeze an agent
    MaxRateBuckets, MaxLoopBuckets,
    MaxGovTime, MaxGovCalls         \* bounds: the clock, the requests received

Categories == {"observe", "action"}
Tools == {"look", "act", "invoke_tool"}
CategoryOf(t) == IF t = "look" THEN "observe" ELSE "action"
Targeted(t) == t = "act"  \* its arguments name a target
MinClearance(t) == IF t = "act" THEN 2 ELSE 1

ASSUME GovernanceConstants ==
    /\ GovHour \in Nat \ {0} /\ GovDay \in Nat /\ LoopWindow \in Nat \ {0}
    /\ GovHour <= GovDay /\ LoopWindow <= GovDay
    /\ DayLimit \in Nat \ {0} /\ MaxAttemptsPerTarget \in Nat \ {0}
    /\ HourLimit \in [Categories -> Nat \ {0}] /\ ConsecutiveFailures \in Nat \ {0}

VARIABLES
    initialized,  \* the initialize handshake has happened
    govNow,
    killed,       \* KillSwitch.frozen
    tripped,      \* InMemoryCircuitBreaker.frozen
    failures,     \* InMemoryCircuitBreaker.failures
    buckets,      \* InMemoryRateLimiter.buckets: <<agent, category>> to calls at each time
    attempts,     \* InMemoryLoopDetector.attempts: <<agent, tool>> (of one target) to the same
    toolCall,     \* the requests in progress
    received,     \* requests received
    made,         \* history: the buckets as if nothing were pruned or evicted
    forgotten     \* history: agents that lost a bucket to the cap

govVars == <<initialized, govNow, killed, tripped, failures, buckets, attempts, toolCall,
             received, made, forgotten>>

Times == 0 .. MaxGovTime
Never == [t \in Times |-> 0]
NoToolCall == [pc |-> "idle"]

Sum(count) == MapThenSumSet(LAMBDA t : count[t], Times)
After(count, cutoff) == [t \in Times |-> IF t > cutoff THEN count[t] ELSE 0]
Entry(map, key) == IF key \in DOMAIN map THEN map[key] ELSE Never
With(map, key, count) ==
    [k \in DOMAIN map \cup {key} |-> IF k = key THEN count ELSE map[k]]
Appended(map, key, t) == With(map, key, [Entry(map, key) EXCEPT ![t] = @ + 1])
Without(map, keys) == [k \in DOMAIN map \ keys |-> map[k]]

GovInit ==
    /\ initialized = FALSE /\ govNow = 0
    /\ killed = {} /\ tripped = {} /\ failures = [a \in GovAgents |-> 0]
    /\ buckets = <<>> /\ attempts = <<>>
    /\ toolCall = [c \in GovCalls |-> NoToolCall]
    /\ made = [k \in GovAgents \X Categories |-> Never] /\ forgotten = {}
    /\ received = 0

-----------------------------------------------------------------------------
Authorized(a, t) == Tier[a] >= MinClearance(t)

Segmented(a, t) == t \notin DeniedActions[a] /\ t \in AllowedActions[a]

HandleInitialize ==
    /\ ~initialized /\ initialized' = TRUE
    /\ UNCHANGED <<govNow, killed, tripped, failures, buckets, attempts, toolCall, received,
                   made, forgotten>>

\* handleToolsCall up to the first behavioural check; a call refused on the way, by the
\* handshake, the clearance, the kill switch or segmentation, changes nothing.
Receive(c) ==
    /\ toolCall[c].pc = "idle" /\ initialized
    /\ received < MaxGovCalls /\ received' = received + 1
    /\ \E a \in GovAgents \ killed, t \in Tools :
          /\ Authorized(a, t) /\ Segmented(a, t)
          /\ toolCall' = [toolCall EXCEPT ![c] =
                [pc |-> "breaker", agent |-> a, tool |-> t, targeted |-> Targeted(t),
                 at |-> govNow, barred |-> a \in tripped]]
    /\ UNCHANGED <<initialized, govNow, killed, tripped, failures, buckets, attempts, made,
                   forgotten>>

Goto(c, pc) == toolCall' = [toolCall EXCEPT ![c].pc = pc]
Reply(c) == toolCall' = [toolCall EXCEPT ![c] = NoToolCall]

CheckBreaker(c) ==
    /\ toolCall[c].pc = "breaker"
    /\ IF toolCall[c].agent \in tripped THEN Reply(c) ELSE Goto(c, "rate")
    /\ UNCHANGED <<initialized, govNow, killed, tripped, failures, buckets, attempts, received,
                   made, forgotten>>

Key(c) == <<toolCall[c].agent, CategoryOf(toolCall[c].tool)>>
LoopKey(c) == <<toolCall[c].agent, toolCall[c].tool>>

HourCount(count, now) == Sum(After(count, now - GovHour))
DayCount(map, a, now) ==
    MapThenSumSet(LAMBDA cat : Sum(After(Entry(map, <<a, cat>>), now - GovDay)), Categories)

ReachedLate(count, limit) == count > limit
Reached(count, limit) == count >= limit

\* RateLimiter.Check: prunes the bucket to the last day, then compares.
CheckRate(c) ==
    LET now == toolCall[c].at
        pruned == With(buckets, Key(c), After(Entry(buckets, Key(c)), now - GovDay)) IN
    /\ toolCall[c].pc = "rate"
    /\ buckets' = pruned
    /\ IF \/ Reached(HourCount(pruned[Key(c)], now), HourLimit[Key(c)[2]])
          \/ Reached(DayCount(pruned, toolCall[c].agent, now), DayLimit)
       THEN Reply(c)
       ELSE Goto(c, IF toolCall[c].targeted THEN "loop" ELSE "record")
    /\ UNCHANGED <<initialized, govNow, killed, tripped, failures, attempts, received, made,
                   forgotten>>

CheckLoop(c) ==
    LET alive == After(Entry(attempts, LoopKey(c)), toolCall[c].at - LoopWindow) IN
    /\ toolCall[c].pc = "loop"
    /\ attempts' = With(attempts, LoopKey(c), alive)
    /\ IF Reached(Sum(alive), MaxAttemptsPerTarget) THEN Reply(c) ELSE Goto(c, "record")
    /\ UNCHANGED <<initialized, govNow, killed, tripped, failures, buckets, received,
                   made, forgotten>>

Latest(count) == Max({-1} \cup {t \in Times : count[t] > 0})

\* evictOldestBucketsLocked: a tenth of the buckets, at least one, the longest unused first.
Evictions(map) ==
    {s \in SUBSET DOMAIN map :
        /\ Cardinality(s) = Max({1, Cardinality(DOMAIN map) \div 10})
        /\ \A k \in s, l \in DOMAIN map \ s : Latest(map[k]) <= Latest(map[l])}

RecordAction(c) ==
    LET added == Appended(buckets, Key(c), toolCall[c].at) IN
    /\ toolCall[c].pc = "record"
    /\ made' = [made EXCEPT ![Key(c)][toolCall[c].at] = @ + 1]
    /\ IF Cardinality(DOMAIN added) > MaxRateBuckets
       THEN \E out \in Evictions(added) :
               buckets' = Without(added, out) /\ forgotten' = forgotten \cup {k[1] : k \in out}
       ELSE buckets' = added /\ UNCHANGED forgotten
    /\ Goto(c, IF toolCall[c].targeted THEN "attempt" ELSE "run")
    /\ UNCHANGED <<initialized, govNow, killed, tripped, failures, attempts, received>>

RecordAttempt(c) ==
    LET added == Appended(attempts, LoopKey(c), toolCall[c].at)
        alive == [k \in DOMAIN added |-> After(added[k], toolCall[c].at - GovDay)] IN
    /\ toolCall[c].pc = "attempt"
    /\ attempts' = IF Cardinality(DOMAIN added) > MaxLoopBuckets
                   THEN Without(alive, {k \in DOMAIN alive : alive[k] = Never}) ELSE added
    /\ Goto(c, "run")
    /\ UNCHANGED <<initialized, govNow, killed, tripped, failures, buckets, received,
                   made, forgotten>>

\* The tools whose handlers a call can end in: invoke_tool runs any tool its caller is
\* cleared for, without a second pass through the engine.
HandlersOf(c) ==
    IF toolCall[c].tool = "invoke_tool"
    THEN {t \in Tools : Authorized(toolCall[c].agent, t)} ELSE {toolCall[c].tool}

\* RecordResult after the handler: a failure is counted here, the freeze it may call for is
\* a second step.
Succeed(c) ==
    /\ toolCall[c].pc = "run" /\ HandlersOf(c) # {}
    /\ failures' = [failures EXCEPT ![toolCall[c].agent] = 0]
    /\ Reply(c)
    /\ UNCHANGED <<initialized, govNow, killed, tripped, buckets, attempts, received,
                   made, forgotten>>

Fail(c) ==
    LET count == failures[toolCall[c].agent] + 1 IN
    /\ toolCall[c].pc = "run"
    /\ failures' = [failures EXCEPT ![toolCall[c].agent] = count]
    /\ IF count >= ConsecutiveFailures THEN Goto(c, "freeze") ELSE Reply(c)
    /\ UNCHANGED <<initialized, govNow, killed, tripped, buckets, attempts, received,
                   made, forgotten>>

FreezeFailing(c) ==
    /\ toolCall[c].pc = "freeze"
    /\ tripped' = tripped \cup {toolCall[c].agent} /\ Reply(c)
    /\ UNCHANGED <<initialized, govNow, killed, failures, buckets, attempts, received,
                   made, forgotten>>

KillSwitch(a) ==
    /\ killed' = IF a \in killed THEN killed \ {a} ELSE killed \cup {a}
    /\ UNCHANGED <<initialized, govNow, tripped, failures, buckets, attempts, toolCall, received,
                   made, forgotten>>

GovTick ==
    /\ govNow < MaxGovTime /\ govNow' = govNow + 1
    /\ UNCHANGED <<initialized, killed, tripped, failures, buckets, attempts, toolCall, received,
                   made, forgotten>>

GovNext ==
    \/ HandleInitialize \/ GovTick
    \/ \E a \in Suspects : KillSwitch(a)
    \/ \E c \in GovCalls :
          \/ Receive(c) \/ CheckBreaker(c) \/ CheckRate(c) \/ CheckLoop(c)
          \/ RecordAction(c) \/ RecordAttempt(c)
          \/ Succeed(c) \/ Fail(c) \/ FreezeFailing(c)

-----------------------------------------------------------------------------
Pcs == {"idle", "breaker", "rate", "loop", "record", "attempt", "run", "freeze"}

\* Type invariant of the engine and the calls.
GovTypeOK ==
    /\ govNow \in Times /\ killed \subseteq GovAgents /\ tripped \subseteq GovAgents
    /\ DOMAIN buckets \subseteq GovAgents \X Categories
    /\ Cardinality(DOMAIN buckets) <= MaxRateBuckets + Cardinality(GovCalls)
    /\ \A c \in GovCalls : toolCall[c].pc \in Pcs

\* The hourly and daily limits of an agent hold up to the calls that were checked at the
\* same time: checks and records are separate locks (checkBehavior), so with n concurrent
\* requests a window holds at most limit + n - 1 calls, whichever hour or day it is, unless
\* the cap on the buckets made the limiter forget the agent.
OvershootIsBounded ==
    LET Made(a, cats, now, window) ==
          MapThenSumSet(LAMBDA p : made[<<a, p[1]>>][p[2]],
                        cats \X {t \in Times : now - window < t /\ t <= now})
    IN \A a \in GovAgents \ forgotten, now \in Times :
          /\ \A cat \in Categories :
                Made(a, {cat}, now, GovHour) < HourLimit[cat] + Cardinality(GovCalls)
          /\ Made(a, Categories, now, GovDay) < DayLimit + Cardinality(GovCalls)

\* Once an agent has failed often enough in a row, the circuit breaker has frozen it or the
\* handler that counted the last failure is about to; and a frozen agent stays frozen: no
\* call that began after the freeze gets as far as a handler, whatever succeeds meanwhile.
FreezeIsLasting ==
    /\ \A a \in GovAgents : failures[a] >= ConsecutiveFailures =>
          \/ a \in tripped
          \/ \E c \in GovCalls : toolCall[c].pc = "freeze" /\ toolCall[c].agent = a
    /\ \A c \in GovCalls : toolCall[c].pc \in {"record", "attempt", "run"} => ~toolCall[c].barred

\* What the engine promises of the calls that reach a handler.
ToolCallsAreGoverned == OvershootIsBounded /\ FreezeIsLasting
=============================================================================
