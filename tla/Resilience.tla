----------------------------- MODULE Resilience -----------------------------
(***************************************************************************)
(* ResilientProvider: concurrent model calls, each a bounded retry loop    *)
(* around one shared circuit breaker. ChatComplete and ChatCompleteStream  *)
(* are the same loop.                                                      *)
(***************************************************************************)
EXTENDS Integers, FiniteSets

CONSTANTS
    Calls,             \* concurrent calls of ChatComplete / ChatCompleteStream
    MaxAttempts,       \* RetryConfig.MaxAttempts
    FailureThreshold,  \* CircuitBreakerConfig.FailureThreshold
    HalfOpenMax        \* CircuitBreakerConfig.HalfOpenMax

ASSUME BreakerConstants ==
    /\ IsFiniteSet(Calls)
    /\ MaxAttempts \in Nat \ {0}
    /\ FailureThreshold \in Nat \ {0} /\ HalfOpenMax \in Nat \ {0}

VARIABLES
    circuit,         \* circuitBreaker.state
    failures,        \* circuitBreaker.failures
    halfOpenActive,  \* circuitBreaker.halfOpenActive
    elapsed,         \* has RecoveryTimeout passed since lastFailure?
    call             \* call[c]: progress of a call through its retry loop

breaker == <<circuit, failures, halfOpenActive, elapsed>>
breakerVars == <<breaker, call>>

BreakerInit ==
    /\ circuit = "closed" /\ failures = 0 /\ halfOpenActive = 0 /\ elapsed = TRUE
    /\ call = [c \in Calls |-> [pc |-> "idle", attempt |-> 0, probe |-> FALSE, result |-> "none"]]

-----------------------------------------------------------------------------
(* The breaker: each of its methods is one critical section *)

\* allow()
Allowed ==
    \/ circuit = "closed"
    \/ circuit = "open" /\ elapsed
    \/ circuit = "half" /\ halfOpenActive < HalfOpenMax

Allow ==
    /\ Allowed
    /\ IF circuit = "closed" THEN UNCHANGED <<circuit, halfOpenActive>>
       ELSE circuit' = "half" /\ halfOpenActive' = IF circuit = "open" THEN 1 ELSE halfOpenActive + 1
    /\ UNCHANGED <<failures, elapsed>>

RecordSuccessKeepsFailures ==
    /\ circuit' = "closed" /\ halfOpenActive' = 0
    /\ UNCHANGED <<failures, elapsed>>

RecordSuccess ==
    /\ failures' = 0 /\ halfOpenActive' = 0 /\ circuit' = "closed"
    /\ UNCHANGED elapsed

\* A failed probe reopens; otherwise the threshold decides.
RecordFailure ==
    /\ failures' = failures + 1 /\ elapsed' = FALSE
    /\ circuit' = IF circuit = "half" \/ failures' >= FailureThreshold THEN "open" ELSE circuit
    /\ halfOpenActive' = IF circuit = "half" THEN 0 ELSE halfOpenActive

RecoveryTimeout ==
    /\ ~elapsed
    /\ elapsed' = TRUE
    /\ UNCHANGED <<circuit, failures, halfOpenActive, call>>

-----------------------------------------------------------------------------
(* One call *)

CallGoto(c, pc) == call' = [call EXCEPT ![c].pc = pc]
CallReturn(c, result) == call' = [call EXCEPT ![c].pc = "returned", ![c].result = result]

\* The end of an attempt: back off before the next one, or give up with lastErr.
NextAttemptForever(c, err) == CallGoto(c, "waiting")

NextAttempt(c, err) ==
    IF call[c].attempt < MaxAttempts THEN CallGoto(c, "waiting") ELSE CallReturn(c, err)

CallBegin(c) ==
    /\ call[c].pc = "idle"
    /\ call' = [call EXCEPT ![c].pc = "gate", ![c].attempt = 1]
    /\ UNCHANGED breaker

Admit(c) ==
    /\ call[c].pc = "gate" /\ Allow
    /\ call' = [call EXCEPT ![c].pc = "calling", ![c].probe = (circuit # "closed")]

Reject(c) ==
    /\ call[c].pc = "gate" /\ ~Allowed
    /\ NextAttempt(c, "circuitOpen")
    /\ UNCHANGED breaker

Succeed(c) ==
    /\ call[c].pc = "calling" /\ RecordSuccess
    /\ CallReturn(c, "ok")

\* A 4xx other than 429 is returned at once, and not recorded.
FailFatally(c) ==
    /\ call[c].pc = "calling"
    /\ CallReturn(c, "fatal")
    /\ UNCHANGED breaker

FailRetryably(c) ==
    /\ call[c].pc = "calling" /\ RecordFailure
    /\ NextAttempt(c, "error")

BackoffUntilClosed(c) ==
    /\ call[c].pc = "waiting" /\ circuit = "closed"
    /\ call' = [call EXCEPT ![c].pc = "gate", ![c].attempt = @ + 1]
    /\ UNCHANGED breaker

BackoffEnds(c) ==
    /\ call[c].pc = "waiting"
    /\ call' = [call EXCEPT ![c].pc = "gate", ![c].attempt = @ + 1]
    /\ UNCHANGED breaker

CtxDone(c) ==
    /\ call[c].pc = "waiting"
    /\ CallReturn(c, "canceled")
    /\ UNCHANGED breaker

-----------------------------------------------------------------------------
CallStep(c) ==
    \/ Admit(c) \/ Reject(c) \/ Succeed(c) \/ FailFatally(c) \/ FailRetryably(c)
    \/ BackoffEnds(c)

BreakerNext == RecoveryTimeout \/ \E c \in Calls : CallBegin(c) \/ CallStep(c) \/ CtxDone(c)

BreakerSpec == BreakerInit /\ [][BreakerNext]_breakerVars

\* Calls are goroutines, the provider answers or its HTTP client times out, and
\* backoff timers fire. Nothing forces a new call or a cancellation.
BreakerFairness == WF_breakerVars(RecoveryTimeout) /\ \A c \in Calls : WF_breakerVars(CallStep(c))

-----------------------------------------------------------------------------
(* Properties *)

CircuitStates == {"closed", "open", "half"}
CallResults == {"none", "ok", "error", "fatal", "circuitOpen", "canceled"}

CallState == [pc : {"idle", "gate", "calling", "waiting", "returned"},
              attempt : Nat, probe : BOOLEAN, result : CallResults]

\* Type invariant: the breaker's fields and every call's progress.
BreakerTypeOK ==
    /\ circuit \in CircuitStates /\ failures \in Nat /\ halfOpenActive \in Nat /\ elapsed \in BOOLEAN
    /\ call \in [Calls -> CallState]

\* The breaker lets everything through exactly while fewer than FailureThreshold
\* retryable failures have been recorded since the last success, whichever calls
\* recorded them and in whatever state they had been admitted.
ClosedBelowThreshold == circuit = "closed" <=> failures < FailureThreshold

\* Half-open slots are counted only while half-open, at least the probe that
\* opened the window and never more than HalfOpenMax.
SlotsBounded ==
    /\ circuit = "half" => halfOpenActive \in 1..HalfOpenMax
    /\ circuit # "half" => halfOpenActive = 0

\* No call reaches the provider more than MaxAttempts times, and none is still
\* looping after its last attempt was used.
AttemptsBounded == \A c \in Calls : call[c].attempt <= MaxAttempts

Probing == {c \in Calls : call[c].pc = "calling" /\ call[c].probe}
FatalProbes == {c \in Calls : call[c].pc = "returned" /\ call[c].result = "fatal" /\ call[c].probe}

\* A half-open slot in use belongs to a call that is at the provider, whose outcome
\* will close or reopen the circuit, or was left behind by a probe that ended with
\* a non-retryable error; no other path through the loop leaks one.
SlotsHaveProbes == circuit = "half" => halfOpenActive <= Cardinality(Probing \cup FatalProbes)

\* The breaker opens at its threshold and not before, and its half-open slots are accounted
\* for, whichever calls report in whatever order (circuitBreaker.allow, recordSuccess and recordFailure).
BreakerIsSound == ClosedBelowThreshold /\ SlotsHaveProbes

\* Every call returns, whatever the breaker decides meanwhile.
CallsReturn == \A c \in Calls : call[c].pc = "gate" ~> call[c].pc = "returned"

\* Half-open is transient: the probes in flight decide, unless one of them ended
\* with a non-retryable error.
HalfOpenResolves == circuit = "half" ~> (circuit # "half" \/ FatalProbes # {})

\* Calls and the breaker make progress: every call returns, half-open is left.
CallsProgress == CallsReturn /\ HalfOpenResolves

\* Documented and not so: a probe that ends with a non-retryable error keeps its
\* slot, so requests are rejected with no concurrent probe at all.
RejectedOnlyByProbes ==
    circuit = "half" /\ halfOpenActive >= HalfOpenMax => Probing # {}
=============================================================================
