-------------------------- MODULE Controls_proofs ---------------------------
(***************************************************************************)
(* Proofs about what stands between a request and a model: the retry       *)
(* client and its circuit breaker, the quota gate, and the meter of the    *)
(* model service, for every rate, limit, backend and schedule.             *)
(*                                                                         *)
(* The breaker's invariant is inductive together with the calls' types;    *)
(* whose the half-open slots are is proved on top of it.  RateRespected is *)
(* not inductive: it says nothing of the bucket.  Room adds what the       *)
(* bucket owes to the past: whatever grant an interval starts at, the      *)
(* grants since then and the tokens now in the bucket fit into a full      *)
(* bucket and what was earned since.  The meter's invariant adds to what a *)
(* tenant has spent what its calls at the provider may still add.          *)
(***************************************************************************)
EXTENDS Resilience, Quota, ModelUsage, SetFacts, TLAPS

-----------------------------------------------------------------------------
(* The retry client and its breaker *)

\* A call waits for another attempt only while it has one left.
AttemptsLeft ==
    \A c \in Calls : /\ call[c].attempt <= MaxAttempts
                     /\ call[c].pc = "waiting" => call[c].attempt < MaxAttempts

ResilienceInv == BreakerTypeOK /\ ClosedBelowThreshold /\ SlotsBounded /\ AttemptsLeft

\* What a step writes into a call record keeps its type.
LEMMA CallUpdates ==
    ASSUME NEW x \in CallState
    PROVE  /\ \A pc \in {"idle", "gate", "calling", "waiting", "returned"} :
                  [x EXCEPT !.pc = pc] \in CallState
           /\ \A r \in CallResults : [x EXCEPT !.pc = "returned", !.result = r] \in CallState
           /\ [x EXCEPT !.pc = "gate", !.attempt = 1] \in CallState
           /\ [x EXCEPT !.pc = "gate", !.attempt = x.attempt + 1] \in CallState
           /\ \A b \in BOOLEAN : [x EXCEPT !.pc = "calling", !.probe = b] \in CallState
<1>1. x.attempt + 1 \in Nat /\ 1 \in Nat
  BY DEF CallState
<1>2. \A pc \in {"idle", "gate", "calling", "waiting", "returned"} : [x EXCEPT !.pc = pc] \in CallState
  BY DEF CallState
<1>3. \A r \in CallResults : [x EXCEPT !.pc = "returned", !.result = r] \in CallState
  BY Zenon DEF CallState
<1>4. [x EXCEPT !.pc = "gate", !.attempt = 1] \in CallState
  BY Zenon DEF CallState
<1>5. [x EXCEPT !.pc = "gate", !.attempt = x.attempt + 1] \in CallState
  BY <1>1, Zenon DEF CallState
<1>6. \A b \in BOOLEAN : [x EXCEPT !.pc = "calling", !.probe = b] \in CallState
  BY Zenon DEF CallState
<1>7. QED
  BY <1>2, <1>3, <1>4, <1>5, <1>6, Zenon

\* The breaker starts closed with no failure counted.
LEMMA BreakerInitInv == BreakerInit => ResilienceInv
<1> SUFFICES ASSUME BreakerInit PROVE ResilienceInv
  OBVIOUS
<1>1. [pc |-> "idle", attempt |-> 0, probe |-> FALSE, result |-> "none"] \in CallState
  BY DEF CallState, CallResults
<1>2. BreakerTypeOK
  BY <1>1 DEF BreakerInit, BreakerTypeOK, CircuitStates
<1>3. ClosedBelowThreshold /\ SlotsBounded /\ AttemptsLeft
  BY BreakerConstants DEF BreakerInit, ClosedBelowThreshold, SlotsBounded, AttemptsLeft
<1>4. QED
  BY <1>2, <1>3 DEF ResilienceInv

\* The three critical sections keep the breaker consistent.
BreakerInv ==
    /\ circuit \in CircuitStates /\ failures \in Nat /\ halfOpenActive \in Nat
    /\ ClosedBelowThreshold /\ SlotsBounded

\* Allow, RecordSuccess and RecordFailure keep the breaker's part of the invariant.
LEMMA BreakerStep ==
    ASSUME BreakerInv, Allow \/ RecordSuccess \/ RecordFailure \/ UNCHANGED breaker
    PROVE  BreakerInv'
<1> USE BreakerConstants DEF BreakerInv, ClosedBelowThreshold, SlotsBounded, CircuitStates
<1>1. CASE Allow
  BY <1>1 DEF Allow, Allowed
<1>2. CASE RecordSuccess
  BY <1>2 DEF RecordSuccess
<1>3. CASE RecordFailure
  BY <1>3 DEF RecordFailure
<1>4. CASE UNCHANGED breaker
  BY <1>4 DEF breaker
<1>5. QED
  BY <1>1, <1>2, <1>3, <1>4

\* Whatever a call does, its record stays typed and within its attempts.
CallsInv == call \in [Calls -> CallState] /\ AttemptsLeft

\* A step of one call keeps the part about the calls.
LEMMA CallKeepsInv ==
    ASSUME CallsInv, NEW c \in Calls, CallBegin(c) \/ CallStep(c) \/ CtxDone(c)
    PROVE  CallsInv'
<1>1. call[c] \in CallState
  BY DEF CallsInv
<1>2. \/ \E pc \in {"gate", "calling", "waiting"} :
             /\ pc = "waiting" => call[c].attempt < MaxAttempts
             /\ call' = [call EXCEPT ![c].pc = pc]
      \/ \E r \in CallResults : call' = [call EXCEPT ![c].pc = "returned", ![c].result = r]
      \/ call' = [call EXCEPT ![c].pc = "gate", ![c].attempt = 1]
      \/ /\ call[c].pc = "waiting"
         /\ call' = [call EXCEPT ![c].pc = "gate", ![c].attempt = @ + 1]
      \/ \E b \in BOOLEAN : call' = [call EXCEPT ![c].pc = "calling", ![c].probe = b]
  BY DEF CallBegin, CallStep, CtxDone, Admit, Reject, Succeed, FailFatally, FailRetryably,
         BackoffEnds, NextAttempt, CallGoto, CallReturn, CallResults
<1>3. \A d \in Calls : d # c => call'[d] = call[d]
  BY <1>2 DEF CallsInv
<1>4. call' \in [Calls -> CallState]
  <2>1. \/ \E pc \in {"gate", "calling", "waiting"} : call'[c] = [call[c] EXCEPT !.pc = pc]
        \/ \E r \in CallResults : call'[c] = [call[c] EXCEPT !.pc = "returned", !.result = r]
        \/ call'[c] = [call[c] EXCEPT !.pc = "gate", !.attempt = 1]
        \/ call'[c] = [call[c] EXCEPT !.pc = "gate", !.attempt = call[c].attempt + 1]
        \/ \E b \in BOOLEAN : call'[c] = [call[c] EXCEPT !.pc = "calling", !.probe = b]
    BY <1>2, Zenon DEF CallsInv
  <2>2. call'[c] \in CallState
    BY <1>1, <2>1, CallUpdates, ZenonT(40)
  <2>3. call' = [call EXCEPT ![c] = call'[c]]
    BY <1>2 DEF CallsInv
  <2>4. QED
    BY <2>2, <2>3 DEF CallsInv
<1>5. /\ call'[c].attempt <= MaxAttempts
      /\ call'[c].pc = "waiting" => call'[c].attempt < MaxAttempts
  BY <1>1, <1>2, BreakerConstants DEF CallsInv, AttemptsLeft, CallState
<1>6. QED
  BY <1>3, <1>4, <1>5 DEF CallsInv, AttemptsLeft

\* Every step keeps the invariant.
LEMMA BreakerNextInv == ResilienceInv /\ [BreakerNext]_breakerVars => ResilienceInv'
<1> SUFFICES ASSUME ResilienceInv, [BreakerNext]_breakerVars PROVE ResilienceInv'
  OBVIOUS
<1>1. BreakerInv /\ CallsInv
  BY DEF ResilienceInv, BreakerTypeOK, BreakerInv, CallsInv
<1>2. ASSUME NEW c \in Calls, CallBegin(c) \/ CallStep(c) \/ CtxDone(c) PROVE ResilienceInv'
  <2>1. Allow \/ RecordSuccess \/ RecordFailure \/ UNCHANGED breaker
    BY <1>2 DEF CallBegin, CallStep, CtxDone, Admit, Reject, Succeed, FailFatally,
       FailRetryably, BackoffEnds
  <2>2. BreakerInv' /\ CallsInv'
    BY <1>1, <1>2, <2>1, BreakerStep, CallKeepsInv
  <2>3. elapsed' \in BOOLEAN
    BY <2>1, Zenon DEF Allow, RecordSuccess, RecordFailure, breaker, ResilienceInv, BreakerTypeOK
  <2>4. QED
    BY <2>2, <2>3 DEF ResilienceInv, BreakerTypeOK, BreakerInv, CallsInv
<1>3. CASE RecoveryTimeout
  BY <1>3 DEF RecoveryTimeout, ResilienceInv, BreakerTypeOK, ClosedBelowThreshold, SlotsBounded,
     AttemptsLeft
<1>4. CASE UNCHANGED breakerVars
  BY <1>4 DEF breakerVars, breaker, ResilienceInv, BreakerTypeOK, ClosedBelowThreshold,
     SlotsBounded, AttemptsLeft
<1>5. QED
  BY <1>2, <1>3, <1>4 DEF BreakerNext

\* The invariant holds in every reachable state.
LEMMA BreakerInvHolds == BreakerSpec => []ResilienceInv
BY BreakerInitInv, BreakerNextInv, PTL DEF BreakerSpec

\* The circuit is closed exactly while fewer than FailureThreshold failures were
\* recorded since the last success (circuitBreaker.allow and its two recorders).
THEOREM ClosedOnlyBelowThreshold == BreakerSpec => []ClosedBelowThreshold
<1>1. ResilienceInv => ClosedBelowThreshold
  BY DEF ResilienceInv
<1>2. QED
  BY <1>1, BreakerInvHolds, PTL

\* halfOpenActive is within 1..HalfOpenMax while half-open and 0 otherwise.
THEOREM SlotsStayBounded == BreakerSpec => []SlotsBounded
<1>1. ResilienceInv => SlotsBounded
  BY DEF ResilienceInv
<1>2. QED
  BY <1>1, BreakerInvHolds, PTL

\* The retry loop makes at most MaxAttempts attempts.
THEOREM AttemptsStayBounded == BreakerSpec => []AttemptsBounded
<1>1. ResilienceInv => AttemptsBounded
  BY DEF ResilienceInv, AttemptsLeft, AttemptsBounded
<1>2. QED
  BY <1>1, BreakerInvHolds, PTL

-----------------------------------------------------------------------------
(* Slots and probes *)

SlotHolders == Probing \cup FatalProbes

\* The calls that hold a probe slot, or have leaked one, can be counted.
LEMMA SlotHoldersFinite ==
    ASSUME FiniteFacts PROVE IsFiniteSet(SlotHolders) /\ Cardinality(SlotHolders) \in Nat
<1>1. SlotHolders \subseteq Calls
  BY DEF SlotHolders, Probing, FatalProbes
<1>2. QED
  BY <1>1, BreakerConstants DEF FiniteFacts, SubsetFacts, CardinalityFacts

\* Every slot in use stays accounted for by a call that holds or has leaked it.
LEMMA ProbesStep ==
    ASSUME FiniteFacts, ResilienceInv, ResilienceInv', SlotsHaveProbes, [BreakerNext]_breakerVars
    PROVE  SlotsHaveProbes'
<1>0. call \in [Calls -> CallState] /\ halfOpenActive \in Nat
  BY DEF ResilienceInv, BreakerTypeOK
<1>1. ASSUME NEW c \in Calls, Admit(c) PROVE SlotsHaveProbes'
  <2>1. CASE circuit = "closed"
    BY <1>1, <2>1 DEF Admit, Allow, SlotsHaveProbes
  <2>2. CASE circuit # "closed"
    <3>1. SlotHolders' = SlotHolders \cup {c} /\ c \notin SlotHolders
      BY <1>0, <1>1, <2>2 DEF Admit, SlotHolders, Probing, FatalProbes, CallState
    <3>2. Cardinality(SlotHolders') = Cardinality(SlotHolders) + 1
      BY <3>1, SlotHoldersFinite DEF FiniteFacts, AddFacts
    <3>3. halfOpenActive' = 1 \/ (circuit = "half" /\ halfOpenActive' = halfOpenActive + 1)
      BY <1>1, <2>2 DEF Admit, Allow, Allowed
    <3>4. QED
      BY <1>0, <3>2, <3>3, SlotHoldersFinite DEF SlotsHaveProbes, SlotHolders
  <2>3. QED
    BY <2>1, <2>2
<1>2. ASSUME NEW c \in Calls, Succeed(c) \/ FailRetryably(c) PROVE SlotsHaveProbes'
  BY <1>2 DEF Succeed, FailRetryably, RecordSuccess, RecordFailure, SlotsHaveProbes,
     ResilienceInv, BreakerTypeOK, CircuitStates
<1>3. ASSUME NEW c \in Calls, CallBegin(c) \/ Reject(c) \/ FailFatally(c) \/ BackoffEnds(c) \/ CtxDone(c)
      PROVE  SlotsHaveProbes'
  <2>1. SlotHolders' = SlotHolders
    BY <1>0, <1>3 DEF CallBegin, Reject, FailFatally, BackoffEnds, CtxDone, NextAttempt, CallGoto,
                      CallReturn, SlotHolders, Probing, FatalProbes, CallState
  <2>2. UNCHANGED breaker
    BY <1>3 DEF CallBegin, Reject, FailFatally, BackoffEnds, CtxDone
  <2>3. QED
    BY <2>1, <2>2 DEF SlotsHaveProbes, SlotHolders, breaker
<1>4. CASE RecoveryTimeout \/ UNCHANGED breakerVars
  BY <1>4 DEF RecoveryTimeout, breakerVars, breaker, SlotsHaveProbes, Probing, FatalProbes
<1>5. QED
  BY <1>1, <1>2, <1>3, <1>4 DEF BreakerNext, CallStep

-----------------------------------------------------------------------------
(* The quota gate *)

\* The ticks of credit spent on k grants.
Cost(k) == k * Refill

\* g: the times of the grants so far; credit: what could be spent at time.
Room(g, credit, time) ==
    \A i \in 1..Len(g) : Cost(Len(g) - i + 1) + credit <= Full + (time - g[i])

Rate(g) == \A i, j \in 1..Len(g) : i <= j => Cost(j - i + 1) <= Full + (g[j] - g[i])

\* What a tenant could spend now, uncapped; without a bucket it would get a full one.
Credit(b) == IF b.known THEN b.level + (now - b.at) ELSE Full

TenantOK(t) ==
    /\ bucket[t].at <= now /\ bucket[t].level <= Full
    /\ Room(granted[t], Credit(bucket[t]), now)
    /\ Rate(granted[t])

QuotaInv == QuotaTypeOK /\ \A t \in Tenants : TenantOK(t)

-----------------------------------------------------------------------------
\* What k requests cost, in the unit the buckets are counted in.
LEMMA Costs ==
    ASSUME NEW k \in Int
    PROVE  Cost(k) \in Int /\ Cost(k + 1) = Cost(k) + Refill /\ Cost(1) = Refill
BY QuotaConstants DEF Cost

\* The constants of a bucket as numbers; an idle bucket is swept only once it is full.
LEMMA FullNat == Full \in Nat /\ Refill \in Nat /\ Refill >= 1 /\ IdleTTL \in Nat /\ IdleTTL >= Full
BY QuotaConstants DEF Full

\* Credit may shrink, and may grow by what is earned as time passes.
LEMMA RoomKept ==
    ASSUME NEW g \in Seq(Nat), NEW c \in Int, NEW d \in Int, NEW time \in Nat, NEW later \in Nat,
           Room(g, c, time), d - c <= later - time
    PROVE  Room(g, d, later)
<1> SUFFICES ASSUME NEW i \in 1..Len(g)
             PROVE  Cost(Len(g) - i + 1) + d <= Full + (later - g[i])
  BY DEF Room
<1>1. Len(g) \in Nat /\ g[i] \in Int /\ Len(g) - i + 1 \in Int
  OBVIOUS
<1>2. Cost(Len(g) - i + 1) \in Int
  BY <1>1, Costs
<1>3. Cost(Len(g) - i + 1) + c <= Full + (time - g[i])
  BY DEF Room
<1>4. \A k, x \in Int : k + c <= Full + (time - x) => k + d <= Full + (later - x)
  BY FullNat
<1>5. QED
  BY <1>1, <1>2, <1>3, <1>4, Zenon

\* A grant is paid for out of the credit.
LEMMA RoomGranted ==
    ASSUME NEW g \in Seq(Nat), NEW c \in Int, NEW l \in Nat, NEW time \in Nat,
           Room(g, c, time), Rate(g), l + Refill <= c, l + Refill <= Full
    PROVE  Room(Append(g, time), l, time) /\ Rate(Append(g, time))
<1> DEFINE h == Append(g, time)
<1> DEFINE n == Len(g)
<1>1. /\ n \in Nat /\ Len(h) = n + 1 /\ h[n + 1] = time
      /\ \A i \in 1..n : h[i] = g[i] /\ g[i] \in Nat
  OBVIOUS
<1>2. ASSUME NEW i \in 1..(n + 1)
      PROVE  Cost(n + 1 - i + 1) + l <= Full + (time - h[i])
  <2>1. CASE i = n + 1
    <3>1. n + 1 - i + 1 = 1
      BY <2>1, <1>1
    <3>2. Cost(n + 1 - i + 1) = Refill
      BY <3>1, Costs, Zenon
    <3>3. QED
      BY <1>1, <2>1, <3>2, FullNat
  <2>2. CASE i \in 1..n
    <3>1. Cost(n - i + 1) + c <= Full + (time - g[i])
      BY <2>2 DEF Room
    <3>2. n - i + 1 \in Int /\ (n - i + 1) + 1 = n + 1 - i + 1
      BY <1>1, <2>2
    <3>3. Cost(n + 1 - i + 1) = Cost(n - i + 1) + Refill /\ Cost(n - i + 1) \in Int
      BY <3>2, Costs, Zenon
    <3>4. h[i] = g[i] /\ g[i] \in Int
      BY <1>1, <2>2
    <3>5. \A k, x \in Int : k + c <= Full + (time - x) => k + Refill + l <= Full + (time - x)
      BY FullNat
    <3>6. Cost(n - i + 1) + Refill + l <= Full + (time - g[i])
      BY <3>1, <3>3, <3>4, <3>5, Zenon
    <3>7. QED
      BY <3>3, <3>4, <3>6
  <2>3. QED
    BY <1>1, <2>1, <2>2
<1>3. Room(h, l, time)
  <2> HIDE DEF h
  <2>1. QED
    BY <1>1, <1>2 DEF Room
<1>4. Rate(h)
  <2> SUFFICES ASSUME NEW i \in 1..(n + 1), NEW j \in 1..(n + 1), i <= j
               PROVE  Cost(j - i + 1) <= Full + (h[j] - h[i])
    <3> HIDE DEF h
    <3>1. QED
      BY <1>1 DEF Rate
  <2>1. CASE j = n + 1
    <3>0. h[i] \in Int
      <4>1. CASE i = n + 1
        BY <1>1, <4>1
      <4>2. CASE i \in 1..n
        BY <1>1, <4>2
      <4>3. QED
        BY <1>1, <4>1, <4>2
    <3>1. Cost(n + 1 - i + 1) \in Int
      BY <1>1, Costs
    <3>2. Cost(n + 1 - i + 1) + l <= Full + (time - h[i])
      BY <1>2
    <3>3. \A k, x \in Int : k + l <= Full + (time - x) => k <= Full + (time - x)
      BY FullNat
    <3>4. Cost(n + 1 - i + 1) <= Full + (time - h[i])
      BY <3>0, <3>1, <3>2, <3>3, Zenon
    <3>5. h[j] = time /\ Cost(j - i + 1) = Cost(n + 1 - i + 1)
      BY <1>1, <2>1
    <3> HIDE DEF h
    <3>6. QED
      BY <3>4, <3>5
  <2>2. CASE j \in 1..n
    <3>1. i \in 1..n
      BY <1>1, <2>2
    <3> HIDE DEF h
    <3>2. QED
      BY <1>1, <2>2, <3>1 DEF Rate
  <2>3. QED
    BY <1>1, <2>1, <2>2
<1>5. QED
  BY <1>3, <1>4

\* No bucket exists and nothing has been granted.
LEMMA QuotaInitInv == QuotaInit => QuotaInv
<1> SUFFICES ASSUME QuotaInit PROVE QuotaInv
  OBVIOUS
<1>1. QuotaTypeOK
  BY DEF QuotaInit, QuotaTypeOK, NoBucket, BucketState
<1>2. ASSUME NEW t \in Tenants PROVE TenantOK(t)
  <2>1. granted[t] = <<>> /\ Len(granted[t]) = 0 /\ bucket[t].at = 0 /\ bucket[t].level = 0 /\ now = 0
    BY DEF QuotaInit, NoBucket
  <2>2. QED
    BY <2>1, FullNat DEF TenantOK, Room, Rate
<1>3. QED
  BY <1>1, <1>2 DEF QuotaInv

-----------------------------------------------------------------------------
(* Preservation *)

Types == now \in Nat /\ bucket \in [Tenants -> BucketState] /\ granted \in [Tenants -> Seq(Nat)]

\* A tenant that is granted nothing keeps its room if its credit does not grow
\* faster than time.
LEMMA QuietTenant ==
    ASSUME Types, Types', NEW t \in Tenants, TenantOK(t),
           granted'[t] = granted[t],
           bucket'[t].at <= now', bucket'[t].level <= Full,
           Credit(bucket[t])' - Credit(bucket[t]) <= now' - now
    PROVE  TenantOK(t)'
<1>2. /\ granted[t] \in Seq(Nat) /\ now \in Nat /\ now' \in Nat
      /\ bucket[t] \in BucketState /\ bucket'[t] \in BucketState
  BY DEF Types
<1>1. Credit(bucket[t]) \in Int /\ Credit(bucket[t])' \in Int
  <2>1. Credit(bucket[t]) \in Int
    BY <1>2, FullNat DEF BucketState, Credit
  <2>2. Credit(bucket[t])' \in Int
    BY <1>2, FullNat DEF BucketState, Credit
  <2>3. QED
    BY <2>1, <2>2
<1>3. Room(granted[t], Credit(bucket[t])', now')
  BY <1>1, <1>2, RoomKept DEF TenantOK
<1>4. QED
  BY <1>3 DEF TenantOK

\* A tenant that is granted a request pays for it.
LEMMA GrantedTenant ==
    ASSUME Types, NEW t \in Tenants, TenantOK(t), NEW l \in Nat,
           now' = now, granted'[t] = Append(granted[t], now),
           bucket'[t] = [known |-> TRUE, level |-> l, at |-> now],
           l + Refill <= Credit(bucket[t]), l + Refill <= Full
    PROVE  TenantOK(t)'
<1>1. Credit(bucket[t]) \in Int /\ now \in Nat /\ granted[t] \in Seq(Nat)
  BY FullNat DEF Types, BucketState, Credit
<1>2. Credit(bucket[t])' = l
  BY <1>1 DEF Credit
<1>3. Room(Append(granted[t], now), l, now) /\ Rate(Append(granted[t], now))
  <2>1. Room(granted[t], Credit(bucket[t]), now) /\ Rate(granted[t])
    BY DEF TenantOK
  <2>2. QED
    BY <1>1, <2>1, RoomGranted, Zenon
<1>4. bucket'[t].at <= now /\ bucket'[t].level <= Full
  BY <1>1, FullNat
<1>5. QED
  BY <1>2, <1>3, <1>4 DEF TenantOK

\* What the steps store in a bucket is a bucket.
LEMMA Buckets ==
    ASSUME now \in Nat
    PROVE  NoBucket \in BucketState /\ \A l \in Nat : Bucket(l) \in BucketState
BY Zenon DEF NoBucket, Bucket, BucketState

\* What a call finds in the bucket, after the sweep, is at most the credit and at
\* most a full bucket.
Kept(sweep, u) == IF sweep /\ SweptIdle(u) THEN NoBucket ELSE bucket[u]

\* What a request finds in its bucket is at most what its tenant has earned.
LEMMA FoundInBucket ==
    ASSUME Types, NEW u \in Tenants, TenantOK(u), NEW sweep \in BOOLEAN
    PROVE  /\ MemoryBucket(Kept(sweep, u)) \in Nat
           /\ MemoryBucket(Kept(sweep, u)) <= Full
           /\ MemoryBucket(Kept(sweep, u)) <= Credit(bucket[u])
           /\ Credit(Kept(sweep, u)) <= Credit(bucket[u])
           /\ Kept(sweep, u) \in BucketState
           /\ Kept(sweep, u).at <= now /\ Kept(sweep, u).level <= Full
           /\ bucket[u].known => Refilled(bucket[u]) \in Nat
           /\ bucket[u].known => Refilled(bucket[u]) <= Full
           /\ bucket[u].known => Refilled(bucket[u]) <= Credit(bucket[u])
<1>1. now \in Nat /\ bucket[u] \in BucketState /\ bucket[u].at <= now /\ bucket[u].level <= Full
  BY DEF Types, TenantOK
<1>2. Refilled(bucket[u]) \in Nat /\ Refilled(bucket[u]) <= Full
      /\ Refilled(bucket[u]) <= bucket[u].level + (now - bucket[u].at)
  BY <1>1, FullNat DEF Refilled, AtMostFull, BucketState
<1>3. CASE sweep /\ SweptIdle(u)
  <2>1. Kept(sweep, u) = NoBucket /\ MemoryBucket(NoBucket) = Full /\ Credit(NoBucket) = Full
    BY <1>3 DEF Kept, MemoryBucket, NoBucket, Credit
  <2>2. Full <= Credit(bucket[u])
    BY <1>1, <1>3, FullNat DEF SweptIdle, Credit, BucketState
  <2>3. NoBucket \in BucketState /\ NoBucket.at <= now /\ NoBucket.level <= Full
    BY <1>1, FullNat DEF NoBucket, BucketState
  <2>4. QED
    BY <1>2, <2>1, <2>2, <2>3, FullNat DEF Credit
<1>4. CASE ~(sweep /\ SweptIdle(u))
  <2>1. Kept(sweep, u) = bucket[u]
    BY <1>4, Zenon DEF Kept
  <2>2. CASE bucket[u].known
    BY <1>1, <1>2, <2>1, <2>2, FullNat DEF MemoryBucket, Credit, BucketState
  <2>3. CASE ~bucket[u].known
    BY <1>1, <1>2, <2>1, <2>3, FullNat DEF MemoryBucket, Credit, BucketState
  <2>4. QED
    BY <2>2, <2>3
<1>5. QED
  BY <1>3, <1>4

\* MemoryBackend.AllowQPS keeps every tenant within what it has earned.
LEMMA MemoryStep ==
    ASSUME Types, Types', \A u \in Tenants : TenantOK(u),
           NEW t \in Tenants, MemoryAllowQPS(t), now' = now
    PROVE  \A u \in Tenants : TenantOK(u)'
<1> SUFFICES ASSUME NEW u \in Tenants PROVE TenantOK(u)'
  OBVIOUS
<1>1. PICK sweep \in BOOLEAN :
        LET level == MemoryBucket(Kept(sweep, t))
            ok    == level >= Refill
        IN /\ bucket' = [[v \in Tenants |-> Kept(sweep, v)] EXCEPT
                             ![t] = Bucket(IF ok THEN level - Refill ELSE level)]
           /\ Answer(t, ok)
  BY Zenon DEF MemoryAllowQPS, Kept
<1> DEFINE level == MemoryBucket(Kept(sweep, t))
<1>2. level \in Nat /\ level <= Full /\ level <= Credit(bucket[t])
  BY FoundInBucket
<1>3. now \in Nat /\ granted \in [Tenants -> Seq(Nat)]
  BY Zenon DEF Types
<1>4. CASE u # t
  <2>1. bucket'[u] = Kept(sweep, u) /\ granted'[u] = granted[u]
    BY <1>1, <1>3, <1>4 DEF Answer
  <2>2. /\ Credit(Kept(sweep, u)) <= Credit(bucket[u])
        /\ Kept(sweep, u).at <= now /\ Kept(sweep, u).level <= Full
    BY FoundInBucket
  <2>3. Credit(bucket[u])' = Credit(Kept(sweep, u))
    BY <2>1 DEF Credit
  <2>4. Credit(bucket[u])' - Credit(bucket[u]) <= now' - now
    <3>1. Kept(sweep, u) \in BucketState /\ bucket[u] \in BucketState
      BY FoundInBucket DEF Types
    <3>2. Credit(Kept(sweep, u)) \in Int /\ Credit(bucket[u]) \in Int
      BY <1>3, <3>1, FullNat, SMTT(30) DEF Credit, BucketState
    <3>3. QED
      BY <1>3, <2>2, <2>3, <3>2
  <2>5. QED
    BY <2>1, <2>2, <2>4, QuietTenant
<1>5. CASE u = t /\ level >= Refill
  <2>1. bucket'[t] = Bucket(level - Refill) /\ granted'[t] = Append(granted[t], now)
    BY <1>1, <1>3, <1>5 DEF Answer
  <2>2. level - Refill \in Nat /\ (level - Refill) + Refill = level
    BY <1>2, <1>5, FullNat
  <2>3. QED
    BY <1>2, <1>5, <2>1, <2>2, GrantedTenant DEF Bucket
<1>6. CASE u = t /\ ~(level >= Refill)
  <2>1. bucket'[t] = Bucket(level) /\ granted'[t] = granted[t]
    BY <1>1, <1>3, <1>6, Zenon DEF Answer
  <2>2. bucket'[t].known /\ bucket'[t].level = level /\ bucket'[t].at = now
    BY <2>1 DEF Bucket
  <2> HIDE DEF level
  <2>3. Credit(bucket[t])' = level
    BY <1>2, <1>3, <2>2 DEF Credit
  <2>4. Credit(bucket[t]) \in Int
    BY <1>3, FullNat DEF Credit, Types, BucketState
  <2>5. Credit(bucket[t])' - Credit(bucket[t]) <= now' - now
    BY <1>2, <1>3, <2>3, <2>4
  <2>6. QED
    BY <1>2, <1>3, <1>6, <2>1, <2>2, <2>5, QuietTenant
<1>7. QED
  BY <1>4, <1>5, <1>6

\* A tenant whose bucket is as it was, or newly created, is granted nothing.
LEMMA IdleTenant ==
    ASSUME Types, Types', NEW u \in Tenants, TenantOK(u), granted'[u] = granted[u],
           now' = now,
           \/ bucket'[u] = bucket[u]
           \/ ~bucket[u].known /\ \E l \in Nat : l <= Full /\ bucket'[u] = Bucket(l)
    PROVE  TenantOK(u)'
<1>1. now \in Nat /\ bucket[u] \in BucketState /\ bucket[u].at <= now /\ bucket[u].level <= Full
  BY DEF Types, TenantOK
<1>2. CASE bucket'[u] = bucket[u]
  <2>1. Credit(bucket[u])' = Credit(bucket[u]) /\ Credit(bucket[u]) \in Int
    BY <1>1, <1>2, FullNat DEF Credit, BucketState
  <2>2. Credit(bucket[u])' - Credit(bucket[u]) <= now' - now
    BY <1>1, <2>1
  <2>3. QED
    BY <1>1, <1>2, <2>2, QuietTenant
<1>3. ASSUME ~bucket[u].known, NEW l \in Nat, l <= Full, bucket'[u] = Bucket(l)
      PROVE  TenantOK(u)'
  <2>1. bucket'[u].known /\ bucket'[u].level = l /\ bucket'[u].at = now
    BY <1>3 DEF Bucket
  <2>2. Credit(bucket[u])' = l /\ Credit(bucket[u]) = Full
    BY <1>1, <1>3, <2>1 DEF Credit
  <2>3. Credit(bucket[u])' - Credit(bucket[u]) <= now' - now
    BY <1>1, <1>3, <2>2, FullNat
  <2>4. QED
    BY <1>1, <1>3, <2>1, <2>3, QuietTenant
<1>4. QED
  BY <1>2, <1>3

\* So do the statements of PostgresBackend.AllowQPS.
LEMMA PostgresStep ==
    ASSUME Types, Types', \A u \in Tenants : TenantOK(u),
           NEW t \in Tenants, PostgresAllowQPS(t), now' = now
    PROVE  \A u \in Tenants : TenantOK(u)'
<1> SUFFICES ASSUME NEW u \in Tenants PROVE TenantOK(u)'
  OBVIOUS
<1> DEFINE level == Refilled(bucket[t])
<1>1. now \in Nat /\ bucket \in [Tenants -> BucketState] /\ granted \in [Tenants -> Seq(Nat)]
  BY Zenon DEF Types
<1>2. CASE ~bucket[t].known /\ bucket' = [bucket EXCEPT ![t] = Bucket(Full)] /\ Answer(t, FALSE)
  <2>1. granted'[u] = granted[u] /\ bucket'[u] = IF u = t THEN Bucket(Full) ELSE bucket[u]
    BY <1>1, <1>2 DEF Answer
  <2>2. Full \in Nat /\ Full <= Full
    BY FullNat
  <2>3. QED
    BY <1>2, <2>1, <2>2, IdleTenant
<1>3. CASE UNCHANGED bucket /\ Answer(t, FALSE)
  <2>1. granted'[u] = granted[u] /\ bucket'[u] = bucket[u]
    BY <1>1, <1>3 DEF Answer
  <2>2. QED
    BY <2>1, IdleTenant
<1>4. CASE /\ bucket[t].known /\ level >= Refill
           /\ bucket' = [bucket EXCEPT ![t] = Bucket(level - Refill)] /\ Answer(t, level >= Refill)
  <2>1. CASE u = t
    <3>1. bucket'[t] = Bucket(level - Refill) /\ granted'[t] = Append(granted[t], now)
      BY <1>1, <1>4 DEF Answer
    <3>2. level \in Nat /\ level <= Full /\ level <= Credit(bucket[t])
      BY <1>4, FoundInBucket, Zenon
    <3>3. level - Refill \in Nat /\ (level - Refill) + Refill = level
      BY <1>4, <3>2, FullNat
    <3>4. QED
      BY <2>1, <3>1, <3>2, <3>3, GrantedTenant DEF Bucket
  <2>2. CASE u # t
    <3>1. granted'[u] = granted[u] /\ bucket'[u] = bucket[u]
      BY <1>1, <1>4, <2>2 DEF Answer
    <3>2. QED
      BY <3>1, IdleTenant
  <2>3. QED
    BY <2>1, <2>2, Zenon
<1>5. CASE bucket[t].known /\ ~(level >= Refill) /\ bucket' = bucket /\ Answer(t, level >= Refill)
  <2>1. granted'[u] = granted[u] /\ bucket'[u] = bucket[u]
    BY <1>1, <1>5 DEF Answer
  <2>2. QED
    BY <2>1, IdleTenant
<1>6. QED
  <2>1. CASE level >= Refill
    BY <1>2, <1>3, <1>4, <2>1, Zenon DEF PostgresAllowQPS
  <2>2. CASE ~(level >= Refill)
    BY <1>2, <1>3, <1>5, <2>2, Zenon DEF PostgresAllowQPS
  <2>3. QED
    BY <2>1, <2>2

\* The type alone is not inductive: a level stays natural because no bucket was
\* refilled in the future.
LEMMA QuotaNextTypes == QuotaInv /\ [QuotaNext]_quotaVars => QuotaTypeOK'
<1> SUFFICES ASSUME QuotaInv, [QuotaNext]_quotaVars PROVE QuotaTypeOK'
  OBVIOUS
<1>0. /\ backend \in {"memory", "postgres"} /\ now \in Nat
      /\ bucket \in [Tenants -> BucketState] /\ conc \in [Tenants -> Nat]
      /\ granted \in [Tenants -> Seq(Nat)] /\ refused \in Tenants \cup {NoTenant}
  BY DEF QuotaTypeOK, QuotaInv
<1>00. Types /\ \A u \in Tenants : TenantOK(u)
  BY <1>0 DEF Types, QuotaInv
<1> USE Buckets
<1>1. ASSUME NEW t \in Tenants, NEW ok, Answer(t, ok)
      PROVE  granted' \in [Tenants -> Seq(Nat)] /\ refused' \in Tenants \cup {NoTenant}
  BY <1>0, <1>1 DEF Answer
<1>2. ASSUME NEW t \in Tenants, CreateRow(t)
      PROVE  bucket' \in [Tenants -> BucketState]
  BY <1>0, <1>2, Zenon DEF CreateRow
<1>3. CASE Tick
  BY <1>0, <1>3 DEF Tick, QuotaTypeOK
<1>4. ASSUME NEW t \in Tenants, AllowQPS(t) PROVE QuotaTypeOK'
  <2>0. UNCHANGED <<backend, now, conc>>
    BY <1>4 DEF AllowQPS
  <2>1. CASE MemoryAllowQPS(t)
    <3>1. PICK sweep \in BOOLEAN :
            LET level == MemoryBucket(Kept(sweep, t))
                ok    == level >= Refill
            IN /\ bucket' = [[v \in Tenants |-> Kept(sweep, v)] EXCEPT
                                 ![t] = Bucket(IF ok THEN level - Refill ELSE level)]
               /\ Answer(t, ok)
      BY <2>1, Zenon DEF MemoryAllowQPS, Kept
    <3>4. MemoryBucket(Kept(sweep, t)) \in Nat /\ \A v \in Tenants : Kept(sweep, v) \in BucketState
      BY <1>00, FoundInBucket
    <3>2. bucket' \in [Tenants -> BucketState]
      BY <1>0, <3>1, <3>4, FullNat
    <3>3. QED
      BY <1>0, <1>1, <2>0, <3>1, <3>2 DEF QuotaTypeOK
  <2>2. CASE PostgresAllowQPS(t)
    <3>1. bucket' \in [Tenants -> BucketState]
      <4>1. bucket[t].known => Refilled(bucket[t]) \in Nat
        BY <1>00, FoundInBucket, Zenon
      <4>2. \/ bucket' = bucket \/ bucket' = [bucket EXCEPT ![t] = Bucket(Full)]
            \/ \E l \in Nat : bucket' = [bucket EXCEPT ![t] = Bucket(l)]
        <5>1. bucket[t].known /\ Refilled(bucket[t]) >= Refill => Refilled(bucket[t]) - Refill \in Nat
          BY <4>1, FullNat
        <5>2. QED
          BY <2>2, <5>1, Zenon DEF PostgresAllowQPS
      <4>3. QED
        BY <1>0, <4>2, FullNat, Zenon
    <3>2. \E ok : Answer(t, ok)
      BY <2>2, Zenon DEF PostgresAllowQPS
    <3>3. QED
      BY <1>0, <1>1, <2>0, <3>1, <3>2 DEF QuotaTypeOK
  <2>3. QED
    BY <1>4, <2>1, <2>2 DEF AllowQPS
<1>5. ASSUME NEW t \in Tenants, TryIncConcurrent(t) PROVE QuotaTypeOK'
  BY <1>0, <1>2, <1>5 DEF TryIncConcurrent, QuotaTypeOK
<1>6. ASSUME NEW t \in Tenants, DecConcurrent(t) PROVE QuotaTypeOK'
  BY <1>0, <1>6 DEF DecConcurrent, QuotaTypeOK
<1>7. ASSUME NEW t \in Tenants, WithInitialConcurrent(t) PROVE QuotaTypeOK'
  BY <1>0, <1>2, <1>7, QuotaConstants DEF WithInitialConcurrent, QuotaTypeOK
<1>8. CASE UNCHANGED quotaVars
  BY <1>0, <1>8 DEF quotaVars, QuotaTypeOK
<1>9. QED
  BY <1>3, <1>4, <1>5, <1>6, <1>7, <1>8 DEF QuotaNext

\* Every step keeps the invariant.
LEMMA QuotaNextInv == QuotaInv /\ [QuotaNext]_quotaVars => QuotaInv'
<1> SUFFICES ASSUME QuotaInv, [QuotaNext]_quotaVars PROVE QuotaInv'
  OBVIOUS
<1>1. QuotaTypeOK /\ QuotaTypeOK'
  BY QuotaNextTypes DEF QuotaInv
<1>2. Types /\ Types' /\ \A u \in Tenants : TenantOK(u)
  BY <1>1, Zenon DEF QuotaInv, QuotaTypeOK, Types
<1>3. now \in Nat /\ bucket \in [Tenants -> BucketState]
  BY <1>2 DEF Types
<1>4. CASE Tick
  <2> SUFFICES ASSUME NEW u \in Tenants PROVE TenantOK(u)'
    BY <1>1 DEF QuotaInv
  <2>1. now' = now + 1 /\ bucket' = bucket /\ granted'[u] = granted[u]
    BY <1>4 DEF Tick
  <2>2. bucket[u] \in BucketState /\ bucket[u].at <= now /\ bucket[u].level <= Full
    BY <1>2, <1>3 DEF TenantOK
  <2>3. bucket'[u].at <= now' /\ bucket'[u].level <= Full
    BY <1>3, <2>1, <2>2 DEF BucketState
  <2>4. Credit(bucket[u])' - Credit(bucket[u]) <= now' - now
    BY <1>3, <2>1, <2>2, FullNat DEF Credit, BucketState
  <2>5. QED
    BY <1>2, <2>1, <2>3, <2>4, QuietTenant
<1>5. ASSUME NEW t \in Tenants, AllowQPS(t) PROVE QuotaInv'
  BY <1>1, <1>2, <1>5, MemoryStep, PostgresStep, Zenon DEF AllowQPS, QuotaInv
<1>6. ASSUME NEW t \in Tenants, CreateRow(t) \/ UNCHANGED bucket, UNCHANGED <<now, granted>>
      PROVE  QuotaInv'
  <2> SUFFICES ASSUME NEW u \in Tenants PROVE TenantOK(u)'
    BY <1>1 DEF QuotaInv
  <2>1. 0 \in Nat /\ 0 <= Full
    BY FullNat
  <2>2. \/ bucket'[u] = bucket[u]
        \/ ~bucket[u].known /\ bucket'[u] = Bucket(0)
    BY <1>3, <1>6 DEF CreateRow
  <2>3. QED
    BY <1>2, <1>6, <2>1, <2>2, IdleTenant
<1>7. ASSUME NEW t \in Tenants, TryIncConcurrent(t) \/ DecConcurrent(t) \/ WithInitialConcurrent(t)
      PROVE  QuotaInv'
  BY <1>6, <1>7, Zenon DEF TryIncConcurrent, DecConcurrent, WithInitialConcurrent
<1>8. CASE UNCHANGED quotaVars
  <2>1. UNCHANGED <<backend, now, bucket, conc, granted, refused>>
    BY <1>8 DEF quotaVars
  <2>2. QED
    BY <2>1 DEF QuotaInv, QuotaTypeOK, TenantOK, Room, Rate, Credit
<1>9. QED
  BY <1>4, <1>5, <1>7, <1>8 DEF QuotaNext

\* The invariant holds in every reachable state.
LEMMA QuotaInvHolds == QuotaSpec => []QuotaInv
BY QuotaInitInv, QuotaNextInv, PTL DEF QuotaSpec

-----------------------------------------------------------------------------
(* The in-memory bucket refuses nothing it could grant *)

\* A bucket with this level at this time is a full one that paid for the grants since
\* one of them, and earned what came in since then.
Spent(g, level, at) ==
    \E i \in 1..Len(g) : Cost(Len(g) - i + 1) + level = Full + (at - g[i])

TightTenant(t) ==
    backend = "memory" /\ bucket[t].known => Spent(granted[t], bucket[t].level, bucket[t].at)

\* Time fills the bucket by what it earns.
LEMMA SpentLater ==
    ASSUME NEW g \in Seq(Nat), NEW l \in Nat, NEW at \in Nat, NEW time \in Nat, Spent(g, l, at)
    PROVE  Spent(g, l + (time - at), time)
<1>1. PICK i \in 1..Len(g) : Cost(Len(g) - i + 1) + l = Full + (at - g[i])  BY DEF Spent
<1>2. Len(g) - i + 1 \in Int /\ g[i] \in Int  OBVIOUS
<1>3. Cost(Len(g) - i + 1) \in Int  BY <1>2, Costs
<1>4. \A k, x \in Int : k + l = Full + (at - x) => k + (l + (time - at)) = Full + (time - x)
  BY FullNat
<1>5. Cost(Len(g) - i + 1) + (l + (time - at)) = Full + (time - g[i])
  BY <1>1, <1>2, <1>3, <1>4, Zenon
<1>. QED  BY <1>5, Zenon DEF Spent

\* A grant is paid for by the bucket, whose last full moment stays the same or, when the
\* bucket was full, becomes the grant itself.
LEMMA SpentGranted ==
    ASSUME NEW g \in Seq(Nat), NEW l \in Nat, NEW time \in Nat, Spent(g, l, time) \/ l = Full
    PROVE  Spent(Append(g, time), l - Refill, time)
<1>. DEFINE h == Append(g, time)
            n == Len(g)
<1>1. /\ n \in Nat /\ Len(h) = n + 1 /\ h[n + 1] = time
      /\ \A i \in 1..n : h[i] = g[i] /\ g[i] \in Nat
  OBVIOUS
<1>2. CASE Spent(g, l, time)
  <2>1. PICK i \in 1..n : Cost(n - i + 1) + l = Full + (time - g[i])  BY <1>2 DEF Spent
  <2>2. /\ n - i + 1 \in Int /\ (n - i + 1) + 1 = (n + 1) - i + 1 /\ i \in 1..(n + 1)
        /\ h[i] = g[i] /\ g[i] \in Int
    BY <1>1
  <2>3. Cost((n + 1) - i + 1) = Cost(n - i + 1) + Refill /\ Cost(n - i + 1) \in Int
    BY <2>2, Costs, Zenon
  <2>4. \A k, x \in Int : k + l = Full + (time - x) =>
                          (k + Refill) + (l - Refill) = Full + (time - x)
    BY FullNat
  <2>5. Cost((n + 1) - i + 1) + (l - Refill) = Full + (time - h[i])
    BY <2>1, <2>2, <2>3, <2>4, Zenon
  <2>. HIDE DEF h, n
  <2>6. i \in 1..Len(h) /\ Cost(Len(h) - i + 1) + (l - Refill) = Full + (time - h[i])
    BY <2>2, <2>5, <1>1
  <2>. QED  BY <2>6, Zenon DEF Spent, h
<1>3. CASE l = Full
  <2>1. n + 1 \in 1..(n + 1) /\ (n + 1) - (n + 1) + 1 = 1  BY <1>1
  <2>2. Cost(1) = Refill  BY Costs
  <2>3. Refill + (Full - Refill) = Full + (time - time)  BY FullNat
  <2>. HIDE DEF h, n
  <2>4. /\ n + 1 \in 1..Len(h)
        /\ Cost(Len(h) - (n + 1) + 1) + (l - Refill) = Full + (time - h[n + 1])
    BY <2>1, <2>2, <2>3, <1>1, <1>3
  <2>. QED  BY <2>4, Zenon DEF Spent, h
<1>. QED  BY <1>2, <1>3

\* A bucket without a token has no room for one more request since that grant.
LEMMA SpentIsFull ==
    ASSUME NEW g \in Seq(Nat), NEW l \in Nat, NEW time \in Nat, Spent(g, l, time), l < Refill
    PROVE  \E i \in 1..Len(g) : (Len(g) - i + 2) * Refill > Full + (time - g[i])
<1>1. PICK i \in 1..Len(g) : Cost(Len(g) - i + 1) + l = Full + (time - g[i])  BY DEF Spent
<1>2. /\ Len(g) - i + 1 \in Int /\ g[i] \in Int
      /\ (Len(g) - i + 1) + 1 = Len(g) - i + 2
  OBVIOUS
<1>3. /\ Cost(Len(g) - i + 2) = Cost(Len(g) - i + 1) + Refill
      /\ Cost(Len(g) - i + 1) \in Int
  BY <1>2, Costs, Zenon
<1>4. \A k, x \in Int : k + l = Full + (time - x) => k + Refill > Full + (time - x)
  BY FullNat
<1>5. Cost(Len(g) - i + 2) > Full + (time - g[i])
  BY <1>1, <1>2, <1>3, <1>4
<1>. QED  BY <1>5, Zenon DEF Cost

\* MemoryBackend.AllowQPS accounts for every grant, and refuses only with no token left.
LEMMA MemoryIsTight ==
    ASSUME Types, Types', \A u \in Tenants : TenantOK(u) /\ TightTenant(u), backend = "memory",
           NEW t \in Tenants, MemoryAllowQPS(t), UNCHANGED <<backend, now>>
    PROVE  (\A u \in Tenants : TightTenant(u)') /\ RefusalsAreNeeded'
<1>1. PICK sweep \in BOOLEAN :
        LET level == MemoryBucket(Kept(sweep, t))
            ok    == level >= Refill
        IN /\ bucket' = [[v \in Tenants |-> Kept(sweep, v)] EXCEPT
                             ![t] = Bucket(IF ok THEN level - Refill ELSE level)]
           /\ Answer(t, ok)
  BY Zenon DEF MemoryAllowQPS, Kept
<1>. DEFINE level == MemoryBucket(Kept(sweep, t))
            g == granted[t]
<1>2. level \in Nat /\ level <= Full /\ Kept(sweep, t) \in BucketState /\ Kept(sweep, t).at <= now
  BY FoundInBucket
<1>3. now \in Nat /\ granted \in [Tenants -> Seq(Nat)] /\ g \in Seq(Nat) /\ NoTenant # t
  BY QuotaConstants DEF Types
<1>4. \A u \in Tenants : Kept(sweep, u).known =>
           Spent(granted[u], Kept(sweep, u).level, Kept(sweep, u).at)
  BY Zenon DEF Kept, TightTenant, NoBucket
<1>5. level = Full \/ Spent(g, level, now)
  <2>1. CASE ~Kept(sweep, t).known  BY <2>1 DEF MemoryBucket
  <2>2. CASE Kept(sweep, t).known
    <3>. DEFINE b == Kept(sweep, t)
    <3>1. b.level \in Nat /\ b.at \in Nat  BY <1>2 DEF BucketState
    <3>2. Spent(g, b.level + (now - b.at), now)
      BY <1>3, <1>4, <2>2, <3>1, SpentLater, Zenon
    <3>3. level = Full \/ level = b.level + (now - b.at)
      BY <2>2, Zenon DEF MemoryBucket, Refilled, AtMostFull
    <3>. QED  BY <3>2, <3>3, Zenon
  <2>. QED  BY <2>1, <2>2
<1>6. ASSUME NEW u \in Tenants, u # t PROVE TightTenant(u)'
  <2>1. bucket'[u] = Kept(sweep, u) /\ granted'[u] = granted[u]
    BY <1>1, <1>3, <1>6 DEF Answer
  <2>. QED  BY <2>1, <1>4, Zenon DEF TightTenant
<1>7. CASE level >= Refill
  <2>1. /\ bucket'[t] = Bucket(level - Refill) /\ granted'[t] = Append(g, now)
        /\ refused' = NoTenant
    BY <1>1, <1>3, <1>7, Zenon DEF Answer
  <2>2. bucket'[t].level = level - Refill /\ bucket'[t].at = now  BY <2>1 DEF Bucket
  <2>. HIDE DEF level, g
  <2>3. Spent(Append(g, now), level - Refill, now)
    BY <1>2, <1>3, <1>5, SpentGranted, Zenon
  <2>4. TightTenant(t)'  BY <2>1, <2>2, <2>3, Zenon DEF TightTenant
  <2>5. RefusalsAreNeeded'  BY <2>1, Zenon DEF RefusalsAreNeeded
  <2>. QED  BY <1>6, <2>4, <2>5, Zenon
<1>8. CASE ~(level >= Refill)
  <2>1. bucket'[t] = Bucket(level) /\ granted'[t] = g /\ refused' = t
    BY <1>1, <1>3, <1>8, Zenon DEF Answer
  <2>2. bucket'[t].level = level /\ bucket'[t].at = now  BY <2>1 DEF Bucket
  <2>. HIDE DEF level, g
  <2>3. level < Refill /\ level # Full
    <3>1. Refill <= Full  BY QuotaConstants DEF Full
    <3>. QED  BY <3>1, <1>2, <1>8, FullNat
  <2>4. Spent(g, level, now)  BY <1>5, <2>3, Zenon
  <2>5. TightTenant(t)'  BY <2>1, <2>2, <2>4, Zenon DEF TightTenant
  <2>6. \E i \in 1..Len(g) : (Len(g) - i + 2) * Refill > Full + (now - g[i])
    BY <1>2, <1>3, <2>3, <2>4, SpentIsFull, Zenon
  <2>7. RefusalsAreNeeded'  BY <2>1, <2>6, Zenon DEF RefusalsAreNeeded
  <2>. QED  BY <1>6, <2>5, <2>7, Zenon
<1>. QED  BY <1>7, <1>8

\* QuotaInv, the account of every in-memory bucket, and the reason for the last refusal.
ExactInv == QuotaInv /\ (\A t \in Tenants : TightTenant(t)) /\ RefusalsAreNeeded

-----------------------------------------------------------------------------
\* The quota gate, with either backend: over no interval does AllowQPS grant a
\* tenant more than a full bucket and what is earned in between, for every rate,
\* idle time-to-live, number of tenants and length of the execution.
THEOREM RateIsRespected == QuotaSpec => []RateRespected
<1>1. QuotaInv => RateRespected
  BY DEF QuotaInv, TenantOK, Rate, Cost, RateRespected
<1>2. QED
  BY <1>1, QuotaInvHolds, PTL

\* The limiter admits exactly what the rate allows, for every rate: it never grants
\* more, and the in-memory one refuses only what would exceed it.
THEOREM AdmissionFollowsRate == QuotaSpec => []AdmissionIsExact
<1>1. QuotaInit => ExactInv
  <2>. SUFFICES ASSUME QuotaInit PROVE ExactInv  OBVIOUS
  <2>1. \A t \in Tenants : ~bucket[t].known  BY DEF QuotaInit, NoBucket
  <2>2. refused = NoTenant  BY DEF QuotaInit
  <2>. QED  BY <2>1, <2>2, QuotaInitInv, Zenon DEF ExactInv, TightTenant, RefusalsAreNeeded
<1>2. ExactInv /\ [QuotaNext]_quotaVars => ExactInv'
  <2>. SUFFICES ASSUME ExactInv, [QuotaNext]_quotaVars PROVE ExactInv'  OBVIOUS
  <2>1. QuotaInv /\ QuotaInv' /\ \A u \in Tenants : TenantOK(u) /\ TightTenant(u)
    BY QuotaNextInv DEF ExactInv, QuotaInv
  <2>2. Types /\ Types' /\ bucket \in [Tenants -> BucketState]
    BY <2>1 DEF QuotaInv, QuotaTypeOK, Types
  <2>3. ASSUME NEW t \in Tenants, AllowQPS(t) PROVE ExactInv'
    <3>1. CASE backend = "memory"
      <4>1. MemoryAllowQPS(t) /\ UNCHANGED <<backend, now>>  BY <2>3, <3>1 DEF AllowQPS
      <4>. QED  BY <4>1, <3>1, <2>1, <2>2, MemoryIsTight, Zenon DEF ExactInv
    <3>2. CASE backend # "memory"
      <4>1. backend' # "memory"  BY <2>3, <3>2 DEF AllowQPS
      <4>. QED  BY <4>1, <2>1, Zenon DEF ExactInv, TightTenant, RefusalsAreNeeded
    <3>. QED  BY <3>1, <3>2
  <2>4. ASSUME backend' = backend, granted' = granted, backend = "memory" => bucket' = bucket,
               refused' = NoTenant
        PROVE  ExactInv'
    BY <2>1, <2>4, Zenon DEF ExactInv, TightTenant, RefusalsAreNeeded
  <2>5. CASE Tick  BY <2>4, <2>5, Zenon DEF Tick
  <2>6. ASSUME NEW t \in Tenants,
               TryIncConcurrent(t) \/ DecConcurrent(t) \/ WithInitialConcurrent(t)
        PROVE  ExactInv'
    BY <2>4, <2>6, Zenon DEF TryIncConcurrent, DecConcurrent, WithInitialConcurrent, CreateRow
  <2>7. CASE UNCHANGED quotaVars
    <3>1. UNCHANGED <<backend, now, bucket, conc, granted, refused>>  BY <2>7 DEF quotaVars
    <3>. QED  BY <3>1, <2>1, Zenon DEF ExactInv, TightTenant, RefusalsAreNeeded
  <2>. QED  BY <2>3, <2>5, <2>6, <2>7 DEF QuotaNext
<1>3. ExactInv => AdmissionIsExact
  BY DEF ExactInv, QuotaInv, TenantOK, Rate, Cost, RateRespected, AdmissionIsExact
<1>. QED  BY <1>1, <1>2, <1>3, PTL DEF QuotaSpec

-----------------------------------------------------------------------------
(* The usage meter *)

\* Buckets of the tenants, none of them of a time to come.
Meter(b, last) ==
    /\ IsFiniteSet(DOMAIN b) /\ b \in [DOMAIN b -> Nat]
    /\ DOMAIN b \subseteq MeteredTenants \X (0..last)

AtProvider(t) == [pc |-> "provider", tenant |-> t]
Pending(t) == {i \in Invokes : invocation[i] = AtProvider(t)}

\* What the invocations at the provider may still add is part of the bound.
Leeway(used, limit, t) ==
    limit > 0 =>
        used + Cardinality(Pending(t)) * MaxTokens < limit + Cardinality(Invokes) * MaxTokens

UsageTypes ==
    /\ meterHour \in Nat /\ recordCount \in Nat /\ lostBuckets \in BOOLEAN
    /\ IsFiniteSet(DOMAIN perTenant)
    /\ Meter(hourlyUsage, meterHour) /\ Meter(dailyUsage, Today)
    /\ invocation \in [Invokes -> {NoInvoke} \cup {AtProvider(t) : t \in MeteredTenants}]
    /\ spent \in [MeteredTenants -> [hour : Nat, day : Nat]]

BudgetLeeway ==
    ~lostBuckets => \A t \in MeteredTenants : /\ Leeway(spent[t].hour, Policy[t].hourly, t)
                                              /\ Leeway(spent[t].day, Policy[t].daily, t)

UsageInv == UsageTypes /\ UsageTypeOK /\ MeterIsExact /\ BudgetLeeway

-----------------------------------------------------------------------------
\* The largest count of tokens a model call reports.
LEMMA MaxTokensIsMax == MaxTokens \in Nat /\ \A n \in TokenCounts : n <= MaxTokens
  BY UsageConstants, Zenon DEF MaxTokens

\* The end of an hour is the end of a day when the next one is the first of a day.
LEMMA DayOfNextHour ==
    ASSUME NEW h \in Nat
    PROVE  /\ h \div HoursPerDay \in Nat /\ (h + 1) \div HoursPerDay \in Nat
           /\ (h + 1) % HoursPerDay # 0 => (h + 1) \div HoursPerDay = h \div HoursPerDay
           /\ (h + 1) % HoursPerDay = 0 => (h + 1) \div HoursPerDay > h \div HoursPerDay
<1>. DEFINE D == HoursPerDay
            p == h \div D
            q == (h + 1) \div D
            r == h % D
            s == (h + 1) % D
<1>1. D \in Nat \ {0}  BY UsageConstants
<1>2. /\ p \in Int /\ q \in Int /\ r \in 0..D - 1 /\ s \in 0..D - 1
      /\ h = D * p + r /\ h + 1 = D * q + s
  BY <1>1
<1>. HIDE DEF D, p, q, r, s
<1>3. D * q = D * p + r + 1 - s  BY <1>1, <1>2
<1>4. ASSUME NEW x \in Int, NEW y \in Int, x < y PROVE D * x + D <= D * y
  <2>1. y - x - 1 \in Nat /\ D * (y - x - 1) \in Nat  BY <1>1, <1>4
  <2>2. D * (y - x - 1) = D * y - D * x - D  BY <1>1, <1>4
  <2>3. D * x \in Int /\ D * y \in Int  BY <1>1, <1>4
  <2>. QED  BY <1>1, <2>1, <2>2, <2>3
<1>5. D * p \in Int /\ D * q \in Int  BY <1>1, <1>2
<1>6. ~(p < 0)
  <2>1. ASSUME p < 0 PROVE D * p + D <= 0
    <3>1. D * p + D <= D * 0  BY <1>2, <1>4, <2>1
    <3>. QED  BY <1>1, <3>1
  <2>. QED  BY <1>1, <1>2, <1>5, <2>1
<1>7. ~(q < p)
  <2>1. q < p => D * q + D <= D * p  BY <1>2, <1>4
  <2>. QED  BY <1>1, <1>2, <1>3, <1>5, <2>1
<1>8. s # 0 => ~(p < q)
  <2>1. p < q => D * p + D <= D * q  BY <1>2, <1>4
  <2>. QED  BY <1>1, <1>2, <1>3, <1>5, <2>1
<1>9. s = 0 => p # q  BY <1>2, <1>3, <1>5
<1>10. /\ p \in Nat /\ q \in Nat /\ (s # 0 => q = p) /\ (s = 0 => q > p)
  BY <1>2, <1>6, <1>7, <1>8, <1>9
<1>. QED  BY <1>10, Zenon DEF D, p, q, r, s

\* sweepLocked leaves the buckets of the present alone.
LEMMA SweptMeter ==
    ASSUME FiniteFacts, NEW last \in Nat, NEW oldest \in Int, oldest <= last, NEW b, Meter(b, last)
    PROVE  /\ Meter(Swept(b, oldest), last) /\ DOMAIN Swept(b, oldest) \subseteq DOMAIN b
           /\ \A u \in MeteredTenants :
                 Tokens(Swept(b, oldest), <<u, last>>) = Tokens(b, <<u, last>>)
<1>. DEFINE c == Swept(b, oldest)
<1>1. /\ DOMAIN c = {k \in DOMAIN b : k[2] >= oldest}
      /\ \A k \in DOMAIN c : c[k] = b[k]
      /\ c \in [DOMAIN c -> Nat]
  BY DEF Swept, Meter
<1>2. IsFiniteSet(DOMAIN c)  BY <1>1 DEF FiniteFacts, SubsetFacts, Meter
<1>. HIDE DEF c
<1>3. Meter(c, last) /\ DOMAIN c \subseteq DOMAIN b  BY <1>1, <1>2 DEF Meter
<1>4. ASSUME NEW u \in MeteredTenants PROVE Tokens(c, <<u, last>>) = Tokens(b, <<u, last>>)
  <2>1. <<u, last>> \in DOMAIN b <=> <<u, last>> \in DOMAIN c  BY <1>1
  <2>. QED  BY <1>1, <2>1 DEF Tokens
<1>. QED  BY <1>3, <1>4 DEF c

\* The buckets of the present, with n more tokens of t.
Counts(d, b, last, t, n) ==
    \A u \in MeteredTenants :
        Tokens(d, <<u, last>>) = Tokens(b, <<u, last>>) + IF u = t THEN n ELSE 0

\* Record adds to the bucket of the tenant and leaves the others.
LEMMA AddedMeter ==
    ASSUME FiniteFacts, NEW last \in Nat, NEW b, Meter(b, last), NEW t \in MeteredTenants, NEW n \in Nat
    PROVE  /\ Meter(Added(b, <<t, last>>, n), last)
           /\ DOMAIN Added(b, <<t, last>>, n) = DOMAIN b \cup {<<t, last>>}
           /\ Counts(Added(b, <<t, last>>, n), b, last, t, n)
<1>. DEFINE key == <<t, last>>
            c == Added(b, key, n)
<1>0. \A k : Tokens(b, k) \in Nat  BY Zenon DEF Tokens, Meter
<1>1. /\ DOMAIN c = DOMAIN b \cup {key}
      /\ \A k \in DOMAIN c : c[k] = Tokens(b, k) + IF k = key THEN n ELSE 0
      /\ c \in [DOMAIN c -> Nat]
  BY <1>0 DEF Added
<1>2. IsFiniteSet(DOMAIN c)  BY <1>1 DEF FiniteFacts, AddFacts, Meter
<1>. HIDE DEF c
<1>3. Meter(c, last)  BY <1>1, <1>2 DEF Meter
<1>4. ASSUME NEW u \in MeteredTenants
      PROVE  Tokens(c, <<u, last>>) = Tokens(b, <<u, last>>) + IF u = t THEN n ELSE 0
  <2>1. <<u, last>> = key <=> u = t  OBVIOUS
  <2>2. CASE <<u, last>> \in DOMAIN c  BY <1>1, <2>1, <2>2 DEF Tokens
  <2>3. CASE <<u, last>> \notin DOMAIN c  BY <1>1, <2>1, <2>3 DEF Tokens
  <2>. QED  BY <2>2, <2>3
<1>. QED  BY <1>1, <1>3, <1>4 DEF c, Counts

\* The caps: evictMapLocked changes nothing that fits.
LEMMA CappedDomain ==
    ASSUME FiniteFacts, NEW b, IsFiniteSet(DOMAIN b), NEW cap \in Nat, NEW c \in Capped(b, cap)
    PROVE  /\ DOMAIN c \subseteq DOMAIN b /\ IsFiniteSet(DOMAIN c) /\ Cardinality(DOMAIN c) <= cap
           /\ Cardinality(DOMAIN b) <= cap => c = b
           /\ c = b \/ (c \in [DOMAIN c -> {b[k] : k \in DOMAIN b}])
<1>1. CASE Cardinality(DOMAIN b) <= cap  BY <1>1 DEF Capped
<1>2. CASE ~(Cardinality(DOMAIN b) <= cap)
  <2>1. PICK kept \in SUBSET DOMAIN b : Cardinality(kept) = cap /\ c = [k \in kept |-> b[k]]
    BY <1>2 DEF Capped
  <2>2. IsFiniteSet(kept)  BY DEF FiniteFacts, SubsetFacts
  <2>. QED  BY <1>2, <2>1, <2>2
<1>. QED  BY <1>1, <1>2

\* The cap on the buckets removes some, and changes none that stay.
LEMMA CappedMeter ==
    ASSUME FiniteFacts, NEW last \in Nat, NEW b, Meter(b, last), NEW cap \in Nat, NEW c \in Capped(b, cap)
    PROVE  /\ Meter(c, last) /\ Cardinality(DOMAIN c) <= cap
           /\ Cardinality(DOMAIN b) <= cap => c = b
<1>1. /\ DOMAIN c \subseteq DOMAIN b /\ IsFiniteSet(DOMAIN c) /\ Cardinality(DOMAIN c) <= cap
      /\ Cardinality(DOMAIN b) <= cap => c = b
      /\ c = b \/ c \in [DOMAIN c -> {b[k] : k \in DOMAIN b}]
  BY CappedDomain DEF Meter
<1>2. {b[k] : k \in DOMAIN b} \subseteq Nat  BY DEF Meter
<1>3. c \in [DOMAIN c -> Nat]  BY <1>1, <1>2, Zenon DEF Meter
<1>. QED  BY <1>1, <1>3 DEF Meter

Agrees(c, b, last) ==
    /\ Meter(c, last) /\ DOMAIN c \subseteq DOMAIN b
    /\ \A u \in MeteredTenants : Tokens(c, <<u, last>>) = Tokens(b, <<u, last>>)

\* Record on one of the maps: it adds to its bucket, and is exact unless the cap is passed.
LEMMA RecordedMeter ==
    ASSUME FiniteFacts, NEW last \in Nat, NEW b, Meter(b, last), NEW t \in MeteredTenants, NEW n \in Nat,
           NEW cap \in Nat, Cardinality(DOMAIN b) <= cap,
           NEW c, Agrees(c, b, last),
           NEW d \in Capped(IF n > 0 THEN Added(c, <<t, last>>, n) ELSE c, cap)
    PROVE  /\ Meter(d, last) /\ Cardinality(DOMAIN d) <= cap
           /\ ~(n > 0 /\ Cardinality(DOMAIN c \cup {<<t, last>>}) > cap) => Counts(d, b, last, t, n)
<1>0. /\ Meter(c, last) /\ DOMAIN c \subseteq DOMAIN b
      /\ \A u \in MeteredTenants : Tokens(c, <<u, last>>) = Tokens(b, <<u, last>>)
  BY DEF Agrees
<1>. DEFINE key == <<t, last>>
            a == Added(c, key, n)
<1>1. Meter(a, last) /\ DOMAIN a = DOMAIN c \cup {key} /\ Counts(a, c, last, t, n)
  BY <1>0, AddedMeter, Zenon
<1>. HIDE DEF a
<1>2. CASE n > 0
  <2>1. d \in Capped(a, cap)  BY <1>2, Zenon DEF a
  <2>2. /\ Meter(d, last) /\ Cardinality(DOMAIN d) <= cap
        /\ Cardinality(DOMAIN a) <= cap => d = a
    BY <1>1, <2>1, CappedMeter
  <2>3. Cardinality(DOMAIN a) \in Nat  BY <1>1, Zenon DEF FiniteFacts, CardinalityFacts, Meter
  <2>4. Cardinality(DOMAIN c \cup {key}) = Cardinality(DOMAIN a)  BY <1>1, Zenon
  <2>5. ASSUME ~(Cardinality(DOMAIN c \cup {key}) > cap) PROVE d = a  BY <2>2, <2>3, <2>4, <2>5
  <2>. QED  BY <1>0, <1>1, <1>2, <2>2, <2>5 DEF Counts
<1>3. CASE n = 0
  <2>1. d \in Capped(c, cap)  BY <1>3
  <2>2. Cardinality(DOMAIN c) <= cap
    <3>1. Cardinality(DOMAIN c) <= Cardinality(DOMAIN b)
      BY <1>0 DEF FiniteFacts, SubsetFacts, Meter
    <3>2. Cardinality(DOMAIN c) \in Nat /\ Cardinality(DOMAIN b) \in Nat
      BY <1>0 DEF FiniteFacts, CardinalityFacts, Meter
    <3>. QED  BY <3>1, <3>2
  <2>3. d = c  BY <1>0, <2>1, <2>2, CappedMeter
  <2>4. \A u \in MeteredTenants : Tokens(b, <<u, last>>) \in Nat  BY DEF Tokens, Meter
  <2>. QED  BY <1>0, <1>3, <2>2, <2>3, <2>4 DEF Counts
<1>. QED  BY <1>2, <1>3

-----------------------------------------------------------------------------
\* The invocations at the provider are counted, and never more than there are callers.
LEMMA PendingCounted ==
    ASSUME FiniteFacts, NEW t
    PROVE  /\ IsFiniteSet(Pending(t)) /\ Cardinality(Pending(t)) \in Nat
           /\ Cardinality(Invokes) \in Nat /\ Cardinality(Pending(t)) <= Cardinality(Invokes)
<1>1. Pending(t) \subseteq Invokes /\ IsFiniteSet(Invokes)  BY UsageConstants DEF Pending
<1>. QED  BY <1>1, Zenon DEF FiniteFacts, SubsetFacts, CardinalityFacts

\* One invocation less leaves its tokens.
LEMMA Product ==
    ASSUME NEW j \in Nat, NEW k \in Nat, j <= k
    PROVE  /\ j * MaxTokens \in Nat /\ k * MaxTokens \in Nat /\ j * MaxTokens <= k * MaxTokens
           /\ (j + 1) * MaxTokens = j * MaxTokens + MaxTokens
<1>1. MaxTokens \in Nat  BY MaxTokensIsMax
<1>2. (k - j) * MaxTokens \in Nat /\ k * MaxTokens = j * MaxTokens + (k - j) * MaxTokens
  BY <1>1
<1>3. j * MaxTokens \in Nat /\ k * MaxTokens \in Nat  BY <1>1
<1>4. (j + 1) * MaxTokens = j * MaxTokens + MaxTokens  BY <1>1
<1>. QED  BY <1>2, <1>3, <1>4

\* Whoever is within the limit may begin one more invocation.
LEMMA LeewayToBegin ==
    ASSUME FiniteFacts, NEW used \in Nat, NEW limit \in Int, used < limit, NEW k \in Nat,
           k <= Cardinality(Invokes)
    PROVE  used + k * MaxTokens < limit + Cardinality(Invokes) * MaxTokens
<1>1. Cardinality(Invokes) \in Nat  BY UsageConstants DEF FiniteFacts, CardinalityFacts
<1>2. /\ k * MaxTokens \in Nat /\ Cardinality(Invokes) * MaxTokens \in Nat
      /\ k * MaxTokens <= Cardinality(Invokes) * MaxTokens
  BY <1>1, Product
<1>. QED  BY <1>2

\* Less that is pending leaves no less leeway.
LEMMA LessPending ==
    ASSUME NEW used \in Nat, NEW limit \in Int, NEW less \in Nat, NEW more \in Nat, NEW all \in Nat,
           less <= more, limit > 0 => used + more < limit + all
    PROVE  /\ limit > 0 => used + less < limit + all
           /\ limit > 0 => used < limit + all
OBVIOUS

\* What is compared: the tokens spent, and the limits of the policy.
LEMMA SpentAndLimits ==
    ASSUME UsageInv, NEW t \in MeteredTenants
    PROVE  /\ spent[t].hour \in Nat /\ spent[t].day \in Nat
           /\ Policy[t].hourly \in Int /\ Policy[t].daily \in Int
  BY UsageConstants, Zenon DEF UsageInv, UsageTypes

\* HandleInvoke lets through a tenant that is within its limits.
LEMMA HandleInvokeKeeps ==
    ASSUME FiniteFacts, UsageInv, NEW i \in Invokes, NEW t \in MeteredTenants, NEW m \in ModelIds,
           HandleInvoke(i, t, m)
    PROVE  UsageInv'
<1>0. UNCHANGED <<meterHour, perTenant, hourlyUsage, dailyUsage, recordCount, spent, lostBuckets>>
  BY DEF HandleInvoke
<1>1. UsageTypeOK' /\ MeterIsExact'
  BY <1>0, Zenon DEF UsageInv, UsageTypeOK, MeterIsExact, Today
<1>2. CASE invocation' = invocation
  BY <1>0, <1>1, <1>2 DEF UsageInv, UsageTypes, BudgetLeeway, Leeway, Pending, Today
<1>3. CASE CheckBudget(t) /\ invocation' = [invocation EXCEPT ![i] = AtProvider(t)]
  <2>1. invocation \in [Invokes -> {NoInvoke} \cup {AtProvider(u) : u \in MeteredTenants}]
    BY DEF UsageInv, UsageTypes
  <2>2. invocation' \in [Invokes -> {NoInvoke} \cup {AtProvider(u) : u \in MeteredTenants}]
    BY <1>3, <2>1
  <2>3. UsageTypes'  BY <1>0, <2>2 DEF UsageInv, UsageTypes, Today
  <2>4. \A u \in MeteredTenants : u # t => AtProvider(u) # AtProvider(t)
    <3>1. \A u \in MeteredTenants : AtProvider(u).tenant = u  BY DEF AtProvider
    <3>. QED  BY <3>1
  <2>5. ASSUME NEW u \in MeteredTenants, u # t PROVE Pending(u)' \subseteq Pending(u)
    BY <1>3, <2>1, <2>4, <2>5 DEF Pending
  <2>6. ASSUME ~lostBuckets', NEW u \in MeteredTenants
        PROVE  Leeway(spent[u].hour, Policy[u].hourly, u)' /\ Leeway(spent[u].day, Policy[u].daily, u)'
    <3>. DEFINE k == Cardinality(Pending(u)')
    <3>0. k \in Nat /\ k <= Cardinality(Invokes)
      <4>1. Pending(u)' \subseteq Invokes /\ IsFiniteSet(Invokes)  BY UsageConstants DEF Pending
      <4>. QED  BY <4>1, Zenon DEF FiniteFacts, SubsetFacts, CardinalityFacts
    <3>1. CASE u = t
      <4>1. /\ Policy[t].hourly > 0 => spent[t].hour < Policy[t].hourly
            /\ Policy[t].daily > 0 => spent[t].day < Policy[t].daily
        BY <1>0, <1>3, <2>6, Zenon DEF UsageInv, MeterIsExact, CheckBudget
      <4>2. /\ spent[t].hour \in Nat /\ spent[t].day \in Nat
            /\ Policy[t].hourly \in Int /\ Policy[t].daily \in Int
        BY SpentAndLimits, Zenon
      <4>. HIDE DEF k
      <4>3. /\ Policy[t].hourly > 0 =>
                 spent[t].hour + k * MaxTokens < Policy[t].hourly + Cardinality(Invokes) * MaxTokens
            /\ Policy[t].daily > 0 =>
                 spent[t].day + k * MaxTokens < Policy[t].daily + Cardinality(Invokes) * MaxTokens
        BY <3>0, <4>1, <4>2, LeewayToBegin, Zenon
      <4>. QED  BY <1>0, <3>1, <4>3, Zenon DEF Leeway, k
    <3>2. CASE u # t
      <4>1. k <= Cardinality(Pending(u)) /\ Cardinality(Pending(u)) \in Nat
        BY <2>5, <3>2, PendingCounted DEF FiniteFacts, SubsetFacts
      <4>2. Leeway(spent[u].hour, Policy[u].hourly, u) /\ Leeway(spent[u].day, Policy[u].daily, u)
        BY <1>0, <2>6, Zenon DEF UsageInv, BudgetLeeway
      <4>. HIDE DEF k
      <4>3. /\ k * MaxTokens <= Cardinality(Pending(u)) * MaxTokens
            /\ k * MaxTokens \in Nat /\ Cardinality(Pending(u)) * MaxTokens \in Nat
            /\ Cardinality(Invokes) * MaxTokens \in Nat
        BY <3>0, <4>1, Product, PendingCounted
      <4>4. /\ spent[u].hour \in Nat /\ spent[u].day \in Nat
            /\ Policy[u].hourly \in Int /\ Policy[u].daily \in Int
        BY SpentAndLimits, Zenon
      <4>5. /\ Policy[u].hourly > 0 =>
                 spent[u].hour + k * MaxTokens < Policy[u].hourly + Cardinality(Invokes) * MaxTokens
            /\ Policy[u].daily > 0 =>
                 spent[u].day + k * MaxTokens < Policy[u].daily + Cardinality(Invokes) * MaxTokens
        BY <4>2, <4>3, <4>4, LessPending, Zenon DEF Leeway
      <4>. QED  BY <1>0, <4>5, Zenon DEF Leeway, k
    <3>. QED  BY <3>1, <3>2, Zenon
  <2>7. BudgetLeeway'  BY <2>6, Zenon DEF BudgetLeeway
  <2>. QED  BY <1>1, <2>3, <2>7 DEF UsageInv
<1>. QED  BY <1>2, <1>3 DEF HandleInvoke, AtProvider

\* An invocation that leaves the provider: one less is pending for its tenant.
LEMMA LeavesProvider ==
    ASSUME UsageTypes, NEW i \in Invokes, invocation[i].pc = "provider",
           invocation' = [invocation EXCEPT ![i] = NoInvoke]
    PROVE  /\ invocation[i].tenant \in MeteredTenants
           /\ invocation' \in [Invokes -> {NoInvoke} \cup {AtProvider(u) : u \in MeteredTenants}]
           /\ \A u \in MeteredTenants : Pending(u)' = Pending(u) \ {i}
           /\ i \in Pending(invocation[i].tenant)
<1>1. invocation \in [Invokes -> {NoInvoke} \cup {AtProvider(u) : u \in MeteredTenants}]
  BY DEF UsageTypes
<1>2. NoInvoke.pc = "idle" /\ \A u : AtProvider(u).pc = "provider" /\ AtProvider(u).tenant = u
  BY DEF NoInvoke, AtProvider
<1>3. PICK t \in MeteredTenants : invocation[i] = AtProvider(t)  BY <1>1, <1>2
<1>4. invocation[i].tenant = t  BY <1>2, <1>3
<1>5. \A u \in MeteredTenants : Pending(u)' = Pending(u) \ {i}  BY <1>1, <1>2 DEF Pending
<1>. QED  BY <1>1, <1>3, <1>4, <1>5 DEF Pending

\* What is left of the bound when tokens are recorded or an invocation is given up.
LEMMA LeewayLeft ==
    ASSUME FiniteFacts, NEW used \in Nat, NEW limit \in Int, NEW t, NEW i \in Invokes,
           NEW n \in 0..MaxTokens,
           Leeway(used, limit, t), Pending(t)' = Pending(t) \ {i}, n > 0 => i \in Pending(t)
    PROVE  limit > 0 =>
             used + n + Cardinality(Pending(t)') * MaxTokens < limit + Cardinality(Invokes) * MaxTokens
<1>. DEFINE k == Cardinality(Pending(t))
            j == Cardinality(Pending(t)')
<1>1. k \in Nat /\ IsFiniteSet(Pending(t)) /\ Cardinality(Invokes) \in Nat  BY PendingCounted
<1>2. j = IF i \in Pending(t) THEN k - 1 ELSE k
  <2>1. Cardinality(Pending(t) \ {i}) = IF i \in Pending(t) THEN k - 1 ELSE k
    BY <1>1, Zenon DEF FiniteFacts, RemoveFacts
  <2>. QED  BY <2>1, Zenon
<1>3. j \in Nat
  BY <1>1 DEF FiniteFacts, RemoveFacts, CardinalityFacts
<1>. HIDE DEF j
<1>4. MaxTokens \in Nat /\ Cardinality(Invokes) * MaxTokens \in Nat
  BY <1>1, Product, MaxTokensIsMax
<1>5. CASE i \in Pending(t)
  <2>1. k = j + 1  BY <1>1, <1>2, <1>3, <1>5
  <2>2. k * MaxTokens = j * MaxTokens + MaxTokens /\ j * MaxTokens \in Nat
    BY <2>1, <1>3, Product
  <2>3. limit > 0 => used + k * MaxTokens < limit + Cardinality(Invokes) * MaxTokens
    BY DEF Leeway
  <2>. HIDE DEF k
  <2>4. limit > 0 => used + n + j * MaxTokens < limit + Cardinality(Invokes) * MaxTokens
    BY <1>4, <2>2, <2>3
  <2>. QED  BY <2>4 DEF j
<1>6. CASE i \notin Pending(t)
  <2>1. n = 0 /\ k = j  BY <1>1, <1>2, <1>4, <1>6
  <2>2. limit > 0 => used + k * MaxTokens < limit + Cardinality(Invokes) * MaxTokens
    BY DEF Leeway
  <2>. QED  BY <2>1, <2>2 DEF j
<1>. QED  BY <1>5, <1>6

\* An invocation that fails uses nothing.
LEMMA InvokeFailsKeeps ==
    ASSUME FiniteFacts, UsageInv, NEW i \in Invokes, InvokeFails(i) PROVE UsageInv'
<1>0. UNCHANGED <<meterHour, perTenant, hourlyUsage, dailyUsage, recordCount, spent, lostBuckets>>
  BY DEF InvokeFails
<1>1. UsageTypeOK' /\ MeterIsExact'
  BY <1>0, Zenon DEF UsageInv, UsageTypeOK, MeterIsExact, Today
<1>2. /\ invocation' \in [Invokes -> {NoInvoke} \cup {AtProvider(u) : u \in MeteredTenants}]
      /\ \A u \in MeteredTenants : Pending(u)' = Pending(u) \ {i}
  BY LeavesProvider, Zenon DEF InvokeFails, UsageInv
<1>3. UsageTypes'  BY <1>0, <1>2, Zenon DEF UsageInv, UsageTypes, Today
<1>4. ASSUME ~lostBuckets', NEW u \in MeteredTenants
      PROVE  Leeway(spent[u].hour, Policy[u].hourly, u)' /\ Leeway(spent[u].day, Policy[u].daily, u)'
  <2>. DEFINE none == 0
  <2>1. Leeway(spent[u].hour, Policy[u].hourly, u) /\ Leeway(spent[u].day, Policy[u].daily, u)
    BY <1>0, <1>4, Zenon DEF UsageInv, BudgetLeeway
  <2>2. /\ spent[u].hour \in Nat /\ spent[u].day \in Nat /\ none \in 0..MaxTokens /\ ~(none > 0)
        /\ Policy[u].hourly \in Int /\ Policy[u].daily \in Int
    <3>1. none \in 0..MaxTokens /\ ~(none > 0)
      <4>1. MaxTokens \in Nat  BY MaxTokensIsMax, Zenon
      <4>. QED  BY <4>1
    <3>. QED  BY <3>1, SpentAndLimits, Zenon
  <2>3. spent[u].hour + none = spent[u].hour /\ spent[u].day + none = spent[u].day
    <3>1. \A x \in Nat : x + none = x  OBVIOUS
    <3>. QED  BY <2>2, <3>1, Zenon
  <2>. HIDE DEF none
  <2>4. Pending(u)' = Pending(u) \ {i}  BY <1>2
  <2>5. Policy[u].hourly > 0 =>
             spent[u].hour + none + Cardinality(Pending(u)') * MaxTokens
               < Policy[u].hourly + Cardinality(Invokes) * MaxTokens
    BY <2>1, <2>2, <2>4, LeewayLeft, Zenon
  <2>6. Policy[u].daily > 0 =>
             spent[u].day + none + Cardinality(Pending(u)') * MaxTokens
               < Policy[u].daily + Cardinality(Invokes) * MaxTokens
    BY <2>1, <2>2, <2>4, LeewayLeft, Zenon
  <2>. QED  BY <1>0, <2>3, <2>5, <2>6, Zenon DEF Leeway
<1>5. BudgetLeeway'  BY <1>4, Zenon DEF BudgetLeeway
<1>. QED  BY <1>1, <1>3, <1>5, Zenon DEF UsageInv

\* Record after the answer: what was pending is now spent, and counted.
LEMMA RecordKeeps ==
    ASSUME FiniteFacts, UsageInv, NEW i \in Invokes, NEW n \in TokenCounts, Record(i, n)
    PROVE  UsageInv'
<1>. DEFINE t == invocation[i].tenant
            sweep == (recordCount + 1) % SweepEvery = 0
            hours == IF sweep THEN Swept(hourlyUsage, meterHour - HourlyTTL) ELSE hourlyUsage
            days == IF sweep THEN Swept(dailyUsage, Today - DailyTTL) ELSE dailyUsage
<1>0. /\ invocation[i].pc = "provider" /\ invocation' = [invocation EXCEPT ![i] = NoInvoke]
      /\ recordCount' = recordCount + 1 /\ RecordInto(t, n, hours, days)
      /\ spent' = [spent EXCEPT ![t] = [hour |-> spent[t].hour + n, day |-> spent[t].day + n]]
      /\ meterHour' = meterHour /\ Today' = Today
  BY DEF Record, Today, UsageInv, UsageTypes
<1>1. /\ t \in MeteredTenants
      /\ invocation' \in [Invokes -> {NoInvoke} \cup {AtProvider(u) : u \in MeteredTenants}]
      /\ \A u \in MeteredTenants : Pending(u)' = Pending(u) \ {i}
      /\ i \in Pending(t)
  BY <1>0, LeavesProvider, Zenon DEF UsageInv
<1>2. /\ n \in Nat /\ n \in 0..MaxTokens /\ meterHour \in Nat /\ Today \in Nat /\ recordCount \in Nat
      /\ meterHour - HourlyTTL \in Int /\ meterHour - HourlyTTL <= meterHour
      /\ Today - DailyTTL \in Int /\ Today - DailyTTL <= Today
      /\ MaxHourlyBuckets \in Nat /\ MaxDailyBuckets \in Nat /\ MaxMeteredTenants \in Nat
  <2>1. meterHour \in Nat /\ recordCount \in Nat  BY DEF UsageInv, UsageTypes
  <2>2. Today \in Nat  BY <2>1, DayOfNextHour, Zenon DEF Today
  <2>. QED  BY <2>1, <2>2, UsageConstants, MaxTokensIsMax
<1>3. /\ Meter(hourlyUsage, meterHour) /\ Meter(dailyUsage, Today)
      /\ Cardinality(DOMAIN hourlyUsage) <= MaxHourlyBuckets
      /\ Cardinality(DOMAIN dailyUsage) <= MaxDailyBuckets
  BY Zenon DEF UsageInv, UsageTypes, UsageTypeOK
<1>4. Agrees(hours, hourlyUsage, meterHour)  BY <1>2, <1>3, SweptMeter DEF Agrees
<1>5. Agrees(days, dailyUsage, Today)  BY <1>2, <1>3, SweptMeter DEF Agrees
<1>. HIDE DEF t, hours, days
<1>6. /\ hourlyUsage' \in Capped(IF n > 0 THEN Added(hours, <<t, meterHour>>, n) ELSE hours,
                                 MaxHourlyBuckets)
      /\ dailyUsage' \in Capped(IF n > 0 THEN Added(days, <<t, Today>>, n) ELSE days,
                                MaxDailyBuckets)
      /\ perTenant' \in Capped(Added(perTenant, t, n), MaxMeteredTenants)
      /\ lostBuckets' = (lostBuckets \/ (n > 0 /\
            \/ Cardinality(DOMAIN hours \cup {<<t, meterHour>>}) > MaxHourlyBuckets
            \/ Cardinality(DOMAIN days \cup {<<t, Today>>}) > MaxDailyBuckets))
  BY <1>0, Zenon DEF RecordInto
<1>7. /\ Meter(hourlyUsage', meterHour) /\ Cardinality(DOMAIN hourlyUsage') <= MaxHourlyBuckets
      /\ ~(n > 0 /\ Cardinality(DOMAIN hours \cup {<<t, meterHour>>}) > MaxHourlyBuckets) =>
            Counts(hourlyUsage', hourlyUsage, meterHour, t, n)
  BY <1>1, <1>2, <1>3, <1>4, <1>6, RecordedMeter, ZenonT(30)
<1>8. /\ Meter(dailyUsage', Today) /\ Cardinality(DOMAIN dailyUsage') <= MaxDailyBuckets
      /\ ~(n > 0 /\ Cardinality(DOMAIN days \cup {<<t, Today>>}) > MaxDailyBuckets) =>
            Counts(dailyUsage', dailyUsage, Today, t, n)
  BY <1>1, <1>2, <1>3, <1>5, <1>6, RecordedMeter, Zenon
<1>9. IsFiniteSet(DOMAIN perTenant') /\ Cardinality(DOMAIN perTenant') <= MaxMeteredTenants
  <2>1. DOMAIN Added(perTenant, t, n) = DOMAIN perTenant \cup {t}  BY Zenon DEF Added
  <2>2. IsFiniteSet(DOMAIN Added(perTenant, t, n))
    BY <2>1 DEF FiniteFacts, AddFacts, UsageInv, UsageTypes
  <2>. QED  BY <1>2, <1>6, <2>2, CappedDomain
<1>10. /\ spent' \in [MeteredTenants -> [hour : Nat, day : Nat]]
       /\ \A u \in MeteredTenants : /\ spent'[u].hour = spent[u].hour + IF u = t THEN n ELSE 0
                                    /\ spent'[u].day = spent[u].day + IF u = t THEN n ELSE 0
  <2>1. spent \in [MeteredTenants -> [hour : Nat, day : Nat]]  BY DEF UsageInv, UsageTypes
  <2>. QED  BY <2>1, <1>0, <1>1, <1>2
<1>11. lostBuckets' \in BOOLEAN  BY <1>6, Zenon DEF UsageInv, UsageTypes
<1>12. UsageTypes'
  <2>1. meterHour' \in Nat /\ recordCount' \in Nat  BY <1>0, <1>2
  <2>2. Meter(hourlyUsage', meterHour') /\ Meter(dailyUsage', Today')
    BY <1>0, <1>7, <1>8, Zenon
  <2>. QED  BY <1>1, <1>9, <1>10, <1>11, <2>1, <2>2, Zenon DEF UsageTypes
<1>13. UsageTypeOK'  BY <1>7, <1>8, <1>9, Zenon DEF UsageTypeOK
<1>14. MeterIsExact'
  <2>. SUFFICES ASSUME ~lostBuckets', NEW u \in MeteredTenants
                PROVE  /\ Tokens(hourlyUsage', <<u, meterHour>>) = spent'[u].hour
                       /\ Tokens(dailyUsage', <<u, Today>>) = spent'[u].day
    BY <1>0 DEF MeterIsExact
  <2>1. /\ ~lostBuckets
        /\ ~(n > 0 /\ Cardinality(DOMAIN hours \cup {<<t, meterHour>>}) > MaxHourlyBuckets)
        /\ ~(n > 0 /\ Cardinality(DOMAIN days \cup {<<t, Today>>}) > MaxDailyBuckets)
    BY <1>6, Zenon
  <2>2. /\ Tokens(hourlyUsage, <<u, meterHour>>) = spent[u].hour
        /\ Tokens(dailyUsage, <<u, Today>>) = spent[u].day
    BY <2>1, Zenon DEF UsageInv, MeterIsExact
  <2>. QED  BY <1>7, <1>8, <1>10, <2>1, <2>2, Zenon DEF Counts
<1>15. ASSUME ~lostBuckets', NEW u \in MeteredTenants
       PROVE  Leeway(spent[u].hour, Policy[u].hourly, u)' /\ Leeway(spent[u].day, Policy[u].daily, u)'
  <2>. DEFINE a == IF u = t THEN n ELSE 0
  <2>1. ~lostBuckets  BY <1>6, <1>15, Zenon
  <2>2. Leeway(spent[u].hour, Policy[u].hourly, u) /\ Leeway(spent[u].day, Policy[u].daily, u)
    BY <2>1, Zenon DEF UsageInv, BudgetLeeway
  <2>3. /\ spent[u].hour \in Nat /\ spent[u].day \in Nat
        /\ Policy[u].hourly \in Int /\ Policy[u].daily \in Int
    BY UsageConstants, Zenon DEF UsageInv, UsageTypes
  <2>4. a \in 0..MaxTokens /\ (a > 0 => i \in Pending(u))  BY <1>1, <1>2, MaxTokensIsMax
  <2>5. spent'[u].hour = spent[u].hour + a /\ spent'[u].day = spent[u].day + a  BY <1>10, Zenon
  <2>. HIDE DEF a
  <2>6. /\ Policy[u].hourly > 0 =>
             spent[u].hour + a + Cardinality(Pending(u)') * MaxTokens
               < Policy[u].hourly + Cardinality(Invokes) * MaxTokens
        /\ Policy[u].daily > 0 =>
             spent[u].day + a + Cardinality(Pending(u)') * MaxTokens
               < Policy[u].daily + Cardinality(Invokes) * MaxTokens
    BY <1>1, <2>2, <2>3, <2>4, LeewayLeft, Zenon
  <2>. QED  BY <2>5, <2>6 DEF Leeway
<1>16. BudgetLeeway'  BY <1>15, Zenon DEF BudgetLeeway
<1>. QED  BY <1>12, <1>13, <1>14, <1>16, Zenon DEF UsageInv

\* A new hour, and a new day, begin with nothing spent and no bucket.
LEMMA NextHourKeeps ==
    ASSUME FiniteFacts, UsageInv, NextHour PROVE UsageInv'
<1>0. /\ meterHour' = meterHour + 1 /\ meterHour \in Nat
      /\ UNCHANGED <<perTenant, hourlyUsage, dailyUsage, recordCount, invocation, lostBuckets>>
  BY DEF NextHour, UsageInv, UsageTypes
<1>1. /\ Today \in Nat /\ Today' \in Nat
      /\ meterHour' % HoursPerDay # 0 => Today' = Today
      /\ meterHour' % HoursPerDay = 0 => Today' > Today
  BY <1>0, DayOfNextHour DEF Today
<1>2. /\ spent' \in [MeteredTenants -> [hour : Nat, day : Nat]]
      /\ \A u \in MeteredTenants :
            /\ spent'[u].hour = 0
            /\ spent'[u].day = IF meterHour' % HoursPerDay = 0 THEN 0 ELSE spent[u].day
  <2>1. spent \in [MeteredTenants -> [hour : Nat, day : Nat]]  BY Zenon DEF UsageInv, UsageTypes
  <2>2. spent' = [u \in MeteredTenants |->
                    [hour |-> 0, day |-> IF meterHour' % HoursPerDay = 0 THEN 0 ELSE spent[u].day]]
    BY <1>0 DEF NextHour
  <2>. QED  BY <2>1, <2>2
<1>3. /\ Meter(hourlyUsage, meterHour) /\ Meter(dailyUsage, Today)
  BY DEF UsageInv, UsageTypes
<1>4. Meter(hourlyUsage, meterHour') /\ Meter(dailyUsage, Today')
  <2>1. 0..meterHour \subseteq 0..meterHour' /\ 0..Today \subseteq 0..Today'
    BY <1>0, <1>1, SMTT(30)
  <2>. QED  BY <1>3, <2>1 DEF Meter
<1>5. UsageTypes' /\ UsageTypeOK'
  BY <1>0, <1>2, <1>4 DEF UsageInv, UsageTypes, UsageTypeOK
<1>6. \A u \in MeteredTenants :
         /\ <<u, meterHour'>> \notin DOMAIN hourlyUsage
         /\ Today' > Today => <<u, Today'>> \notin DOMAIN dailyUsage
  BY <1>0, <1>1, <1>3, SMTT(30) DEF Meter
<1>7. MeterIsExact'
  <2>. SUFFICES ASSUME ~lostBuckets, NEW u \in MeteredTenants
                PROVE  /\ Tokens(hourlyUsage, <<u, meterHour'>>) = spent'[u].hour
                       /\ Tokens(dailyUsage, <<u, Today'>>) = spent'[u].day
    BY <1>0, Zenon DEF MeterIsExact
  <2>1. Tokens(dailyUsage, <<u, Today>>) = spent[u].day  BY Zenon DEF UsageInv, MeterIsExact
  <2>2. Tokens(hourlyUsage, <<u, meterHour'>>) = 0  BY <1>6, Zenon DEF Tokens
  <2>3. CASE meterHour' % HoursPerDay = 0
    <3>1. Tokens(dailyUsage, <<u, Today'>>) = 0  BY <1>1, <1>6, <2>3, Zenon DEF Tokens
    <3>. QED  BY <1>2, <2>2, <2>3, <3>1
  <2>4. CASE meterHour' % HoursPerDay # 0  BY <1>1, <1>2, <2>1, <2>2, <2>4
  <2>. QED  BY <2>3, <2>4
<1>8. ASSUME ~lostBuckets', NEW u \in MeteredTenants
      PROVE  Leeway(spent[u].hour, Policy[u].hourly, u)' /\ Leeway(spent[u].day, Policy[u].daily, u)'
  <2>. DEFINE k == Cardinality(Pending(u))
  <2>1. k \in Nat /\ k <= Cardinality(Invokes) /\ k = Cardinality(Pending(u)')
    BY <1>0, PendingCounted, Zenon DEF Pending
  <2>2. Policy[u].hourly \in Int /\ Policy[u].daily \in Int  BY UsageConstants
  <2>3. ASSUME NEW limit \in Int, limit > 0
        PROVE  0 + k * MaxTokens < limit + Cardinality(Invokes) * MaxTokens
    <3>. HIDE DEF k
    <3>. QED  BY <2>1, <2>3, LeewayToBegin
  <2>4. Leeway(spent[u].day, Policy[u].daily, u)  BY <1>0, <1>8, Zenon DEF UsageInv, BudgetLeeway
  <2>5. CASE meterHour' % HoursPerDay = 0  BY <1>2, <2>1, <2>2, <2>3, <2>5, Zenon DEF Leeway
  <2>6. CASE meterHour' % HoursPerDay # 0  BY <1>2, <2>1, <2>2, <2>3, <2>4, <2>6, Zenon DEF Leeway
  <2>. QED  BY <2>5, <2>6, Zenon
<1>9. BudgetLeeway'  BY <1>8 DEF BudgetLeeway
<1>. QED  BY <1>5, <1>7, <1>9, Zenon DEF UsageInv

\* The invariant holds at the start.
LEMMA UsageInitInv == FiniteFacts /\ UsageInit => UsageInv
<1>. SUFFICES ASSUME FiniteFacts, UsageInit PROVE UsageInv  OBVIOUS
<1>1. /\ DOMAIN perTenant = {} /\ DOMAIN hourlyUsage = {} /\ DOMAIN dailyUsage = {}
      /\ hourlyUsage \in [{} -> Nat] /\ dailyUsage \in [{} -> Nat]
  BY DEF UsageInit
<1>2. meterHour = 0 /\ Today \in Nat  BY DayOfNextHour DEF UsageInit, Today
<1>3. Meter(hourlyUsage, meterHour) /\ Meter(dailyUsage, Today)
  BY <1>1 DEF FiniteFacts, EmptySetFacts, Meter
<1>4. UsageTypes
  <2>1. spent \in [MeteredTenants -> [hour : Nat, day : Nat]]  BY DEF UsageInit
  <2>2. invocation \in [Invokes -> {NoInvoke} \cup {AtProvider(t) : t \in MeteredTenants}]
    BY Zenon DEF UsageInit
  <2>. QED  BY <1>1, <1>3, <2>1, <2>2, Zenon DEF FiniteFacts, EmptySetFacts, UsageInit, UsageTypes
<1>5. UsageTypeOK  BY <1>1, UsageConstants DEF FiniteFacts, EmptySetFacts, UsageTypeOK
<1>6. MeterIsExact  BY <1>1, Zenon DEF UsageInit, MeterIsExact, Tokens
<1>7. BudgetLeeway
  <2>. SUFFICES ASSUME NEW t \in MeteredTenants
                PROVE  Leeway(spent[t].hour, Policy[t].hourly, t) /\ Leeway(spent[t].day, Policy[t].daily, t)
    BY DEF BudgetLeeway
  <2>1. spent[t].hour = 0 /\ spent[t].day = 0  BY Zenon DEF UsageInit
  <2>2. Policy[t].hourly \in Int /\ Policy[t].daily \in Int  BY UsageConstants
  <2>. QED  BY <2>1, <2>2, PendingCounted, LeewayToBegin, Zenon DEF Leeway
<1>. QED  BY <1>4, <1>5, <1>6, <1>7 DEF UsageInv

\* Every step of the model service keeps the invariant.
LEMMA UsageNextInv == FiniteFacts /\ UsageInv /\ [UsageNext]_usageVars => UsageInv'
<1>. SUFFICES ASSUME FiniteFacts, UsageInv, [UsageNext]_usageVars PROVE UsageInv'  OBVIOUS
<1>1. ASSUME NEW i \in Invokes, NEW t \in MeteredTenants, NEW m \in ModelIds, HandleInvoke(i, t, m)
      PROVE  UsageInv'
  BY <1>1, HandleInvokeKeeps
<1>2. ASSUME NEW i \in Invokes, InvokeFails(i) PROVE UsageInv'  BY <1>2, InvokeFailsKeeps
<1>3. ASSUME NEW i \in Invokes, NEW n \in TokenCounts, Record(i, n) PROVE UsageInv'
  BY <1>3, RecordKeeps
<1>4. CASE NextHour  BY <1>4, NextHourKeeps, Zenon
<1>5. CASE UNCHANGED usageVars
  BY <1>5 DEF usageVars, UsageInv, UsageTypes, UsageTypeOK, MeterIsExact, BudgetLeeway, Leeway,
              Pending, Today
<1>. QED  BY <1>1, <1>2, <1>3, <1>4, <1>5 DEF UsageNext

\* What the invariant says of the budgets.
LEMMA UsageInvSuffices ==
    ASSUME FiniteFacts, UsageInv PROVE UsageTypeOK /\ MeteringIsSound
<1>1. ASSUME ~lostBuckets, NEW t \in MeteredTenants
      PROVE  /\ Policy[t].hourly > 0 =>
                  spent[t].hour < Policy[t].hourly + Cardinality(Invokes) * MaxTokens
             /\ Policy[t].daily > 0 =>
                  spent[t].day < Policy[t].daily + Cardinality(Invokes) * MaxTokens
  <2>1. Leeway(spent[t].hour, Policy[t].hourly, t) /\ Leeway(spent[t].day, Policy[t].daily, t)
    BY <1>1, Zenon DEF UsageInv, BudgetLeeway
  <2>2. /\ Cardinality(Pending(t)) * MaxTokens \in Nat
        /\ Cardinality(Invokes) * MaxTokens \in Nat
    BY PendingCounted, Product, Zenon
  <2>3. Cardinality(Pending(t)) * MaxTokens <= Cardinality(Pending(t)) * MaxTokens  BY <2>2
  <2>. QED  BY <2>1, <2>2, <2>3, SpentAndLimits, LessPending, Zenon DEF Leeway
<1>2. BudgetHolds  BY <1>1, Zenon DEF BudgetHolds
<1>. QED  BY <1>2, Zenon DEF UsageInv, MeteringIsSound

-----------------------------------------------------------------------------
INSTANCE FiniteSetTheorems

\* What the lemmas assume of finite sets, from the library.
LEMMA FiniteFactsHold == FiniteFacts
<1>1. EmptySetFacts  BY FS_EmptySet DEF EmptySetFacts
<1>2. CardinalityFacts  BY FS_CardinalityType DEF CardinalityFacts
<1>3. SubsetFacts  BY FS_Subset, Zenon DEF SubsetFacts
<1>4. AddFacts  BY FS_AddElement DEF AddFacts
<1>5. RemoveFacts  BY FS_RemoveElement DEF RemoveFacts
<1>6. SingletonFacts  BY FS_Singleton, Zenon DEF SingletonFacts
<1>. QED  BY <1>1, <1>2, <1>3, <1>4, <1>5, <1>6, Zenon DEF FiniteFacts

\* A half-open slot belongs to a call at the provider or to a probe that ended with
\* a non-retryable error: the retry loop leaks slots in no other way.
THEOREM SlotsBelongToProbes == BreakerSpec => []SlotsHaveProbes
<1>1. BreakerInit => SlotsHaveProbes
  BY DEF BreakerInit, SlotsHaveProbes
<1>2. ResilienceInv /\ ResilienceInv' /\ SlotsHaveProbes /\ [BreakerNext]_breakerVars => SlotsHaveProbes'
  BY FiniteFactsHold, ProbesStep
<1>3. QED
  BY <1>1, <1>2, BreakerInvHolds, PTL DEF BreakerSpec

\* Both together, for any number of calls, attempts, failures and slots.
THEOREM BreakerStaysSound == BreakerSpec => []BreakerIsSound
<1>1. ClosedBelowThreshold /\ SlotsHaveProbes => BreakerIsSound
  BY DEF BreakerIsSound
<1>2. QED
  BY <1>1, ClosedOnlyBelowThreshold, SlotsBelongToProbes, PTL

\* The usage meter, for every number of tenants and callers, every policy, every cap and
\* every length of the sweep and of the day: what CheckBudget reads is exact until a cap
\* drops a bucket, and an hour or a day ends above its limit by at most one answer of
\* each caller.
THEOREM BudgetsMetered == UsageSpec => [](UsageTypeOK /\ MeteringIsSound)
<1>1. UsageInit => UsageInv  BY FiniteFactsHold, UsageInitInv
<1>2. UsageInv /\ [UsageNext]_usageVars => UsageInv'  BY FiniteFactsHold, UsageNextInv
<1>3. UsageInv => UsageTypeOK /\ MeteringIsSound  BY FiniteFactsHold, UsageInvSuffices
<1>. QED  BY <1>1, <1>2, <1>3, PTL DEF UsageSpec

=============================================================================
