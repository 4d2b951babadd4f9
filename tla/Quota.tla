------------------------------- MODULE Quota -------------------------------
(***************************************************************************)
(* The per-tenant quota gate: a token bucket for requests per second and a *)
(* counter of concurrent runs, in memory or in the quota_state table. Time *)
(* is in ticks of one Refill-th of a token, so that a bucket level is a    *)
(* number of ticks and an empty bucket is full after Full ticks (a second).*)
(***************************************************************************)
EXTENDS Integers, Sequences

CONSTANTS
    Tenants,
    NoTenant,
    Qps,            \* tokens in a full bucket, and earned per second
    Refill,         \* ticks to earn one token
    MaxConcurrent,  \* Limiter.maxConcurrent
    IdleTTL,        \* bucketIdleTTL, in ticks
    MaxTime         \* bound: ticks explored

Full == Qps * Refill

\* bucketIdleTTL is an hour, a bucket fills up in a second.
ASSUME QuotaConstants ==
    /\ Qps \in Nat \ {0} /\ Refill \in Nat \ {0} /\ MaxConcurrent \in Nat \ {0}
    /\ IdleTTL \in Nat /\ IdleTTL >= Full /\ MaxTime \in Nat
    /\ NoTenant \notin Tenants

VARIABLES
    backend,  \* AGENTOS_QUOTA_BACKEND
    now,
    bucket,   \* bucket[t]: the tenant's bucket, or its row
    conc,     \* conc[t]: its concurrent counter
    granted,  \* history: granted[t], the times of the granted requests
    refused   \* history: the tenant the last step refused, if any

quotaVars == <<backend, now, bucket, conc, granted, refused>>

NoBucket == [known |-> FALSE, level |-> 0, at |-> 0]
Bucket(level) == [known |-> TRUE, level |-> level, at |-> now]

QuotaInit ==
    /\ backend \in {"memory", "postgres"}
    /\ now = 0 /\ refused = NoTenant
    /\ bucket = [t \in Tenants |-> NoBucket]
    /\ conc = [t \in Tenants |-> 0]
    /\ granted = [t \in Tenants |-> <<>>]

-----------------------------------------------------------------------------
AtMostFull(level) == IF level > Full THEN Full ELSE level

Refilled(b) == AtMostFull(b.level + (now - b.at))

Answer(t, ok) ==
    /\ granted' = [granted EXCEPT ![t] = IF ok THEN Append(@, now) ELSE @]
    /\ refused' = IF ok THEN NoTenant ELSE t

\* A fresh bucket is full; every call moves the refill time, refused or not.
MemoryBucket(b) == IF b.known THEN Refilled(b) ELSE Full

SweptUnused(u) == bucket[u].known /\ bucket[u].at < now

SweptIdle(u) == bucket[u].known /\ bucket[u].at + IdleTTL < now

MemoryAllowQPS(t) ==
    \E sweep \in BOOLEAN :
        LET kept  == [u \in Tenants |-> IF sweep /\ SweptIdle(u) THEN NoBucket ELSE bucket[u]]
            level == MemoryBucket(kept[t])
            ok    == level >= Refill
        IN /\ bucket' = [kept EXCEPT ![t] = Bucket(IF ok THEN level - Refill ELSE level)]
           /\ Answer(t, ok)

\* The UPDATE of the statement does not see the row its WITH clause inserts, so the
\* call that creates the row is refused; so is one the database fails.
PostgresAllowQPS(t) ==
    \/ /\ ~bucket[t].known
       /\ bucket' = [bucket EXCEPT ![t] = Bucket(Full)] /\ Answer(t, FALSE)
    \/ LET level == Refilled(bucket[t])
           ok    == level >= Refill
       IN /\ bucket[t].known
          /\ bucket' = IF ok THEN [bucket EXCEPT ![t] = Bucket(level - Refill)] ELSE bucket
          /\ Answer(t, ok)
    \/ UNCHANGED bucket /\ Answer(t, FALSE)

AllowQPS(t) ==
    /\ IF backend = "memory" THEN MemoryAllowQPS(t) ELSE PostgresAllowQPS(t)
    /\ UNCHANGED <<backend, now, conc>>

\* A row that TryIncConcurrent creates has no tokens, and is not seen either.
CreateRow(t) ==
    IF backend = "postgres" /\ ~bucket[t].known
    THEN bucket' = [bucket EXCEPT ![t] = Bucket(0)] ELSE UNCHANGED bucket

TryIncConcurrent(t) ==
    /\ CreateRow(t)
    /\ conc' = IF conc[t] < MaxConcurrent /\ (backend = "postgres" => bucket[t].known)
               THEN [conc EXCEPT ![t] = @ + 1] ELSE conc
    /\ refused' = NoTenant
    /\ UNCHANGED <<backend, now, granted>>

DecConcurrent(t) ==
    /\ conc' = [conc EXCEPT ![t] = IF @ = 0 THEN 0 ELSE @ - 1]
    /\ refused' = NoTenant
    /\ UNCHANGED <<backend, now, bucket, granted>>

\* WithInitialConcurrent, at startup: the runs found in progress.
WithInitialConcurrent(t) ==
    /\ now = 0 /\ granted[t] = <<>> /\ conc[t] = 0
    /\ CreateRow(t)
    /\ \E n \in 1..(MaxConcurrent + 1) : conc' = [conc EXCEPT ![t] = n]
    /\ refused' = NoTenant
    /\ UNCHANGED <<backend, now, granted>>

Tick ==
    /\ now < MaxTime
    /\ now' = now + 1 /\ refused' = NoTenant
    /\ UNCHANGED <<backend, bucket, conc, granted>>

QuotaNext ==
    \/ Tick
    \/ \E t \in Tenants :
          AllowQPS(t) \/ TryIncConcurrent(t) \/ DecConcurrent(t) \/ WithInitialConcurrent(t)

QuotaSpec == QuotaInit /\ [][QuotaNext]_quotaVars

-----------------------------------------------------------------------------
(* Properties *)

BucketState == [known : BOOLEAN, level : Nat, at : Nat]

\* Type invariant: levels and counters never go below zero (DecConcurrent's floor).
QuotaTypeOK ==
    /\ backend \in {"memory", "postgres"} /\ now \in Nat
    /\ bucket \in [Tenants -> BucketState]
    /\ conc \in [Tenants -> Nat]
    /\ granted \in [Tenants -> Seq(Nat)]
    /\ refused \in Tenants \cup {NoTenant}

\* AllowQPS lets no tenant exceed its rate over any interval: the requests granted
\* from one moment to another are at most a full bucket plus what is earned in
\* between, with either backend and whatever the sweep of idle buckets forgets.
RateRespected ==
    \A t \in Tenants : \A i, j \in 1..Len(granted[t]) : i <= j =>
        (j - i + 1) * Refill <= Full + (granted[t][j] - granted[t][i])

\* The in-memory limiter refuses a request only when granting it would break that
\* rate: some past grant starts an interval that has no room for one more.
RefusalsAreNeeded ==
    refused # NoTenant /\ backend = "memory" =>
        \E i \in 1..Len(granted[refused]) :
            (Len(granted[refused]) - i + 2) * Refill > Full + (now - granted[refused][i])

\* The limiter admits exactly what the rate allows: never more, and in memory never less.
AdmissionIsExact == RateRespected /\ RefusalsAreNeeded
=============================================================================
