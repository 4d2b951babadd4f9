----------------------------- MODULE ModelUsage -----------------------------
(***************************************************************************)
(* The model policy service: handleInvoke with the policy engine, the      *)
(* provider registry and the usage meter, whose hourly and daily buckets   *)
(* enforce a tenant's token budget. The budget is checked before the       *)
(* provider answers and the tokens are recorded after it, so invocations   *)
(* overlap; the meter drops old buckets now and then, and arbitrary ones   *)
(* when it has too many.                                                   *)
(***************************************************************************)
EXTENDS Integers, FiniteSets

CONSTANTS
    MeteredTenants, Invokes, ModelIds,
    Registered,      \* models of the registry
    HasDefault,      \* whether one of them is registered as the default
    Policy,          \* TenantPolicy of each tenant; 0 is "no limit"
    TokenCounts,     \* usage an answer can report
    SweepEvery, HourlyTTL, DailyTTL,
    MaxHourlyBuckets, MaxDailyBuckets, MaxMeteredTenants,
    HoursPerDay, MaxHour,
    MaxRecords       \* bound on the invocations

ASSUME UsageConstants ==
    /\ SweepEvery \in Nat \ {0} /\ HourlyTTL \in Nat /\ DailyTTL \in Nat
    /\ HoursPerDay \in Nat \ {0} /\ IsFiniteSet(Invokes)
    /\ {MaxHourlyBuckets, MaxDailyBuckets, MaxMeteredTenants} \subseteq Nat
    /\ \A t \in MeteredTenants : Policy[t].hourly \in Int /\ Policy[t].daily \in Int
    /\ TokenCounts \subseteq Nat /\ \E n \in TokenCounts : \A k \in TokenCounts : k <= n

VARIABLES
    meterHour, perTenant, hourlyUsage, dailyUsage, recordCount,
    invocation,   \* the handleInvoke of each caller
    started,      \* invocations begun
    spent,        \* history: tokens recorded in this hour and in this day, per tenant
    lostBuckets   \* history: whether a size cap has dropped a bucket

usageVars == <<meterHour, perTenant, hourlyUsage, dailyUsage, recordCount, invocation,
               started, spent, lostBuckets>>

Today == meterHour \div HoursPerDay
NoInvoke == [pc |-> "idle"]

UsageInit ==
    /\ meterHour = 0 /\ perTenant = <<>> /\ hourlyUsage = <<>> /\ dailyUsage = <<>>
    /\ recordCount = 0 /\ started = 0 /\ lostBuckets = FALSE
    /\ invocation = [i \in Invokes |-> NoInvoke]
    /\ spent = [t \in MeteredTenants |-> [hour |-> 0, day |-> 0]]

-----------------------------------------------------------------------------
Tokens(buckets, key) == IF key \in DOMAIN buckets THEN buckets[key] ELSE 0

\* policyEngine.Evaluate: the deny list first, then a nonempty allow list.
Evaluate(t, m) ==
    /\ m \notin Policy[t].denied
    /\ Policy[t].allowed # {} => m \in Policy[t].allowed

\* CheckBudget: what is used must be below each limit that is set.
CheckBudget(t) ==
    /\ Policy[t].hourly > 0 => Tokens(hourlyUsage, <<t, meterHour>>) < Policy[t].hourly
    /\ Policy[t].daily > 0 => Tokens(dailyUsage, <<t, Today>>) < Policy[t].daily

\* registry.Resolve: an unknown model falls back to a default entry.
Resolve(m) == m \in Registered \/ HasDefault

\* handleInvoke up to the provider; a refused request leaves nothing behind.
HandleInvoke(i, t, m) ==
    /\ invocation[i].pc = "idle" /\ started < MaxRecords /\ started' = started + 1
    /\ invocation' = IF Evaluate(t, m) /\ CheckBudget(t) /\ Resolve(m)
                     THEN [invocation EXCEPT ![i] = [pc |-> "provider", tenant |-> t]]
                     ELSE invocation
    /\ UNCHANGED <<meterHour, perTenant, hourlyUsage, dailyUsage, recordCount, spent, lostBuckets>>

InvokeFails(i) ==
    /\ invocation[i].pc = "provider" /\ invocation' = [invocation EXCEPT ![i] = NoInvoke]
    /\ UNCHANGED <<meterHour, perTenant, hourlyUsage, dailyUsage, recordCount, started, spent,
                   lostBuckets>>

\* sweepLocked: the buckets older than their TTL.
Swept(buckets, oldest) == [k \in {k \in DOMAIN buckets : k[2] >= oldest} |-> buckets[k]]

AddedAnew(buckets, key, n) ==
    [k \in DOMAIN buckets \cup {key} |-> IF k = key THEN n ELSE buckets[k]]
Added(buckets, key, n) ==
    [k \in DOMAIN buckets \cup {key} |-> Tokens(buckets, k) + IF k = key THEN n ELSE 0]

CappedLate(buckets, cap) ==
    IF Cardinality(DOMAIN buckets) <= cap + 1 THEN {buckets}
    ELSE {[k \in kept |-> buckets[k]] :
             kept \in {s \in SUBSET DOMAIN buckets : Cardinality(s) = cap}}

\* evictMapLocked and evictPerTenantLocked: any entries, until the map is at its cap.
Capped(buckets, cap) ==
    IF Cardinality(DOMAIN buckets) <= cap THEN {buckets}
    ELSE {[k \in kept |-> buckets[k]] :
             kept \in {s \in SUBSET DOMAIN buckets : Cardinality(s) = cap}}

\* Record, under the meter's lock; an answer without total_tokens leaves the buckets alone.
RecordInto(t, n, hours, days) ==
    /\ perTenant' \in Capped(Added(perTenant, t, n), MaxMeteredTenants)
    /\ IF n > 0
       THEN /\ hourlyUsage' \in Capped(Added(hours, <<t, meterHour>>, n), MaxHourlyBuckets)
            /\ dailyUsage' \in Capped(Added(days, <<t, Today>>, n), MaxDailyBuckets)
       ELSE hourlyUsage' \in Capped(hours, MaxHourlyBuckets)
            /\ dailyUsage' \in Capped(days, MaxDailyBuckets)
    /\ lostBuckets' = (lostBuckets \/ (n > 0 /\
          \/ Cardinality(DOMAIN hours \cup {<<t, meterHour>>}) > MaxHourlyBuckets
          \/ Cardinality(DOMAIN days \cup {<<t, Today>>}) > MaxDailyBuckets))

\* The provider has answered: handleInvoke records its usage and replies.
Record(i, n) ==
    LET t == invocation[i].tenant
        sweep == (recordCount + 1) % SweepEvery = 0
    IN /\ invocation[i].pc = "provider" /\ invocation' = [invocation EXCEPT ![i] = NoInvoke]
       /\ recordCount' = recordCount + 1
       /\ RecordInto(t, n,
                     IF sweep THEN Swept(hourlyUsage, meterHour - HourlyTTL) ELSE hourlyUsage,
                     IF sweep THEN Swept(dailyUsage, Today - DailyTTL) ELSE dailyUsage)
       /\ spent' = [spent EXCEPT ![t] = [hour |-> @.hour + n, day |-> @.day + n]]
       /\ UNCHANGED <<meterHour, started>>

NextHour ==
    /\ meterHour < MaxHour /\ meterHour' = meterHour + 1
    /\ spent' = [t \in MeteredTenants |->
                    [hour |-> 0,
                     day |-> IF (meterHour + 1) % HoursPerDay = 0 THEN 0 ELSE spent[t].day]]
    /\ UNCHANGED <<perTenant, hourlyUsage, dailyUsage, recordCount, invocation, started, lostBuckets>>

UsageNext ==
    \/ \E i \in Invokes :
          \/ \E t \in MeteredTenants, m \in ModelIds : HandleInvoke(i, t, m)
          \/ InvokeFails(i) \/ \E n \in TokenCounts : Record(i, n)
    \/ NextHour

UsageSpec == UsageInit /\ [][UsageNext]_usageVars

-----------------------------------------------------------------------------
\* Type invariant of the meter, within its caps.
UsageTypeOK ==
    /\ Cardinality(DOMAIN perTenant) <= MaxMeteredTenants
    /\ Cardinality(DOMAIN hourlyUsage) <= MaxHourlyBuckets
    /\ Cardinality(DOMAIN dailyUsage) <= MaxDailyBuckets

MaxTokens == CHOOSE n \in TokenCounts : \A k \in TokenCounts : k <= n

\* The meter forgets nothing a budget depends on: until a size cap drops a bucket, the
\* buckets of the current hour and day hold exactly what was recorded in them, whatever
\* was swept and whichever hour the invocations were admitted in.
MeterIsExact ==
    ~lostBuckets => \A t \in MeteredTenants :
        /\ Tokens(hourlyUsage, <<t, meterHour>>) = spent[t].hour
        /\ Tokens(dailyUsage, <<t, Today>>) = spent[t].day

\* A budget is overrun only by what was in flight: because handleInvoke checks before and
\* records after the provider's answer, an hour (or a day) can end above the limit, but by
\* no more than one answer of each overlapping invocation.
BudgetHolds ==
    ~lostBuckets => \A t \in MeteredTenants :
        /\ Policy[t].hourly > 0 =>
              spent[t].hour < Policy[t].hourly + Cardinality(Invokes) * MaxTokens
        /\ Policy[t].daily > 0 =>
              spent[t].day < Policy[t].daily + Cardinality(Invokes) * MaxTokens

\* The meter is exact, and with it the budgets hold as far as the code lets them.
MeteringIsSound == MeterIsExact /\ BudgetHolds
=============================================================================
