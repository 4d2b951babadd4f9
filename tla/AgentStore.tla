----------------------------- MODULE AgentStore -----------------------------
(***************************************************************************)
(* What an agent keeps between runs: its key-value store (file or          *)
(* Postgres, handleKV and the kv tools) with a limit on its keys and       *)
(* optional encryption, and the memory of the MCP tools memory_store and   *)
(* memory_recall (PostgresAgentMemoryStore) with a quota in bytes and a    *)
(* time to live. In Postgres the limit and the quota are read in           *)
(* statements of their own, before the upsert.                             *)
(***************************************************************************)
EXTENDS Integers, FiniteSets, FiniteSetsExt

CONSTANTS
    KvKeys, MemKeys, KvValues, KvWriters,
    MaxKeys,             \* maxKeysPerAgent
    MemQuota, Sizes,     \* quota of the agent memory, sizes of values
    TtlOf, MaxMemTime    \* time to live of each key (0: none), bound of the clock

ASSUME AgentStoreConstants == MaxKeys \in Nat \ {0} /\ MemQuota \in Nat

VARIABLES
    kvBackend,
    encrypt,   \* whether the encryptor is configured
    kv,        \* the stored keys: [value, cipher]
    kvOp,      \* Set calls in progress
    lastSet    \* history: the value the last successful Set gave each key

kvVars == <<kvBackend, encrypt, kv, kvOp, lastSet>>

NoOp == [pc |-> "idle"]
Updated(f, k, v) == [x \in DOMAIN f \cup {k} |-> IF x = k THEN v ELSE f[x]]
Minus(f, k) == [x \in DOMAIN f \ {k} |-> f[x]]

KvInit ==
    /\ kvBackend \in {"file", "postgres"} /\ encrypt = FALSE
    /\ kv = <<>> /\ lastSet = <<>>
    /\ kvOp = [w \in KvWriters |-> NoOp]

\* The file store holds its lock from the check to the rename of the new file.
KvSetFile(w, k, v) ==
    /\ kvBackend = "file" /\ kvOp[w].pc = "idle"
    /\ k \in DOMAIN kv \/ Cardinality(DOMAIN kv) < MaxKeys
    /\ kv' = Updated(kv, k, [value |-> v, cipher |-> FALSE]) /\ lastSet' = Updated(lastSet, k, v)
    /\ UNCHANGED <<kvBackend, encrypt, kvOp>>

\* KVStore.Set: a transaction of three statements, each of which sees what is committed.
KvSet(w, k, v) ==
    /\ kvBackend = "postgres" /\ kvOp[w].pc = "idle"
    /\ kvOp' = [kvOp EXCEPT ![w] = [pc |-> IF k \in DOMAIN kv THEN "upsert" ELSE "count",
                                    key |-> k, value |-> v]]
    /\ UNCHANGED <<kvBackend, encrypt, kv, lastSet>>

KvCount(w) ==
    /\ kvOp[w].pc = "count"
    /\ kvOp' = [kvOp EXCEPT ![w] = IF Cardinality(DOMAIN kv) >= MaxKeys THEN NoOp
                                   ELSE [@ EXCEPT !.pc = "upsert"]]
    /\ UNCHANGED <<kvBackend, encrypt, kv, lastSet>>

KvUpsert(w) ==
    /\ kvOp[w].pc = "upsert" /\ kvOp' = [kvOp EXCEPT ![w] = NoOp]
    /\ kv' = Updated(kv, kvOp[w].key, [value |-> kvOp[w].value, cipher |-> encrypt])
    /\ lastSet' = Updated(lastSet, kvOp[w].key, kvOp[w].value)
    /\ UNCHANGED <<kvBackend, encrypt>>

\* A statement or the commit fails: the transaction is rolled back.
KvFails(w) ==
    /\ kvOp[w].pc \in {"count", "upsert"} /\ kvOp' = [kvOp EXCEPT ![w] = NoOp]
    /\ UNCHANGED <<kvBackend, encrypt, kv, lastSet>>

KvDelete(k) ==
    /\ k \in DOMAIN kv /\ kv' = Minus(kv, k) /\ lastSet' = Minus(lastSet, k)
    /\ UNCHANGED <<kvBackend, encrypt, kvOp>>

\* A restart with AGENTOS_ENCRYPTION_KEY set where it was not before.
EnableEncryption ==
    /\ kvBackend = "postgres" /\ ~encrypt /\ encrypt' = TRUE
    /\ kvOp' = [w \in KvWriters |-> NoOp]
    /\ UNCHANGED <<kvBackend, kv, lastSet>>

\* Get: with an encryptor, a value that is not a ciphertext is returned as it is.
KvGet(k) == IF kv[k].cipher /\ ~encrypt THEN "garbled" ELSE kv[k].value

KvNext ==
    \/ \E w \in KvWriters, k \in KvKeys, v \in KvValues : KvSetFile(w, k, v) \/ KvSet(w, k, v)
    \/ \E w \in KvWriters : KvCount(w) \/ KvUpsert(w) \/ KvFails(w)
    \/ \E k \in KvKeys : KvDelete(k)
    \/ EnableEncryption

-----------------------------------------------------------------------------
VARIABLES
    memTime,
    mem,      \* agent_memory rows of one agent: [size, expires]; 0 is no expiry
    memOp     \* Store calls in progress

memVars == <<memTime, mem, memOp>>

MemInit == memTime = 1 /\ mem = <<>> /\ memOp = [w \in KvWriters |-> NoOp]

Usage(rows) == MapThenSumSet(LAMBDA k : rows[k].size, DOMAIN rows)

\* Store: the usage, which counts expired rows too, then the size of the row it replaces.
MemStore(w, k, n) ==
    /\ memOp[w].pc = "idle"
    /\ memOp' = [memOp EXCEPT ![w] = [pc |-> "existing", key |-> k, size |-> n,
                                      usage |-> Usage(mem)]]
    /\ UNCHANGED <<memTime, mem>>

MemExisting(w) ==
    LET op == memOp[w]
        existing == IF op.key \in DOMAIN mem THEN mem[op.key].size ELSE 0
    IN /\ op.pc = "existing"
       /\ memOp' = [memOp EXCEPT ![w] = IF op.usage - existing + op.size > MemQuota THEN NoOp
                                        ELSE [op EXCEPT !.pc = "upsert"]]
       /\ UNCHANGED <<memTime, mem>>

MemUpsert(w) ==
    LET op == memOp[w]
    IN /\ op.pc = "upsert" /\ memOp' = [memOp EXCEPT ![w] = NoOp]
       /\ mem' = Updated(mem, op.key, [size |-> op.size,
                                       expires |-> IF TtlOf[op.key] = 0 THEN 0
                                                   ELSE memTime + TtlOf[op.key]])
       /\ UNCHANGED memTime

MemFails(w) ==
    /\ memOp[w].pc # "idle" /\ memOp' = [memOp EXCEPT ![w] = NoOp]
    /\ UNCHANGED <<memTime, mem>>

MemDelete(k) ==
    /\ k \in DOMAIN mem /\ mem' = Minus(mem, k)
    /\ UNCHANGED <<memTime, memOp>>

MemTick == memTime < MaxMemTime /\ memTime' = memTime + 1 /\ UNCHANGED <<mem, memOp>>

\* Recall: found unless the current time is after the expiry.
Recalled == {k \in DOMAIN mem : mem[k].expires = 0 \/ memTime <= mem[k].expires}

\* Search, SemanticSearch and GetThread of a query that matches every row.
Searched == {k \in DOMAIN mem : mem[k].expires = 0 \/ mem[k].expires > memTime}

MemNext ==
    \/ \E w \in KvWriters :
          \/ \E k \in MemKeys, n \in Sizes : MemStore(w, k, n)
          \/ MemExisting(w) \/ MemUpsert(w) \/ MemFails(w)
    \/ \E k \in MemKeys : MemDelete(k)
    \/ MemTick

-----------------------------------------------------------------------------
\* Type invariant of the two stores.
AgentStoreTypeOK ==
    /\ DOMAIN kv \subseteq KvKeys /\ DOMAIN mem \subseteq MemKeys
    /\ \A k \in DOMAIN mem : mem[k].size \in Sizes

Others == Cardinality(KvWriters) - 1

\* The limits of an agent's stores are overrun only by writers that overlap: never in the
\* file store, which checks and writes under one lock, and in Postgres by at most one key
\* for each other writer.
KeyLimitHolds ==
    Cardinality(DOMAIN kv) <= MaxKeys + (IF kvBackend = "file" THEN 0 ELSE Others)

\* The quota of the agent memory is overrun by at most the largest value for each other
\* writer: both reads of Store come before its upsert.
QuotaHolds == Usage(mem) <= MemQuota + Others * Max(Sizes)

\* Reads agree: a key holds what the last successful Set gave it, also when encryption was
\* enabled after the value was stored; and what the searches of the agent memory find, an
\* exact recall finds too.
ReadsAgree ==
    /\ DOMAIN kv = DOMAIN lastSet /\ \A k \in DOMAIN kv : KvGet(k) = lastSet[k]
    /\ Searched \subseteq Recalled
=============================================================================
