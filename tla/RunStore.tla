------------------------------ MODULE RunStore ------------------------------
(***************************************************************************)
(* The file-backed run store: a map of runs bounded by the eviction of the *)
(* least recently used, written to its file as a whole after each change,  *)
(* and loaded from it when the process starts. A record is the number of   *)
(* the access that wrote it.                                               *)
(***************************************************************************)
EXTENDS Integers, Sequences, FiniteSets, Functions

CONSTANTS
    StoredRuns,      \* run ids
    MaxRunsInStore,  \* maxRunsInRunStore
    MaxAccesses      \* bound: calls of the store

ASSUME RunStoreConstants ==
    MaxRunsInStore \in Nat \ {0} /\ MaxAccesses \in Nat /\ IsFiniteSet(StoredRuns)

VARIABLES
    runs,      \* fileRunStore.runs
    runOrder,  \* fileRunStore.runOrder
    disk,      \* the runs in the file
    accesses,  \* calls so far
    acked,     \* history: acked[k], the last write of k that returned no error
    lastUse,   \* history: lastUse[k], the last access of k since the start
    dropped    \* history: runs evicted since their last acknowledged write

runStoreVars == <<runs, runOrder, disk, accesses, acked, lastUse, dropped>>

NoRun == 0
Present(map) == {k \in StoredRuns : map[k] # NoRun}

RunStoreInit ==
    /\ runs = [k \in StoredRuns |-> NoRun] /\ disk = runs
    /\ runOrder = <<>> /\ accesses = 0
    /\ acked = [k \in StoredRuns |-> NoRun] /\ lastUse = [k \in StoredRuns |-> 0]
    /\ dropped = {}

-----------------------------------------------------------------------------
Access(k) ==
    /\ accesses < MaxAccesses /\ accesses' = accesses + 1
    /\ lastUse' = [lastUse EXCEPT ![k] = accesses + 1]

\* The loop of touchOrderLocked: the order without its first k.
Unlist(order, k) ==
    LET at == {i \in DOMAIN order : order[i] = k}
        p  == CHOOSE i \in at : \A j \in at : i <= j
    IN IF at = {} THEN order ELSE SubSeq(order, 1, p - 1) \o SubSeq(order, p + 1, Len(order))

\* touchOrderLocked.
Touch(k) == Append(Unlist(runOrder, k), k)

\* evictLocked: how many of the order's first runs make room in map.
Excess(map, order) ==
    LET over == Cardinality(Present(map)) - MaxRunsInStore
    IN IF over <= 0 THEN 0 ELSE IF over < Len(order) THEN over ELSE Len(order)

Forget(map, gone) == [k \in StoredRuns |-> IF k \in gone THEN NoRun ELSE map[k]]

PersistBefore(k) == disk' = runs

\* persistLocked: the whole map, by way of a temporary file and a rename.
PersistRuns(k) == disk' = runs'

\* What Create and Save do to the map, and the error or success they return.
WriteRun(k) ==
    LET written == [runs EXCEPT ![k] = accesses + 1]
        n       == Excess(written, Touch(k))
        gone    == Range(SubSeq(Touch(k), 1, n))
    IN /\ Access(k)
       /\ runs' = Forget(written, gone)
       /\ runOrder' = SubSeq(Touch(k), n + 1, Len(Touch(k)))
       /\ \/ /\ PersistRuns(k)
             /\ acked' = [acked EXCEPT ![k] = accesses + 1]
             /\ dropped' = (dropped \ {k}) \cup gone
          \/ dropped' = dropped \cup gone /\ UNCHANGED <<disk, acked>>

\* A run id is created once.
CreateRun(k) == runs[k] = NoRun /\ acked[k] = NoRun /\ WriteRun(k)

\* Whoever saves a run has read it before; it may be evicted since.
SaveRun(k) == acked[k] # NoRun /\ WriteRun(k)

GetRun(k) ==
    /\ runs[k] # NoRun
    /\ Access(k)
    /\ runOrder' = Touch(k)
    /\ UNCHANGED <<runs, disk, acked, dropped>>

\* The process starts again: load lists the runs of the file in any order.
LoadRuns ==
    /\ accesses > 0
    /\ \E order \in [1 .. Cardinality(Present(disk)) -> Present(disk)] :
          LET n == Excess(disk, order)
          IN /\ IsInjective(order)
             /\ runs' = Forget(disk, Range(SubSeq(order, 1, n)))
             /\ runOrder' = SubSeq(order, n + 1, Len(order))
    /\ lastUse' = [k \in StoredRuns |-> 0]
    /\ dropped' = dropped \ Present(disk)
    /\ UNCHANGED <<disk, accesses, acked>>

-----------------------------------------------------------------------------
RunStoreNext ==
    \/ \E k \in StoredRuns : CreateRun(k) \/ SaveRun(k) \/ GetRun(k)
    \/ LoadRuns

RunStoreSpec == RunStoreInit /\ [][RunStoreNext]_runStoreVars

-----------------------------------------------------------------------------
(* Properties *)

\* Type invariant; runOrder lists the runs of the map, each once, within the cap.
RunStoreTypeOK ==
    /\ {runs, disk, acked, lastUse} \subseteq [StoredRuns -> 0..MaxAccesses]
    /\ accesses \in 0..MaxAccesses /\ dropped \subseteq StoredRuns
    /\ IsInjective(runOrder) /\ Range(runOrder) = Present(runs)
    /\ Cardinality(Present(runs)) <= MaxRunsInStore

\* What Create or Save acknowledged is what Get returns and what a restart loads, or
\* something newer, through failed writes and restarts, until the run is evicted.
AckedIsKept ==
    \A k \in StoredRuns \ dropped : runs[k] >= acked[k] /\ disk[k] >= acked[k]

\* The cap costs nobody a run in use: one that was read or written since the start
\* leaves the map only when as many others as fit were used after it.
RecentRunsStay ==
    \A k \in StoredRuns : lastUse[k] # 0 /\ runs[k] = NoRun =>
        Cardinality({j \in StoredRuns : lastUse[j] > lastUse[k]}) >= MaxRunsInStore

\* A run the API acknowledged stays readable: through failed writes and restarts, and
\* past the cap as long as it is in use.
RunsAreKept == AckedIsKept /\ RecentRunsStay

\* "Runs are persisted to disk, so evicted runs are not lost": a run whose creation
\* was acknowledged is in the file. (The map that persistLocked writes is the one
\* evictLocked has pruned, so the run is not.)
EvictedRunsStayOnDisk == \A k \in StoredRuns : acked[k] # NoRun => disk[k] # NoRun
=============================================================================
