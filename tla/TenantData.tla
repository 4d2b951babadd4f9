----------------------------- MODULE TenantData -----------------------------
(***************************************************************************)
(* What ends a tenant's data: the deletion of a tenant (internal/tenants,  *)
(* PgTenantStore), a soft delete followed by a background job that empties *)
(* the tables in order and in batches; the retention purge                 *)
(* (internal/lifecycle), which goes through its tables in batches too; and *)
(* the export jobs of internal/compliance, in a bounded list. Rows go on   *)
(* being written meanwhile.                                                *)
(***************************************************************************)
EXTENDS Integers, Sequences, FiniteSets

CONSTANTS
    TenantIds, RowIds, TableOf, OwnerOf,  \* rows, with their table and tenant
    TenantTables, PurgeTables,  \* the tables of the two jobs, in their order
    Batch,      \* rows a statement deletes at most
    Retention,  \* days the purge keeps the rows of each table
    MaxDay,     \* bound of the clock
    Exports,    \* export jobs
    MaxExports  \* ExportJobStore.maxJobs

ASSUME TenantConstants ==
    /\ Batch \in Nat \ {0} /\ MaxExports \in Nat \ {0} /\ IsFiniteSet(RowIds)
    /\ TableOf \in [RowIds -> STRING] /\ OwnerOf \in [RowIds -> TenantIds]
    /\ TenantTables \in Seq(STRING) /\ PurgeTables \in Seq(STRING)
    /\ \A i \in DOMAIN PurgeTables : Retention[PurgeTables[i]] \in Nat

VARIABLES
    day,
    tenantRow,  \* "none", "active" or "deleted" (deleted_at is set)
    rowDay,     \* the stored rows, with the day each was created
    final,      \* run rows with status completed, failed or canceled
    deletion,   \* the deletion job of each tenant
    doomed,     \* history: the rows the tenant had when its deletion began
    purge,      \* the purge pass
    overdue     \* history: the rows that were due when the pass began

dataVars == <<day, tenantRow, rowDay, final, deletion, doomed, purge, overdue>>

Stored == DOMAIN rowDay
NoJob == [pc |-> "idle", table |-> 0]

DataInit ==
    /\ day = 0 /\ rowDay = <<>> /\ final = {}
    /\ tenantRow = [t \in TenantIds |-> "active"]
    /\ deletion = [t \in TenantIds |-> NoJob] /\ doomed = [t \in TenantIds |-> {}]
    /\ purge = [pc |-> "idle", table |-> 0, now |-> 0] /\ overdue = {}

-----------------------------------------------------------------------------
\* Requests of the tenant, its runs in progress and its keys go on writing rows.
WriteRow(r) ==
    /\ r \notin Stored
    /\ rowDay' = [x \in Stored \cup {r} |-> IF x = r THEN day ELSE rowDay[x]]
    /\ UNCHANGED <<day, tenantRow, final, deletion, doomed, purge, overdue>>

FinishRun(r) ==
    /\ r \in Stored \ final /\ TableOf[r] = "runs"
    /\ final' = final \cup {r}
    /\ UNCHANGED <<day, tenantRow, rowDay, deletion, doomed, purge, overdue>>

NextDay ==
    /\ day < MaxDay /\ day' = day + 1
    /\ UNCHANGED <<tenantRow, rowDay, final, deletion, doomed, purge, overdue>>

\* The rows of one statement: any Batch of the candidates, or all of fewer.
Batches(candidates) ==
    {b \in SUBSET candidates :
        Cardinality(b) = Batch \/ (Cardinality(b) < Batch /\ b = candidates)}

DropRows(b) ==
    /\ rowDay' = [r \in Stored \ b |-> rowDay[r]] /\ final' = final \ b
    /\ doomed' = [t \in TenantIds |-> doomed[t] \ b] /\ overdue' = overdue \ b

\* HandleDelete: neither Get nor the soft delete finds a tenant that is already marked.
HandleDelete(t) ==
    /\ tenantRow[t] = "active" /\ tenantRow' = [tenantRow EXCEPT ![t] = "deleted"]
    /\ deletion' = [deletion EXCEPT ![t] = [pc |-> "table", table |-> 1]]
    /\ doomed' = [doomed EXCEPT ![t] = {r \in Stored : OwnerOf[r] = t}]
    /\ UNCHANGED <<day, rowDay, final, purge, overdue>>

\* DeleteAllData leaves a table when a statement finds nothing.
LeavesTableAtOnce(n) == TRUE
LeavesTable(n) == n = 0

\* One statement of DeleteAllData: a batch of the current table, the tenant itself last.
DeleteStep(t) ==
    /\ deletion[t].pc = "table"
    /\ IF deletion[t].table > Len(TenantTables)
       THEN /\ tenantRow' = [tenantRow EXCEPT ![t] = "none"]
            /\ deletion' = [deletion EXCEPT ![t].pc = "done"]
            /\ UNCHANGED <<rowDay, final, doomed, overdue>>
       ELSE \E b \in Batches({r \in Stored : OwnerOf[r] = t
                                             /\ TableOf[r] = TenantTables[deletion[t].table]}) :
               /\ DropRows(b)
               /\ deletion' = [deletion EXCEPT ![t].table =
                                  IF LeavesTable(Cardinality(b)) THEN @ + 1 ELSE @]
               /\ UNCHANGED tenantRow
    /\ UNCHANGED <<day, purge>>

\* A statement fails, the ten minutes pass or the process stops: nothing resumes the job,
\* and HandleDelete does not find the tenant again.
DeleteFails(t) ==
    /\ deletion[t].pc = "table"
    /\ deletion' = [deletion EXCEPT ![t].pc = "failed"]
    /\ UNCHANGED <<day, tenantRow, rowDay, final, doomed, purge, overdue>>

-----------------------------------------------------------------------------
\* The rows a purge that started on the given day removes; active runs are exempt.
PurgeableAnyStatus(table, now) ==
    {r \in Stored : TableOf[r] = table /\ rowDay[r] < now - Retention[table]}
Purgeable(table, now) ==
    {r \in Stored : /\ TableOf[r] = table /\ rowDay[r] < now - Retention[table]
                    /\ table = "runs" => r \in final}

StartPurge ==
    /\ purge.pc = "idle"
    /\ purge' = [pc |-> "table", table |-> 1, now |-> day]
    /\ overdue' = UNION {Purgeable(PurgeTables[i], day) : i \in DOMAIN PurgeTables}
    /\ UNCHANGED <<day, tenantRow, rowDay, final, deletion, doomed>>

\* batchDeleteRuns and batchDeleteByTimestamp: until a batch is short.
PurgeStep ==
    /\ purge.pc = "table" /\ purge.table <= Len(PurgeTables)
    /\ \E b \in Batches(Purgeable(PurgeTables[purge.table], purge.now)) :
          /\ DropRows(b)
          /\ purge' = [purge EXCEPT !.table = IF Cardinality(b) < Batch THEN @ + 1 ELSE @]
    /\ UNCHANGED <<day, tenantRow, deletion>>

\* RunPurgeNow returns, after the last table or with the error of a statement.
EndPurge ==
    /\ purge.pc = "table"
    /\ purge' = [pc |-> "idle", table |-> 0, now |-> 0] /\ overdue' = {}
    /\ UNCHANGED <<day, tenantRow, rowDay, final, deletion, doomed>>

DataNext ==
    \/ \E t \in TenantIds : HandleDelete(t) \/ DeleteStep(t) \/ DeleteFails(t)
    \/ \E r \in RowIds : WriteRow(r) \/ FinishRun(r)
    \/ NextDay \/ StartPurge \/ PurgeStep \/ EndPurge

-----------------------------------------------------------------------------
VARIABLES
    exportList,    \* ExportJobStore.order, the jobs that can be asked for
    exportJob,     \* what the ExportJob objects say
    exporter,      \* the goroutine of each job
    poller,        \* a HandleStatus in progress: the job and the status it read
    told           \* history: answers that said complete: [job, url]

exportVars == <<exportList, exportJob, exporter, poller, told>>

NoPoll == [pc |-> "idle"]

ExportInit ==
    /\ exportList = <<>> /\ poller = NoPoll /\ told = {}
    /\ exportJob = [j \in Exports |-> [status |-> "", file |-> FALSE]]
    /\ exporter = [j \in Exports |-> "new"]

\* HandleCreate: Add evicts the oldest job, whatever it is doing.
HandleCreate(j) ==
    /\ exporter[j] = "new" /\ exporter' = [exporter EXCEPT ![j] = "collect"]
    /\ exportJob' = [exportJob EXCEPT ![j].status = "pending"]
    /\ exportList' = Append(IF Len(exportList) >= MaxExports THEN Tail(exportList)
                            ELSE exportList, j)
    /\ UNCHANGED <<poller, told>>

\* runExport: data that cannot be collected or written still completes the job.
CollectFails(j) ==
    /\ exporter[j] = "collect" /\ exporter' = [exporter EXCEPT ![j] = "failed"]
    /\ exportJob' = [exportJob EXCEPT ![j].status = "complete"]
    /\ UNCHANGED <<exportList, poller, told>>

SetFilePath(j) ==
    /\ exporter[j] = "collect" /\ exporter' = [exporter EXCEPT ![j] = "status"]
    /\ exportJob' = [exportJob EXCEPT ![j].file = TRUE]
    /\ UNCHANGED <<exportList, poller, told>>

SetStatus(j) ==
    /\ exporter[j] = "status" /\ exporter' = [exporter EXCEPT ![j] = "done"]
    /\ exportJob' = [exportJob EXCEPT ![j] = [status |-> "complete", file |-> TRUE]]
    /\ UNCHANGED <<exportList, poller, told>>

\* HandleStatus: the job, its status and its file are read one after the other; a complete
\* job past its seven days is marked expired.
ReadStatus(j) ==
    /\ poller.pc = "idle" /\ \E i \in DOMAIN exportList : exportList[i] = j
    /\ poller' = [pc |-> "file", job |-> j, status |-> exportJob[j].status]
    /\ UNCHANGED <<exportList, exportJob, exporter, told>>

ReadFile ==
    /\ poller.pc = "file" /\ poller' = NoPoll
    /\ \/ /\ told' = IF poller.status = "complete"
                     THEN told \cup {[job |-> poller.job, url |-> exportJob[poller.job].file]}
                     ELSE told
          /\ UNCHANGED exportJob
       \/ /\ poller.status = "complete"
          /\ exportJob' = [exportJob EXCEPT ![poller.job].status = "expired"]
          /\ UNCHANGED told
    /\ UNCHANGED <<exportList, exporter>>

ExportNext ==
    \/ \E j \in Exports :
          \/ HandleCreate(j) \/ CollectFails(j) \/ SetFilePath(j) \/ SetStatus(j)
          \/ ReadStatus(j)
    \/ ReadFile

TenantSpec ==
    /\ DataInit /\ ExportInit
    /\ [][\/ DataNext /\ UNCHANGED exportVars
          \/ ExportNext /\ UNCHANGED dataVars]_<<dataVars, exportVars>>

-----------------------------------------------------------------------------
\* Type invariant of the rows and the jobs.
TenantTypeOK ==
    /\ Stored \subseteq RowIds /\ final \subseteq Stored
    /\ \A t \in TenantIds : deletion[t].table \in 0 .. Len(TenantTables) + 1
    /\ purge.table \in 0 .. Len(PurgeTables) + 1
    /\ Len(exportList) <= MaxExports
    /\ \A j \in Exports : exportJob[j].status \in {"", "pending", "complete", "expired"}

Before(tables, n, r) == \E i \in DOMAIN tables : i < n /\ TableOf[r] = tables[i]

\* Both jobs are thorough although they delete in batches and rows are written meanwhile:
\* behind the table a deletion or a purge has reached, none of the rows it found when it
\* began is left.
NothingIsMissed ==
    /\ \A t \in TenantIds : \A r \in doomed[t] : ~Before(TenantTables, deletion[t].table, r)
    /\ \A r \in overdue : ~Before(PurgeTables, purge.table, r)

\* A row leaves the database only by the deletion of its tenant or when it is past its
\* retention; a run that is still active never by the purge (batchDeleteRuns).
RowsLeaveRightly ==
    [][\A r \in Stored \ DOMAIN rowDay' :
          \/ deletion[OwnerOf[r]].pc = "table"
          \/ rowDay[r] < day - Retention[TableOf[r]] /\ (TableOf[r] = "runs" => r \in final)]_dataVars

\* Who is told that an export is complete is given its file, if the export wrote one: the
\* goroutine sets the file before the status, HandleStatus reads them in the other order.
CompleteHasFile ==
    \A answer \in told : exporter[answer.job] # "failed" => answer.url

\* The background jobs over a tenant's data do what they report.
JobsAreThorough == NothingIsMissed /\ CompleteHasFile
=============================================================================
