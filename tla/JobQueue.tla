------------------------------ MODULE JobQueue ------------------------------
(***************************************************************************)
(* The background job queue (in memory or in Postgres), the workers that   *)
(* poll it, and the webhook dispatcher that enqueues and delivers through  *)
(* it.                                                                     *)
(***************************************************************************)
EXTENDS Integers, Sequences, FiniteSets

CONSTANTS
    Jobs,         \* job ids, one per Enqueue
    NoJob,        \* what an idle worker holds
    Workers,      \* Worker instances, each processing one job at a time
    Kind,         \* Kind[j]: "webhook", "other" or "unhandled" (no handler registered)
    MaxJobAttempts,  \* EnqueueOptions.MaxAttempts
    MaxJobs       \* memoryQueueMaxJobs

ASSUME JobsConstants ==
    /\ MaxJobAttempts \in Nat \ {0} /\ MaxJobs \in Nat \ {0}
    /\ IsFiniteSet(Jobs) /\ NoJob \notin Jobs
    /\ Kind \in [Jobs -> {"webhook", "other", "unhandled"}]

VARIABLES
    durable,  \* PostgresQueue rather than MemoryQueue?
    jobOrder, \* MemoryQueue.jobs, or the rows of the jobs table in insertion order
    job,      \* job[j]: its record; lost (history): its outcome was never reported
    worker    \* worker[w]: where its loop is

jobVars == <<durable, jobOrder, job, worker>>

Ready == [pc |-> "idle", job |-> NoJob, retry |-> FALSE, ctx |-> TRUE, stop |-> FALSE]

JobsInit ==
    /\ durable \in BOOLEAN /\ jobOrder = <<>>
    /\ job = [j \in Jobs |-> [status |-> "absent", attempts |-> 0, due |-> FALSE, lost |-> FALSE]]
    /\ worker = [w \in Workers |-> Ready]

SettledJob == {"completed", "failed"}
Queued(j) == \E i \in DOMAIN jobOrder : jobOrder[i] = j

-----------------------------------------------------------------------------
(* The queue *)

EvictFirst == 1

\* evictLocked: the oldest settled job makes room, or the oldest job.
EvictIndex ==
    LET settled == {i \in DOMAIN jobOrder : job[jobOrder[i]].status \in SettledJob}
    IN IF settled = {} THEN 1 ELSE CHOOSE i \in settled : \A k \in settled : i <= k

Full == ~durable /\ Len(jobOrder) >= MaxJobs

\* append(jobs[:i], jobs[i+1:]...)
Spliced(s, i) == SubSeq(s, 1, i - 1) \o SubSeq(s, i + 1, Len(s))

Enqueue(j) ==
    /\ job[j].status = "absent"
    /\ jobOrder' = Append(IF Full THEN Spliced(jobOrder, EvictIndex) ELSE jobOrder, j)
    /\ job' = [k \in Jobs |->
          IF k = j THEN [job[j] EXCEPT !.status = "pending"]
          ELSE IF Full /\ k = jobOrder[EvictIndex] THEN [job[k] EXCEPT !.status = "evicted"]
          ELSE job[k]]
    /\ UNCHANGED <<durable, worker>>

BecomeDueOnce(j) ==
    /\ job[j].status = "pending" /\ ~job[j].due /\ job[j].attempts = 0
    /\ job' = [job EXCEPT ![j].due = TRUE]
    /\ UNCHANGED <<durable, jobOrder, worker>>

\* NextRunAt passes: the initial delay, which may be none, or the backoff.
BecomeDue(j) ==
    /\ job[j].status = "pending" /\ ~job[j].due
    /\ job' = [job EXCEPT ![j].due = TRUE]
    /\ UNCHANGED <<durable, jobOrder, worker>>

Eligible(j) == Queued(j) /\ job[j].status = "pending" /\ job[j].due

\* The in-memory queue hands out the first eligible job, Postgres one whose row
\* is not locked.
Dequeuable(j) ==
    /\ Eligible(j)
    /\ ~durable => \A i, k \in DOMAIN jobOrder : jobOrder[i] = j /\ Eligible(jobOrder[k]) => i <= k

ClaimJob(j) == job' = [job EXCEPT ![j].status = "running", ![j].attempts = @ + 1]

\* Fail: retries remain, or not.
Rescheduled(j, retry) ==
    [job[j] EXCEPT !.status = IF retry THEN "pending" ELSE "failed", !.due = ~retry /\ @]

MoreAttemptsInclusive(j) == job[j].attempts <= MaxJobAttempts
MoreAttempts(j) == job[j].attempts < MaxJobAttempts

-----------------------------------------------------------------------------
(* Worker.poll *)

WorkerAt(w, pc) == worker[w].pc = pc
Held(w) == worker[w].job
Lose(j) == [job EXCEPT ![j].lost = TRUE]
Idle(w) == worker' = [worker EXCEPT ![w].pc = "idle", ![w].job = NoJob, ![w].retry = FALSE]

\* A tick: the context is checked by the database, not by the in-memory queue.
Dequeue(w) ==
    /\ WorkerAt(w, "idle") /\ (durable => worker[w].ctx)
    /\ \E j \in Jobs :
          /\ Dequeuable(j) /\ ClaimJob(j)
          /\ worker' = [worker EXCEPT ![w].job = j,
                 ![w].pc = IF Kind[j] = "unhandled" THEN "failing" ELSE "handling"]
    /\ UNCHANGED <<durable, jobOrder>>

\* DeliverJob tries four times and reports success whatever the receiver said.
DeliverJob(w) ==
    /\ WorkerAt(w, "handling") /\ Kind[Held(w)] = "webhook"
    /\ worker' = [worker EXCEPT ![w].pc = "completing"]
    /\ UNCHANGED <<durable, jobOrder, job>>

\* The export, delete and purge handlers.
RunHandler(w) ==
    /\ WorkerAt(w, "handling") /\ Kind[Held(w)] = "other"
    /\ \E pc \in {"completing", "failing"} : worker' = [worker EXCEPT ![w].pc = pc]
    /\ UNCHANGED <<durable, jobOrder, job>>

\* Complete(ctx, id): not found when evicted; with a dead context Postgres fails
\* and the row stays as it is.
CompleteJob(w) ==
    /\ WorkerAt(w, "completing")
    /\ job' = IF ~Queued(Held(w)) THEN job
              ELSE IF durable /\ ~worker[w].ctx THEN Lose(Held(w))
              ELSE [job EXCEPT ![Held(w)].status = "completed"]
    /\ Idle(w)
    /\ UNCHANGED <<durable, jobOrder>>

\* MemoryQueue.Fail is one critical section.
FailJob(w) ==
    /\ WorkerAt(w, "failing") /\ ~durable
    /\ IF Queued(Held(w))
       THEN job' = [job EXCEPT ![Held(w)] = Rescheduled(Held(w), MoreAttempts(Held(w)))]
       ELSE UNCHANGED job
    /\ Idle(w)
    /\ UNCHANGED <<durable, jobOrder>>

\* PostgresQueue.Fail reads the attempts in one statement and writes in another.
FailRead(w) ==
    /\ WorkerAt(w, "failing") /\ durable
    /\ \/ /\ worker[w].ctx
          /\ worker' = [worker EXCEPT ![w].pc = "rescheduling", ![w].retry = MoreAttempts(Held(w))]
          /\ UNCHANGED job
       \/ ~worker[w].ctx /\ job' = Lose(Held(w)) /\ Idle(w)
    /\ UNCHANGED <<durable, jobOrder>>

FailWrite(w) ==
    /\ WorkerAt(w, "rescheduling")
    /\ job' = IF worker[w].ctx
              THEN [job EXCEPT ![Held(w)] = Rescheduled(Held(w), worker[w].retry)]
              ELSE Lose(Held(w))
    /\ Idle(w)
    /\ UNCHANGED <<durable, jobOrder>>

\* Stop closes the done channel, CancelCtx is the caller's context; the loop sees
\* either only between two polls.
StopWorker(w) ==
    /\ ~worker[w].stop /\ ~WorkerAt(w, "stopped")
    /\ worker' = [worker EXCEPT ![w].stop = TRUE]
    /\ UNCHANGED <<durable, jobOrder, job>>

CancelCtx(w) ==
    /\ worker[w].ctx /\ ~WorkerAt(w, "stopped")
    /\ worker' = [worker EXCEPT ![w].ctx = FALSE]
    /\ UNCHANGED <<durable, jobOrder, job>>

ExitLoop(w) ==
    /\ WorkerAt(w, "idle") /\ (worker[w].stop \/ ~worker[w].ctx)
    /\ worker' = [worker EXCEPT ![w] = [Ready EXCEPT !.pc = "stopped", !.stop = TRUE]]
    /\ UNCHANGED <<durable, jobOrder, job>>

\* The process dies with the job claimed; a new worker starts in its place.
CrashWorker(w) ==
    /\ durable /\ Held(w) # NoJob
    /\ worker' = [worker EXCEPT ![w] = Ready]
    /\ job' = Lose(Held(w))
    /\ UNCHANGED <<durable, jobOrder>>

-----------------------------------------------------------------------------
Work(w) ==
    \/ Dequeue(w) \/ DeliverJob(w) \/ RunHandler(w) \/ CompleteJob(w)
    \/ FailJob(w) \/ FailRead(w) \/ FailWrite(w) \/ ExitLoop(w)

JobsNext ==
    \/ \E j \in Jobs : Enqueue(j) \/ BecomeDue(j)
    \/ \E w \in Workers : Work(w) \/ StopWorker(w) \/ CancelCtx(w) \/ CrashWorker(w)

JobsSpec == JobsInit /\ [][JobsNext]_jobVars

\* Tickers fire, handlers return (they have HTTP timeouts), time passes.
JobsFairness ==
    /\ \A j \in Jobs : WF_jobVars(BecomeDue(j))
    /\ \A w \in Workers : WF_jobVars(Work(w))

-----------------------------------------------------------------------------
(* Properties *)

JobStatuses == {"absent", "pending", "running", "evicted"} \cup SettledJob
JobRecord == [status : JobStatuses, attempts : Nat, due : BOOLEAN, lost : BOOLEAN]
Holding == {"handling", "completing", "failing", "rescheduling"}
WorkerRecord == [pc : Holding \cup {"idle", "stopped"}, job : Jobs \cup {NoJob},
                 retry : BOOLEAN, ctx : BOOLEAN, stop : BOOLEAN]

\* Type invariant of the queue, its jobs and its workers.
JobsTypeOK ==
    /\ durable \in BOOLEAN /\ jobOrder \in Seq(Jobs)
    /\ job \in [Jobs -> JobRecord] /\ worker \in [Workers -> WorkerRecord]

\* The list holds exactly the jobs that are stored, each once.
ListMatchesJobs ==
    /\ \A i, k \in DOMAIN jobOrder : jobOrder[i] = jobOrder[k] => i = k
    /\ \A j \in Jobs : Queued(j) <=> job[j].status \notin {"absent", "evicted"}

\* Only the in-memory queue forgets and only Postgres loses; a job that may be claimed
\* has an attempt left, and one that was claimed has a worker or is lost.
JobConsistent(j) ==
    /\ job[j].status = "evicted" => ~durable
    /\ job[j].lost => durable /\ job[j].status = "running"
    /\ job[j].attempts <= MaxJobAttempts
    /\ job[j].status \in {"absent", "pending"} => job[j].attempts < MaxJobAttempts
    /\ job[j].status = "running" => job[j].lost \/ \E w \in Workers : Held(w) = j

\* What a worker holds is running, or was evicted under it, and no other holds it; the
\* retry that Fail has read is still right when Fail writes.
WorkerConsistent(w) ==
    /\ Held(w) # NoJob <=> worker[w].pc \in Holding
    /\ Held(w) # NoJob =>
          /\ job[Held(w)].status \in {"running", "evicted"} /\ ~job[Held(w)].lost
          /\ \A v \in Workers \ {w} : Held(v) # Held(w)
    /\ WorkerAt(w, "rescheduling") => durable /\ worker[w].retry = MoreAttempts(Held(w))

\* The invariant behind the contract of the queue.
JobsInv ==
    /\ JobsTypeOK /\ ListMatchesJobs
    /\ \A j \in Jobs : JobConsistent(j)
    /\ \A w \in Workers : WorkerConsistent(w)

\* The in-memory queue never grows past its cap.
CapRespected == ~durable => Len(jobOrder) <= MaxJobs

\* A job in the terms of the contract.
Standing(j) ==
    CASE job[j].status = "absent"  -> "new"
      [] job[j].status = "pending" -> "waiting"
      [] job[j].status = "running" -> (IF job[j].lost THEN "abandoned" ELSE "held")
      [] job[j].status = "evicted" -> "forgotten"
      [] OTHER                     -> job[j].status

Contract == INSTANCE JobContract WITH
    Nothing <- NoJob, Holders <- Workers, MaxTries <- MaxJobAttempts,
    state <- [j \in Jobs |-> Standing(j)],
    tries <- [j \in Jobs |-> job[j].attempts],
    holding <- [w \in Workers |-> worker[w].job]

\* Both backends keep the contract of the queue, through evictions under a worker,
\* crashes, cancelled contexts and a Fail in two statements: a job is claimed by one
\* worker at a time and at most MaxAttempts times, it fails only with its attempts used
\* up, completed and failed are final, and making room costs a job that still has to run
\* only when there is no settled one to forget.
QueueKeepsContract == Contract!ContractSpec

\* Every queued job settles, is evicted or is lost with its worker, as long as a
\* worker remains: no sequence of failures, backoffs and evictions leaves one behind.
JobsSettle ==
    \A j \in Jobs : job[j].status = "pending" ~>
        \/ job[j].status \in SettledJob \cup {"evicted"} \/ job[j].lost
        \/ \A w \in Workers : worker[w].stop \/ ~worker[w].ctx
=============================================================================
