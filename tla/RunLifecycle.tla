---------------------------- MODULE RunLifecycle ----------------------------
(***************************************************************************)
(* The life of a run in the Agent Orchestrator: the HTTP handlers that     *)
(* create, batch-create, retry and cancel runs (agentorchestrator/         *)
(* server.go), the worker pool that executes them (executor.go,            *)
(* agent_loop.go), the shared run store, and the concurrent-run quota.     *)
(*                                                                         *)
(* One tenant is modelled: every map of the code is keyed by tenant.  A    *)
(* step is one critical section or one store call; handlers, workers and   *)
(* auto-retry goroutines interleave between them, as goroutines do.        *)
(***************************************************************************)
EXTENDS Integers, Sequences, FiniteSets

CONSTANTS
  Runs,            \* run ids that id.New may return
  Handlers,        \* HTTP requests served concurrently
  Workers,         \* executor workers
  Keys,            \* idempotency keys clients use
  NoRun, NoKey,    \* absence of a run / of a key
  MaxConcurrent,   \* AGENTOS_QUOTA_CONCURRENT_RUNS
  QueueCap,        \* capacity of Executor.queue (2 * workers in the code)
  MaxSteps,        \* step limit of the agent loop
  MaxCancelDepth,  \* AGENTOS_MAX_DELEGATION_DEPTH
  BatchSize,       \* largest batch a client sends (50 in the code)
  Ops,             \* operations clients use: create, batch, retry, cancel
  AutoRetry,       \* AGENTOS_AUTO_RETRY_ON_PROVIDER_ERROR
  StoreFaults,     \* whether storage calls made for a handler may fail
  MaxCrashes,      \* bound on process crashes
  CanShutdown,     \* whether the operator shuts the process down
  DeadlinePasses   \* whether a shutdown may hit its deadline

ASSUME ConstantsAssumption ==
  /\ IsFiniteSet(Runs) /\ IsFiniteSet(Handlers)
  /\ NoRun \notin Runs
  /\ NoKey \notin Keys
  /\ Handlers \cap Runs = {}
  /\ MaxConcurrent \in Nat
  /\ QueueCap \in Nat /\ (Workers = {} => QueueCap = 0)
  /\ MaxSteps \in Nat
  /\ MaxCancelDepth \in Nat
  /\ BatchSize \in Nat
  /\ MaxCrashes \in Nat
  /\ AutoRetry \in BOOLEAN
  /\ StoreFaults \in BOOLEAN
  /\ CanShutdown \in BOOLEAN
  /\ DeadlinePasses \in BOOLEAN

VARIABLES
  store,       \* run store: status of each run ("absent": not created)
  parent,      \* run.RetryOf
  key,         \* run.IdempotencyKey
  conc,        \* MemoryBackend.concurrent of the tenant
  queue,       \* Executor.queue
  registered,  \* domain of Executor.cancels
  ctxDone,     \* runs whose job context is cancelled or timed out
  detached,    \* runs whose job context derives from shutdownCtx
  hs,          \* state of each handler and of each run's auto-retry goroutine
  ws,          \* state of each worker
  emitted,     \* terminal event emitted on the run's event sink
  phase,       \* of the process: up, draining, closed, down
  crashes,     \* crashes so far
  lost         \* history: runs persisted that no goroutine will ever execute

storeVars == <<store, parent, key>>
execVars == <<queue, registered, ctxDone, detached>>
procVars == <<phase, crashes, lost>>
vars == <<storeVars, conc, execVars, hs, ws, emitted, procVars>>

Active == {"queued", "running"}
Terminal == {"completed", "failed", "canceled"}
Statuses == {"absent"} \cup Active \cup Terminal

(* The auto-retry goroutine of a failed run is named by that run. *)
Procs == Handlers \cup Runs

IdleHandler == [pc |-> "idle", op |-> "none", run |-> NoRun, of |-> NoRun,
                key |-> NoKey, left |-> 0, frames |-> <<>>]
IdleWorker == [pc |-> "idle", run |-> NoRun, step |-> 0, code |-> "none"]

Submitting(p) == hs[p].pc \in {"register", "enqueue"}
Busy(w) == ws[w].pc \notin {"idle", "exited"}
Queued(r) == \E i \in 1..Len(queue) : queue[i] = r

Init ==
  /\ store = [r \in Runs |-> "absent"]
  /\ parent = [r \in Runs |-> NoRun]
  /\ key = [r \in Runs |-> NoKey]
  /\ conc = 0
  /\ queue = <<>>
  /\ registered = {}
  /\ ctxDone = {}
  /\ detached = {}
  /\ hs = [p \in Procs |-> IdleHandler]
  /\ ws = [w \in Workers |-> IdleWorker]
  /\ emitted = [r \in Runs |-> "none"]
  /\ phase = "up"
  /\ crashes = 0
  /\ lost = {}

-----------------------------------------------------------------------------
(* Quota: MemoryBackend.TryIncConcurrent and DecConcurrent. *)

TryIncConcurrent ==
  /\ conc < MaxConcurrent
  /\ conc' = conc + 1

(* Mutant: no floor at zero. *)
DecConcurrentNoFloor == conc' = conc - 1

DecConcurrent ==
  conc' = IF conc > 0 THEN conc - 1 ELSE 0

HoldsSlot(p) == hs[p].op \in {"create", "batch"}

(* The error paths of handleRunCreate and handleRunBatch give back the slot*)
(* they took; a retry took none.                                           *)
ReleaseSlot(p) == IF HoldsSlot(p) THEN DecConcurrent ELSE UNCHANGED conc

(* Bound: run ids are finite here, so a request that needs one is only     *)
(* taken while ids are left for it and for everything already under way.   *)
InFlight(r) ==
  \/ \E p \in Procs : Submitting(p) /\ hs[p].run = r
  \/ Queued(r)
  \/ \E w \in Workers : Busy(w) /\ ws[w].run = r
Awaiting == {p \in Procs : hs[p].pc \in {"admitted", "create", "waiting"}}
MayAutoRetry == IF AutoRetry
                THEN {p \in Awaiting : HoldsSlot(p)}
                       \cup {r \in Runs : parent[r] = NoRun /\ InFlight(r)}
                ELSE {}
FreshIds(n) ==
  Cardinality({r \in Runs : store[r] = "absent"})
    >= Cardinality(Awaiting) + Cardinality(MayAutoRetry) + n
IdsPerRun == IF AutoRetry THEN 2 ELSE 1

Serving(h, pc) == h \in Handlers /\ phase # "down" /\ hs[h].pc = pc
Running(p, pc) == phase # "down" /\ hs[p].pc = pc
Return(p) == hs' = [hs EXCEPT ![p] = IdleHandler]
Goto(p, pc) == hs' = [hs EXCEPT ![p].pc = pc]

-----------------------------------------------------------------------------
(* handleRunCreate and handleRunBatch: admission. *)

(* A request passes the QPS bucket and takes a concurrency slot.  A denied *)
(* request is answered 429 and changes nothing.                            *)
RunCreateAdmit(h, k) ==
  /\ phase = "up" /\ Serving(h, "idle") /\ "create" \in Ops
  /\ FreshIds(IdsPerRun)
  /\ TryIncConcurrent
  /\ hs' = [hs EXCEPT ![h] =
              [IdleHandler EXCEPT !.pc = "admitted", !.op = "create", !.key = k]]
  /\ UNCHANGED <<storeVars, execVars, procVars, ws, emitted>>

(* The token budget is exhausted or the body does not decode. *)
RunCreateReject(h) ==
  /\ Serving(h, "admitted")
  /\ ReleaseSlot(h)
  /\ Return(h)
  /\ UNCHANGED <<storeVars, execVars, procVars, ws, emitted>>

(* GetByIdempotencyKey; a failed lookup falls through to creation. *)
RunCreateLookup(h) ==
  /\ Serving(h, "admitted") /\ hs[h].op = "create" /\ hs[h].key # NoKey
  /\ \/ /\ \E r \in Runs : store[r] # "absent" /\ key[r] = hs[h].key
        /\ ReleaseSlot(h)
        /\ Return(h)
     \/ /\ \/ StoreFaults
           \/ \A r \in Runs : store[r] = "absent" \/ key[r] # hs[h].key
        /\ Goto(h, "create")
        /\ UNCHANGED conc
  /\ UNCHANGED <<storeVars, execVars, procVars, ws, emitted>>

RunBatchBegin(h, n) ==
  /\ phase = "up" /\ Serving(h, "idle") /\ "batch" \in Ops
  /\ hs' = [hs EXCEPT ![h] =
              [IdleHandler EXCEPT !.pc = "next", !.op = "batch", !.left = n]]
  /\ UNCHANGED <<storeVars, execVars, procVars, conc, ws, emitted>>

(* The next item of a batch; a denial answers 429 and drops the rest. *)
RunBatchNext(h, k) ==
  /\ Serving(h, "next")
  /\ \/ /\ FreshIds(IdsPerRun)
        /\ TryIncConcurrent
        /\ hs' = [hs EXCEPT ![h].pc = "admitted", ![h].key = k,
                            ![h].left = hs[h].left - 1]
     \/ /\ Return(h)
        /\ UNCHANGED conc
  /\ UNCHANGED <<storeVars, execVars, procVars, ws, emitted>>

(* Mutant: any terminal run can be retried. *)
RetryableTerminal == Terminal

(* No code stores the status "error" that handleRunRetry also accepts. *)
Retryable == {"failed"}

(* handleRunRetry: only a failed run, and no slot is taken. *)
RunRetryGet(h, r) ==
  /\ phase = "up" /\ Serving(h, "idle") /\ "retry" \in Ops
  /\ FreshIds(1)
  /\ store[r] \in Retryable
  /\ hs' = [hs EXCEPT ![h] =
              [IdleHandler EXCEPT !.pc = "create", !.op = "retry", !.of = r]]
  /\ UNCHANGED <<storeVars, execVars, procVars, conc, ws, emitted>>

(* scheduleAutoRetry: the 5-second timer, or the shutdown signal. *)
AutoRetryWake(r) ==
  /\ Running(r, "waiting")
  /\ \/ Goto(r, "create")
     \/ phase = "closed" /\ Return(r)
  /\ UNCHANGED <<storeVars, execVars, procVars, conc, ws, emitted>>

-----------------------------------------------------------------------------
(* Persisting and submitting a new run. *)

CreateReady(p) ==
  /\ hs[p].op = "create"
  /\ Running(p, "create") \/ (Running(p, "admitted") /\ hs[p].key = NoKey)
BatchReady(p) == hs[p].op = "batch" /\ Running(p, "admitted")
RetryReady(p) == hs[p].op = "retry" /\ Running(p, "create")
AutoReady(p) == hs[p].op = "auto" /\ Running(p, "create")

ReadyToPersist(p) ==
  CreateReady(p) \/ BatchReady(p) \/ RetryReady(p) \/ AutoReady(p)

(* Create with a fresh id; a job context is made for the run, that of an   *)
(* automatic retry under shutdownCtx.                                      *)
RunPersist(p, r) ==
  /\ ReadyToPersist(p)
  /\ store[r] = "absent"
  /\ hs[p].op = "auto" => phase # "closed"
  /\ store' = [store EXCEPT ![r] = "queued"]
  /\ parent' = [parent EXCEPT ![r] = hs[p].of]
  /\ key' = [key EXCEPT ![r] = hs[p].key]
  /\ hs' = [hs EXCEPT ![p].pc = "register", ![p].run = r]
  /\ detached' = IF hs[p].op = "auto" THEN detached \cup {r} ELSE detached
  /\ UNCHANGED <<procVars, conc, queue, registered, ctxDone, ws, emitted>>

(* Create returns an error: a cancelled context writes nothing, a failed   *)
(* write leaves the run behind.                                            *)
RunPersistFails(p, r) ==
  /\ ReadyToPersist(p)
  /\ StoreFaults \/ (hs[p].op = "auto" /\ phase = "closed")
  /\ store[r] = "absent"
  /\ \/ UNCHANGED <<storeVars, lost>>
     \/ /\ StoreFaults
        /\ store' = [store EXCEPT ![r] = "queued"]
        /\ parent' = [parent EXCEPT ![r] = hs[p].of]
        /\ key' = [key EXCEPT ![r] = hs[p].key]
        /\ lost' = lost \cup {r}
  /\ ReleaseSlot(p)
  /\ Return(p)
  /\ UNCHANGED <<execVars, ws, emitted, phase, crashes>>

(* Executor.Submit: register the cancel function under the mutex ... *)
SubmitRegister(p) ==
  /\ Running(p, "register")
  /\ registered' = registered \cup {hs[p].run}
  /\ Goto(p, "enqueue")
  /\ UNCHANGED <<storeVars, procVars, conc, queue, ctxDone, detached, ws, emitted>>

(* ... then send on the channel, which blocks while it is full. *)
SubmitEnqueue(p) ==
  /\ Running(p, "enqueue")
  /\ phase # "closed"
  /\ Len(queue) < QueueCap
  /\ queue' = Append(queue, hs[p].run)
  /\ hs' = [hs EXCEPT ![p] =
              IF hs[p].op = "batch" /\ hs[p].left > 0
              THEN [@ EXCEPT !.pc = "next", !.run = NoRun, !.key = NoKey]
              ELSE IdleHandler]
  /\ UNCHANGED <<storeVars, procVars, conc, registered, ctxDone, detached, ws, emitted>>

(* A send on the closed channel panics.  net/http recovers a handler's     *)
(* panic; nothing recovers the auto-retry goroutine's, which ends the      *)
(* process.                                                                *)
SubmitPanics(p) ==
  /\ Running(p, "enqueue")
  /\ phase = "closed"
  /\ lost' = lost \cup {hs[p].run}
  /\ Return(p)
  /\ phase' = IF hs[p].op = "auto" THEN "down" ELSE phase
  /\ UNCHANGED <<storeVars, execVars, conc, ws, emitted, crashes>>

-----------------------------------------------------------------------------
(* handleCancel and cascadeCancelChildren. *)

CancelGet(h, r) ==
  /\ phase = "up" /\ Serving(h, "idle") /\ "cancel" \in Ops
  /\ store[r] \in Active
  /\ hs' = [hs EXCEPT ![h] =
              [IdleHandler EXCEPT !.pc = "cancel_ctx", !.op = "cancel", !.run = r]]
  /\ UNCHANGED <<storeVars, execVars, procVars, conc, ws, emitted>>

(* Executor.Cancel: cancel the job context if the run is registered. *)
CancelCtx(h) ==
  /\ Serving(h, "cancel_ctx")
  /\ ctxDone' = ctxDone \cup ({hs[h].run} \cap registered)
  /\ Goto(h, "cancel_save")
  /\ UNCHANGED <<storeVars, procVars, conc, queue, registered, detached, ws, emitted>>

(* Save the cancelled state.  The slot of a child is released here, that   *)
(* of the run itself once the cascade is over.                             *)
CancelSave(h) ==
  /\ Serving(h, "cancel_save")
  /\ store' = [store EXCEPT ![hs[h].run] = "canceled"]
  /\ IF hs[h].frames = <<>> THEN UNCHANGED conc ELSE DecConcurrent
  /\ Goto(h, "cascade_list")
  /\ UNCHANGED <<execVars, procVars, parent, key, ws, emitted>>

(* The save fails: the handler answers 500, the cascade skips the child. *)
CancelSaveFails(h) ==
  /\ StoreFaults
  /\ Serving(h, "cancel_save")
  /\ store' \in {store, [store EXCEPT ![hs[h].run] = "canceled"]}
  /\ IF hs[h].frames = <<>> THEN Return(h) ELSE Goto(h, "cascade_next")
  /\ UNCHANGED <<execVars, procVars, parent, key, conc, ws, emitted>>

ActiveChildren(r) == {c \in Runs : parent[c] = r /\ store[c] \in Active}

(* ListChildRuns and the status filter; a failed listing ends the cascade. *)
Listed(r) == {ActiveChildren(r)} \cup (IF StoreFaults THEN {{}} ELSE {})

CascadeList(h) ==
  /\ Serving(h, "cascade_list")
  /\ \E kids \in Listed(hs[h].run) :
       hs' = [hs EXCEPT ![h].pc = "cascade_next",
                        ![h].frames = IF Len(@) < MaxCancelDepth
                                      THEN Append(@, kids)
                                      ELSE @]
  /\ UNCHANGED <<storeVars, execVars, procVars, conc, ws, emitted>>

(* The next child of the innermost listing, or back to the one above. *)
CascadeNext(h) ==
  /\ Serving(h, "cascade_next")
  /\ hs[h].frames # <<>>
  /\ LET n == Len(hs[h].frames)
         todo == hs[h].frames[n]
     IN IF todo = {}
        THEN hs' = [hs EXCEPT ![h].frames = SubSeq(@, 1, n - 1)]
        ELSE \E c \in todo :
               hs' = [hs EXCEPT ![h].pc = "cancel_ctx", ![h].run = c,
                                ![h].frames = [@ EXCEPT ![n] = todo \ {c}]]
  /\ UNCHANGED <<storeVars, execVars, procVars, conc, ws, emitted>>

CancelRelease(h) ==
  /\ Serving(h, "cascade_next")
  /\ hs[h].frames = <<>>
  /\ DecConcurrent
  /\ Return(h)
  /\ UNCHANGED <<storeVars, execVars, procVars, ws, emitted>>

-----------------------------------------------------------------------------
(* Executor workers: worker, executeRun, transitionToRunning, failRun. *)

At(w, pc) == phase # "down" /\ ws[w].pc = pc
Step(w, pc) == ws' = [ws EXCEPT ![w].pc = pc]
FailWith(w, code) == ws' = [ws EXCEPT ![w].pc = "fail", ![w].code = code]

(* Mutant: the job stays on the queue. *)
AfterReceivePeek == queue

(* Receiving from the channel takes the oldest job off it. *)
AfterReceive == Tail(queue)

Dequeue(w) ==
  /\ At(w, "idle")
  /\ queue # <<>>
  /\ ws' = [ws EXCEPT ![w] = [IdleWorker EXCEPT !.pc = "start", !.run = Head(queue)]]
  /\ queue' = AfterReceive
  /\ UNCHANGED <<storeVars, procVars, conc, registered, ctxDone, detached, hs, emitted>>

(* Mutant: a closed channel ends the worker at once. *)
RangeEndsEarly == phase = "closed"

(* Ranging over the closed channel ends once it is empty. *)
RangeEnds == phase = "closed" /\ queue = <<>>

WorkerExit(w) ==
  /\ At(w, "idle")
  /\ RangeEnds
  /\ Step(w, "exited")
  /\ UNCHANGED <<storeVars, execVars, procVars, conc, hs, emitted>>

(* Mutant: a job whose context is done is dropped. *)
AfterCtxCheckDrop(w) ==
  IF ws[w].run \in ctxDone THEN "finish" ELSE "save_running"

AfterCtxCheck(w) == IF ws[w].run \in ctxDone THEN "loop" ELSE "save_running"

(* transitionToRunning saves with the job context: the store looks at the  *)
(* context before it takes its lock, and an error is only logged.          *)
StartCheckCtx(w) ==
  /\ At(w, "start")
  /\ Step(w, AfterCtxCheck(w)) \/ (StoreFaults /\ Step(w, "loop"))
  /\ UNCHANGED <<storeVars, execVars, procVars, conc, hs, emitted>>

SaveRunning(w) ==
  /\ At(w, "save_running")
  /\ store' = [store EXCEPT ![ws[w].run] = "running"]
  /\ Step(w, "loop")
  /\ UNCHANGED <<execVars, procVars, parent, key, conc, hs, emitted>>

(* Mutant: the step counter is not advanced. *)
NextStepStuck(w) == ws[w].step

NextStep(w) == ws[w].step + 1

(* Head of the agent loop: no model, step limit, cancelled context, PII in *)
(* the input, or a model call.                                             *)
LoopHead(w) ==
  /\ At(w, "loop")
  /\ \/ ws[w].step = 0 /\ FailWith(w, "no_model")
     \/ ws[w].step = MaxSteps /\ FailWith(w, "max_steps_exceeded")
     \/ ws[w].step < MaxSteps /\ ws[w].run \in ctxDone /\ FailWith(w, "canceled")
     \/ /\ ws[w].step < MaxSteps /\ ws[w].run \notin ctxDone
        /\ \/ FailWith(w, "pii_blocked")
           \/ ws' = [ws EXCEPT ![w].pc = "model", ![w].step = NextStep(w)]
  /\ UNCHANGED <<storeVars, execVars, procVars, conc, hs, emitted>>

(* The model call returns: an error, a response without choices, tool      *)
(* calls (executed, then the loop goes on), or the final answer.           *)
ModelReturns(w) ==
  /\ At(w, "model")
  /\ \/ FailWith(w, IF ws[w].run \in ctxDone THEN "canceled" ELSE "provider_error")
     \/ FailWith(w, "provider_error")
     \/ Step(w, "loop")
     \/ Step(w, "complete")
  /\ UNCHANGED <<storeVars, execVars, procVars, conc, hs, emitted>>

(* Mutant: the outcome is saved with the job context. *)
SaveOutcomeJobCtx(r, status) ==
  /\ store' = IF r \in ctxDone THEN store ELSE [store EXCEPT ![r] = status]
  /\ UNCHANGED lost

(* The outcome is saved with a background context, whatever became of the  *)
(* job's; an error is only logged and leaves the old status for good.      *)
SaveOutcome(r, status) ==
  \/ /\ store' = [store EXCEPT ![r] = status]
     /\ UNCHANGED lost
  \/ /\ StoreFaults
     /\ UNCHANGED store
     /\ lost' = lost \cup {r}

SaveCompleted(w) ==
  /\ At(w, "complete")
  /\ SaveOutcome(ws[w].run, "completed")
  /\ emitted' = [emitted EXCEPT ![ws[w].run] = "run.completed"]
  /\ Step(w, "finish")
  /\ UNCHANGED <<execVars, parent, key, conc, hs, phase, crashes>>

(* failRun re-reads the status; a terminal run is left alone. *)
FailRead(w) ==
  /\ At(w, "fail")
  /\ \/ /\ store[ws[w].run] \in Terminal
        /\ emitted' = [emitted EXCEPT ![ws[w].run] = "run.failed"]
        /\ Step(w, "finish")
     \/ /\ StoreFaults \/ store[ws[w].run] \notin Terminal
        /\ Step(w, "fail_save")
        /\ UNCHANGED emitted
  /\ UNCHANGED <<storeVars, execVars, procVars, conc, hs>>

AutoRetries(w) ==
  AutoRetry /\ ws[w].code = "provider_error" /\ parent[ws[w].run] = NoRun

(* Mutant: a missing return after failRun. *)
AfterFailRunGoesOn == "loop"

AfterFailRun == "finish"

(* Save the failure; a provider error of a run that is no retry schedules  *)
(* one automatic retry.                                                    *)
FailSave(w) ==
  /\ At(w, "fail_save")
  /\ LET r == ws[w].run
     IN /\ SaveOutcome(r, "failed")
        /\ emitted' = [emitted EXCEPT ![r] = "run.failed"]
        /\ hs' = IF AutoRetries(w)
                 THEN [hs EXCEPT ![r] = [IdleHandler EXCEPT !.pc = "waiting",
                                                            !.op = "auto", !.of = r]]
                 ELSE hs
  /\ Step(w, AfterFailRun)
  /\ UNCHANGED <<execVars, parent, key, conc, phase, crashes>>

(* Done on the sink, then the cancel function is forgotten. *)
Finish(w) ==
  /\ At(w, "finish")
  /\ registered' = registered \ {ws[w].run}
  /\ ws' = [ws EXCEPT ![w] = IdleWorker]
  /\ UNCHANGED <<storeVars, procVars, conc, queue, ctxDone, detached, hs, emitted>>

(* The deadline of a job's context (RunOptions.TimeoutMs, 300s by default). *)
Timeout(r) ==
  /\ phase # "down"
  /\ r \in registered \ ctxDone
  /\ ctxDone' = ctxDone \cup {r}
  /\ UNCHANGED <<storeVars, procVars, conc, queue, registered, detached, hs, ws, emitted>>

-----------------------------------------------------------------------------
(* ServerPair.Shutdown, process exit, crash and restart. *)

HttpShutdown ==
  /\ CanShutdown
  /\ phase = "up"
  /\ phase' = "draining"
  /\ UNCHANGED <<storeVars, execVars, conc, hs, ws, emitted, crashes, lost>>

(* HTTP.Shutdown returns once the handlers are idle or at its deadline;    *)
(* then the queue is closed and shutdownCtx cancelled.                     *)
ExecutorShutdown ==
  /\ phase = "draining"
  /\ DeadlinePasses \/ \A h \in Handlers : hs[h].pc = "idle"
  /\ phase' = "closed"
  /\ ctxDone' = ctxDone \cup detached
  /\ UNCHANGED <<storeVars, conc, queue, registered, detached, hs, ws, emitted, crashes, lost>>

Drained ==
  /\ \A w \in Workers : ws[w].pc = "exited"
  /\ \A p \in Procs : hs[p].pc = "idle"

(* Executor.Shutdown returns when the wait group is done or at the         *)
(* deadline, and the process ends.                                         *)
Exit ==
  /\ phase = "closed"
  /\ DeadlinePasses \/ Drained
  /\ phase' = "down"
  /\ UNCHANGED <<storeVars, execVars, conc, hs, ws, emitted, crashes, lost>>

Crash ==
  /\ phase # "down"
  /\ crashes < MaxCrashes
  /\ crashes' = crashes + 1
  /\ phase' = "down"
  /\ UNCHANGED <<storeVars, execVars, conc, hs, ws, emitted, lost>>

(* A new process: the store is loaded, the concurrent count is rebuilt     *)
(* from the runs that look active, nothing is resubmitted.                 *)
Restart ==
  /\ phase = "down"
  /\ phase' = "up"
  /\ conc' = Cardinality({r \in Runs : store[r] \in Active})
  /\ queue' = <<>>
  /\ registered' = {}
  /\ ctxDone' = {}
  /\ detached' = {}
  /\ hs' = [p \in Procs |-> IdleHandler]
  /\ ws' = [w \in Workers |-> IdleWorker]
  /\ lost' = lost \cup {r \in Runs : store[r] \in Active}
  /\ UNCHANGED <<storeVars, emitted, crashes>>

-----------------------------------------------------------------------------
HandlerStep(h) ==
  \/ \E k \in Keys \cup {NoKey} : RunCreateAdmit(h, k) \/ RunBatchNext(h, k)
  \/ RunCreateReject(h)
  \/ RunCreateLookup(h)
  \/ \E n \in 1..BatchSize : RunBatchBegin(h, n)
  \/ \E r \in Runs : RunRetryGet(h, r) \/ CancelGet(h, r)
  \/ CancelCtx(h)
  \/ CancelSave(h)
  \/ CancelSaveFails(h)
  \/ CascadeList(h)
  \/ CascadeNext(h)
  \/ CancelRelease(h)

SubmitStep(p) ==
  \/ \E r \in Runs : RunPersist(p, r) \/ RunPersistFails(p, r)
  \/ SubmitRegister(p)
  \/ SubmitEnqueue(p)
  \/ SubmitPanics(p)

WorkerStep(w) ==
  \/ Dequeue(w)
  \/ WorkerExit(w)
  \/ StartCheckCtx(w)
  \/ SaveRunning(w)
  \/ LoopHead(w)
  \/ ModelReturns(w)
  \/ SaveCompleted(w)
  \/ FailRead(w)
  \/ FailSave(w)
  \/ Finish(w)

ProcessStep == HttpShutdown \/ ExecutorShutdown \/ Exit \/ Crash \/ Restart

(* Nothing in flight: the server waits for requests, or is down for good.  *)
Quiescent ==
  /\ \A p \in Procs : hs[p].pc = "idle"
  /\ \A w \in Workers : ~Busy(w)
  /\ queue = <<>>
  /\ UNCHANGED vars

Next ==
  \/ \E h \in Handlers : HandlerStep(h)
  \/ \E r \in Runs : AutoRetryWake(r) \/ Timeout(r)
  \/ \E p \in Procs : SubmitStep(p)
  \/ \E w \in Workers : WorkerStep(w)
  \/ ProcessStep
  \/ Quiescent

Spec == Init /\ [][Next]_vars

(* Go schedules every runnable goroutine; a store call and a model call    *)
(* return (the job context bounds the latter); a timer fires.  Clients,    *)
(* operators and crashes owe nothing.                                      *)
Fairness ==
  /\ \A h \in Handlers : WF_vars(HandlerStep(h) /\ hs[h].pc # "idle")
  /\ \A p \in Procs : WF_vars(SubmitStep(p))
  /\ \A r \in Runs : WF_vars(AutoRetryWake(r))
  /\ \A w \in Workers : WF_vars(WorkerStep(w))
  /\ WF_vars(ExecutorShutdown)
  /\ WF_vars(Restart)

FairSpec == Spec /\ Fairness

-----------------------------------------------------------------------------
HandlerPcs == {"idle", "next", "admitted", "create", "waiting", "register",
               "enqueue", "cancel_ctx", "cancel_save", "cascade_list",
               "cascade_next"}
WorkerPcs == {"idle", "exited", "start", "save_running", "loop", "model",
              "complete", "fail", "fail_save", "finish"}
Codes == {"none", "no_model", "max_steps_exceeded", "canceled", "pii_blocked",
          "provider_error"}

HandlerState ==
  [pc : HandlerPcs, op : {"none", "create", "batch", "retry", "auto", "cancel"},
   run : Runs \cup {NoRun}, of : Runs \cup {NoRun}, key : Keys \cup {NoKey},
   left : Nat, frames : Seq(SUBSET Runs)]
WorkerState ==
  [pc : WorkerPcs, run : Runs \cup {NoRun}, step : Nat, code : Codes]

(* The store, the executor and the processes keep their types. *)
StateOK ==
  /\ store \in [Runs -> Statuses]
  /\ parent \in [Runs -> Runs \cup {NoRun}]
  /\ key \in [Runs -> Keys \cup {NoKey}]
  /\ queue \in Seq(Runs)
  /\ registered \subseteq Runs
  /\ ctxDone \subseteq Runs
  /\ detached \subseteq Runs
  /\ hs \in [Procs -> HandlerState]
  /\ ws \in [Workers -> WorkerState]
  /\ emitted \in [Runs -> {"none", "run.completed", "run.failed"}]
  /\ phase \in {"up", "draining", "closed", "down"}
  /\ crashes \in Nat
  /\ lost \subseteq Runs

(* Type invariant. *)
TypeOK == StateOK /\ conc \in Nat

(* A job is held in one place only: by the goroutine submitting it, in one *)
(* slot of Executor.queue, or by one worker.  Nothing executes twice.      *)
ExclusiveExecution ==
  /\ \A p, q \in Procs : Submitting(p) /\ Submitting(q) /\ p # q
                           => hs[p].run # hs[q].run
  /\ \A p \in Procs : Submitting(p) => ~Queued(hs[p].run)
  /\ \A p \in Procs, w \in Workers : Submitting(p) /\ Busy(w)
                                       => hs[p].run # ws[w].run
  /\ \A i, j \in 1..Len(queue) : i # j => queue[i] # queue[j]
  /\ \A w \in Workers : Busy(w) => ~Queued(ws[w].run)
  /\ \A v, w \in Workers : Busy(v) /\ Busy(w) /\ v # w
                            => ws[v].run # ws[w].run

(* A run the store shows as queued or running is on its way to a worker or *)
(* in one's hands: only a crash, a failed store write or a Submit into a   *)
(* closed queue can strand it.                                             *)
NoOrphanedRun ==
  \A r \in Runs : store[r] \in Active => InFlight(r) \/ r \in lost

(* The terminal event on the run's sink agrees with the stored status, up  *)
(* to a cancellation that raced with the end of the run and to a failed    *)
(* write.                                                                  *)
EventMatchesStatus ==
  \A r \in Runs \ lost :
    /\ emitted[r] = "run.completed" => store[r] \in {"completed", "canceled"}
    /\ emitted[r] = "run.failed" => store[r] \in {"failed", "canceled"}

(* Only runs that failed are retried, and a retried run can at most become *)
(* canceled later (or keep the status a failed write left it); an automatic*)
(* retry is never retried automatically, and no run has two of them.       *)
RetriesAreOfFailedRuns ==
  /\ \A r \in Runs : parent[r] \in Runs \ lost
                        => store[parent[r]] \in {"failed", "canceled"}
  /\ \A q, r \in detached : /\ parent[q] = parent[r] => q = r
                             /\ parent[q] # NoRun /\ parent[parent[q]] = NoRun

(* Requests that end without a run give their quota slot back: the count   *)
(* never exceeds the runs created plus the requests still being admitted.  *)
NoPhantomSlots ==
  conc <= Cardinality({r \in Runs : store[r] # "absent"})
          + Cardinality({p \in Procs : hs[p].pc \in {"admitted", "create"}
                                        /\ HoldsSlot(p)})

(* The bookkeeping around a run: retries are made of failed runs, once, and *)
(* requests that end without a run hold no slot of the quota.              *)
RetriesAndSlotsAddUp == RetriesAreOfFailedRuns /\ NoPhantomSlots

(* The outcome a worker stored stands, except that a cancel handler that   *)
(* read the run before it ended may still mark it canceled.                *)
OutcomeStands ==
  [][\A r \in Runs :
       /\ store[r] = "completed" => store'[r] \in {"completed", "canceled"}
       /\ store[r] = "failed" => store'[r] \in {"failed", "canceled"}]_vars

(* When the wait group is done after Executor.Shutdown, every job that was *)
(* in the queue or in a worker's hands has been carried to its end.        *)
DrainFinishesJobs ==
  phase = "closed" /\ Drained
    => \A r \in Runs : store[r] \in Active => r \in lost

(* Every run that is persisted ends for good: its status is eventually     *)
(* terminal and stays so, whatever cancels, retries and workers interleave.*)
RunsSettle == \A r \in Runs : <>[](store[r] \notin Active)

-----------------------------------------------------------------------------
(* What documents and comments say of the program.  The code does not keep *)
(* these: each is checked by a run that shows how it fails.                *)

(* v1.02 design, 4.3: "queued -> running -> completed|failed|canceled", and*)
(* failRun's "the save is skipped to avoid overwriting": a canceled run    *)
(* stays canceled.                                                         *)
CanceledStays ==
  [][\A r \in Runs : store[r] = "canceled" => store'[r] = "canceled"]_vars

(* restoreConcurrentCounts rebuilds the counter "from in-progress runs":   *)
(* the counter stands for those, so it is zero when none is left.          *)
SlotsReturned ==
  (/\ \A p \in Procs : hs[p].pc = "idle"
   /\ \A r \in Runs : store[r] \notin Active) => conc = 0

=============================================================================
