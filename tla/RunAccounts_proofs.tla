------------------------ MODULE RunAccounts_proofs ------------------------
(***************************************************************************)
(* The bookkeeping around the runs, for any number of runs, handlers and   *)
(* workers, any operations and any faults: retries are made of failed      *)
(* runs, and automatically at most once; the quota counts no slot that     *)
(* nobody holds; a drained executor has finished every job.                *)
(***************************************************************************)
EXTENDS RunSafety_proofs, SetFacts

\* A worker ends only when no job can come any more.
ExitedIsLast ==
  /\ Len(queue) <= QueueCap
  /\ \A w \in Workers : ws[w].pc = "exited" => phase \in {"closed", "down"} /\ queue = <<>>

\* What is retried, or about to be, has emitted its failure: the store alone would not
\* do, as a late cancel may change what it says.
FailureIsEmitted ==
  /\ \A r \in Runs : store[r] = "failed" => emitted[r] = "run.failed"
  /\ \A r \in Runs : parent[r] \in Runs => emitted[parent[r]] = "run.failed"
  /\ \A p \in Procs : hs[p].of \in Runs => emitted[hs[p].of] = "run.failed"

\* The auto-retry goroutine of a run retries that run, which is no retry itself, and
\* until it has created the new run there is no other.
AutoRetriesItself ==
  /\ \A p \in Procs : hs[p].op = "auto" => p \in Runs /\ hs[p].of = p /\ parent[p] = NoRun
  /\ \A r \in Runs : hs[r].pc \in {"waiting", "create"} => \A c \in detached : parent[c] # r
  /\ \A r \in Runs : hs[r].pc # "idle" => hs[r].op = "auto"
  /\ \A c \in detached : store[c] # "absent"
  /\ \A q, r \in detached : /\ parent[q] = parent[r] => q = r
                             /\ parent[q] # NoRun /\ parent[parent[q]] = NoRun

NextIsBatch == \A p \in Procs : hs[p].pc = "next" => hs[p].op = "batch"

AccountInv ==
  ExitedIsLast /\ FailureIsEmitted /\ AutoRetriesItself /\ NextIsBatch
  /\ conc \in Nat /\ NoPhantomSlots

-----------------------------------------------------------------------------
(* Draining *)

\* No step lets a worker end while jobs may still come.
LEMMA ExitStep == Inv /\ ExitedIsLast /\ [Next]_vars => ExitedIsLast'
<1>. SUFFICES ASSUME Inv, ExitedIsLast, [Next]_vars PROVE ExitedIsLast'  OBVIOUS
<1>. USE DEF storeVars, execVars, procVars
<1>0. /\ queue \in Seq(Runs) /\ Len(queue) \in Nat /\ QueueCap \in Nat
      /\ ws \in [Workers -> WorkerState] /\ hs \in [Procs -> HandlerState]
      /\ \A p \in Procs : Submitting(p) => hs[p].run \in Runs
  BY ConstantsAssumption
     DEF Inv, TypeInv, StateOK, RunFields, HandlerOK, NamesRun, Submitting
<1>1. ASSUME queue' = queue, ws' = ws, phase' \in {phase, "closed", "down"} PROVE ExitedIsLast'
  BY <1>1 DEF ExitedIsLast
<1>2. ASSUME NEW h \in Handlers, HandlerStep(h) PROVE ExitedIsLast'
  <2>1. queue' = queue /\ ws' = ws /\ phase' = phase
    BY <1>2, Zenon DEF HandlerStep, RunCreateAdmit, RunBatchNext, RunCreateReject,
       RunCreateLookup, RunBatchBegin, RunRetryGet, CancelGet, CancelCtx, CancelSave,
       CancelSaveFails, CascadeList, CascadeNext, CancelRelease
  <2>. QED  BY <2>1, <1>1
<1>3. ASSUME NEW p \in Procs, SubmitStep(p) PROVE ExitedIsLast'
  <2>1. CASE SubmitEnqueue(p)
    <3>1. /\ phase \notin {"closed", "down"} /\ Len(queue) < QueueCap
          /\ queue' = Append(queue, hs[p].run) /\ ws' = ws /\ hs[p].run \in Runs
      BY <2>1, <1>0 DEF SubmitEnqueue, Running, Submitting
    <3>2. Len(queue') <= QueueCap  BY <3>1, <1>0
    <3>3. \A w \in Workers : ws'[w].pc # "exited"  BY <3>1 DEF ExitedIsLast
    <3>. QED  BY <3>2, <3>3 DEF ExitedIsLast
  <2>2. CASE ~SubmitEnqueue(p)
    <3>1. queue' = queue /\ ws' = ws /\ phase' \in {phase, "closed", "down"}
      BY <1>3, <2>2 DEF SubmitStep, RunPersist, RunPersistFails, SubmitRegister, SubmitPanics
    <3>. QED  BY <3>1, <1>1
  <2>. QED  BY <2>1, <2>2
<1>4. ASSUME NEW w \in Workers, WorkerStep(w) PROVE ExitedIsLast'
  <2>0. phase' = phase
    BY <1>4, Zenon DEF WorkerStep, Dequeue, WorkerExit, StartCheckCtx, SaveRunning, LoopHead,
       ModelReturns, SaveCompleted, FailRead, FailSave, Finish
  <2>1. CASE Dequeue(w)
    <3>1. queue # <<>> /\ queue' = Tail(queue)
      BY <2>1 DEF Dequeue, AfterReceive
    <3>2. \A v \in Workers : ws[v].pc # "exited"  BY <3>1 DEF ExitedIsLast
    <3>3. \A v \in Workers : ws'[v].pc # "exited"
      BY <2>1, <3>2, <1>0 DEF Dequeue, IdleWorker
    <3>4. Len(queue') <= QueueCap  BY <3>1, <1>0 DEF ExitedIsLast
    <3>. QED  BY <3>3, <3>4 DEF ExitedIsLast
  <2>2. CASE WorkerExit(w)
    <3>1. queue = <<>> /\ queue' = queue /\ phase = "closed" /\ phase' = phase
      BY <2>2 DEF WorkerExit, RangeEnds
    <3>. QED  BY <3>1 DEF ExitedIsLast
  <2>3. CASE ~Dequeue(w) /\ ~WorkerExit(w)
    <3>1. queue' = queue
      BY <1>4, <2>3, Zenon DEF WorkerStep, StartCheckCtx, SaveRunning, LoopHead,
         ModelReturns, SaveCompleted, FailRead, FailSave, Finish
    <3>2. /\ \A v \in Workers \ {w} : ws'[v] = ws[v]
          /\ ws'[w].pc # "exited"
      <4>1. CASE StartCheckCtx(w)
        BY <4>1, <1>0 DEF StartCheckCtx, Step, AfterCtxCheck, WorkerState
      <4>2. CASE SaveRunning(w)  BY <4>2, <1>0 DEF SaveRunning, Step, WorkerState
      <4>3. CASE LoopHead(w)  BY <4>3, <1>0 DEF LoopHead, FailWith, WorkerState
      <4>4. CASE ModelReturns(w)  BY <4>4, <1>0 DEF ModelReturns, FailWith, Step, WorkerState
      <4>5. CASE SaveCompleted(w)  BY <4>5, <1>0 DEF SaveCompleted, Step, WorkerState
      <4>6. CASE FailRead(w)  BY <4>6, <1>0 DEF FailRead, Step, WorkerState
      <4>7. CASE FailSave(w)  BY <4>7, <1>0 DEF FailSave, Step, AfterFailRun, WorkerState
      <4>8. CASE Finish(w)  BY <4>8, <1>0 DEF Finish, IdleWorker
      <4>. QED
        BY <1>4, <2>3, <4>1, <4>2, <4>3, <4>4, <4>5, <4>6, <4>7, <4>8 DEF WorkerStep
    <3>. QED  BY <3>1, <3>2, <2>0 DEF ExitedIsLast
  <2>. QED  BY <2>1, <2>2, <2>3
<1>5. CASE Restart
  <2>1. queue' = <<>> /\ \A w \in Workers : ws'[w].pc # "exited"
    BY <1>5 DEF Restart, IdleWorker
  <2>2. Len(queue') <= QueueCap  BY <2>1, <1>0
  <2>. QED  BY <2>1, <2>2 DEF ExitedIsLast
<1>6. ASSUME \/ \E r \in Runs : AutoRetryWake(r) \/ Timeout(r)
             \/ HttpShutdown \/ ExecutorShutdown \/ Exit \/ Crash
             \/ UNCHANGED vars
      PROVE  ExitedIsLast'
  <2>1. queue' = queue /\ ws' = ws
    BY <1>6, Zenon DEF AutoRetryWake, Timeout, HttpShutdown, ExecutorShutdown, Exit, Crash, vars
  <2>2. phase' \in {phase, "closed", "down"} \/ HttpShutdown
    BY <1>6, Zenon DEF AutoRetryWake, Timeout, ExecutorShutdown, Exit, Crash, vars
  <2>3. CASE HttpShutdown
    <3>1. phase = "up"  BY <2>3 DEF HttpShutdown
    <3>. QED  BY <3>1, <2>1 DEF ExitedIsLast
  <2>. QED  BY <1>1, <2>1, <2>2, <2>3
<1>. QED  BY <1>2, <1>3, <1>4, <1>5, <1>6 DEF Next, ProcessStep, Quiescent

-----------------------------------------------------------------------------
(* Retries *)

\* What one step of a handler does to its own state.
LEMMA HandlerEffect ==
  ASSUME Inv, NEW h \in Handlers, HandlerStep(h)
  PROVE  /\ UNCHANGED <<parent, detached, emitted, queue, ws>>
         /\ \A p \in Procs \ {h} : hs'[p] = hs[p]
         /\ store' = store \/ store' = [store EXCEPT ![hs[h].run] = "canceled"]
         /\ hs'[h].op \in {"none", "create", "batch", "retry", "cancel", hs[h].op}
         /\ hs'[h].of \in {NoRun, hs[h].of} \/ store[hs'[h].of] = "failed"
         /\ hs'[h].pc = "next" => hs'[h].op = "batch"
<1>. USE DEF storeVars, execVars, procVars
<1>0. hs \in [Procs -> HandlerState] /\ h \in Procs
  BY DEF Inv, TypeInv, StateOK, Procs
<1>1. UNCHANGED <<parent, detached, emitted, queue, ws>>
  BY Zenon DEF HandlerStep, RunCreateAdmit, RunBatchNext, RunCreateReject,
     RunCreateLookup, RunBatchBegin, RunRetryGet, CancelGet, CancelCtx, CancelSave,
     CancelSaveFails, CascadeList, CascadeNext, CancelRelease
<1>2. store' = store \/ store' = [store EXCEPT ![hs[h].run] = "canceled"]
  BY Zenon DEF HandlerStep, RunCreateAdmit, RunBatchNext, RunCreateReject,
     RunCreateLookup, RunBatchBegin, RunRetryGet, CancelGet, CancelCtx, CancelSave,
     CancelSaveFails, CascadeList, CascadeNext, CancelRelease
<1>. DEFINE Effect ==
              /\ \A p \in Procs \ {h} : hs'[p] = hs[p]
              /\ hs'[h].op \in {"none", "create", "batch", "retry", "cancel", hs[h].op}
              /\ hs'[h].of \in {NoRun, hs[h].of} \/ store[hs'[h].of] = "failed"
              /\ hs'[h].pc = "next" => hs'[h].op = "batch"
<1>3. ASSUME Return(h) PROVE Effect
  BY <1>3, <1>0 DEF Return, IdleHandler
<1>4. ASSUME NEW pc, Goto(h, pc), pc # "next" PROVE Effect
  BY <1>4, <1>0 DEF Goto, HandlerState
<1>5. ASSUME NEW k, RunCreateAdmit(h, k) PROVE Effect
  BY <1>5, <1>0 DEF RunCreateAdmit, IdleHandler
<1>6. ASSUME NEW k, RunBatchNext(h, k) PROVE Effect
  <2>1. Return(h) \/ hs' = [hs EXCEPT ![h].pc = "admitted", ![h].key = k,
                                      ![h].left = hs[h].left - 1]
    BY <1>6 DEF RunBatchNext
  <2>2. CASE hs' = [hs EXCEPT ![h].pc = "admitted", ![h].key = k, ![h].left = hs[h].left - 1]
    BY <2>2, <1>0 DEF HandlerState
  <2>. QED  BY <2>1, <2>2, <1>3
<1>7. ASSUME NEW n, RunBatchBegin(h, n) PROVE Effect
  BY <1>7, <1>0 DEF RunBatchBegin, IdleHandler
<1>8. ASSUME NEW r \in Runs, RunRetryGet(h, r) PROVE Effect
  BY <1>8, <1>0 DEF RunRetryGet, IdleHandler, Retryable
<1>9. ASSUME NEW r \in Runs, CancelGet(h, r) PROVE Effect
  BY <1>9, <1>0 DEF CancelGet, IdleHandler
<1>10. ASSUME CascadeList(h) PROVE Effect
  BY <1>10, <1>0 DEF CascadeList, HandlerState
<1>11. ASSUME CascadeNext(h)
       PROVE  Effect
  <2>1. PICK f, c : \/ hs' = [hs EXCEPT ![h].frames = f] /\ hs[h].pc = "cascade_next"
                    \/ hs' = [hs EXCEPT ![h].pc = "cancel_ctx", ![h].run = c, ![h].frames = f]
    BY <1>11, Zenon DEF CascadeNext, Serving
  <2>. QED  BY <2>1, <1>0, SMTT(30) DEF HandlerState
<1>12. ASSUME RunCreateReject(h) \/ CancelRelease(h)
       PROVE  Effect
  BY <1>12, <1>3 DEF RunCreateReject, CancelRelease
<1>13. ASSUME RunCreateLookup(h) \/ CancelCtx(h) \/ CancelSave(h) \/ CancelSaveFails(h)
       PROVE  Effect
  BY <1>13, <1>3, <1>4 DEF RunCreateLookup, CancelCtx, CancelSave, CancelSaveFails
<1>14. Effect
  BY <1>5, <1>6, <1>7, <1>8, <1>9, <1>10, <1>11, <1>12, <1>13, Zenon DEF HandlerStep
<1>. QED  BY <1>1, <1>2, <1>14, Zenon

\* A worker emits the outcome of a run once.
LEMMA WorkerEmits ==
  ASSUME Inv, NEW w \in Workers, WorkerStep(w)
  PROVE  /\ \A r \in Runs : emitted[r] # "none" => emitted'[r] = emitted[r]
         /\ \A r \in Runs : store'[r] = "failed" =>
               store[r] = "failed" \/ emitted'[r] = "run.failed"
         /\ \A r \in Runs : store'[r] = "absent" => store[r] = "absent"
         /\ UNCHANGED <<parent, detached>>
         /\ ~FailSave(w) => hs' = hs
<1>. USE DEF storeVars, execVars, procVars
<1>0. /\ store \in [Runs -> Statuses]
      /\ emitted \in [Runs -> {"none", "run.completed", "run.failed"}]
      /\ Busy(w) => ws[w].run \in Runs
      /\ Busy(w) /\ ws[w].pc # "finish" =>
            emitted[ws[w].run] = "none"
  BY DEF Inv, TypeInv, StateOK, RunFields, SafetyInv, EndedReleased, Ended
<1>1. UNCHANGED <<parent, detached>> /\ (~FailSave(w) => hs' = hs)
  BY Zenon DEF WorkerStep, Dequeue, WorkerExit, StartCheckCtx, SaveRunning, LoopHead,
     ModelReturns, SaveCompleted, FailRead, FailSave, Finish
<1>2. CASE emitted' = emitted /\ store' = store  BY <1>1, <1>2
<1>3. CASE SaveRunning(w)
  <2>1. ws[w].run \in Runs /\ store' = [store EXCEPT ![ws[w].run] = "running"] /\ emitted' = emitted
    BY <1>3, <1>0 DEF SaveRunning, At, Busy
  <2>. QED  BY <2>1, <1>0, <1>1
<1>4. CASE SaveCompleted(w)
  <2>1. /\ ws[w].run \in Runs /\ emitted[ws[w].run] = "none"
        /\ store' = [store EXCEPT ![ws[w].run] = "completed"] \/ store' = store
        /\ emitted' = [emitted EXCEPT ![ws[w].run] = "run.completed"]
    BY <1>4, <1>0 DEF SaveCompleted, SaveOutcome, At, Busy
  <2>. QED  BY <2>1, <1>0, <1>1
<1>5. CASE FailRead(w)
  <2>1. /\ ws[w].run \in Runs /\ emitted[ws[w].run] = "none" /\ store' = store
        /\ emitted' = [emitted EXCEPT ![ws[w].run] = "run.failed"] \/ emitted' = emitted
    BY <1>5, <1>0 DEF FailRead, At, Busy
  <2>. QED  BY <2>1, <1>0, <1>1
<1>6. CASE FailSave(w)
  <2>1. /\ ws[w].run \in Runs /\ emitted[ws[w].run] = "none"
        /\ store' = [store EXCEPT ![ws[w].run] = "failed"] \/ store' = store
        /\ emitted' = [emitted EXCEPT ![ws[w].run] = "run.failed"]
    BY <1>6, <1>0 DEF FailSave, SaveOutcome, At, Busy
  <2>. QED  BY <2>1, <1>0, <1>1
<1>7. \/ emitted' = emitted /\ store' = store
      \/ SaveRunning(w) \/ SaveCompleted(w) \/ FailRead(w) \/ FailSave(w)
  BY Zenon DEF WorkerStep, Dequeue, WorkerExit, StartCheckCtx, LoopHead, ModelReturns, Finish
<1>. QED  BY <1>1, <1>2, <1>3, <1>4, <1>5, <1>6, <1>7

RetryInv == FailureIsEmitted /\ AutoRetriesItself /\ NextIsBatch

\* Steps that create no run and change one handler or auto-retry goroutine at most.
LEMMA RetryFrame ==
  ASSUME RetryInv, UNCHANGED <<parent, detached>>, NEW p \in Procs,
         \A q \in Procs \ {p} : hs'[q] = hs[q],
         \A r \in Runs : emitted[r] = "run.failed" => emitted'[r] = "run.failed",
         \A r \in Runs : store'[r] = "failed" =>
            store[r] = "failed" \/ emitted'[r] = "run.failed",
         \A r \in Runs : store'[r] = "absent" => store[r] = "absent",
         detached \subseteq Runs,
         hs'[p].of \in Runs => emitted'[hs'[p].of] = "run.failed",
         hs'[p].op = "auto" => p \in Runs /\ hs'[p].of = p /\ parent[p] = NoRun,
         p \in Runs /\ hs'[p].pc \in {"waiting", "create"} => \A c \in detached : parent[c] # p,
         p \in Runs /\ hs'[p].pc # "idle" => hs'[p].op = "auto",
         hs'[p].pc = "next" => hs'[p].op = "batch"
  PROVE  RetryInv'
<1>0. Runs \subseteq Procs  BY DEF Procs
<1>1. FailureIsEmitted'
  <2>1. \A r \in Runs : store'[r] = "failed" => emitted'[r] = "run.failed"
    BY Zenon DEF RetryInv, FailureIsEmitted
  <2>2. \A r \in Runs : parent'[r] \in Runs => emitted'[parent'[r]] = "run.failed"
    BY DEF RetryInv, FailureIsEmitted
  <2>3. \A q \in Procs : hs'[q].of \in Runs => emitted'[hs'[q].of] = "run.failed"
    BY DEF RetryInv, FailureIsEmitted
  <2>. QED  BY <2>1, <2>2, <2>3, Zenon DEF FailureIsEmitted
<1>2. AutoRetriesItself'
  <2>1. \A q \in Procs : hs'[q].op = "auto" => q \in Runs /\ hs'[q].of = q /\ parent'[q] = NoRun
    BY DEF RetryInv, AutoRetriesItself
  <2>2. \A r \in Runs : hs'[r].pc \in {"waiting", "create"} => \A c \in detached' : parent'[c] # r
    BY <1>0 DEF RetryInv, AutoRetriesItself
  <2>3. \A r \in Runs : hs'[r].pc # "idle" => hs'[r].op = "auto"
    BY <1>0 DEF RetryInv, AutoRetriesItself
  <2>4. \A c \in detached' : store'[c] # "absent"
    BY DEF RetryInv, AutoRetriesItself
  <2>5. \A q, r \in detached' : /\ parent'[q] = parent'[r] => q = r
                                /\ parent'[q] # NoRun /\ parent'[parent'[q]] = NoRun
    BY DEF RetryInv, AutoRetriesItself
  <2>. QED  BY <2>1, <2>2, <2>3, <2>4, <2>5 DEF AutoRetriesItself
<1>3. NextIsBatch'  BY DEF RetryInv, NextIsBatch
<1>. QED  BY <1>1, <1>2, <1>3 DEF RetryInv

\* A run that a goroutine retries exists.
LEMMA RetriedExists ==
  ASSUME Inv, RetryInv
  PROVE  /\ \A r \in Runs : emitted[r] # "none" => store[r] # "absent"
         /\ \A p \in Procs : hs[p].op = "auto" => p \in Runs /\ store[p] # "absent"
         /\ \A c \in detached : parent[c] \in Runs /\ store[parent[c]] # "absent"
<1>1. \A r \in Runs : emitted[r] # "none" => store[r] # "absent"
  BY DEF Inv, SafetyInv, EndedReleased, Ended
<1>2. \A p \in Procs : hs[p].op = "auto" => p \in Runs /\ store[p] # "absent"
  BY <1>1 DEF RetryInv, AutoRetriesItself, FailureIsEmitted
<1>3. ASSUME NEW c \in detached PROVE parent[c] \in Runs /\ store[parent[c]] # "absent"
  <2>1. c \in Runs /\ parent[c] \in Runs \cup {NoRun}  BY DEF Inv, TypeInv, StateOK
  <2>2. parent[c] # NoRun  BY DEF RetryInv, AutoRetriesItself
  <2>. QED  BY <1>1, <2>1, <2>2 DEF RetryInv, FailureIsEmitted
<1>. QED  BY <1>1, <1>2, <1>3, Zenon

\* A new run is a retry of what its creator was asked to retry.
LEMMA PersistRetries ==
  ASSUME Inv, RetryInv, NEW p \in Procs, NEW r \in Runs, RunPersist(p, r)
  PROVE  RetryInv'
<1>0. /\ store \in [Runs -> Statuses] /\ hs \in [Procs -> HandlerState]
      /\ parent \in [Runs -> Runs \cup {NoRun}] /\ detached \subseteq Runs /\ NoRun \notin Runs
      /\ Runs \subseteq Procs
  BY ConstantsAssumption DEF Inv, TypeInv, StateOK, Procs
<1>1. /\ store[r] = "absent" /\ emitted' = emitted
      /\ store' = [store EXCEPT ![r] = "queued"]
      /\ parent' = [parent EXCEPT ![r] = hs[p].of]
      /\ detached' = IF hs[p].op = "auto" THEN detached \cup {r} ELSE detached
  BY DEF RunPersist
<1>2. /\ \A q \in Procs \ {p} : hs'[q] = hs[q]
      /\ hs'[p].pc = "register" /\ hs'[p].op = hs[p].op /\ hs'[p].of = hs[p].of
  BY <1>0 DEF RunPersist, HandlerState
<1>3. hs[p].pc # "idle" /\ (hs[p].op = "auto" => hs[p].pc = "create")
  BY DEF RunPersist, ReadyToPersist, CreateReady, BatchReady, RetryReady, AutoReady, Running
<1>4. /\ \A q \in Procs : hs[q].op = "auto" => q \in Runs /\ hs[q].of = q /\ q # r
                                               /\ parent[q] = NoRun
      /\ \A c \in detached : c # r /\ parent[c] # r /\ parent[c] \in Runs
  BY <1>1, RetriedExists DEF RetryInv, AutoRetriesItself
<1>5. /\ \A c \in detached : parent'[c] = parent[c] /\ parent'[parent[c]] = parent[parent[c]]
      /\ parent'[r] = hs[p].of
      /\ \A q \in Runs : q # r => parent'[q] = parent[q]
  BY <1>0, <1>1, <1>4
<1>6. FailureIsEmitted'
  <2>1. \A q \in Runs : store'[q] = "failed" => emitted'[q] = "run.failed"
    BY <1>0, <1>1 DEF RetryInv, FailureIsEmitted
  <2>2. \A q \in Runs : parent'[q] \in Runs => emitted'[parent'[q]] = "run.failed"
    BY <1>1, <1>5 DEF RetryInv, FailureIsEmitted
  <2>3. \A q \in Procs : hs'[q].of \in Runs => emitted'[hs'[q].of] = "run.failed"
    BY <1>1, <1>2 DEF RetryInv, FailureIsEmitted
  <2>. QED  BY <2>1, <2>2, <2>3, Zenon DEF FailureIsEmitted
<1>7. \A q \in Procs : hs'[q].op = hs[q].op /\ hs'[q].of = hs[q].of  BY <1>2
<1>8. AutoRetriesItself'
  <2>1. \A q \in Procs : hs'[q].op = "auto" => q \in Runs /\ hs'[q].of = q /\ parent'[q] = NoRun
    BY <1>4, <1>5, <1>7
  <2>2. ASSUME NEW q \in Runs, hs'[q].pc \in {"waiting", "create"}, NEW c \in detached'
        PROVE  parent'[c] # q
    <3>1. q # p /\ hs'[q] = hs[q]  BY <1>0, <1>2, <2>2
    <3>2. CASE c \in detached
      BY <3>1, <3>2, <2>2, <1>5 DEF RetryInv, AutoRetriesItself
    <3>3. CASE c \notin detached
      <4>1. c = r /\ hs[p].op = "auto"  BY <3>3, <1>1
      <4>. QED  BY <4>1, <3>1, <1>4, <1>5
    <3>. QED  BY <3>2, <3>3
  <2>3. \A q \in Runs : hs'[q].pc # "idle" => hs'[q].op = "auto"
    BY <1>0, <1>2, <1>3 DEF RetryInv, AutoRetriesItself
  <2>4. \A c \in detached' : store'[c] # "absent"
    BY <1>0, <1>1 DEF RetryInv, AutoRetriesItself
  <2>5. ASSUME NEW q \in detached', NEW t \in detached'
        PROVE  /\ parent'[q] = parent'[t] => q = t
               /\ parent'[q] # NoRun /\ parent'[parent'[q]] = NoRun
    <3>1. hs[p].op = "auto" =>
             /\ p \in Runs /\ p # r /\ parent'[r] = p /\ parent'[p] = NoRun
             /\ \A c \in detached : parent[c] # p
      BY <1>3, <1>4, <1>5 DEF RetryInv, AutoRetriesItself
    <3>2. \A c \in detached' : c \in detached \/ (c = r /\ hs[p].op = "auto")
      BY <1>1
    <3>3. CASE q \in detached /\ t \in detached
      BY <3>3, <1>5 DEF RetryInv, AutoRetriesItself
    <3>4. CASE q \in detached /\ t = r /\ hs[p].op = "auto"
      BY <3>1, <3>4, <1>5, SMTT(30) DEF RetryInv, AutoRetriesItself
    <3>5. CASE q = r /\ hs[p].op = "auto"
      BY <3>1, <3>2, <3>5, <1>0, <1>5
    <3>. QED  BY <3>2, <3>3, <3>4, <3>5, SMTT(30)
  <2>. QED  BY <2>1, <2>2, <2>3, <2>4, <2>5, Zenon DEF AutoRetriesItself
<1>9. NextIsBatch'  BY <1>2, Zenon DEF RetryInv, NextIsBatch
<1>. QED  BY <1>6, <1>8, <1>9 DEF RetryInv

\* A failed creation may leave a run behind, which is no automatic retry.
LEMMA PersistFailsRetries ==
  ASSUME Inv, RetryInv, NEW p \in Procs, NEW r \in Runs, RunPersistFails(p, r)
  PROVE  RetryInv'
<1>0. /\ store \in [Runs -> Statuses] /\ hs \in [Procs -> HandlerState]
      /\ parent \in [Runs -> Runs \cup {NoRun}] /\ detached \subseteq Runs /\ NoRun \notin Runs
      /\ Runs \subseteq Procs
  BY ConstantsAssumption DEF Inv, TypeInv, StateOK, Procs
<1>1. /\ store[r] = "absent" /\ UNCHANGED <<emitted, detached>>
      /\ \/ store' = store /\ parent' = parent
         \/ /\ store' = [store EXCEPT ![r] = "queued"]
            /\ parent' = [parent EXCEPT ![r] = hs[p].of]
  BY DEF RunPersistFails, storeVars, execVars
<1>2. /\ \A q \in Procs \ {p} : hs'[q] = hs[q]
      /\ hs'[p].pc = "idle" /\ hs'[p].op = "none" /\ hs'[p].of = NoRun
  BY <1>0, SMTT(30) DEF RunPersistFails, Return, IdleHandler
<1>4. /\ \A q \in Procs : hs[q].op = "auto" => q \in Runs /\ q # r
      /\ \A c \in detached : c # r /\ parent[c] # r /\ parent[c] \in Runs
  BY <1>1, RetriedExists DEF RetryInv, AutoRetriesItself
<1>5. /\ \A c \in detached : parent'[c] = parent[c] /\ parent'[parent[c]] = parent[parent[c]]
      /\ \A q \in Runs : parent'[q] \in {parent[q], hs[p].of}
      /\ \A q \in Runs : q # r => parent'[q] = parent[q]
  BY <1>0, <1>1, <1>4, SMTT(30)
<1>6. FailureIsEmitted'
  <2>1. \A q \in Runs : store'[q] = "failed" => emitted'[q] = "run.failed"
    BY <1>0, <1>1 DEF RetryInv, FailureIsEmitted
  <2>2. \A q \in Runs : parent'[q] \in Runs => emitted'[parent'[q]] = "run.failed"
    BY <1>1, <1>5 DEF RetryInv, FailureIsEmitted
  <2>3. \A q \in Procs : hs'[q].of \in Runs => emitted'[hs'[q].of] = "run.failed"
    BY <1>0, <1>1, <1>2 DEF RetryInv, FailureIsEmitted
  <2>. QED  BY <2>1, <2>2, <2>3, Zenon DEF FailureIsEmitted
<1>7. AutoRetriesItself'
  <2>1. \A q \in Procs : hs'[q].op = "auto" => q \in Runs /\ hs'[q].of = q /\ parent'[q] = NoRun
    BY <1>2, <1>4, <1>5 DEF RetryInv, AutoRetriesItself
  <2>2. \A q \in Runs : hs'[q].pc \in {"waiting", "create"} => \A c \in detached' : parent'[c] # q
    BY <1>0, <1>1, <1>2, <1>5 DEF RetryInv, AutoRetriesItself
  <2>3. \A q \in Runs : hs'[q].pc # "idle" => hs'[q].op = "auto"
    BY <1>0, <1>2 DEF RetryInv, AutoRetriesItself
  <2>4. \A c \in detached' : store'[c] # "absent"
    BY <1>0, <1>1 DEF RetryInv, AutoRetriesItself
  <2>5. \A q, t \in detached' : /\ parent'[q] = parent'[t] => q = t
                                /\ parent'[q] # NoRun /\ parent'[parent'[q]] = NoRun
    BY <1>1, <1>5, SMTT(30) DEF RetryInv, AutoRetriesItself
  <2>. QED  BY <2>1, <2>2, <2>3, <2>4, <2>5, Zenon DEF AutoRetriesItself
<1>8. NextIsBatch'  BY <1>2 DEF RetryInv, NextIsBatch
<1>. QED  BY <1>6, <1>7, <1>8 DEF RetryInv

\* Every step keeps the account of the retries.
LEMMA RetryStep == Inv /\ RetryInv /\ [Next]_vars => RetryInv'
<1>. SUFFICES ASSUME Inv, RetryInv, [Next]_vars PROVE RetryInv'  OBVIOUS
<1>. USE DEF storeVars, execVars, procVars
<1>0. /\ store \in [Runs -> Statuses] /\ hs \in [Procs -> HandlerState]
      /\ parent \in [Runs -> Runs \cup {NoRun}] /\ detached \subseteq Runs /\ NoRun \notin Runs
      /\ Runs \subseteq Procs /\ Handlers \subseteq Procs /\ Handlers \cap Runs = {}
      /\ \A p \in Procs : hs[p].of \in Runs \cup {NoRun}
  BY ConstantsAssumption, SMTT(30) DEF Inv, TypeInv, StateOK, Procs, HandlerState
<1>1. ASSUME NEW h \in Handlers, HandlerStep(h) PROVE RetryInv'
  <2>1. /\ UNCHANGED <<parent, detached, emitted>>
        /\ \A p \in Procs \ {h} : hs'[p] = hs[p]
        /\ store' = store \/ store' = [store EXCEPT ![hs[h].run] = "canceled"]
        /\ hs'[h].op \in {"none", "create", "batch", "retry", "cancel", hs[h].op}
        /\ hs'[h].of \in {NoRun, hs[h].of} \/ store[hs'[h].of] = "failed"
        /\ hs'[h].pc = "next" => hs'[h].op = "batch"
    BY <1>1, HandlerEffect
  <2>2. h \in Procs /\ h \notin Runs  BY <1>0
  <2>3. hs'[h].op # "auto"  BY <2>1, <2>2, Zenon DEF RetryInv, AutoRetriesItself
  <2>4. hs'[h].of \in Runs => emitted'[hs'[h].of] = "run.failed"
    BY <2>1, <2>2, <1>0 DEF RetryInv, FailureIsEmitted
  <2>5. \A r \in Runs : (store'[r] = "failed" => store[r] = "failed")
                        /\ (store'[r] = "absent" => store[r] = "absent")
    BY <2>1, <1>0
  <2>. QED  BY <2>1, <2>2, <2>3, <2>4, <2>5, <1>0, RetryFrame, SMTT(30)
<1>2. ASSUME NEW p \in Procs, SubmitStep(p) PROVE RetryInv'
  <2>1. ASSUME NEW r \in Runs, RunPersist(p, r) \/ RunPersistFails(p, r) PROVE RetryInv'
    BY <2>1, PersistRetries, PersistFailsRetries, Zenon
  <2>2. CASE SubmitRegister(p) \/ SubmitEnqueue(p) \/ SubmitPanics(p)
    <3>1. UNCHANGED <<parent, detached, emitted, store>> /\ hs[p].pc # "idle"
      BY <2>2, Zenon DEF SubmitRegister, SubmitEnqueue, SubmitPanics, Running
    <3>2. /\ \A q \in Procs \ {p} : hs'[q] = hs[q]
          /\ hs'[p].pc \in {"idle", "enqueue", "next"}
          /\ hs'[p].pc = "next" => hs'[p].op = "batch"
          /\ \/ hs'[p].pc = "idle" /\ hs'[p].op = "none" /\ hs'[p].of = NoRun
             \/ hs'[p].op = hs[p].op /\ hs'[p].of = hs[p].of
      <4>1. CASE SubmitRegister(p)
        BY <4>1, <1>0, SMTT(30) DEF SubmitRegister, Goto, HandlerState
      <4>2. CASE SubmitEnqueue(p)
        <5>1. CASE hs[p].op = "batch" /\ hs[p].left > 0
          BY <4>2, <5>1, <1>0 DEF SubmitEnqueue, HandlerState
        <5>2. CASE ~(hs[p].op = "batch" /\ hs[p].left > 0)
          BY <4>2, <5>2, <1>0 DEF SubmitEnqueue, IdleHandler
        <5>. QED  BY <5>1, <5>2
      <4>3. CASE SubmitPanics(p)
        BY <4>3, <1>0, Zenon DEF SubmitPanics, Return, IdleHandler
      <4>. QED  BY <2>2, <4>1, <4>2, <4>3
    <3>3. /\ hs'[p].of \in Runs => emitted'[hs'[p].of] = "run.failed"
          /\ hs'[p].op = "auto" => p \in Runs /\ hs'[p].of = p /\ parent[p] = NoRun
          /\ p \in Runs /\ hs'[p].pc # "idle" => hs'[p].op = "auto"
      BY <3>1, <3>2, <1>0, SMTT(30) DEF RetryInv, FailureIsEmitted, AutoRetriesItself
    <3>. QED  BY <3>1, <3>2, <3>3, <1>0, RetryFrame
  <2>. QED  BY <1>2, <2>1, <2>2 DEF SubmitStep
<1>3. ASSUME NEW w \in Workers, WorkerStep(w) PROVE RetryInv'
  <2>1. /\ \A r \in Runs : emitted[r] # "none" => emitted'[r] = emitted[r]
        /\ \A r \in Runs : store'[r] = "failed" =>
              store[r] = "failed" \/ emitted'[r] = "run.failed"
        /\ \A r \in Runs : store'[r] = "absent" => store[r] = "absent"
        /\ UNCHANGED <<parent, detached>>
        /\ ~FailSave(w) => hs' = hs
    BY <1>3, WorkerEmits, Zenon
  <2>2. \A r \in Runs : emitted[r] = "run.failed" => emitted'[r] = "run.failed"  BY <2>1
  <2>3. CASE hs' = hs
    <3>1. \A p \in Procs : /\ hs'[p].of \in Runs => emitted'[hs'[p].of] = "run.failed"
                           /\ hs'[p].op = "auto" => p \in Runs /\ hs'[p].of = p /\ parent[p] = NoRun
                           /\ p \in Runs /\ hs'[p].pc \in {"waiting", "create"} =>
                                \A c \in detached : parent[c] # p
                           /\ p \in Runs /\ hs'[p].pc # "idle" => hs'[p].op = "auto"
                           /\ hs'[p].pc = "next" => hs'[p].op = "batch"
      BY <2>2, <2>3 DEF RetryInv, FailureIsEmitted, AutoRetriesItself, NextIsBatch
    <3>2. \A p \in Procs : hs'[p] = hs[p]  BY <2>3
    <3>3. FailureIsEmitted'
      BY <2>1, <2>2, <3>1, ZenonT(30) DEF RetryInv, FailureIsEmitted
    <3>4. AutoRetriesItself'
      BY <2>1, <2>3, <1>0, SMTT(30) DEF RetryInv, AutoRetriesItself
    <3>5. NextIsBatch'  BY <2>3 DEF RetryInv, NextIsBatch
    <3>. QED  BY <3>3, <3>4, <3>5, Zenon DEF RetryInv
  <2>4. CASE FailSave(w) /\ hs' # hs
    <3>. DEFINE r == ws[w].run
    <3>1. Busy(w) /\ r \in Runs /\ emitted[r] = "none"
      <4>1. Busy(w) /\ ws[w].pc # "finish"  BY <2>4 DEF FailSave, At, Busy
      <4>. QED
        BY <4>1 DEF Inv, TypeInv, RunFields, SafetyInv, EndedReleased, Ended
    <3>2. /\ parent[r] = NoRun
          /\ hs' = [hs EXCEPT ![r] = [IdleHandler EXCEPT !.pc = "waiting",
                                                         !.op = "auto", !.of = r]]
          /\ emitted' = [emitted EXCEPT ![r] = "run.failed"]
      BY <2>4 DEF FailSave, AutoRetries
    <3>. HIDE DEF r
    <3>3. /\ \A q \in Procs \ {r} : hs'[q] = hs[q]
          /\ hs'[r].pc = "waiting" /\ hs'[r].op = "auto" /\ hs'[r].of = r
      BY <3>1, <3>2, <1>0 DEF IdleHandler
    <3>4. emitted'[r] = "run.failed"
      BY <3>1, <3>2 DEF Inv, TypeInv, StateOK
    <3>5. \A c \in detached : parent[c] # r
      BY <3>1, <1>0, Zenon DEF RetryInv, FailureIsEmitted
    <3>. QED  BY <2>1, <2>2, <3>1, <3>2, <3>3, <3>4, <3>5, <1>0, RetryFrame, SMTT(30)
  <2>. QED  BY <2>1, <2>3, <2>4
<1>4. ASSUME NEW r \in Runs, AutoRetryWake(r) PROVE RetryInv'
  <2>1. UNCHANGED <<parent, detached, emitted, store>> /\ hs[r].pc = "waiting" /\ r \in Procs
    BY <1>4, <1>0 DEF AutoRetryWake, Running
  <2>2. /\ \A q \in Procs \ {r} : hs'[q] = hs[q]
        /\ \/ hs'[r].pc = "idle" /\ hs'[r].op = "none" /\ hs'[r].of = NoRun
           \/ hs'[r].pc = "create" /\ hs'[r].op = hs[r].op /\ hs'[r].of = hs[r].of
    BY <1>4, <2>1, <1>0, SMTT(30) DEF AutoRetryWake, Goto, Return, IdleHandler, HandlerState
  <2>3. /\ hs'[r].of \in Runs => emitted'[hs'[r].of] = "run.failed"
        /\ hs'[r].op = "auto" => hs'[r].of = r /\ parent[r] = NoRun
        /\ \A c \in detached : parent[c] # r
        /\ hs'[r].pc # "idle" => hs'[r].op = "auto"
    BY <2>1, <2>2, <1>0 DEF RetryInv, FailureIsEmitted, AutoRetriesItself
  <2>. QED  BY <2>1, <2>2, <2>3, <1>0, RetryFrame
<1>5. CASE Restart
  <2>1. /\ UNCHANGED <<store, parent, emitted>> /\ detached' = {}
        /\ \A p \in Procs : hs'[p] = IdleHandler
    BY <1>5 DEF Restart
  <2>2. \A p \in Procs : hs'[p].pc = "idle" /\ hs'[p].op = "none" /\ hs'[p].of = NoRun
    BY <2>1, SMTT(30) DEF IdleHandler
  <2>3. FailureIsEmitted'  BY <2>1, <2>2, <1>0, SMTT(30) DEF RetryInv, FailureIsEmitted
  <2>4. AutoRetriesItself'  BY <2>1, <2>2, <1>0 DEF AutoRetriesItself
  <2>5. NextIsBatch'  BY <2>2, SMTT(30) DEF NextIsBatch
  <2>. QED  BY <2>3, <2>4, <2>5 DEF RetryInv
<1>6. ASSUME \/ \E r \in Runs : Timeout(r)
             \/ HttpShutdown \/ ExecutorShutdown \/ Exit \/ Crash
             \/ UNCHANGED vars
      PROVE  RetryInv'
  <2>1. UNCHANGED <<store, parent, emitted, detached, hs>>
    BY <1>6, Zenon DEF Timeout, HttpShutdown, ExecutorShutdown, Exit, Crash, vars
  <2>. QED  BY <2>1 DEF RetryInv, FailureIsEmitted, AutoRetriesItself, NextIsBatch
<1>. QED  BY <1>1, <1>2, <1>3, <1>4, <1>5, <1>6, Zenon DEF Next, ProcessStep, Quiescent

-----------------------------------------------------------------------------
(* Slots of the quota *)

\* The requests that hold a slot and have not created their run, and the runs there are.
InSlot(p) == hs[p].pc \in {"admitted", "create"} /\ HoldsSlot(p)
Holders == {p \in Procs : InSlot(p)}
Existing == {r \in Runs : store[r] # "absent"}

\* One goroutine moves: it keeps its slot, takes one, gives its own back, or turns it
\* into a run.
SlotMove(p) ==
  /\ \A q \in Procs \ {p} : hs'[q] = hs[q]
  /\ \A r \in Runs : store'[r] = "absent" => store[r] = "absent"
  /\ \/ conc' <= conc /\ (InSlot(p) => InSlot(p)')
     \/ conc' = conc + 1 /\ ~InSlot(p) /\ InSlot(p)'
     \/ InSlot(p) /\ (conc' = conc - 1 \/ conc' = 0)
     \/ conc' <= conc /\ \E r \in Runs : store[r] = "absent" /\ store'[r] # "absent"

\* A goroutine that holds no slot, or keeps it, and does not count, moves no slot.
LEMMA MovesNone ==
  ASSUME conc \in Nat, conc' = conc, NEW p \in Procs,
         \A q \in Procs \ {p} : hs'[q] = hs[q],
         \A r \in Runs : store'[r] = "absent" => store[r] = "absent",
         hs'[p] = hs[p] \/ hs[p].pc \notin {"admitted", "create"}
  PROVE  SlotMove(p)
<1>1. conc' <= conc  OBVIOUS
<1>2. InSlot(p) => InSlot(p)'  BY Zenon DEF InSlot, HoldsSlot
<1>. QED  BY <1>1, <1>2, Zenon DEF SlotMove

\* A handler's step moves its own slot only.
LEMMA HandlerSlots ==
  ASSUME Inv, conc \in Nat, RetryInv, NEW h \in Handlers, HandlerStep(h)
  PROVE  SlotMove(h)
<1>. USE DEF storeVars, execVars, procVars
<1>0. /\ store \in [Runs -> Statuses] /\ hs \in [Procs -> HandlerState]
      /\ h \in Procs
      /\ hs[h].op \in {"none", "create", "batch", "retry", "auto", "cancel"}
  BY Zenon DEF Inv, TypeInv, StateOK, Procs, HandlerState
<1>1. /\ \A q \in Procs \ {h} : hs'[q] = hs[q]
      /\ store' = store \/ store' = [store EXCEPT ![hs[h].run] = "canceled"]
  BY HandlerEffect
<1>2. \A r \in Runs : store'[r] = "absent" => store[r] = "absent"  BY <1>0, <1>1
<1>. DEFINE Moves == \/ conc' <= conc /\ (InSlot(h) => InSlot(h)')
                     \/ conc' = conc + 1 /\ ~InSlot(h) /\ InSlot(h)'
                     \/ InSlot(h) /\ (conc' = conc - 1 \/ conc' = 0)
<1>3. ASSUME NEW k \in Keys \cup {NoKey}, RunCreateAdmit(h, k) PROVE Moves
  <2>1. conc' = conc + 1 /\ hs[h].pc = "idle"
        /\ hs'[h].pc = "admitted" /\ hs'[h].op = "create"
    BY <1>3, <1>0 DEF RunCreateAdmit, TryIncConcurrent, Serving, IdleHandler
  <2>. QED  BY <2>1 DEF InSlot, HoldsSlot
<1>4. ASSUME NEW k \in Keys \cup {NoKey}, RunBatchNext(h, k) PROVE Moves
  <2>1. /\ hs[h].pc = "next"
        /\ \/ conc' = conc + 1 /\ hs'[h].pc = "admitted" /\ hs'[h].op = hs[h].op
           \/ conc' = conc
    BY <1>4, <1>0 DEF RunBatchNext, TryIncConcurrent, Serving, HandlerState
  <2>2. hs[h].op = "batch"  BY <2>1, <1>0, Zenon DEF RetryInv, NextIsBatch
  <2>. QED  BY <2>1, <2>2, <1>0 DEF InSlot, HoldsSlot
<1>5. ASSUME RunCreateReject(h) PROVE Moves
  BY <1>5, <1>0 DEF RunCreateReject, ReleaseSlot, DecConcurrent, Serving, InSlot, HoldsSlot
<1>6. ASSUME RunCreateLookup(h) PROVE Moves
  <2>1. CASE ReleaseSlot(h)
    BY <1>6, <2>1, <1>0, SMTT(30)
       DEF RunCreateLookup, ReleaseSlot, DecConcurrent, Serving, InSlot, HoldsSlot
  <2>2. CASE Goto(h, "create") /\ UNCHANGED conc
    <3>1. hs'[h].pc = "create" /\ hs'[h].op = hs[h].op /\ conc' = conc
      BY <2>2, <1>0, SMTT(30) DEF Goto, HandlerState
    <3>. QED  BY <3>1, <1>0 DEF InSlot, HoldsSlot
  <2>. QED  BY <1>6, <2>1, <2>2, Zenon DEF RunCreateLookup
<1>7. ASSUME \/ \E n \in 1..BatchSize : RunBatchBegin(h, n)
             \/ \E r \in Runs : RunRetryGet(h, r) \/ CancelGet(h, r)
             \/ CancelCtx(h) \/ CancelSave(h) \/ CancelSaveFails(h)
             \/ CascadeList(h) \/ CascadeNext(h) \/ CancelRelease(h)
      PROVE  Moves
  <2>1. ASSUME \/ \E n \in 1..BatchSize : RunBatchBegin(h, n)
               \/ \E r \in Runs : RunRetryGet(h, r) \/ CancelGet(h, r)
        PROVE  conc' = conc /\ hs[h].pc = "idle"
    BY <2>1, Zenon DEF RunBatchBegin, RunRetryGet, CancelGet, Serving
  <2>2. ASSUME CancelCtx(h) \/ CancelSave(h) \/ CancelSaveFails(h)
        PROVE  (conc' = conc \/ DecConcurrent) /\ hs[h].pc \in {"cancel_ctx", "cancel_save"}
    BY <2>2, Zenon DEF CancelCtx, CancelSave, CancelSaveFails, Serving
  <2>3. ASSUME CascadeList(h) \/ CascadeNext(h) \/ CancelRelease(h)
        PROVE  (conc' = conc \/ DecConcurrent) /\ hs[h].pc \in {"cascade_list", "cascade_next"}
    BY <2>3, Zenon DEF CascadeList, CascadeNext, CancelRelease, Serving
  <2>4. DecConcurrent => conc' <= conc  BY <1>0 DEF DecConcurrent
  <2>5. conc' <= conc /\ hs[h].pc \notin {"admitted", "create"}
    BY <1>7, <2>1, <2>2, <2>3, <2>4, <1>0, SMTT(30)
  <2>. QED  BY <2>5 DEF InSlot
<1>8. Moves  BY <1>3, <1>4, <1>5, <1>6, <1>7 DEF HandlerStep
<1>. QED  BY <1>1, <1>2, <1>8 DEF SlotMove

\* Creating and submitting a run turns a slot into a run or gives it back.
LEMMA SubmitSlots ==
  ASSUME Inv, conc \in Nat, NEW p \in Procs, SubmitStep(p)
  PROVE  SlotMove(p)
<1>. USE DEF storeVars, execVars, procVars
<1>0. /\ store \in [Runs -> Statuses] /\ hs \in [Procs -> HandlerState]
  BY DEF Inv, TypeInv, StateOK
<1>1. ASSUME NEW r \in Runs, RunPersist(p, r) PROVE SlotMove(p)
  <2>1. /\ \A q \in Procs \ {p} : hs'[q] = hs[q]
        /\ store[r] = "absent" /\ store'[r] = "queued" /\ conc' = conc
        /\ \A t \in Runs : store'[t] = "absent" => store[t] = "absent"
    BY <1>0, <1>1 DEF RunPersist
  <2>. QED  BY <1>0, <2>1 DEF SlotMove
<1>2. ASSUME NEW r \in Runs, RunPersistFails(p, r) PROVE SlotMove(p)
  <2>1. /\ \A q \in Procs \ {p} : hs'[q] = hs[q]
        /\ \A t \in Runs : store'[t] = "absent" => store[t] = "absent"
    BY <1>0, <1>2, Zenon DEF RunPersistFails, Return
  <2>2. ReadyToPersist(p) /\ ReleaseSlot(p)  BY <1>2 DEF RunPersistFails
  <2>3. hs[p].pc \in {"admitted", "create"}
    BY <2>2 DEF ReadyToPersist, CreateReady, BatchReady, RetryReady, AutoReady, Running
  <2>4. \/ InSlot(p) /\ (conc' = conc - 1 \/ conc' = 0)
        \/ ~InSlot(p) /\ conc' = conc
    BY <2>2, <2>3, Zenon DEF ReleaseSlot, DecConcurrent, InSlot
  <2>. QED  BY <1>0, <2>1, <2>4 DEF SlotMove
<1>3. ASSUME SubmitRegister(p) \/ SubmitEnqueue(p) \/ SubmitPanics(p) PROVE SlotMove(p)
  <2>1. /\ \A q \in Procs \ {p} : hs'[q] = hs[q]
        /\ store' = store /\ conc' = conc /\ hs[p].pc \in {"register", "enqueue"}
    BY <1>0, <1>3 DEF SubmitRegister, SubmitEnqueue, SubmitPanics, Goto, Return, Running
  <2>2. hs[p].pc \notin {"admitted", "create"}  BY <2>1
  <2>. QED  BY <2>1, <2>2, MovesNone, Zenon
<1>. QED  BY <1>1, <1>2, <1>3 DEF SubmitStep

\* A set with one more element than another, or one less, at most.
LEMMA OneMore ==
  ASSUME FiniteFacts, NEW S, NEW T, NEW x, IsFiniteSet(T), S \subseteq T \cup {x}
  PROVE  /\ IsFiniteSet(S) /\ Cardinality(S) \in Nat /\ Cardinality(T) \in Nat
         /\ Cardinality(S) <= Cardinality(T) + 1
         /\ S \subseteq T => Cardinality(S) <= Cardinality(T)
         /\ S \subseteq T /\ x \in T \ S => Cardinality(S) + 1 <= Cardinality(T)
<1>1. /\ IsFiniteSet(T \cup {x}) /\ Cardinality(T \cup {x}) \in Nat /\ Cardinality(T) \in Nat
      /\ Cardinality(T \cup {x}) <= Cardinality(T) + 1
  <2>1. Cardinality(T) \in Nat  BY Zenon DEF FiniteFacts, CardinalityFacts
  <2>2. /\ IsFiniteSet(T \cup {x})
        /\ Cardinality(T \cup {x}) = IF x \in T THEN Cardinality(T) ELSE Cardinality(T) + 1
    BY Zenon DEF FiniteFacts, AddFacts
  <2>. QED  BY <2>1, <2>2
<1>2. /\ IsFiniteSet(S) /\ Cardinality(S) \in Nat
      /\ Cardinality(S) <= Cardinality(T \cup {x})
  BY <1>1, Zenon DEF FiniteFacts, SubsetFacts, CardinalityFacts
<1>3. S \subseteq T => Cardinality(S) <= Cardinality(T)
  BY Zenon DEF FiniteFacts, SubsetFacts
<1>4. ASSUME S \subseteq T, x \in T \ S PROVE Cardinality(S) + 1 <= Cardinality(T)
  <2>1. Cardinality(S \cup {x}) = Cardinality(S) + 1
    BY <1>2, <1>4, Zenon DEF FiniteFacts, AddFacts
  <2>2. S \cup {x} \subseteq T  BY <1>4, Zenon
  <2>3. Cardinality(S \cup {x}) <= Cardinality(T)
    BY <2>2, Zenon DEF FiniteFacts, SubsetFacts
  <2>. QED  BY <2>1, <2>3, Zenon
<1>. QED  BY <1>1, <1>2, <1>3, <1>4

\* The concurrent count is a natural number: it goes up by one, down to zero at most, and
\* is counted anew by a new process.
LEMMA CountStep == FiniteFacts /\ conc \in Nat /\ [Next]_vars => conc' \in Nat
<1>. SUFFICES ASSUME FiniteFacts, conc \in Nat, [Next]_vars PROVE conc' \in Nat  OBVIOUS
<1>. DEFINE Counts == conc' = conc \/ TryIncConcurrent \/ DecConcurrent
<1>1. ASSUME NEW h \in Handlers, HandlerStep(h) PROVE Counts
  <2>1. ASSUME NEW k \in Keys \cup {NoKey}, RunCreateAdmit(h, k) \/ RunBatchNext(h, k)
        PROVE  Counts
    BY <2>1, Zenon DEF RunCreateAdmit, RunBatchNext
  <2>2. ASSUME RunCreateReject(h) \/ RunCreateLookup(h) PROVE Counts
    BY <2>2, Zenon DEF RunCreateReject, RunCreateLookup, ReleaseSlot
  <2>3. ASSUME \/ \E n \in 1..BatchSize : RunBatchBegin(h, n)
               \/ \E r \in Runs : RunRetryGet(h, r) \/ CancelGet(h, r)
               \/ CancelCtx(h) \/ CancelSave(h) \/ CancelSaveFails(h)
        PROVE  Counts
    BY <2>3, Zenon DEF RunBatchBegin, RunRetryGet, CancelGet, CancelCtx, CancelSave,
       CancelSaveFails
  <2>4. ASSUME CascadeList(h) \/ CascadeNext(h) \/ CancelRelease(h) PROVE Counts
    BY <2>4, Zenon DEF CascadeList, CascadeNext, CancelRelease
  <2>. QED  BY <1>1, <2>1, <2>2, <2>3, <2>4, Zenon DEF HandlerStep
<1>2. ASSUME NEW p \in Procs, SubmitStep(p) PROVE Counts
  BY <1>2, Zenon DEF SubmitStep, RunPersist, RunPersistFails, SubmitRegister,
     SubmitEnqueue, SubmitPanics, ReleaseSlot
<1>3. ASSUME NEW w \in Workers, WorkerStep(w) PROVE Counts
  BY <1>3, Zenon DEF WorkerStep, Dequeue, WorkerExit, StartCheckCtx, SaveRunning,
     LoopHead, ModelReturns, SaveCompleted, FailRead, FailSave, Finish
<1>4. CASE Restart
  <2>. DEFINE A == {r \in Runs : store[r] \in Active}
  <2>1. A \subseteq Runs /\ IsFiniteSet(Runs)  BY ConstantsAssumption
  <2>2. conc' = Cardinality(A)  BY <1>4 DEF Restart
  <2>. HIDE DEF A
  <2>. QED  BY <2>1, <2>2, Zenon DEF FiniteFacts, SubsetFacts, CardinalityFacts
<1>5. ASSUME \/ \E r \in Runs : AutoRetryWake(r) \/ Timeout(r)
             \/ HttpShutdown \/ ExecutorShutdown \/ Exit \/ Crash
             \/ UNCHANGED vars
      PROVE  Counts
  BY <1>5, Zenon DEF AutoRetryWake, Timeout, HttpShutdown, ExecutorShutdown, Exit, Crash, vars
<1>6. Counts => conc' \in Nat  BY DEF TryIncConcurrent, DecConcurrent
<1>. QED  BY <1>1, <1>2, <1>3, <1>4, <1>5, <1>6 DEF Next, ProcessStep, Quiescent

\* A move of one goroutine leaves no slot behind that nobody holds.
LEMMA SlotsMove ==
  ASSUME FiniteFacts, IsFiniteSet(Procs), conc \in Nat, conc' \in Nat,
         NoPhantomSlots, NEW p \in Procs, SlotMove(p)
  PROVE  NoPhantomSlots'
<1>1. IsFiniteSet(Runs)  BY ConstantsAssumption, Zenon
<1>2. IsFiniteSet(Holders') /\ IsFiniteSet(Existing')
  <2>1. Holders' \subseteq Procs /\ Existing' \subseteq Runs  BY SMTT(30) DEF Holders, Existing
  <2>. QED  BY <1>1, <2>1, Zenon DEF FiniteFacts, SubsetFacts
<1>3. Holders \subseteq Holders' \cup {p}
  BY SMTT(30) DEF SlotMove, Holders, InSlot, HoldsSlot
<1>4. Existing \subseteq Existing'  BY SMTT(30) DEF SlotMove, Existing
<1>5. /\ Cardinality(Holders) \in Nat /\ Cardinality(Holders') \in Nat
      /\ Cardinality(Holders) <= Cardinality(Holders') + 1
      /\ Holders \subseteq Holders' => Cardinality(Holders) <= Cardinality(Holders')
      /\ Holders \subseteq Holders' /\ p \in Holders' \ Holders =>
           Cardinality(Holders) + 1 <= Cardinality(Holders')
  BY <1>2, <1>3, OneMore, SMTT(30)
<1>6. \A r : /\ Cardinality(Existing) \in Nat /\ Cardinality(Existing') \in Nat
             /\ Cardinality(Existing) <= Cardinality(Existing')
             /\ r \in Existing' \ Existing =>
                  Cardinality(Existing) + 1 <= Cardinality(Existing')
  <2>. TAKE r
  <2>1. Existing \subseteq Existing' \cup {r}  BY <1>4
  <2>. QED  BY <1>2, <1>4, <2>1, OneMore
<1>7. conc <= Cardinality(Existing) + Cardinality(Holders)
  BY SMTT(30) DEF NoPhantomSlots, Existing, Holders, InSlot
<1>8. conc' <= Cardinality(Existing') + Cardinality(Holders')
  <2>1. CASE conc' <= conc /\ (InSlot(p) => InSlot(p)')
    <3>1. Holders \subseteq Holders'  BY <1>3, <2>1 DEF Holders
    <3>. QED  BY <3>1, <2>1, <1>5, <1>6, <1>7
  <2>2. CASE conc' = conc + 1 /\ ~InSlot(p) /\ InSlot(p)'
    <3>1. Holders \subseteq Holders' /\ p \in Holders' \ Holders  BY <1>3, <2>2 DEF Holders
    <3>. QED  BY <3>1, <2>2, <1>5, <1>6, <1>7
  <2>3. CASE InSlot(p) /\ (conc' = conc - 1 \/ conc' = 0)
    BY <2>3, <1>5, <1>6, <1>7, SMTT(30)
  <2>4. CASE conc' <= conc /\ \E r \in Runs : store[r] = "absent" /\ store'[r] # "absent"
    <3>1. PICK r \in Runs : store[r] = "absent" /\ store'[r] # "absent"  BY <2>4
    <3>2. r \in Existing' \ Existing  BY <3>1 DEF Existing
    <3>. QED  BY <3>2, <2>4, <1>5, <1>6, <1>7, SMTT(30)
  <2>. QED  BY <2>1, <2>2, <2>3, <2>4 DEF SlotMove
<1>. QED  BY <1>8 DEF NoPhantomSlots, Existing, Holders, InSlot

\* Every step of the system leaves the slots accounted for.
LEMMA SlotsStep ==
  ASSUME FiniteFacts, IsFiniteSet(Procs), Inv, conc \in Nat, RetryInv, NoPhantomSlots,
         [Next]_vars
  PROVE  NoPhantomSlots'
<1>. USE DEF storeVars, execVars, procVars
<1>0. /\ store \in [Runs -> Statuses] /\ hs \in [Procs -> HandlerState]
      /\ Runs \subseteq Procs /\ Handlers \subseteq Procs
      /\ \A w \in Workers : Busy(w) => ws[w].run \in Runs
  BY DEF Inv, TypeInv, StateOK, Procs, RunFields
<1>c. conc' \in Nat  BY CountStep
<1>1. ASSUME NEW h \in Handlers, HandlerStep(h) PROVE NoPhantomSlots'
  BY <1>0, <1>1, HandlerSlots, <1>c, SlotsMove
<1>2. ASSUME NEW p \in Procs, SubmitStep(p) PROVE NoPhantomSlots'
  BY <1>2, SubmitSlots, <1>c, SlotsMove
<1>3. ASSUME NEW w \in Workers, WorkerStep(w) PROVE NoPhantomSlots'
  <2>1. /\ conc' = conc
        /\ \A r \in Runs : store'[r] = "absent" => store[r] = "absent"
        /\ ~FailSave(w) => hs' = hs
    <3>1. conc' = conc
      BY <1>3, Zenon DEF WorkerStep, Dequeue, WorkerExit, StartCheckCtx, SaveRunning,
         LoopHead, ModelReturns, SaveCompleted, FailRead, FailSave, Finish
    <3>. QED  BY <3>1, <1>3, WorkerEmits
  <2>2. CASE hs' = hs /\ Procs = {}
    <3>1. Existing = {} /\ Existing' = {} /\ Holders = {} /\ Holders' = {}
      BY <1>0, <2>2 DEF Existing, Holders
    <3>. QED
      BY <2>1, <3>1, Zenon DEF NoPhantomSlots, Existing, Holders, InSlot
  <2>3. CASE hs' = hs /\ Procs # {}
    <3>1. PICK p \in Procs : TRUE  BY <2>3, Zenon
    <3>2. SlotMove(p)  BY <2>1, <2>3, MovesNone, Zenon
    <3>. QED  BY <3>2, <1>c, SlotsMove
  <2>4. CASE FailSave(w) /\ hs' # hs
    <3>. DEFINE r == ws[w].run
    <3>1. Busy(w) /\ r \in Procs /\ hs[r].pc = "idle"
      <4>1. Busy(w) /\ ws[w].pc # "finish"  BY <2>4, Zenon DEF FailSave, At, Busy
      <4>2. r \in Runs /\ emitted[r] = "none"
        BY <4>1 DEF Inv, TypeInv, RunFields, SafetyInv, EndedReleased, Ended
      <4>. QED  BY <4>1, <4>2, <1>0, Zenon DEF Inv, SafetyInv, AutoAfterEnd, Ended
    <3>2. \A q \in Procs \ {r} : hs'[q] = hs[q]
      BY <2>4, <1>0, Zenon DEF FailSave
    <3>. HIDE DEF r
    <3>3. SlotMove(r)
      <4>1. hs[r].pc \notin {"admitted", "create"}  BY <3>1
      <4>. QED  BY <2>1, <3>1, <3>2, <4>1, MovesNone, Zenon
    <3>. QED  BY <3>1, <3>3, <1>c, SlotsMove
  <2>. QED  BY <2>1, <2>2, <2>3, <2>4, Zenon
<1>4. ASSUME NEW r \in Runs, AutoRetryWake(r) PROVE NoPhantomSlots'
  <2>1. /\ store' = store /\ conc' = conc /\ hs[r].pc = "waiting"
        /\ \A q \in Procs \ {r} : hs'[q] = hs[q]
    BY <1>4, <1>0, Zenon DEF AutoRetryWake, Running, Goto, Return
  <2>2. SlotMove(r)
    <3>1. hs[r].pc \notin {"admitted", "create"}  BY <2>1, SMTT(30)
    <3>. QED  BY <1>0, <2>1, <3>1, MovesNone, Zenon
  <2>. QED  BY <1>0, <2>2, <1>c, SlotsMove
<1>5. CASE Restart
  <2>. DEFINE Looks == {r \in Runs : store[r] \in Active}
  <2>1. /\ store' = store /\ conc' = Cardinality(Looks)
        /\ \A p \in Procs : hs'[p] = IdleHandler
    BY <1>5 DEF Restart
  <2>2. Looks \subseteq Existing' /\ Existing' \subseteq Runs  BY <2>1 DEF Existing, Active
  <2>3. IsFiniteSet(Existing')
    BY <2>2, ConstantsAssumption, Zenon DEF FiniteFacts, SubsetFacts
  <2>4. Cardinality(Looks) <= Cardinality(Existing') /\ Cardinality(Existing') \in Nat
        /\ Cardinality(Looks) \in Nat
    BY <2>2, <2>3, Zenon DEF FiniteFacts, SubsetFacts, CardinalityFacts
  <2>5. Holders' = {}  BY <2>1 DEF Holders, InSlot, IdleHandler
  <2>6. Cardinality(Holders') = 0  BY <2>5, Zenon DEF FiniteFacts, EmptySetFacts
  <2>7. conc' <= Cardinality(Existing') + Cardinality(Holders')  BY <2>1, <2>4, <2>6
  <2>. QED  BY <2>7 DEF NoPhantomSlots, Existing, Holders, InSlot
<1>6. ASSUME \/ \E r \in Runs : Timeout(r)
             \/ HttpShutdown \/ ExecutorShutdown \/ Exit \/ Crash
             \/ UNCHANGED vars
      PROVE  NoPhantomSlots'
  <2>1. UNCHANGED <<store, conc, hs>>
    BY <1>6 DEF Timeout, HttpShutdown, ExecutorShutdown, Exit, Crash, vars
  <2>. QED  BY <2>1, Zenon DEF NoPhantomSlots, HoldsSlot
<1>. QED  BY <1>1, <1>2, <1>3, <1>4, <1>5, <1>6, Zenon DEF Next, ProcessStep, Quiescent

-----------------------------------------------------------------------------
\* The accounts hold in the first state, in which there are no runs and no requests.
LEMMA AccountInit == FiniteFacts /\ Init => AccountInv
<1>. SUFFICES ASSUME FiniteFacts, Init PROVE AccountInv  BY Zenon
<1>. USE DEF IdleHandler, IdleWorker
<1>1. /\ \A r \in Runs : store[r] = "absent" /\ parent[r] = NoRun
      /\ \A p \in Procs : hs[p].pc = "idle" /\ hs[p].op = "none" /\ hs[p].of = NoRun
      /\ \A w \in Workers : ws[w].pc = "idle"
      /\ queue = <<>> /\ detached = {} /\ conc = 0 /\ NoRun \notin Runs
  BY ConstantsAssumption DEF Init
<1>2. ExitedIsLast  BY <1>1, ConstantsAssumption DEF ExitedIsLast
<1>3. FailureIsEmitted  BY <1>1, Zenon DEF FailureIsEmitted
<1>4. AutoRetriesItself  BY <1>1, ConstantsAssumption DEF AutoRetriesItself, Procs
<1>5. NextIsBatch  BY <1>1 DEF NextIsBatch
<1>6. NoPhantomSlots
  <2>1. Existing = {} /\ Holders = {}  BY <1>1 DEF Existing, Holders, InSlot
  <2>2. Cardinality({}) = 0  BY Zenon DEF FiniteFacts, EmptySetFacts
  <2>3. conc <= Cardinality(Existing) + Cardinality(Holders)  BY <2>1, <2>2, <1>1
  <2>. QED  BY <2>3 DEF NoPhantomSlots, Existing, Holders, InSlot
<1>. QED  BY <1>1, <1>2, <1>3, <1>4, <1>5, <1>6 DEF AccountInv

-----------------------------------------------------------------------------
INSTANCE FiniteSetTheorems

\* What the lemmas assume of finite sets, from the library.
LEMMA FiniteFactsHold == FiniteFacts
<1>1. EmptySetFacts  BY FS_EmptySet DEF EmptySetFacts
<1>2. CardinalityFacts  BY FS_CardinalityType DEF CardinalityFacts
<1>3. SubsetFacts  BY FS_Subset DEF SubsetFacts
<1>4. AddFacts  BY FS_AddElement DEF AddFacts
<1>5. RemoveFacts  BY FS_RemoveElement DEF RemoveFacts
<1>6. SingletonFacts  BY FS_Singleton, Zenon DEF SingletonFacts
<1>. QED  BY <1>1, <1>2, <1>3, <1>4, <1>5, <1>6, Zenon DEF FiniteFacts

\* There are finitely many processes: the handlers and a goroutine for every run.
LEMMA ProcsFinite == IsFiniteSet(Procs)
  BY ConstantsAssumption, FS_Union, Zenon DEF Procs

\* The accounts hold in every reachable state.
THEOREM AccountsHold == Spec => []AccountInv
<1>1. AccountInv /\ Inv /\ [Next]_vars => AccountInv'
  BY FiniteFactsHold, ProcsFinite, ExitStep, RetryStep, CountStep, SlotsStep, Zenon
     DEF AccountInv, RetryInv
<1>2. Init => AccountInv  BY FiniteFactsHold, AccountInit
<1>. QED  BY <1>1, <1>2, InvHolds, PTL DEF Spec

\* Handlers, workers, store, queue and counters keep their types: the count of concurrent
\* runs, which several paths take down, stays a natural number.
THEOREM TypeCorrect == Spec => []TypeOK
<1>1. Inv /\ AccountInv => TypeOK  BY Zenon DEF Inv, TypeInv, TypeOK, AccountInv
<1>. QED  BY <1>1, AccountsHold, InvHolds, PTL

\* When the last worker and the last goroutine have ended after Executor.Shutdown, no
\* run is left queued or running, but for those a crash or a failed write stranded.
THEOREM DrainLeavesNothing == Spec => []DrainFinishesJobs
<1>1. Inv /\ AccountInv => DrainFinishesJobs
  <2>. SUFFICES ASSUME Inv, AccountInv, phase = "closed", Drained,
                       NEW r \in Runs, store[r] \in Active
                PROVE  r \in lost
    BY DEF DrainFinishesJobs
  <2>1. queue = <<>>
    <3>1. CASE Workers = {}
      <4>1. QueueCap = 0 /\ Len(queue) <= QueueCap /\ queue \in Seq(Runs)
        BY <3>1, ConstantsAssumption, Zenon DEF AccountInv, ExitedIsLast, Inv, TypeInv, StateOK
      <4>. QED  BY <4>1
    <3>2. CASE Workers # {}  BY <3>2, Zenon DEF Drained, AccountInv, ExitedIsLast
    <3>. QED  BY <3>1, <3>2, Zenon
  <2>2. ~Queued(r)  BY <2>1 DEF Queued
  <2>3. ~InFlight(r)  BY <2>2, Zenon DEF InFlight, Submitting, Busy, Drained
  <2>. QED  BY <2>3 DEF Inv, SafetyInv, NoOrphanedRun
<1>. QED  BY <1>1, AccountsHold, InvHolds, PTL

\* Only failed runs are retried, no run has two automatic retries and none of those is
\* retried automatically itself; and the quota counts no more slots than there are runs
\* and requests being admitted.
THEOREM RetriesAndSlots == Spec => []RetriesAndSlotsAddUp
<1>1. Inv /\ AccountInv => RetriesAndSlotsAddUp
  <2>. SUFFICES ASSUME Inv, AccountInv PROVE RetriesAndSlotsAddUp  BY Zenon
  <2>1. \A r \in Runs : parent[r] \in Runs \ lost => store[parent[r]] \in {"failed", "canceled"}
    BY Zenon DEF AccountInv, FailureIsEmitted, Inv, SafetyInv, EventMatchesStatus
  <2>2. \A q, r \in detached : /\ parent[q] = parent[r] => q = r
                               /\ parent[q] # NoRun /\ parent[parent[q]] = NoRun
    BY DEF AccountInv, AutoRetriesItself
  <2>. QED  BY <2>1, <2>2 DEF RetriesAndSlotsAddUp, RetriesAreOfFailedRuns, AccountInv
<1>. QED  BY <1>1, AccountsHold, InvHolds, PTL

=============================================================================
