-------------------------- MODULE RunSafety_proofs --------------------------
(***************************************************************************)
(* Safety of the run lifecycle, for any number of runs, handlers and       *)
(* workers, any operations and any faults: no run executes twice, none is  *)
(* orphaned, terminal events agree with the store, outcomes stand.         *)
(*                                                                         *)
(* None of the four is inductive alone.  SafetyInv adds what the code      *)
(* relies on without saying it: a job in flight has a record, a run that   *)
(* ended is held by nobody but the worker about to let go of it, a worker  *)
(* only lets go of a run that is settled, and the automatic retry of a run *)
(* starts after the run has ended.                                         *)
(***************************************************************************)
EXTENDS RunLifecycle_proofs

HeldExists == \A r \in Runs : InFlight(r) => store[r] # "absent"

Ended(r) == emitted[r] # "none" \/ store[r] \in {"completed", "failed"}

EndedReleased ==
  \A r \in Runs : Ended(r) =>
    /\ store[r] # "absent"
    /\ \A p \in Procs : ~(Submitting(p) /\ hs[p].run = r)
    /\ ~Queued(r)
    /\ \A w \in Workers : Busy(w) /\ ws[w].run = r => ws[w].pc = "finish"

FinishSettled ==
  \A w \in Workers : ws[w].pc = "finish"
                       => store[ws[w].run] \in Terminal \/ ws[w].run \in lost

AutoAfterEnd == \A r \in Runs : hs[r].pc # "idle" => emitted[r] # "none"

SafetyInv ==
  /\ ExclusiveExecution
  /\ NoOrphanedRun
  /\ EventMatchesStatus
  /\ HeldExists
  /\ EndedReleased
  /\ FinishSettled
  /\ AutoAfterEnd

Inv == TypeInv /\ SafetyInv

-----------------------------------------------------------------------------
(* Whoever holds a run after the step held it before: a run that is being   *)
(* submitted, queued or executed is still in one hand.                     *)
LEMMA ExclusiveFrame ==
  ASSUME ExclusiveExecution, queue' = queue,
         \A p \in Procs : Submitting(p)' => Submitting(p) /\ hs'[p].run = hs[p].run,
         \A w \in Workers : Busy(w)' => Busy(w) /\ ws'[w].run = ws[w].run
  PROVE ExclusiveExecution'
<1>1. \A p, q \in Procs : Submitting(p)' /\ Submitting(q)' /\ p # q => hs'[p].run # hs'[q].run
  BY DEF ExclusiveExecution
<1>2. \A p \in Procs : Submitting(p)' => ~Queued(hs[p].run)
  BY DEF ExclusiveExecution
<1>3. \A p \in Procs : Submitting(p)' => ~Queued(hs[p].run)'
  BY <1>2 DEF Queued
<1>4. \A p \in Procs, w \in Workers : Submitting(p)' /\ Busy(w)' => hs'[p].run # ws'[w].run
  BY DEF ExclusiveExecution
<1>5. \A i, j \in 1..Len(queue') : i # j => queue'[i] # queue'[j]
  BY DEF ExclusiveExecution
<1>6. \A w \in Workers : Busy(w)' => ~Queued(ws[w].run)
  BY DEF ExclusiveExecution
<1>7. \A w \in Workers : Busy(w)' => ~Queued(ws[w].run)'
  BY <1>6 DEF Queued
<1>8. \A v, w \in Workers : Busy(v)' /\ Busy(w)' /\ v # w => ws'[v].run # ws'[w].run
  BY DEF ExclusiveExecution
<1> QED BY <1>1, <1>3, <1>4, <1>5, <1>7, <1>8 DEF ExclusiveExecution

(* Steps that leave the queue, the workers and the events alone, submit    *)
(* nothing, and only cancel runs or leave a failed write behind.           *)
LEMMA HandlerFrame ==
  ASSUME SafetyInv, UNCHANGED <<queue, ws, emitted>>, lost \subseteq lost',
         \A p \in Procs : /\ Submitting(p)' <=> Submitting(p)
                          /\ Submitting(p) => hs'[p].run = hs[p].run,
         \A r \in Runs : hs'[r].pc # "idle" => hs[r].pc # "idle",
         \A r \in Runs : \/ store'[r] = store[r]
                         \/ store'[r] = "canceled"
                         \/ store[r] = "absent" /\ store'[r] = "queued" /\ r \in lost',
         \A w \in Workers : Busy(w) => ws[w].run \in Runs
  PROVE SafetyInv'
<1> USE DEF SafetyInv, Busy, Queued
<1>1. \A r \in Runs : InFlight(r)' <=> InFlight(r)
  BY DEF InFlight
<1>2. ExclusiveExecution'
  BY DEF ExclusiveExecution
<1>3. NoOrphanedRun'
  BY <1>1 DEF NoOrphanedRun, Active
<1>4. EventMatchesStatus'
  BY DEF EventMatchesStatus, EndedReleased, Ended
<1>5. HeldExists'
  BY <1>1 DEF HeldExists
<1>6. EndedReleased'
  BY DEF EndedReleased, Ended
<1>7. FinishSettled'
  BY DEF FinishSettled, Terminal
<1>8. AutoAfterEnd'
  BY DEF AutoAfterEnd
<1> QED BY <1>2, <1>3, <1>4, <1>5, <1>6, <1>7, <1>8

(* Steps of workers that change neither the run they hold nor the store.   *)
LEMMA WorkerFrame ==
  ASSUME SafetyInv, UNCHANGED <<store, queue, hs, emitted, lost>>,
         \A w \in Workers : /\ Busy(w)' <=> Busy(w)
                            /\ Busy(w) => ws'[w].run = ws[w].run
                            /\ ws'[w].pc = "finish" <=> ws[w].pc = "finish"
  PROVE SafetyInv'
<1> USE DEF SafetyInv, Submitting, Queued
<1>1. \A r \in Runs : InFlight(r)' <=> InFlight(r)
  BY DEF InFlight
<1>2. ExclusiveExecution'
  BY DEF ExclusiveExecution
<1>3. NoOrphanedRun'
  BY <1>1 DEF NoOrphanedRun
<1>4. EventMatchesStatus'
  BY DEF EventMatchesStatus
<1>5. HeldExists'
  BY <1>1 DEF HeldExists
<1>6. EndedReleased'
  BY DEF EndedReleased, Ended
<1>7. FinishSettled'
  BY DEF FinishSettled, Busy
<1>8. AutoAfterEnd'
  BY DEF AutoAfterEnd
<1> QED BY <1>2, <1>3, <1>4, <1>5, <1>6, <1>7, <1>8

(* Handler steps keep the safety invariant. *)
LEMMA HandlerSafety ==
  ASSUME Inv, NEW h \in Handlers, HandlerStep(h)
  PROVE SafetyInv'
<1> USE DEF storeVars, execVars, procVars
<1>0. /\ h \in Procs /\ h \notin Runs
      /\ hs \in [Procs -> HandlerState] /\ Runs \subseteq Procs
      /\ store \in [Runs -> Statuses]
      /\ \A w \in Workers : Busy(w) => ws[w].run \in Runs
  BY ConstantsAssumption DEF Procs, Inv, TypeInv, StateOK, RunFields
<1>1. /\ UNCHANGED <<queue, ws, emitted, lost>>
      /\ store' = store \/ store' = [store EXCEPT ![hs[h].run] = "canceled"]
  BY Zenon DEF HandlerStep, RunCreateAdmit, RunBatchNext, RunCreateReject, RunCreateLookup,
     RunBatchBegin, RunRetryGet, CancelGet, CancelCtx, CancelSave, CancelSaveFails,
     CascadeList, CascadeNext, CancelRelease
<1>2. ~Submitting(h)
  BY Zenon DEF HandlerStep, RunCreateAdmit, RunBatchNext, RunCreateReject, RunCreateLookup,
     RunBatchBegin, RunRetryGet, CancelGet, CancelCtx, CancelSave, CancelSaveFails,
     CascadeList, CascadeNext, CancelRelease, Serving, Submitting
<1>3. PICK x : hs' = [hs EXCEPT ![h] = x] /\ x.pc \notin {"register", "enqueue"}
  <2>1. ASSUME Return(h)
        PROVE \E x : hs' = [hs EXCEPT ![h] = x] /\ x.pc \notin {"register", "enqueue"}
    <3>1. IdleHandler.pc = "idle"
      BY DEF IdleHandler
    <3> QED BY <2>1, <3>1, Zenon DEF Return
  <2>2. ASSUME NEW pc \in HandlerPcs, Goto(h, pc), pc \notin {"register", "enqueue"}
        PROVE \E x : hs' = [hs EXCEPT ![h] = x] /\ x.pc \notin {"register", "enqueue"}
    <3>1. [hs[h] EXCEPT !.pc = pc].pc = pc
      BY <1>0 DEF HandlerState
    <3> QED BY <2>2, <3>1, Zenon DEF Goto
  <2>3. ASSUME NEW k \in Keys \cup {NoKey}, RunCreateAdmit(h, k) \/ RunBatchNext(h, k)
        PROVE \E x : hs' = [hs EXCEPT ![h] = x] /\ x.pc \notin {"register", "enqueue"}
    <3>1. [hs[h] EXCEPT !.pc = "admitted", !.key = k, !.left = hs[h].left - 1].pc
            = "admitted"
      BY <1>0 DEF HandlerState
    <3>2. [IdleHandler EXCEPT !.pc = "admitted", !.op = "create", !.key = k].pc
            = "admitted"
      BY DEF IdleHandler
    <3>3. CASE RunCreateAdmit(h, k)
      BY <3>2, <3>3, Zenon DEF RunCreateAdmit
    <3>4. CASE RunBatchNext(h, k)
      <4>1. \/ Return(h)
            \/ hs' = [hs EXCEPT ![h] = [hs[h] EXCEPT !.pc = "admitted", !.key = k,
                                                     !.left = hs[h].left - 1]]
        BY <3>4, Zenon DEF RunBatchNext
      <4> QED BY <2>1, <3>1, <4>1, Zenon
    <3> QED BY <2>3, <3>3, <3>4
  <2>4. ASSUME NEW n \in 1..BatchSize, RunBatchBegin(h, n)
        PROVE \E x : hs' = [hs EXCEPT ![h] = x] /\ x.pc \notin {"register", "enqueue"}
    <3>1. [IdleHandler EXCEPT !.pc = "next", !.op = "batch", !.left = n].pc = "next"
      BY DEF IdleHandler
    <3> QED BY <2>4, <3>1, Zenon DEF RunBatchBegin
  <2>5. ASSUME NEW r \in Runs, RunRetryGet(h, r) \/ CancelGet(h, r)
        PROVE \E x : hs' = [hs EXCEPT ![h] = x] /\ x.pc \notin {"register", "enqueue"}
    <3>1. /\ [IdleHandler EXCEPT !.pc = "create", !.op = "retry", !.of = r].pc
               = "create"
          /\ [IdleHandler EXCEPT !.pc = "cancel_ctx", !.op = "cancel", !.run = r].pc
               = "cancel_ctx"
      BY DEF IdleHandler
    <3> QED BY <2>5, <3>1, Zenon DEF RunRetryGet, CancelGet
  <2>6. CASE CascadeList(h)
    <3>0. PICK kids \in Listed(hs[h].run) :
            hs' = [hs EXCEPT ![h].pc = "cascade_next",
                             ![h].frames = IF Len(@) < MaxCancelDepth
                                           THEN Append(@, kids)
                                           ELSE @]
      BY <2>6, Zenon DEF CascadeList
    <3> DEFINE f == IF Len(hs[h].frames) < MaxCancelDepth
                    THEN Append(hs[h].frames, kids)
                    ELSE hs[h].frames
               x == [hs[h] EXCEPT !.pc = "cascade_next", !.frames = f]
    <3>1. hs' = [hs EXCEPT ![h] = x]
      BY <3>0, Zenon
    <3> HIDE DEF f
    <3>2. x.pc = "cascade_next"
      BY <1>0 DEF HandlerState
    <3> QED BY <3>1, <3>2, Zenon
  <2>7. CASE CascadeNext(h)
    <3> DEFINE n == Len(hs[h].frames)
               todo == hs[h].frames[n]
    <3>0. hs[h].pc = "cascade_next"
      BY <2>7, Zenon DEF CascadeNext, Serving
    <3>1. CASE hs' = [hs EXCEPT ![h].frames = SubSeq(@, 1, n - 1)]
      <4> DEFINE f == SubSeq(hs[h].frames, 1, n - 1)
                 x == [hs[h] EXCEPT !.frames = f]
      <4>1. hs' = [hs EXCEPT ![h] = x]
        BY <3>1
      <4> HIDE DEF f
      <4>2. x.pc = "cascade_next"
        BY <1>0, <3>0 DEF HandlerState
      <4> QED BY <4>1, <4>2, Zenon
    <3>2. ASSUME NEW c \in todo,
                 hs' = [hs EXCEPT ![h].pc = "cancel_ctx", ![h].run = c,
                                  ![h].frames = [@ EXCEPT ![n] = todo \ {c}]]
          PROVE \E x : hs' = [hs EXCEPT ![h] = x] /\ x.pc \notin {"register", "enqueue"}
      <4> DEFINE f == [hs[h].frames EXCEPT ![n] = todo \ {c}]
                 x == [hs[h] EXCEPT !.pc = "cancel_ctx", !.run = c, !.frames = f]
      <4>1. hs' = [hs EXCEPT ![h] = x]
        BY <3>2, Zenon
      <4> HIDE DEF f
      <4>2. x.pc = "cancel_ctx"
        BY <1>0 DEF HandlerState
      <4> QED BY <4>1, <4>2, Zenon
    <3> QED BY <2>7, <3>1, <3>2, Zenon DEF CascadeNext
  <2> QED
    BY <2>1, <2>2, <2>3, <2>4, <2>5, <2>6, <2>7, Zenon
    DEF HandlerStep, RunCreateReject, RunCreateLookup, CancelCtx, CancelSave,
        CancelSaveFails, CancelRelease, HandlerPcs
<1>4. \A p \in Procs : /\ Submitting(p)' <=> Submitting(p)
                       /\ Submitting(p) => hs'[p].run = hs[p].run
  BY <1>0, <1>2, <1>3 DEF Submitting
<1>5. \A r \in Runs : hs'[r].pc # "idle" => hs[r].pc # "idle"
  BY <1>0, <1>3
<1>6. \A r \in Runs : store'[r] = store[r] \/ store'[r] = "canceled"
  BY <1>0, <1>1
<1> QED
  BY <1>0, <1>1, <1>4, <1>5, <1>6, HandlerFrame DEF Inv

(* What a send does to the queue. *)
LEMMA AppendQueue ==
  ASSUME queue \in Seq(Runs), NEW r \in Runs, queue' = Append(queue, r)
  PROVE /\ \A q : Queued(q)' <=> Queued(q) \/ q = r
        /\ ~Queued(r) /\ (\A i, j \in 1..Len(queue) : i # j => queue[i] # queue[j])
             => \A i, j \in 1..Len(queue') : i # j => queue'[i] # queue'[j]
<1>1. /\ Len(queue) \in Nat
      /\ Len(queue') = Len(queue) + 1
      /\ \A i \in 1..Len(queue) : queue'[i] = queue[i]
      /\ queue'[Len(queue) + 1] = r
  OBVIOUS
<1>2. 1..Len(queue') = 1..Len(queue) \cup {Len(queue) + 1}
  BY <1>1
<1> QED BY <1>1, <1>2 DEF Queued

(* What a receive does to it. *)
LEMMA TailQueue ==
  ASSUME queue \in Seq(Runs), queue # <<>>, queue' = Tail(queue),
         NEW r \in Runs, r = Head(queue),
         \A i, j \in 1..Len(queue) : i # j => queue[i] # queue[j]
  PROVE /\ Queued(r)
        /\ ~Queued(r)'
        /\ \A q : q # r => (Queued(q)' <=> Queued(q))
        /\ \A i, j \in 1..Len(queue') : i # j => queue'[i] # queue'[j]
<1>1. /\ Len(queue) \in Nat /\ Len(queue) > 0
      /\ Len(queue') = Len(queue) - 1
      /\ \A i \in 1..Len(queue') : queue'[i] = queue[i + 1]
      /\ r = queue[1]
  OBVIOUS
<1>2. \A i \in 1..Len(queue') : i + 1 \in 1..Len(queue) /\ i + 1 # 1
  BY <1>1
<1>3. \A i \in 1..Len(queue) : i # 1 => i - 1 \in 1..Len(queue') /\ (i - 1) + 1 = i
  BY <1>1
<1>4. 1 \in 1..Len(queue)
  BY <1>1
<1>5. ~Queued(r)'
  BY <1>1, <1>2, <1>4 DEF Queued
<1>6. ASSUME NEW q, q # r PROVE Queued(q)' <=> Queued(q)
  <2>1. ASSUME Queued(q) PROVE Queued(q)'
    <3>1. PICK i \in 1..Len(queue) : queue[i] = q
      BY <2>1 DEF Queued
    <3>2. i # 1
      BY <1>1, <1>6, <3>1
    <3>3. i - 1 \in 1..Len(queue') /\ queue'[i - 1] = q
      BY <1>1, <1>3, <3>1, <3>2
    <3> QED BY <3>3 DEF Queued
  <2>2. ASSUME Queued(q)' PROVE Queued(q)
    BY <1>1, <1>2, <2>2 DEF Queued
  <2> QED BY <2>1, <2>2
<1>7. \A i, j \in 1..Len(queue') : i # j => queue'[i] # queue'[j]
  <2>1. \A i, j \in 1..Len(queue') : i # j => i + 1 # j + 1
    BY <1>1
  <2> QED BY <1>1, <1>2, <2>1
<1> QED BY <1>1, <1>4, <1>5, <1>6, <1>7 DEF Queued

(* Persisting and submitting keep the safety invariant. *)
LEMMA SubmitSafety ==
  ASSUME Inv, NEW p \in Procs, SubmitStep(p)
  PROVE SafetyInv'
<1> USE DEF storeVars, execVars, procVars
<1>0. /\ hs \in [Procs -> HandlerState] /\ hs[p] \in HandlerState
      /\ Runs \subseteq Procs
      /\ store \in [Runs -> Statuses] /\ queue \in Seq(Runs)
      /\ lost \subseteq Runs
      /\ \A q \in Procs : Submitting(q) => hs[q].run \in Runs
      /\ \A w \in Workers : Busy(w) => ws[w].run \in Runs
      /\ SafetyInv
  BY DEF Procs, Inv, TypeInv, StateOK, RunFields, HandlerOK, Submitting, NamesRun
<1>i. IdleHandler.pc = "idle" /\ IdleHandler.pc \notin {"register", "enqueue"}
  BY DEF IdleHandler
<1>1. ASSUME NEW r \in Runs, RunPersist(p, r) PROVE SafetyInv'
  <2>1. /\ hs' = [hs EXCEPT ![p].pc = "register", ![p].run = r]
        /\ store' = [store EXCEPT ![r] = "queued"] /\ store[r] = "absent"
        /\ UNCHANGED <<queue, ws, emitted, lost>>
        /\ hs[p].pc \notin {"idle", "register", "enqueue"}
    BY <1>1 DEF RunPersist, ReadyToPersist, CreateReady, BatchReady, RetryReady, AutoReady,
       Running
  <2>2. ~InFlight(r) /\ ~Ended(r)
    BY <1>0, <2>1 DEF SafetyInv, HeldExists, EndedReleased
  <2>3. /\ ~Submitting(p) /\ Submitting(p)' /\ hs'[p].run = r
        /\ \A q \in Procs : q # p => hs'[q] = hs[q]
    BY <1>0, <2>1 DEF Submitting, HandlerState
  <2>4. \A q \in Procs : q # p => (Submitting(q)' <=> Submitting(q))
    BY <2>3 DEF Submitting
  <2>5. \A w \in Workers : (Busy(w)' <=> Busy(w)) /\ ws'[w] = ws[w]
    BY <2>1 DEF Busy
  <2>6. \A q : Queued(q)' <=> Queued(q)
    BY <2>1 DEF Queued
  <2>7. \A q \in Runs : InFlight(q)' <=> InFlight(q) \/ q = r
    BY <2>3, <2>4, <2>5, <2>6 DEF InFlight
  <2>8. \A q \in Runs : q # r => store'[q] = store[q]
    BY <1>0, <2>1
  <2>9. store'[r] = "queued"
    BY <1>0, <2>1
  <2>10. ExclusiveExecution'
    BY <1>0, <2>1, <2>2, <2>3, <2>4, <2>5, <2>6
    DEF ExclusiveExecution, SafetyInv, InFlight
  <2>11. NoOrphanedRun'
    BY <1>0, <2>1, <2>7, <2>8 DEF NoOrphanedRun, SafetyInv
  <2>12. EventMatchesStatus'
    BY <1>0, <2>1, <2>2, <2>8 DEF EventMatchesStatus, SafetyInv, Ended
  <2>13. HeldExists'
    BY <1>0, <2>7, <2>8, <2>9 DEF HeldExists, SafetyInv
  <2>14. EndedReleased'
    <3>1. \A q \in Runs : Ended(q)' <=> Ended(q)
      BY <2>1, <2>8, <2>9 DEF Ended
    <3> QED
      BY <1>0, <2>2, <2>3, <2>4, <2>5, <2>6, <2>8, <3>1
      DEF EndedReleased, SafetyInv
  <2>15. FinishSettled'
    BY <1>0, <2>1, <2>2, <2>5, <2>8, Zenon DEF FinishSettled, SafetyInv, InFlight, Busy
  <2>16. AutoAfterEnd'
    BY <1>0, <2>1, <2>3 DEF AutoAfterEnd, SafetyInv
  <2> QED
    BY <2>10, <2>11, <2>12, <2>13, <2>14, <2>15, <2>16 DEF SafetyInv
<1>2. ASSUME NEW r \in Runs, RunPersistFails(p, r) PROVE SafetyInv'
  <2>1. /\ hs' = [hs EXCEPT ![p] = IdleHandler]
        /\ UNCHANGED <<queue, ws, emitted>>
        /\ lost \subseteq lost'
        /\ hs[p].pc \notin {"register", "enqueue"}
        /\ \/ store' = store
           \/ /\ store[r] = "absent" /\ r \in lost'
              /\ store' = [store EXCEPT ![r] = "queued"]
    BY <1>2 DEF RunPersistFails, ReadyToPersist, CreateReady, BatchReady, RetryReady,
       AutoReady, Running, Return
  <2>2. \A q \in Procs : /\ Submitting(q)' <=> Submitting(q)
                         /\ Submitting(q) => hs'[q].run = hs[q].run
    BY <1>0, <1>i, <2>1 DEF Submitting
  <2>3. \A q \in Runs : hs'[q].pc # "idle" => hs[q].pc # "idle"
    BY <1>0, <1>i, <2>1
  <2>4. \A q \in Runs : \/ store'[q] = store[q]
                        \/ store[q] = "absent" /\ store'[q] = "queued" /\ q \in lost'
    BY <1>0, <2>1
  <2> QED
    BY <1>0, <2>1, <2>2, <2>3, <2>4, HandlerFrame
<1>3. CASE SubmitRegister(p)
  <2>1. /\ hs' = [hs EXCEPT ![p].pc = "enqueue"]
        /\ UNCHANGED <<store, queue, ws, emitted, lost>>
        /\ hs[p].pc = "register"
    BY <1>3 DEF SubmitRegister, Running, Goto
  <2>2. hs'[p].pc = "enqueue" /\ hs'[p].run = hs[p].run
    BY <1>0, <2>1 DEF HandlerState
  <2>3. \A q \in Procs : /\ Submitting(q)' <=> Submitting(q)
                         /\ Submitting(q) => hs'[q].run = hs[q].run
    BY <1>0, <2>1, <2>2 DEF Submitting
  <2>4. \A q \in Runs : hs'[q].pc # "idle" => hs[q].pc # "idle"
    BY <1>0, <2>1
  <2> QED
    BY <1>0, <2>1, <2>3, <2>4, HandlerFrame
<1>4. CASE SubmitEnqueue(p)
  <2> DEFINE r == hs[p].run
  <2>1. /\ queue' = Append(queue, r)
        /\ UNCHANGED <<store, ws, emitted, lost>>
        /\ Submitting(p) /\ r \in Runs
    BY <1>0, <1>4 DEF SubmitEnqueue, Running, Submitting
  <2>2. ~Submitting(p)' /\ \A q \in Procs : q # p => hs'[q] = hs[q]
    <3>1. PICK x : hs' = [hs EXCEPT ![p] = x] /\ x.pc \notin {"register", "enqueue"}
      <4>1. [hs[p] EXCEPT !.pc = "next", !.run = NoRun, !.key = NoKey].pc = "next"
        BY <1>0 DEF HandlerState
      <4> QED BY <1>4, <1>i, <4>1, Zenon DEF SubmitEnqueue
    <3> QED BY <1>0, <3>1 DEF Submitting
  <2> HIDE DEF r
  <2>3. /\ ~Queued(r)
        /\ \A q \in Procs : Submitting(q) /\ hs[q].run = r => q = p
        /\ \A w \in Workers : Busy(w) => ws[w].run # r
        /\ \A i, j \in 1..Len(queue) : i # j => queue[i] # queue[j]
    BY <1>0, <2>1 DEF SafetyInv, ExclusiveExecution, r
  <2>4. /\ \A q : Queued(q)' <=> Queued(q) \/ q = r
        /\ \A i, j \in 1..Len(queue') : i # j => queue'[i] # queue'[j]
    BY <1>0, <2>1, <2>3, AppendQueue
  <2>5. \A q \in Procs : q # p => (Submitting(q)' <=> Submitting(q))
    BY <2>2 DEF Submitting
  <2>6. \A w \in Workers : (Busy(w)' <=> Busy(w)) /\ ws'[w] = ws[w]
    BY <2>1 DEF Busy
  <2>7. \A q \in Runs : InFlight(q)' <=> InFlight(q)
    BY <2>1, <2>2, <2>4, <2>5, <2>6, Zenon DEF InFlight, r
  <2>8. ExclusiveExecution'
    <3> USE <1>0 DEF SafetyInv
    <3>1. \A o \in Procs : Submitting(o)' => Submitting(o) /\ hs'[o].run = hs[o].run /\ o # p
      BY <2>2, <2>5, Zenon
    <3>2. \A o, q \in Procs : Submitting(o)' /\ Submitting(q)' /\ o # q => hs'[o].run # hs'[q].run
      BY <3>1 DEF ExclusiveExecution
    <3>3. \A o \in Procs : Submitting(o)' => ~Queued(hs[o].run) /\ hs[o].run # r
      BY <2>3, <3>1 DEF ExclusiveExecution
    <3>4. \A o \in Procs : Submitting(o)' => ~Queued(hs[o].run)'
      <4> SUFFICES ASSUME NEW o \in Procs, Submitting(o)' PROVE ~Queued(hs[o].run)'
        OBVIOUS
      <4>1. hs'[o].run = hs[o].run /\ ~Queued(hs[o].run) /\ hs[o].run # r
        BY <3>1, <3>3
      <4>2. ~(\E i \in 1..Len(queue') : queue'[i] = hs[o].run)
        <5>1. (\E i \in 1..Len(queue') : queue'[i] = hs[o].run) <=> Queued(hs[o].run) \/ hs[o].run = r
          BY <2>4, Zenon DEF Queued
        <5> QED BY <4>1, <5>1
      <4> QED BY <4>1, <4>2, Zenon DEF Queued
    <3>5. \A o \in Procs, w \in Workers : Submitting(o)' /\ Busy(w)' => hs'[o].run # ws'[w].run
      BY <2>6, <3>1 DEF ExclusiveExecution
    <3>6. \A w \in Workers : Busy(w)' => ~Queued(ws[w].run) /\ ws[w].run # r
      BY <2>3, <2>6, Zenon DEF ExclusiveExecution
    <3>7. \A w \in Workers : Busy(w)' => ~Queued(ws[w].run)'
      <4> SUFFICES ASSUME NEW w \in Workers, Busy(w)' PROVE ~Queued(ws[w].run)'
        OBVIOUS
      <4>1. ws'[w].run = ws[w].run /\ ~Queued(ws[w].run) /\ ws[w].run # r
        BY <2>6, <3>6
      <4>2. ~(\E i \in 1..Len(queue') : queue'[i] = ws[w].run)
        <5>1. (\E i \in 1..Len(queue') : queue'[i] = ws[w].run) <=> Queued(ws[w].run) \/ ws[w].run = r
          BY <2>4, Zenon DEF Queued
        <5> QED BY <4>1, <5>1
      <4> QED BY <4>1, <4>2 DEF Queued
    <3>8. \A v, w \in Workers : Busy(v)' /\ Busy(w)' /\ v # w => ws'[v].run # ws'[w].run
      BY <2>6 DEF ExclusiveExecution
    <3> QED BY <2>4, <3>2, <3>4, <3>5, <3>7, <3>8, Zenon DEF ExclusiveExecution
  <2>9. NoOrphanedRun' /\ HeldExists'
    BY <1>0, <2>1, <2>7, Zenon DEF NoOrphanedRun, HeldExists, SafetyInv
  <2>10. EventMatchesStatus'
    BY <1>0, <2>1, Zenon DEF EventMatchesStatus, SafetyInv
  <2>11. EndedReleased'
    <3>1. \A q \in Runs : (Ended(q)' <=> Ended(q)) /\ store'[q] = store[q]
      BY <2>1 DEF Ended
    <3>2. ~Ended(r)
      BY <1>0, <2>1 DEF SafetyInv, EndedReleased, r
    <3> QED
      BY <1>0, <2>2, <2>4, <2>5, <2>6, <3>1, <3>2, SMTT(30) DEF EndedReleased, SafetyInv
  <2>12. FinishSettled'
    BY <1>0, <2>1 DEF FinishSettled, SafetyInv
  <2>13. AutoAfterEnd'
    <3>1. hs[p].pc # "idle"
      BY <2>1 DEF Submitting
    <3> QED BY <1>0, <2>1, <2>2, <3>1 DEF AutoAfterEnd, SafetyInv
  <2> QED
    BY <2>8, <2>9, <2>10, <2>11, <2>12, <2>13 DEF SafetyInv
<1>5. CASE SubmitPanics(p)
  <2> DEFINE r == hs[p].run
  <2>1. /\ hs' = [hs EXCEPT ![p] = IdleHandler]
        /\ UNCHANGED <<store, queue, ws, emitted>>
        /\ lost' = lost \cup {r}
        /\ Submitting(p)
    BY <1>5 DEF SubmitPanics, Running, Return, Submitting
  <2>2. ~Submitting(p)' /\ \A q \in Procs : q # p => hs'[q] = hs[q]
    BY <1>0, <1>i, <2>1 DEF Submitting
  <2>3. \A q \in Procs : q # p => (Submitting(q)' <=> Submitting(q))
    BY <2>2 DEF Submitting
  <2>4. \A w \in Workers : (Busy(w)' <=> Busy(w)) /\ ws'[w] = ws[w]
    BY <2>1 DEF Busy
  <2>5. \A q : Queued(q)' <=> Queued(q)
    BY <2>1 DEF Queued
  <2>6. \A q \in Runs : /\ InFlight(q)' => InFlight(q)
                        /\ InFlight(q) => InFlight(q)' \/ q = r
    BY <2>2, <2>3, <2>4, <2>5 DEF InFlight
  <2>7. ExclusiveExecution'
    BY <1>0, <2>1, <2>2, <2>3, <2>4, ExclusiveFrame, Zenon DEF SafetyInv
  <2>8. NoOrphanedRun' /\ HeldExists'
    BY <1>0, <2>1, <2>6 DEF NoOrphanedRun, HeldExists, SafetyInv
  <2>9. EventMatchesStatus' /\ FinishSettled'
    BY <1>0, <2>1 DEF EventMatchesStatus, FinishSettled, SafetyInv
  <2>10. EndedReleased'
    <3>1. \A q \in Runs : (Ended(q)' <=> Ended(q)) /\ store'[q] = store[q]
      BY <2>1 DEF Ended
    <3>2. ASSUME NEW q \in Runs, Ended(q)'
          PROVE /\ store'[q] # "absent"
                /\ \A o \in Procs : ~(Submitting(o)' /\ hs'[o].run = q)
                /\ ~Queued(q)'
                /\ \A w \in Workers : Busy(w)' /\ ws'[w].run = q => ws'[w].pc = "finish"
      <4>1. /\ store[q] # "absent"
            /\ \A o \in Procs : ~(Submitting(o) /\ hs[o].run = q)
            /\ ~Queued(q)
            /\ \A w \in Workers : Busy(w) /\ ws[w].run = q => ws[w].pc = "finish"
        BY <1>0, <3>1, <3>2, SMTT(30) DEF EndedReleased, SafetyInv
      <4> QED BY <2>2, <2>3, <2>4, <2>5, <3>1, <4>1, Zenon
    <3> QED BY <3>2 DEF EndedReleased
  <2>11. AutoAfterEnd'
    BY <1>0, <1>i, <2>1 DEF AutoAfterEnd, SafetyInv
  <2> QED
    BY <2>7, <2>8, <2>9, <2>10, <2>11 DEF SafetyInv
<1> QED
  BY <1>1, <1>2, <1>3, <1>4, <1>5 DEF SubmitStep

(* The steps that end the execution of a run: a worker that holds r emits  *)
(* its terminal event and turns to "finish".                               *)
LEMMA EndOfRun ==
  ASSUME SafetyInv, NEW w \in Workers, NEW r \in Runs,
         Busy(w), ws[w].run = r, ws'[w].pc = "finish", ws'[w].run = r,
         \A v \in Workers : v # w => ws'[v] = ws[v],
         queue' = queue, lost \subseteq lost',
         \A q \in Runs : q # r => store'[q] = store[q] /\ emitted'[q] = emitted[q],
         \A p \in Procs : /\ Submitting(p)' <=> Submitting(p)
                          /\ Submitting(p) => hs'[p].run = hs[p].run,
         \A q \in Runs : q # r => hs'[q] = hs[q],
         emitted'[r] # "none", store'[r] # "absent",
         store'[r] \in Terminal \/ r \in lost',
         \/ r \in lost'
         \/ /\ emitted'[r] = "run.completed" => store'[r] \in {"completed", "canceled"}
            /\ emitted'[r] = "run.failed" => store'[r] \in {"failed", "canceled"},
         \A v \in Workers : Busy(v) => ws[v].run \in Runs
  PROVE SafetyInv'
<1>1. \A v \in Workers : (Busy(v)' <=> Busy(v)) /\ (Busy(v) => ws'[v].run = ws[v].run)
  BY Zenon DEF Busy
<1>2. \A q : Queued(q)' <=> Queued(q)
  BY DEF Queued
<1>3. \A q \in Runs : InFlight(q)' <=> InFlight(q)
  BY <1>1, <1>2, Zenon DEF InFlight
<1>4. InFlight(r)
  BY Zenon DEF InFlight
<1>5. /\ \A p \in Procs : Submitting(p) => hs[p].run # r
      /\ ~Queued(r)
      /\ \A v \in Workers : Busy(v) /\ ws[v].run = r => v = w
  BY DEF SafetyInv, ExclusiveExecution
<1>6. ExclusiveExecution'
  BY <1>1, ExclusiveFrame, Zenon DEF SafetyInv
<1>7. NoOrphanedRun'
  BY <1>3, <1>4 DEF NoOrphanedRun, SafetyInv
<1>8. EventMatchesStatus'
  BY Zenon DEF EventMatchesStatus, SafetyInv
<1>9. HeldExists'
  BY <1>3, Zenon DEF HeldExists, SafetyInv
<1>10. EndedReleased'
  <2>1. ASSUME NEW q \in Runs, Ended(q)'
        PROVE /\ store'[q] # "absent"
              /\ \A p \in Procs : ~(Submitting(p)' /\ hs'[p].run = q)
              /\ ~Queued(q)'
              /\ \A v \in Workers : Busy(v)' /\ ws'[v].run = q => ws'[v].pc = "finish"
    <3>1. CASE q = r
      BY <1>1, <1>2, <1>5, <3>1, Zenon
    <3>2. CASE q # r
      <4>1. Ended(q)
        BY <2>1, <3>2, Zenon DEF Ended
      <4> QED BY <1>1, <1>2, <3>2, <4>1 DEF EndedReleased, SafetyInv
    <3> QED BY <3>1, <3>2, Zenon
  <2> QED BY <2>1 DEF EndedReleased
<1>11. FinishSettled'
  <2>1. \A v \in Workers : v # w /\ ws[v].pc = "finish" => Busy(v) /\ ws[v].run # r
    BY <1>5 DEF Busy
  <2> QED BY <2>1 DEF FinishSettled, SafetyInv
<1>12. AutoAfterEnd'
  BY DEF AutoAfterEnd, SafetyInv
<1> QED
  BY <1>6, <1>7, <1>8, <1>9, <1>10, <1>11, <1>12, Zenon DEF SafetyInv

(* Worker steps keep the safety invariant. *)
LEMMA WorkerSafety ==
  ASSUME Inv, NEW w \in Workers, WorkerStep(w)
  PROVE SafetyInv'
<1> USE DEF storeVars, execVars, procVars
<1>0. /\ ws \in [Workers -> WorkerState] /\ ws[w] \in WorkerState
      /\ hs \in [Procs -> HandlerState] /\ Runs \subseteq Procs
      /\ store \in [Runs -> Statuses] /\ queue \in Seq(Runs)
      /\ emitted \in [Runs -> {"none", "run.completed", "run.failed"}]
      /\ \A v \in Workers : Busy(v) => ws[v].run \in Runs
      /\ SafetyInv
  BY DEF Procs, Inv, TypeInv, StateOK, RunFields
<1>b. ASSUME ws[w].pc \notin {"idle", "exited"}
      PROVE Busy(w) /\ ws[w].run \in Runs
  BY <1>0, <1>b DEF Busy
<1>h. ASSUME hs' = hs
      PROVE /\ \A p \in Procs : /\ Submitting(p)' <=> Submitting(p)
                                /\ Submitting(p) => hs'[p].run = hs[p].run
            /\ \A q \in Runs : hs'[q] = hs[q]
  BY <1>h DEF Submitting
<1>1. CASE Dequeue(w)
  <2>1. /\ At(w, "idle") /\ queue # <<>> /\ queue' = Tail(queue)
        /\ ws' = [ws EXCEPT ![w] = [IdleWorker EXCEPT !.pc = "start", !.run = Head(queue)]]
        /\ UNCHANGED <<store, hs, emitted, lost>>
    BY <1>1 DEF Dequeue, AfterReceive
  <2>2. PICK r \in Runs : r = Head(queue)
    BY <1>0, <2>1
  <2>3. /\ ~Busy(w) /\ Busy(w)' /\ ws'[w].run = r /\ ws'[w].pc = "start"
        /\ \A v \in Workers : v # w => ws'[v] = ws[v]
    <3>1. ws'[w] = [IdleWorker EXCEPT !.pc = "start", !.run = r]
      BY <1>0, <2>1, <2>2
    <3>2. ws'[w].pc = "start" /\ ws'[w].run = r
      BY <3>1 DEF IdleWorker
    <3> QED BY <1>0, <2>1, <3>2 DEF Busy, At
  <2>4. \A v \in Workers : v # w => (Busy(v)' <=> Busy(v))
    BY <2>3, Zenon DEF Busy
  <2>5. \A i, j \in 1..Len(queue) : i # j => queue[i] # queue[j]
    BY <1>0 DEF SafetyInv, ExclusiveExecution
  <2>6. /\ Queued(r)
        /\ ~Queued(r)'
        /\ \A q : q # r => (Queued(q)' <=> Queued(q))
        /\ \A i, j \in 1..Len(queue') : i # j => queue'[i] # queue'[j]
    BY <1>0, <2>1, <2>2, <2>5, TailQueue, Zenon
  <2>7. /\ \A p \in Procs : Submitting(p) => hs[p].run # r
        /\ \A v \in Workers : Busy(v) => ws[v].run # r
    BY <1>0, <2>6 DEF SafetyInv, ExclusiveExecution
  <2>8. \A p \in Procs : Submitting(p)' <=> Submitting(p)
    BY <2>1 DEF Submitting
  <2>9. \A q \in Runs : InFlight(q)' <=> InFlight(q)
    BY <2>1, <2>3, <2>4, <2>6, <2>8 DEF InFlight
  <2>10. ExclusiveExecution'
    BY <1>0, <2>1, <2>3, <2>4, <2>6, <2>7, <2>8, SMTT(30) DEF ExclusiveExecution, SafetyInv
  <2>11. NoOrphanedRun' /\ HeldExists'
    BY <1>0, <2>1, <2>9 DEF NoOrphanedRun, HeldExists, SafetyInv
  <2>12. EventMatchesStatus' /\ AutoAfterEnd'
    BY <1>0, <2>1 DEF EventMatchesStatus, AutoAfterEnd, SafetyInv
  <2>13. EndedReleased'
    <3>1. \A q \in Runs : (Ended(q)' <=> Ended(q)) /\ store'[q] = store[q]
      BY <2>1, Zenon DEF Ended
    <3>2. ~Ended(r)
      BY <1>0, <2>6 DEF SafetyInv, EndedReleased
    <3> QED
      BY <1>0, <2>1, <2>3, <2>4, <2>6, <2>8, <3>1, <3>2, SMTT(30) DEF EndedReleased, SafetyInv
  <2>14. FinishSettled'
    BY <1>0, <2>1, <2>3, Zenon DEF FinishSettled, SafetyInv
  <2> QED
    BY <2>10, <2>11, <2>12, <2>13, <2>14 DEF SafetyInv
<1>2. CASE WorkerExit(w) \/ StartCheckCtx(w) \/ LoopHead(w) \/ ModelReturns(w)
  <2>1. UNCHANGED <<store, queue, hs, emitted, lost>>
    BY <1>2 DEF WorkerExit, StartCheckCtx, LoopHead, ModelReturns
  <2>2. \A v \in Workers : v # w => ws'[v] = ws[v]
    BY <1>0, <1>2 DEF WorkerExit, StartCheckCtx, LoopHead, ModelReturns, Step, FailWith
  <2>3. /\ Busy(w)' <=> Busy(w)
        /\ ws'[w].run = ws[w].run
        /\ ws[w].pc # "finish" /\ ws'[w].pc # "finish"
    BY <1>0, <1>2 DEF WorkerExit, StartCheckCtx, LoopHead, ModelReturns, Step, FailWith,
       At, Busy, AfterCtxCheck, WorkerState
  <2>4. \A v \in Workers : v # w => (Busy(v)' <=> Busy(v))
    BY <2>2 DEF Busy
  <2> QED
    BY <1>0, <2>1, <2>2, <2>3, <2>4, WorkerFrame
<1>3. CASE SaveRunning(w)
  <2> DEFINE r == ws[w].run
  <2>1. /\ store' = [store EXCEPT ![r] = "running"]
        /\ UNCHANGED <<queue, hs, emitted, lost>>
        /\ ws[w].pc = "save_running" /\ Busy(w) /\ r \in Runs
    BY <1>3, <1>b DEF SaveRunning, At
  <2>2. /\ \A v \in Workers : v # w => ws'[v] = ws[v]
        /\ ws'[w].run = r /\ ws'[w].pc = "loop"
    BY <1>0, <1>3 DEF SaveRunning, Step, WorkerState
  <2> HIDE DEF r
  <2>3. \A v \in Workers : (Busy(v)' <=> Busy(v)) /\ ws'[v].run = ws[v].run
    BY <2>1, <2>2 DEF Busy, r
  <2>4. store'[r] = "running" /\ \A q \in Runs : q # r => store'[q] = store[q]
    BY <1>0, <2>1
  <2>5. ~Ended(r) /\ store[r] # "absent" /\ InFlight(r)
    BY <1>0, <2>1, Zenon DEF SafetyInv, EndedReleased, HeldExists, InFlight, r
  <2>6. \A p \in Procs : Submitting(p)' <=> Submitting(p)
    BY <2>1 DEF Submitting
  <2>7. \A q : Queued(q)' <=> Queued(q)
    BY <2>1 DEF Queued
  <2>8. \A q \in Runs : InFlight(q)' <=> InFlight(q)
    BY <2>1, <2>3, <2>6, <2>7 DEF InFlight
  <2>9. ExclusiveExecution'
    BY <1>0, <2>1, <2>3, <2>6, ExclusiveFrame, Zenon DEF SafetyInv
  <2>10. NoOrphanedRun' /\ HeldExists'
    BY <1>0, <2>1, <2>4, <2>5, <2>8 DEF NoOrphanedRun, HeldExists, SafetyInv
  <2>11. EventMatchesStatus' /\ AutoAfterEnd'
    BY <1>0, <2>1, <2>4, <2>5, Zenon DEF EventMatchesStatus, AutoAfterEnd, SafetyInv, Ended
  <2>12. EndedReleased'
    <3>1. \A q \in Runs : Ended(q)' <=> Ended(q)
      BY <2>1, <2>4, <2>5 DEF Ended
    <3>2. \A v \in Workers : v # w => ws'[v].pc = ws[v].pc
      BY <2>2, Zenon
    <3>3. ASSUME NEW q \in Runs, Ended(q)'
          PROVE /\ store'[q] # "absent"
                /\ \A p \in Procs : ~(Submitting(p)' /\ hs'[p].run = q)
                /\ ~Queued(q)'
                /\ \A v \in Workers : Busy(v)' /\ ws'[v].run = q => ws'[v].pc = "finish"
      <4>1. Ended(q) /\ q # r
        BY <2>5, <3>1, <3>3, Zenon
      <4>2. /\ store[q] # "absent"
            /\ \A p \in Procs : ~(Submitting(p) /\ hs[p].run = q)
            /\ ~Queued(q)
            /\ \A v \in Workers : Busy(v) /\ ws[v].run = q => ws[v].pc = "finish"
        BY <1>0, <4>1, SMTT(30) DEF EndedReleased, SafetyInv
      <4> QED BY <2>1, <2>3, <2>4, <2>6, <2>7, <3>2, <4>1, <4>2 DEF r
    <3> QED BY <3>3 DEF EndedReleased
  <2>13. FinishSettled'
    <3>1. \A v \in Workers : ws[v].pc = "finish" => Busy(v)
      BY DEF Busy
    <3>2. \A v \in Workers : v # w /\ ws[v].pc = "finish" => ws[v].run # r
      BY <1>0, <2>1, <3>1, Zenon DEF SafetyInv, ExclusiveExecution, r
    <3>3. ASSUME NEW v \in Workers, ws'[v].pc = "finish"
          PROVE store'[ws'[v].run] \in Terminal \/ ws'[v].run \in lost'
      <4>1. v # w /\ ws'[v] = ws[v] /\ ws[v].pc = "finish"
        BY <2>2, <3>3, SMTT(30)
      <4>2. ws[v].run \in Runs /\ ws[v].run # r
        BY <1>0, <3>1, <3>2, <4>1, SMTT(30)
      <4>3. store[ws[v].run] \in Terminal \/ ws[v].run \in lost
        BY <1>0, <4>1 DEF FinishSettled, SafetyInv
      <4> QED BY <2>1, <2>4, <4>1, <4>2, <4>3, SMTT(30)
    <3> QED BY <3>3 DEF FinishSettled
  <2> QED
    BY <2>9, <2>10, <2>11, <2>12, <2>13 DEF SafetyInv
<1>4. CASE SaveCompleted(w)
  <2>1. PICK r \in Runs : r = ws[w].run /\ Busy(w)
    BY <1>4, <1>b, Zenon DEF SaveCompleted, At
  <2>2. /\ queue' = queue /\ lost \subseteq lost' /\ hs' = hs
        /\ emitted' = [emitted EXCEPT ![r] = "run.completed"]
        /\ \/ store' = [store EXCEPT ![r] = "completed"]
           \/ store' = store /\ r \in lost'
    BY <1>4, <2>1 DEF SaveCompleted, SaveOutcome
  <2>3. /\ \A v \in Workers : v # w => ws'[v] = ws[v]
        /\ ws'[w].pc = "finish" /\ ws'[w].run = r
    BY <1>0, <1>4, <2>1, Zenon DEF SaveCompleted, Step, WorkerState
  <2>4. store[r] # "absent"
    BY <1>0, <2>1 DEF SafetyInv, HeldExists, InFlight
  <2>5. /\ \A q \in Runs : q # r => store'[q] = store[q] /\ emitted'[q] = emitted[q]
        /\ emitted'[r] = "run.completed" /\ store'[r] # "absent"
        /\ store'[r] = "completed" \/ r \in lost'
    BY <1>0, <2>2, <2>4, SMTT(30)
  <2> QED
    BY <1>0, <1>h, <2>1, <2>2, <2>3, <2>5, EndOfRun, Zenon DEF Terminal
<1>5. CASE FailRead(w)
  <2>1. PICK r \in Runs : r = ws[w].run /\ Busy(w) /\ ws[w].pc = "fail"
    BY <1>5, <1>b DEF FailRead, At
  <2>2. queue' = queue /\ lost' = lost /\ hs' = hs /\ store' = store
    BY <1>5 DEF FailRead
  <2>3. CASE /\ store[r] \in Terminal
             /\ emitted' = [emitted EXCEPT ![r] = "run.failed"]
             /\ Step(w, "finish")
    <3>1. /\ \A v \in Workers : v # w => ws'[v] = ws[v]
          /\ ws'[w].pc = "finish" /\ ws'[w].run = r
      BY <1>0, <2>1, <2>3, Zenon DEF Step, WorkerState
    <3>2. store[r] = "canceled"
      BY <1>0, <2>1, <2>3 DEF SafetyInv, EndedReleased, Ended, Terminal
    <3>3. /\ \A q \in Runs : q # r => store'[q] = store[q] /\ emitted'[q] = emitted[q]
          /\ emitted'[r] = "run.failed" /\ store'[r] = "canceled"
      BY <1>0, <2>2, <2>3, <3>2, Zenon
    <3> QED
      BY <1>0, <1>h, <2>1, <2>2, <3>1, <3>3, EndOfRun, Zenon DEF Terminal
  <2>4. CASE Step(w, "fail_save") /\ UNCHANGED emitted
    <3>1. /\ \A v \in Workers : v # w => ws'[v] = ws[v]
          /\ ws'[w].pc = "fail_save" /\ ws'[w].run = r
      BY <1>0, <2>1, <2>4, SMTT(30) DEF Step, WorkerState
    <3>2. \A v \in Workers : /\ Busy(v)' <=> Busy(v)
                             /\ Busy(v) => ws'[v].run = ws[v].run
                             /\ ws'[v].pc = "finish" <=> ws[v].pc = "finish"
      BY <2>1, <3>1 DEF Busy
    <3> QED BY <1>0, <2>2, <2>4, <3>2, WorkerFrame
  <2> QED BY <1>5, <2>1, <2>3, <2>4, SMTT(30) DEF FailRead
<1>6. CASE FailSave(w)
  <2>1. PICK r \in Runs : r = ws[w].run /\ Busy(w) /\ ws[w].pc = "fail_save"
    BY <1>6, <1>b DEF FailSave, At
  <2> DEFINE x == [IdleHandler EXCEPT !.pc = "waiting", !.op = "auto", !.of = r]
  <2>2. /\ queue' = queue /\ lost \subseteq lost'
        /\ emitted' = [emitted EXCEPT ![r] = "run.failed"]
        /\ hs' = hs \/ hs' = [hs EXCEPT ![r] = x]
        /\ \/ store' = [store EXCEPT ![r] = "failed"]
           \/ store' = store /\ r \in lost'
    BY <1>6, <2>1 DEF FailSave, SaveOutcome
  <2>3. x.pc = "waiting"
    BY DEF IdleHandler
  <2> HIDE DEF x
  <2>4. /\ \A v \in Workers : v # w => ws'[v] = ws[v]
        /\ ws'[w].pc = "finish" /\ ws'[w].run = r
    BY <1>0, <1>6, <2>1 DEF FailSave, AfterFailRun, Step, WorkerState
  <2>5. store[r] # "absent" /\ ~Ended(r)
    BY <1>0, <2>1 DEF SafetyInv, HeldExists, EndedReleased, InFlight
  <2>6. hs[r].pc = "idle"
    BY <1>0, <2>5 DEF SafetyInv, AutoAfterEnd, Ended
  <2>7. /\ \A p \in Procs : /\ Submitting(p)' <=> Submitting(p)
                            /\ Submitting(p) => hs'[p].run = hs[p].run
        /\ \A q \in Runs : q # r => hs'[q] = hs[q]
    BY <1>0, <2>2, <2>3, <2>6 DEF Submitting
  <2>8. /\ \A q \in Runs : q # r => store'[q] = store[q] /\ emitted'[q] = emitted[q]
        /\ emitted'[r] = "run.failed" /\ store'[r] # "absent"
        /\ store'[r] = "failed" \/ r \in lost'
    BY <1>0, <2>2, <2>5
  <2> QED
    BY <1>0, <2>1, <2>2, <2>4, <2>7, <2>8, EndOfRun, ZenonT(30) DEF Terminal
<1>7. CASE Finish(w)
  <2>1. PICK r \in Runs : r = ws[w].run /\ Busy(w) /\ ws[w].pc = "finish"
    BY <1>7, <1>b DEF Finish, At
  <2>2. /\ UNCHANGED <<store, queue, hs, emitted, lost>>
        /\ ws' = [ws EXCEPT ![w] = IdleWorker]
    BY <1>7 DEF Finish
  <2>3. ~Busy(w)' /\ \A v \in Workers : v # w => ws'[v] = ws[v] /\ (Busy(v)' <=> Busy(v))
    BY <1>0, <2>2 DEF Busy, IdleWorker
  <2>4. ws'[w].pc = "idle"
    BY <1>0, <2>2 DEF IdleWorker
  <2>5. store[r] \notin Active \/ r \in lost
    BY <1>0, <2>1, SMTT(30) DEF SafetyInv, FinishSettled, Active, Terminal
  <2>6. (\A p \in Procs : Submitting(p)' <=> Submitting(p)) /\ \A q : Queued(q)' <=> Queued(q)
    BY <2>2 DEF Submitting, Queued
  <2>7. \A q \in Runs : (InFlight(q)' => InFlight(q)) /\ (InFlight(q) => InFlight(q)' \/ q = r)
    BY <2>1, <2>2, <2>3, <2>6, Zenon DEF InFlight
  <2>8. ExclusiveExecution'
    BY <1>0, <2>2, <2>3, <2>6, ExclusiveFrame, SMTT(30) DEF SafetyInv
  <2>9. NoOrphanedRun' /\ HeldExists'
    BY <1>0, <2>2, <2>5, <2>7, SMTT(30) DEF NoOrphanedRun, HeldExists, SafetyInv
  <2>10. EventMatchesStatus' /\ AutoAfterEnd'
    BY <1>0, <2>2 DEF EventMatchesStatus, AutoAfterEnd, SafetyInv
  <2>11. EndedReleased'
    <3>1. \A q \in Runs : Ended(q)' <=> Ended(q)
      BY <2>2 DEF Ended
    <3> QED BY <1>0, <2>2, <2>3, <2>6, <3>1, ZenonT(30) DEF EndedReleased, SafetyInv
  <2>12. FinishSettled'
    BY <1>0, <2>2, <2>3, <2>4, Zenon DEF FinishSettled, SafetyInv
  <2> QED
    BY <2>8, <2>9, <2>10, <2>11, <2>12 DEF SafetyInv
<1> QED
  BY <1>1, <1>2, <1>3, <1>4, <1>5, <1>6, <1>7 DEF WorkerStep

(* Timers, shutdown, crash and restart keep the safety invariant. *)
LEMMA ProcessSafety ==
  ASSUME Inv,
         \/ \E r \in Runs : AutoRetryWake(r) \/ Timeout(r)
         \/ ProcessStep
         \/ UNCHANGED vars
  PROVE SafetyInv'
<1> USE DEF storeVars, execVars, procVars
<1>0. /\ hs \in [Procs -> HandlerState] /\ Runs \subseteq Procs
      /\ \A w \in Workers : Busy(w) => ws[w].run \in Runs
      /\ SafetyInv
  BY DEF Procs, Inv, TypeInv, StateOK, RunFields
<1>1. ASSUME NEW r \in Runs, AutoRetryWake(r) PROVE SafetyInv'
  <2>1. /\ UNCHANGED <<store, queue, ws, emitted, lost>>
        /\ hs[r].pc = "waiting"
        /\ hs' = [hs EXCEPT ![r].pc = "create"] \/ hs' = [hs EXCEPT ![r] = IdleHandler]
    BY <1>1 DEF AutoRetryWake, Running, Goto, Return
  <2>2. hs'[r].pc \in {"create", "idle"} /\ \A p \in Procs : p # r => hs'[p] = hs[p]
    BY <1>0, <2>1 DEF HandlerState, IdleHandler
  <2>3. \A p \in Procs : /\ Submitting(p)' <=> Submitting(p)
                         /\ Submitting(p) => hs'[p].run = hs[p].run
    BY <2>1, <2>2 DEF Submitting
  <2>4. \A q \in Runs : hs'[q].pc # "idle" => hs[q].pc # "idle"
    BY <1>0, <2>1, <2>2, Zenon
  <2> QED BY <1>0, <2>1, <2>3, <2>4, HandlerFrame
<1>2. ASSUME UNCHANGED <<store, queue, hs, ws, emitted, lost>> PROVE SafetyInv'
  <2>1. \A w \in Workers : Busy(w)' <=> Busy(w)
    BY <1>2 DEF Busy
  <2> QED BY <1>0, <1>2, <2>1, WorkerFrame
<1>3. CASE Restart
  <2>1. /\ UNCHANGED <<store, emitted>> /\ queue' = <<>>
        /\ hs' = [p \in Procs |-> IdleHandler]
        /\ ws' = [w \in Workers |-> IdleWorker]
        /\ lost' = lost \cup {r \in Runs : store[r] \in Active}
    BY <1>3, Zenon DEF Restart
  <2>2. /\ \A p \in Procs : ~Submitting(p)' /\ hs'[p].pc = "idle"
        /\ \A w \in Workers : ~Busy(w)' /\ ws'[w].pc = "idle"
        /\ \A q : ~Queued(q)'
        /\ Len(queue') = 0
    BY <2>1 DEF Submitting, Busy, Queued, IdleHandler, IdleWorker
  <2>3. \A q \in Runs : ~InFlight(q)'
    BY <2>2, Zenon DEF InFlight
  <2>4. ExclusiveExecution'
    <3>1. 1..Len(queue') = {}
      BY <2>2
    <3> QED BY <2>2, <3>1, Zenon DEF ExclusiveExecution
  <2>5. NoOrphanedRun' /\ HeldExists' /\ FinishSettled' /\ AutoAfterEnd'
    BY <1>0, <2>1, <2>2, <2>3, Zenon DEF NoOrphanedRun, HeldExists, FinishSettled, AutoAfterEnd
  <2>6. EventMatchesStatus'
    BY <1>0, <2>1, Zenon DEF EventMatchesStatus, SafetyInv
  <2>7. EndedReleased'
    BY <1>0, <2>1, <2>2, Zenon DEF EndedReleased, Ended, SafetyInv
  <2> QED BY <2>4, <2>5, <2>6, <2>7 DEF SafetyInv
<1> QED
  BY <1>1, <1>2, <1>3
  DEF ProcessStep, Timeout, HttpShutdown, ExecutorShutdown, Exit, Crash, vars

-----------------------------------------------------------------------------
(* The initial state satisfies the invariant. *)
LEMMA InitSafety == Init => Inv
<1> SUFFICES ASSUME Init PROVE SafetyInv
  BY InitTypes, Zenon DEF Inv
<1>1. /\ \A p \in Procs : ~Submitting(p) /\ hs[p].pc = "idle"
      /\ \A w \in Workers : ~Busy(w) /\ ws[w].pc = "idle"
      /\ \A q : ~Queued(q)
      /\ 1..Len(queue) = {}
      /\ \A r \in Runs : store[r] = "absent" /\ emitted[r] = "none"
  <2>1. \A p \in Procs : hs[p].pc = "idle" /\ ~Submitting(p)
    BY DEF Init, Submitting, IdleHandler
  <2>2. \A w \in Workers : ws[w].pc = "idle" /\ ~Busy(w)
    BY DEF Init, Busy, IdleWorker
  <2>3. 1..Len(queue) = {}
    BY DEF Init
  <2>4. \A q : ~Queued(q)
    BY <2>3 DEF Queued
  <2>5. \A r \in Runs : store[r] = "absent" /\ emitted[r] = "none"
    BY DEF Init
  <2> QED BY <2>1, <2>2, <2>3, <2>4, <2>5, Zenon
<1>2. Runs \subseteq Procs
  BY DEF Procs
<1> QED
  BY <1>1, <1>2, Zenon DEF SafetyInv, ExclusiveExecution, NoOrphanedRun, EventMatchesStatus,
     HeldExists, EndedReleased, FinishSettled, AutoAfterEnd, InFlight, Active, Ended

(* Every step keeps it. *)
LEMMA NextSafety == Inv /\ [Next]_vars => Inv'
<1> SUFFICES ASSUME Inv, [Next]_vars PROVE SafetyInv'
  BY NextTypes DEF Inv
<1> QED
  BY HandlerSafety, SubmitSafety, WorkerSafety, ProcessSafety DEF Next, Quiescent

(* The invariant holds in every reachable state. *)
LEMMA InvHolds == Spec => []Inv
  BY InitSafety, NextSafety, PTL DEF Spec

(* No job is ever in two hands: of Submit, Executor.queue and the workers, *)
(* one holds it.                                                           *)
THEOREM ExecutedOnce == Spec => []ExclusiveExecution
<1>1. Inv => ExclusiveExecution
  BY DEF Inv, SafetyInv
<1> QED BY <1>1, InvHolds, PTL

(* A run stored as queued or running is in flight, unless a crash, a failed*)
(* write or a Submit into the closed queue lost it.                        *)
THEOREM NeverOrphaned == Spec => []NoOrphanedRun
<1>1. Inv => NoOrphanedRun
  BY DEF Inv, SafetyInv
<1> QED BY <1>1, InvHolds, PTL

(* The terminal event on the sink agrees with the stored status.           *)
THEOREM EventsAgree == Spec => []EventMatchesStatus
<1>1. Inv => EventMatchesStatus
  BY Zenon DEF Inv, SafetyInv
<1> QED BY <1>1, InvHolds, PTL

(* No step overwrites an outcome, save with "canceled". *)
LEMMA OutcomeStep ==
  ASSUME Inv, [Next]_vars, NEW r \in Runs, store[r] \in {"completed", "failed"}
  PROVE store'[r] \in {store[r], "canceled"}
<1> USE DEF storeVars, execVars, procVars
<1>0. /\ store \in [Runs -> Statuses]
      /\ \A w \in Workers : Busy(w) => ws[w].run \in Runs
      /\ \A w \in Workers : Busy(w) /\ ws[w].pc # "finish" => ws[w].run # r
  BY Zenon DEF Inv, TypeInv, StateOK, RunFields, SafetyInv, EndedReleased, Ended
<1>1. ASSUME NEW h \in Handlers, HandlerStep(h) PROVE store'[r] \in {store[r], "canceled"}
  <2>1. store' = store \/ store' = [store EXCEPT ![hs[h].run] = "canceled"]
    BY <1>1, Zenon DEF HandlerStep, RunCreateAdmit, RunBatchNext, RunCreateReject, RunCreateLookup,
       RunBatchBegin, RunRetryGet, CancelGet, CancelCtx, CancelSave, CancelSaveFails,
       CascadeList, CascadeNext, CancelRelease
  <2> QED BY <1>0, <2>1
<1>2. ASSUME NEW p \in Procs, SubmitStep(p) PROVE store'[r] = store[r]
  <2>1. \/ store' = store
        \/ \E q \in Runs : store[q] = "absent" /\ store' = [store EXCEPT ![q] = "queued"]
    BY <1>2 DEF SubmitStep, RunPersist, RunPersistFails, SubmitRegister, SubmitEnqueue,
       SubmitPanics
  <2> QED BY <1>0, <2>1
<1>3. ASSUME NEW w \in Workers, WorkerStep(w) PROVE store'[r] = store[r]
  <2>1. CASE store' = store
    BY <2>1, SMTT(30)
  <2>2. CASE store' # store
    <3>1. /\ ws[w].pc \in {"save_running", "complete", "fail_save"}
          /\ \E st : store' = [store EXCEPT ![ws[w].run] = st]
      BY <1>3, <2>2, Zenon DEF WorkerStep, Dequeue, WorkerExit, StartCheckCtx, SaveRunning,
         LoopHead, ModelReturns, SaveCompleted, FailRead, FailSave, Finish,
         SaveOutcome, At
    <3>2. ws[w].run # r
      BY <1>0, <3>1 DEF Busy
    <3> QED BY <1>0, <3>1, <3>2
  <2> QED BY <2>1, <2>2
<1>4. ASSUME \/ \E q \in Runs : AutoRetryWake(q) \/ Timeout(q)
             \/ ProcessStep
             \/ UNCHANGED vars
      PROVE store' = store
  BY <1>4, Zenon DEF ProcessStep, AutoRetryWake, Timeout, HttpShutdown, ExecutorShutdown, Exit,
     Crash, Restart, vars
<1> QED
  BY <1>1, <1>2, <1>3, <1>4 DEF Next, Quiescent

(* A completed run never becomes failed or active again, nor a failed one  *)
(* completed: only a late cancel may still overwrite an outcome.           *)
THEOREM OutcomesStand == Spec => OutcomeStands
<1>1. Inv /\ [Next]_vars
        => [\A r \in Runs :
              /\ store[r] = "completed" => store'[r] \in {"completed", "canceled"}
              /\ store[r] = "failed" => store'[r] \in {"failed", "canceled"}]_vars
  BY OutcomeStep
<1> QED
  BY <1>1, InvHolds, PTL DEF Spec, OutcomeStands

=============================================================================
