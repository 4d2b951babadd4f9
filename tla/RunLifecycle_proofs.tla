------------------------ MODULE RunLifecycle_proofs ------------------------
(***************************************************************************)
(* The types of RunLifecycle's store, executor and processes, for any      *)
(* number of runs, handlers and workers, any operations and any faults.    *)
(* Next to its type a process keeps that it has a run whenever its program *)
(* counter says so (RunFields): the steps that follow rely on it.          *)
(***************************************************************************)
EXTENDS RunLifecycle, TLAPS

(* The idle states of handlers and workers are well-formed. *)
LEMMA IdleStates == IdleHandler \in HandlerState /\ IdleWorker \in WorkerState
  BY DEF IdleHandler, IdleWorker, HandlerState, WorkerState, HandlerPcs,
     WorkerPcs, Codes

(* The record updates of the handlers' steps keep a handler's state        *)
(* well-formed.                                                            *)
LEMMA HandlerUpdates ==
  ASSUME NEW x \in HandlerState
  PROVE /\ \A pc \in HandlerPcs : [x EXCEPT !.pc = pc] \in HandlerState
        /\ \A k \in Keys \cup {NoKey} :
             /\ [x EXCEPT !.pc = "admitted", !.op = "create", !.key = k]
                  \in HandlerState
             /\ x.left > 0 =>
                [x EXCEPT !.pc = "admitted", !.key = k, !.left = x.left - 1]
                  \in HandlerState
        /\ \A n \in Nat : [x EXCEPT !.pc = "next", !.op = "batch", !.left = n]
                            \in HandlerState
        /\ \A r \in Runs :
             /\ [x EXCEPT !.pc = "create", !.op = "retry", !.of = r] \in HandlerState
             /\ [x EXCEPT !.pc = "waiting", !.op = "auto", !.of = r] \in HandlerState
             /\ [x EXCEPT !.pc = "cancel_ctx", !.op = "cancel", !.run = r]
                  \in HandlerState
             /\ [x EXCEPT !.pc = "register", !.run = r] \in HandlerState
        /\ [x EXCEPT !.pc = "next", !.run = NoRun, !.key = NoKey] \in HandlerState
        /\ \A f \in Seq(SUBSET Runs) :
             /\ [x EXCEPT !.frames = f] \in HandlerState
             /\ [x EXCEPT !.pc = "cascade_next", !.frames = f] \in HandlerState
             /\ \A r \in Runs :
                  [x EXCEPT !.pc = "cancel_ctx", !.run = r, !.frames = f]
                    \in HandlerState
<1> USE DEF HandlerState, HandlerPcs
<1>1. \A pc \in HandlerPcs : [x EXCEPT !.pc = pc] \in HandlerState
  OBVIOUS
<1>2. ASSUME NEW k \in Keys \cup {NoKey}
      PROVE /\ [x EXCEPT !.pc = "admitted", !.op = "create", !.key = k]
                 \in HandlerState
            /\ x.left > 0 =>
               [x EXCEPT !.pc = "admitted", !.key = k, !.left = x.left - 1]
                 \in HandlerState
  <2>1. [x EXCEPT !.pc = "admitted", !.op = "create", !.key = k] \in HandlerState
    BY Zenon
  <2>2. ASSUME x.left > 0 PROVE x.left - 1 \in Nat
    BY <2>2
  <2>3. \A n \in Nat : [x EXCEPT !.pc = "admitted", !.key = k, !.left = n]
                         \in HandlerState
    BY Zenon
  <2> QED BY <2>1, <2>2, <2>3, Zenon
<1>3. ASSUME NEW n \in Nat
      PROVE [x EXCEPT !.pc = "next", !.op = "batch", !.left = n] \in HandlerState
  BY Zenon
<1>4. ASSUME NEW r \in Runs
      PROVE /\ [x EXCEPT !.pc = "create", !.op = "retry", !.of = r] \in HandlerState
            /\ [x EXCEPT !.pc = "waiting", !.op = "auto", !.of = r] \in HandlerState
            /\ [x EXCEPT !.pc = "cancel_ctx", !.op = "cancel", !.run = r]
                 \in HandlerState
            /\ [x EXCEPT !.pc = "register", !.run = r] \in HandlerState
  BY Zenon
<1>5. [x EXCEPT !.pc = "next", !.run = NoRun, !.key = NoKey] \in HandlerState
  BY Zenon
<1>6. ASSUME NEW f \in Seq(SUBSET Runs)
      PROVE /\ [x EXCEPT !.frames = f] \in HandlerState
            /\ [x EXCEPT !.pc = "cascade_next", !.frames = f] \in HandlerState
            /\ \A r \in Runs :
                 [x EXCEPT !.pc = "cancel_ctx", !.run = r, !.frames = f]
                   \in HandlerState
  BY Zenon
<1> QED
  BY <1>1, <1>2, <1>3, <1>4, <1>5, <1>6, Zenon

-----------------------------------------------------------------------------
(* What the program counters say of the other fields: a goroutine that     *)
(* submits or cancels has a run in hand, a batch that goes on has an item  *)
(* left, an auto-retry goroutine only creates and submits, a busy worker   *)
(* has a run.                                                              *)
NamesRun == {"register", "enqueue", "cancel_ctx", "cancel_save", "cascade_list"}
AutoPcs == {"idle", "waiting", "create", "register", "enqueue"}

HandlerOK(p, x) ==
  /\ x.pc \in NamesRun => x.run \in Runs
  /\ x.pc = "next" => x.left > 0
  /\ p \in Runs => x.pc \in AutoPcs /\ x.op \in {"none", "auto"}

RunFields ==
  /\ \A p \in Procs : HandlerOK(p, hs[p])
  /\ \A w \in Workers : Busy(w) => ws[w].run \in Runs

TypeInv == StateOK /\ RunFields

(* Updating one handler with a well-formed state keeps TypeInv's part on   *)
(* handlers.                                                               *)
LEMMA HandlerMove ==
  ASSUME TypeInv, NEW p \in Procs, NEW x \in HandlerState, HandlerOK(p, x),
         hs' = [hs EXCEPT ![p] = x]
  PROVE /\ hs' \in [Procs -> HandlerState]
        /\ \A q \in Procs : HandlerOK(q, hs'[q])
  BY DEF TypeInv, StateOK, RunFields

(* The same for one worker. *)
LEMMA WorkerMove ==
  ASSUME TypeInv, NEW w \in Workers, NEW x \in WorkerState,
         x.pc \in {"idle", "exited"} \/ x.run \in Runs,
         ws' = [ws EXCEPT ![w] = x]
  PROVE /\ ws' \in [Workers -> WorkerState]
        /\ \A v \in Workers : Busy(v)' => ws'[v].run \in Runs
  BY DEF TypeInv, StateOK, RunFields, Busy

(* The idle handler is always a legal state. *)
LEMMA IdleOK == \A p \in Procs : HandlerOK(p, IdleHandler)
  BY DEF HandlerOK, IdleHandler, NamesRun, AutoPcs

(* Handler steps keep the types. *)
LEMMA HandlerTypes ==
  ASSUME TypeInv, NEW h \in Handlers, HandlerStep(h)
  PROVE TypeInv'
<1> USE DEF storeVars, execVars, procVars
<1>0. /\ h \in Procs /\ h \notin Runs
      /\ hs[h] \in HandlerState /\ HandlerOK(h, hs[h])
  BY ConstantsAssumption DEF Procs, TypeInv, StateOK, RunFields
<1>r. ASSUME Return(h)
      PROVE /\ hs' \in [Procs -> HandlerState]
            /\ \A q \in Procs : HandlerOK(q, hs'[q])
  BY <1>0, <1>r, HandlerMove, IdleStates, IdleOK, Zenon DEF Return
<1>g. ASSUME NEW pc \in HandlerPcs, Goto(h, pc), pc # "next",
             pc \in NamesRun => hs[h].run \in Runs
      PROVE /\ hs' \in [Procs -> HandlerState]
            /\ \A q \in Procs : HandlerOK(q, hs'[q])
  <2> DEFINE x == [hs[h] EXCEPT !.pc = pc]
  <2>1. x \in HandlerState
    BY <1>0, HandlerUpdates, Zenon
  <2>2. HandlerOK(h, x)
    BY <1>0, <1>g DEF HandlerOK, HandlerState
  <2>3. hs' = [hs EXCEPT ![h] = x]
    BY <1>g DEF Goto
  <2> HIDE DEF x
  <2> QED BY <1>0, <2>1, <2>2, <2>3, HandlerMove, Zenon
<1>n. ASSUME NEW x \in HandlerState, x.pc # "next" \/ x.left > 0,
             x.pc \in NamesRun => x.run \in Runs,
             hs' = [hs EXCEPT ![h] = x]
      PROVE /\ hs' \in [Procs -> HandlerState]
            /\ \A q \in Procs : HandlerOK(q, hs'[q])
  BY <1>0, <1>n, HandlerMove, Zenon DEF HandlerOK
<1>w. ASSUME ws' = ws PROVE \A w \in Workers : Busy(w)' => ws'[w].run \in Runs
  BY <1>w DEF TypeInv, RunFields, Busy
<1> USE DEF TypeInv, StateOK, RunFields
<1>1. ASSUME NEW k \in Keys \cup {NoKey}, RunCreateAdmit(h, k) PROVE TypeInv'
  <2> DEFINE x == [IdleHandler EXCEPT !.pc = "admitted", !.op = "create", !.key = k]
  <2>1. x \in HandlerState /\ x.pc = "admitted"
    BY IdleStates, HandlerUpdates, Zenon DEF IdleHandler
  <2>2. hs' = [hs EXCEPT ![h] = x]
    BY <1>1 DEF RunCreateAdmit
  <2> HIDE DEF x
  <2>3. hs' \in [Procs -> HandlerState] /\ \A q \in Procs : HandlerOK(q, hs'[q])
    BY <2>1, <2>2, <1>n, Zenon DEF NamesRun
  <2> QED
    BY <1>1, <1>w, <2>3 DEF RunCreateAdmit, TryIncConcurrent
<1>2. ASSUME NEW k \in Keys \cup {NoKey}, RunBatchNext(h, k) PROVE TypeInv'
  <2>1. CASE Return(h) /\ UNCHANGED conc
    BY <1>2, <1>w, <1>r, <2>1 DEF RunBatchNext
  <2>2. CASE /\ TryIncConcurrent
             /\ hs' = [hs EXCEPT ![h].pc = "admitted", ![h].key = k,
                                 ![h].left = hs[h].left - 1]
    <3> DEFINE x == [hs[h] EXCEPT !.pc = "admitted", !.key = k,
                                  !.left = hs[h].left - 1]
    <3>1. hs[h].left > 0
      BY <1>0, <1>2 DEF RunBatchNext, Serving, HandlerOK
    <3>2. x \in HandlerState /\ x.pc = "admitted"
      <4>1. x \in HandlerState  BY <1>0, <3>1, HandlerUpdates, Zenon
      <4>2. x.pc = "admitted"  BY <1>0 DEF HandlerState
      <4> QED BY <4>1, <4>2
    <3>3. hs' = [hs EXCEPT ![h] = x]
      BY <2>2, Zenon
    <3> HIDE DEF x
    <3>4. hs' \in [Procs -> HandlerState] /\ \A q \in Procs : HandlerOK(q, hs'[q])
      BY <3>2, <3>3, <1>n, Zenon DEF NamesRun
    <3> QED
      BY <1>2, <1>w, <2>2, <3>4 DEF RunBatchNext, TryIncConcurrent
  <2> QED
    BY <1>2, <2>1, <2>2 DEF RunBatchNext
<1>3. CASE RunCreateReject(h)
  BY <1>3, <1>w, <1>r DEF RunCreateReject, ReleaseSlot, DecConcurrent
<1>4. CASE RunCreateLookup(h)
  <2>1. hs' \in [Procs -> HandlerState] /\ \A q \in Procs : HandlerOK(q, hs'[q])
    BY <1>4, <1>r, <1>g DEF RunCreateLookup, HandlerPcs, NamesRun
  <2> QED
    BY <1>4, <1>w, <2>1 DEF RunCreateLookup, ReleaseSlot, DecConcurrent
<1>5. ASSUME NEW n \in 1..BatchSize, RunBatchBegin(h, n) PROVE TypeInv'
  <2> DEFINE x == [IdleHandler EXCEPT !.pc = "next", !.op = "batch", !.left = n]
  <2>0. n \in Nat /\ n > 0
    BY ConstantsAssumption
  <2>1. x \in HandlerState /\ x.pc = "next" /\ x.left = n
    BY <2>0, IdleStates, HandlerUpdates, Zenon DEF IdleHandler
  <2>2. hs' = [hs EXCEPT ![h] = x]
    BY <1>5 DEF RunBatchBegin
  <2> HIDE DEF x
  <2>3. hs' \in [Procs -> HandlerState] /\ \A q \in Procs : HandlerOK(q, hs'[q])
    BY <2>0, <2>1, <2>2, <1>n, Zenon DEF NamesRun
  <2> QED
    BY <1>5, <1>w, <2>3 DEF RunBatchBegin
<1>6. ASSUME NEW r \in Runs, RunRetryGet(h, r) PROVE TypeInv'
  <2> DEFINE x == [IdleHandler EXCEPT !.pc = "create", !.op = "retry", !.of = r]
  <2>1. x \in HandlerState /\ x.pc = "create"
    BY IdleStates, HandlerUpdates, Zenon DEF IdleHandler
  <2>2. hs' = [hs EXCEPT ![h] = x]
    BY <1>6 DEF RunRetryGet
  <2> HIDE DEF x
  <2>3. hs' \in [Procs -> HandlerState] /\ \A q \in Procs : HandlerOK(q, hs'[q])
    BY <2>1, <2>2, <1>n, Zenon DEF NamesRun
  <2> QED
    BY <1>6, <1>w, <2>3 DEF RunRetryGet
<1>7. ASSUME NEW r \in Runs, CancelGet(h, r) PROVE TypeInv'
  <2> DEFINE x == [IdleHandler EXCEPT !.pc = "cancel_ctx", !.op = "cancel", !.run = r]
  <2>1. x \in HandlerState /\ x.pc = "cancel_ctx" /\ x.run = r
    BY IdleStates, HandlerUpdates, Zenon DEF IdleHandler
  <2>2. hs' = [hs EXCEPT ![h] = x]
    BY <1>7 DEF CancelGet
  <2> HIDE DEF x
  <2>3. hs' \in [Procs -> HandlerState] /\ \A q \in Procs : HandlerOK(q, hs'[q])
    BY <2>1, <2>2, <1>n, Zenon DEF NamesRun
  <2> QED
    BY <1>7, <1>w, <2>3 DEF CancelGet
<1>8. CASE CancelCtx(h)
  <2>1. hs[h].run \in Runs
    BY <1>0, <1>8 DEF CancelCtx, Serving, HandlerOK, NamesRun
  <2>2. hs' \in [Procs -> HandlerState] /\ \A q \in Procs : HandlerOK(q, hs'[q])
    BY <1>8, <1>g, <2>1 DEF CancelCtx, HandlerPcs
  <2> QED
    BY <1>8, <1>w, <2>1, <2>2 DEF CancelCtx
<1>9. CASE CancelSave(h)
  <2>1. hs[h].run \in Runs
    BY <1>0, <1>9 DEF CancelSave, Serving, HandlerOK, NamesRun
  <2>2. hs' \in [Procs -> HandlerState] /\ \A q \in Procs : HandlerOK(q, hs'[q])
    BY <1>9, <1>g, <2>1 DEF CancelSave, HandlerPcs
  <2>3. store' \in [Runs -> Statuses]
    BY <1>9, <2>1 DEF CancelSave, Statuses, Terminal
  <2> QED
    BY <1>9, <1>w, <2>2, <2>3 DEF CancelSave
<1>10. CASE CancelSaveFails(h)
  <2>2. hs' \in [Procs -> HandlerState] /\ \A q \in Procs : HandlerOK(q, hs'[q])
    BY <1>10, <1>g, <1>r DEF CancelSaveFails, HandlerPcs, NamesRun
  <2>3. store' \in [Runs -> Statuses]
    BY <1>10 DEF CancelSaveFails, Statuses, Terminal
  <2> QED
    BY <1>10, <1>w, <2>2, <2>3 DEF CancelSaveFails
<1>11. CASE CascadeList(h)
  <2>0. PICK kids \in Listed(hs[h].run) :
          hs' = [hs EXCEPT ![h].pc = "cascade_next",
                           ![h].frames = IF Len(@) < MaxCancelDepth
                                         THEN Append(@, kids)
                                         ELSE @]
    BY <1>11, Zenon DEF CascadeList
  <2> DEFINE f == IF Len(hs[h].frames) < MaxCancelDepth
                  THEN Append(hs[h].frames, kids)
                  ELSE hs[h].frames
             x == [hs[h] EXCEPT !.pc = "cascade_next", !.frames = f]
  <2>1. f \in Seq(SUBSET Runs)
    <3>1. kids \in SUBSET Runs
      BY <2>0 DEF Listed, ActiveChildren
    <3> QED BY <1>0, <3>1 DEF HandlerState
  <2>2. hs' = [hs EXCEPT ![h] = x]
    BY <2>0, Zenon
  <2> HIDE DEF f
  <2>3. x \in HandlerState /\ x.pc = "cascade_next"
    <3>1. x \in HandlerState  BY <1>0, <2>1, HandlerUpdates, Zenon
    <3>2. x.pc = "cascade_next"  BY <1>0 DEF HandlerState
    <3> QED BY <3>1, <3>2
  <2> HIDE DEF x
  <2>4. hs' \in [Procs -> HandlerState] /\ \A q \in Procs : HandlerOK(q, hs'[q])
    BY <2>2, <2>3, <1>n, Zenon DEF NamesRun
  <2> QED
    BY <1>11, <1>w, <2>4 DEF CascadeList
<1>12. CASE CascadeNext(h)
  <2> DEFINE fr == hs[h].frames
             n == Len(fr)
  <2>1. fr \in Seq(SUBSET Runs) /\ n \in Nat /\ n > 0 /\ fr[n] \subseteq Runs
    <3>1. fr \in Seq(SUBSET Runs) /\ fr # <<>>
      BY <1>0, <1>12, Zenon DEF HandlerState, CascadeNext
    <3> HIDE DEF fr
    <3>2. n \in Nat /\ n > 0
      BY <3>1
    <3>3. fr[n] \in SUBSET Runs
      BY <3>1, <3>2
    <3> QED BY <3>1, <3>2, <3>3
  <2>2. CASE hs' = [hs EXCEPT ![h].frames = SubSeq(@, 1, n - 1)]
    <3> DEFINE f == SubSeq(fr, 1, n - 1)
               x == [hs[h] EXCEPT !.frames = f]
    <3>1. f \in Seq(SUBSET Runs)
      BY <2>1
    <3>2. hs' = [hs EXCEPT ![h] = x]
      BY <2>2
    <3> HIDE DEF f
    <3>3. x \in HandlerState /\ x.pc = "cascade_next"
      <4>1. x \in HandlerState  BY <1>0, <3>1, HandlerUpdates, Zenon
      <4>2. x.pc = "cascade_next"
        BY <1>0, <1>12, Zenon DEF HandlerState, CascadeNext, Serving
      <4> QED BY <4>1, <4>2
    <3> HIDE DEF x
    <3>4. hs' \in [Procs -> HandlerState] /\ \A q \in Procs : HandlerOK(q, hs'[q])
      BY <3>2, <3>3, <1>n, Zenon DEF NamesRun
    <3> QED
      BY <1>12, <1>w, <3>4, Zenon DEF CascadeNext
  <2>3. ASSUME NEW c \in fr[n],
               hs' = [hs EXCEPT ![h].pc = "cancel_ctx", ![h].run = c,
                                ![h].frames = [@ EXCEPT ![n] = fr[n] \ {c}]]
        PROVE TypeInv'
    <3> DEFINE f == [fr EXCEPT ![n] = fr[n] \ {c}]
               x == [hs[h] EXCEPT !.pc = "cancel_ctx", !.run = c, !.frames = f]
    <3>1. f \in Seq(SUBSET Runs) /\ c \in Runs
      BY <2>1
    <3>2. hs' = [hs EXCEPT ![h] = x]
      BY <2>3, Zenon
    <3> HIDE DEF f
    <3>3. x \in HandlerState /\ x.pc = "cancel_ctx" /\ x.run = c
      <4>1. x \in HandlerState  BY <1>0, <3>1, HandlerUpdates, Zenon
      <4>2. x.pc = "cancel_ctx" /\ x.run = c  BY <1>0 DEF HandlerState
      <4> QED BY <4>1, <4>2
    <3> HIDE DEF x
    <3>4. hs' \in [Procs -> HandlerState] /\ \A q \in Procs : HandlerOK(q, hs'[q])
      BY <3>1, <3>2, <3>3, <1>n, Zenon DEF NamesRun
    <3> QED
      BY <1>12, <1>w, <3>4, Zenon DEF CascadeNext
  <2> QED
    BY <1>12, <2>2, <2>3, Zenon DEF CascadeNext
<1>13. CASE CancelRelease(h)
  BY <1>13, <1>w, <1>r DEF CancelRelease, DecConcurrent
<1> QED
  BY <1>1, <1>2, <1>3, <1>4, <1>5, <1>6, <1>7, <1>8, <1>9, <1>10, <1>11,
     <1>12, <1>13, HandlerStep(h), Zenon DEF HandlerStep

(* Persisting and submitting keep the types. *)
LEMMA SubmitTypes ==
  ASSUME TypeInv, NEW p \in Procs, SubmitStep(p)
  PROVE TypeInv'
<1> USE DEF storeVars, execVars, procVars
<1>0. /\ hs[p] \in HandlerState /\ HandlerOK(p, hs[p])
  BY DEF TypeInv, StateOK, RunFields
<1>r. ASSUME Return(p)
      PROVE /\ hs' \in [Procs -> HandlerState]
            /\ \A q \in Procs : HandlerOK(q, hs'[q])
  BY <1>r, HandlerMove, IdleStates, IdleOK, Zenon DEF Return
<1>w. ASSUME ws' = ws PROVE \A w \in Workers : Busy(w)' => ws'[w].run \in Runs
  BY <1>w DEF TypeInv, RunFields, Busy
<1> USE DEF TypeInv, StateOK, RunFields
<1>1. ASSUME NEW r \in Runs, RunPersist(p, r) PROVE TypeInv'
  <2> DEFINE x == [hs[p] EXCEPT !.pc = "register", !.run = r]
  <2>1. x \in HandlerState
    BY <1>0, HandlerUpdates, Zenon
  <2>2. HandlerOK(p, x)
    BY <1>0 DEF HandlerOK, HandlerState, AutoPcs
  <2>3. hs' = [hs EXCEPT ![p] = x]
    BY <1>1, Zenon DEF RunPersist
  <2> HIDE DEF x
  <2>4. hs' \in [Procs -> HandlerState] /\ \A q \in Procs : HandlerOK(q, hs'[q])
    BY <2>1, <2>2, <2>3, HandlerMove
  <2>5. hs[p].of \in Runs \cup {NoRun} /\ hs[p].key \in Keys \cup {NoKey}
    BY <1>0 DEF HandlerState
  <2> QED
    BY <1>1, <1>w, <2>4, <2>5 DEF RunPersist, Statuses, Active
<1>2. ASSUME NEW r \in Runs, RunPersistFails(p, r) PROVE TypeInv'
  <2>1. hs' \in [Procs -> HandlerState] /\ \A q \in Procs : HandlerOK(q, hs'[q])
    BY <1>2, <1>r DEF RunPersistFails
  <2>2. hs[p].of \in Runs \cup {NoRun} /\ hs[p].key \in Keys \cup {NoKey}
    BY <1>0 DEF HandlerState
  <2> QED
    BY <1>2, <1>w, <2>1, <2>2, Zenon DEF RunPersistFails, Statuses, Active
<1>3. CASE SubmitRegister(p)
  <2> DEFINE x == [hs[p] EXCEPT !.pc = "enqueue"]
  <2>0. hs[p].run \in Runs
    BY <1>0, <1>3 DEF SubmitRegister, Running, HandlerOK, NamesRun
  <2>1. x \in HandlerState
    BY <1>0, HandlerUpdates, Zenon DEF HandlerPcs
  <2>2. HandlerOK(p, x)
    BY <1>0, <2>0 DEF HandlerOK, HandlerState, AutoPcs
  <2>3. hs' = [hs EXCEPT ![p] = x]
    BY <1>3 DEF SubmitRegister, Goto
  <2> HIDE DEF x
  <2>4. hs' \in [Procs -> HandlerState] /\ \A q \in Procs : HandlerOK(q, hs'[q])
    BY <2>1, <2>2, <2>3, HandlerMove
  <2> QED
    BY <1>3, <1>w, <2>0, <2>4 DEF SubmitRegister
<1>4. CASE SubmitEnqueue(p)
  <2> DEFINE y == [hs[p] EXCEPT !.pc = "next", !.run = NoRun, !.key = NoKey]
             x == IF hs[p].op = "batch" /\ hs[p].left > 0 /\ p \notin Runs
                  THEN y ELSE IdleHandler
  <2>0. hs[p].run \in Runs
    BY <1>0, <1>4 DEF SubmitEnqueue, Running, HandlerOK, NamesRun
  <2>1. y \in HandlerState
    BY <1>0, HandlerUpdates, Zenon
  <2>2. hs[p].left > 0 /\ p \notin Runs => HandlerOK(p, y)
    BY <1>0 DEF HandlerOK, HandlerState, NamesRun
  <2>3. p \in Runs => hs[p].op # "batch"
    BY <1>0, <1>4 DEF SubmitEnqueue, Running, HandlerOK
  <2>4. hs' = [hs EXCEPT ![p] = x]
    BY <1>4, <2>3, Zenon DEF SubmitEnqueue
  <2>5. x \in HandlerState /\ HandlerOK(p, x)
    BY <2>1, <2>2, IdleStates, IdleOK
  <2> HIDE DEF x, y
  <2>6. hs' \in [Procs -> HandlerState] /\ \A q \in Procs : HandlerOK(q, hs'[q])
    BY <2>4, <2>5, HandlerMove
  <2>7. queue' \in Seq(Runs)
    BY <1>4, <2>0 DEF SubmitEnqueue
  <2> QED
    BY <1>4, <1>w, <2>6, <2>7 DEF SubmitEnqueue
<1>5. CASE SubmitPanics(p)
  <2>0. hs[p].run \in Runs
    BY <1>0, <1>5 DEF SubmitPanics, Running, HandlerOK, NamesRun
  <2>1. hs' \in [Procs -> HandlerState] /\ \A q \in Procs : HandlerOK(q, hs'[q])
    BY <1>5, <1>r DEF SubmitPanics
  <2> QED
    BY <1>5, <1>w, <2>0, <2>1 DEF SubmitPanics
<1> QED
  BY <1>1, <1>2, <1>3, <1>4, <1>5 DEF SubmitStep

(* The record updates of the workers' steps. *)
LEMMA WorkerUpdates ==
  ASSUME NEW x \in WorkerState
  PROVE /\ \A pc \in WorkerPcs : [x EXCEPT !.pc = pc] \in WorkerState
        /\ \A c \in Codes : [x EXCEPT !.pc = "fail", !.code = c] \in WorkerState
        /\ \A r \in Runs : [x EXCEPT !.pc = "start", !.run = r] \in WorkerState
        /\ [x EXCEPT !.pc = "model", !.step = x.step + 1] \in WorkerState
<1> USE DEF WorkerState, WorkerPcs
<1>1. \A pc \in WorkerPcs : [x EXCEPT !.pc = pc] \in WorkerState
  OBVIOUS
<1>2. \A c \in Codes : [x EXCEPT !.pc = "fail", !.code = c] \in WorkerState
  BY Zenon
<1>3. \A r \in Runs : [x EXCEPT !.pc = "start", !.run = r] \in WorkerState
  BY Zenon
<1>4. \A n \in Nat : [x EXCEPT !.pc = "model", !.step = n] \in WorkerState
  BY Zenon
<1>5. x.step + 1 \in Nat
  OBVIOUS
<1> HIDE DEF WorkerState, WorkerPcs
<1> QED BY <1>1, <1>2, <1>3, <1>4, <1>5, Zenon

(* Worker steps keep the types. *)
LEMMA WorkerTypes ==
  ASSUME TypeInv, NEW w \in Workers, WorkerStep(w)
  PROVE TypeInv'
<1> USE DEF storeVars, execVars, procVars
<1> DEFINE WorkersOK == /\ ws' \in [Workers -> WorkerState]
                        /\ \A v \in Workers : Busy(v)' => ws'[v].run \in Runs
<1>0. /\ ws[w] \in WorkerState
      /\ Busy(w) => ws[w].run \in Runs
  BY DEF TypeInv, StateOK, RunFields
<1>h. ASSUME hs' = hs PROVE \A q \in Procs : HandlerOK(q, hs'[q])
  BY <1>h DEF TypeInv, RunFields
<1>s. ASSUME NEW pc \in WorkerPcs, Busy(w) \/ pc = "exited", Step(w, pc)
      PROVE WorkersOK
  <2> DEFINE x == [ws[w] EXCEPT !.pc = pc]
  <2>1. x \in WorkerState
    BY <1>0, WorkerUpdates, Zenon
  <2>2. x.pc = pc /\ x.run = ws[w].run
    BY <1>0 DEF WorkerState
  <2>3. ws' = [ws EXCEPT ![w] = x]
    BY <1>s DEF Step
  <2> HIDE DEF x
  <2> QED BY <1>0, <1>s, <2>1, <2>2, <2>3, WorkerMove, Zenon
<1>f. ASSUME NEW c \in Codes, Busy(w), FailWith(w, c)
      PROVE WorkersOK
  <2> DEFINE x == [ws[w] EXCEPT !.pc = "fail", !.code = c]
  <2>1. x \in WorkerState
    BY <1>0, WorkerUpdates, Zenon
  <2>2. x.run = ws[w].run
    BY <1>0 DEF WorkerState
  <2>3. ws' = [ws EXCEPT ![w] = x]
    BY <1>f, Zenon DEF FailWith
  <2> HIDE DEF x
  <2> QED BY <1>0, <1>f, <2>1, <2>2, <2>3, WorkerMove, Zenon
<1>o. ASSUME NEW r \in Runs, NEW st \in Statuses, SaveOutcome(r, st)
      PROVE store' \in [Runs -> Statuses] /\ lost' \subseteq Runs
  BY <1>o DEF SaveOutcome, TypeInv, StateOK
<1>b. ws[w].pc \notin {"idle", "exited"} => Busy(w) /\ ws[w].run \in Runs
  BY <1>0 DEF Busy
<1> HIDE DEF WorkersOK
<1>1. CASE Dequeue(w)
  <2> DEFINE r == Head(queue)
             x == [IdleWorker EXCEPT !.pc = "start", !.run = r]
  <2>0. queue \in Seq(Runs) /\ queue # <<>>
    BY <1>1 DEF Dequeue, TypeInv, StateOK
  <2>1. r \in Runs /\ Tail(queue) \in Seq(Runs)
    BY <2>0
  <2> HIDE DEF r
  <2>2. x \in WorkerState /\ x.run = r
    <3>1. x \in WorkerState  BY <2>1, IdleStates, WorkerUpdates, Zenon
    <3>2. x.run = r  BY DEF IdleWorker
    <3> QED BY <3>1, <3>2
  <2>3. ws' = [ws EXCEPT ![w] = x]
    BY <1>1 DEF Dequeue, r
  <2> HIDE DEF x
  <2>4. WorkersOK
    BY <2>1, <2>2, <2>3, WorkerMove, Zenon DEF WorkersOK
  <2> QED
    BY <1>1, <1>h, <2>1, <2>4
    DEF Dequeue, AfterReceive, TypeInv, StateOK, RunFields, WorkersOK
<1>2. CASE WorkerExit(w)
  <2>1. WorkersOK  BY <1>2, <1>s DEF WorkerExit, WorkerPcs
  <2> QED
    BY <1>2, <1>h, <2>1 DEF WorkerExit, TypeInv, StateOK, RunFields, WorkersOK
<1>3. CASE StartCheckCtx(w)
  <2>1. WorkersOK
    BY <1>3, <1>s, <1>b DEF StartCheckCtx, At, AfterCtxCheck, WorkerPcs
  <2> QED
    BY <1>3, <1>h, <2>1 DEF StartCheckCtx, TypeInv, StateOK, RunFields, WorkersOK
<1>4. CASE SaveRunning(w)
  <2>1. WorkersOK
    BY <1>4, <1>s, <1>b DEF SaveRunning, At, WorkerPcs
  <2>2. store' \in [Runs -> Statuses]
    BY <1>4, Zenon DEF SaveRunning, TypeInv, StateOK, Statuses, Active
  <2> QED
    BY <1>4, <1>h, <2>1, <2>2 DEF SaveRunning, TypeInv, StateOK, RunFields, WorkersOK
<1>5. CASE LoopHead(w)
  <2>0. Busy(w) /\ ws[w].run \in Runs
    BY <1>5, <1>b DEF LoopHead, At
  <2>1. ASSUME ws' = [ws EXCEPT ![w].pc = "model", ![w].step = NextStep(w)]
        PROVE WorkersOK
    <3> DEFINE x == [ws[w] EXCEPT !.pc = "model", !.step = ws[w].step + 1]
    <3>1. x \in WorkerState
      BY <1>0, WorkerUpdates, Zenon
    <3>2. x.run = ws[w].run
      BY <1>0 DEF WorkerState
    <3>3. ws' = [ws EXCEPT ![w] = x]
      BY <2>1, Zenon DEF NextStep
    <3> HIDE DEF x
    <3> QED BY <2>0, <3>1, <3>2, <3>3, WorkerMove, Zenon DEF WorkersOK
  <2>2. WorkersOK
    BY <1>5, <1>f, <2>0, <2>1 DEF LoopHead, Codes
  <2> QED
    BY <1>5, <1>h, <2>2 DEF LoopHead, TypeInv, StateOK, RunFields, WorkersOK
<1>6. CASE ModelReturns(w)
  <2>0. Busy(w)
    BY <1>6, <1>b DEF ModelReturns, At
  <2>1. WorkersOK
    BY <1>6, <1>f, <1>s, <2>0 DEF ModelReturns, Codes, WorkerPcs
  <2> QED
    BY <1>6, <1>h, <2>1 DEF ModelReturns, TypeInv, StateOK, RunFields, WorkersOK
<1>7. CASE SaveCompleted(w)
  <2>0. Busy(w) /\ ws[w].run \in Runs
    BY <1>7, <1>b DEF SaveCompleted, At
  <2>1. WorkersOK
    BY <1>7, <1>s, <2>0 DEF SaveCompleted, WorkerPcs
  <2>2. store' \in [Runs -> Statuses] /\ lost' \subseteq Runs
    BY <1>7, <1>o, <2>0 DEF SaveCompleted, Statuses, Terminal
  <2> QED
    BY <1>7, <1>h, <2>1, <2>2, Zenon
    DEF SaveCompleted, TypeInv, StateOK, RunFields, WorkersOK
<1>8. CASE FailRead(w)
  <2>0. Busy(w) /\ ws[w].run \in Runs
    BY <1>8, <1>b DEF FailRead, At
  <2>1. WorkersOK
    BY <1>8, <1>s, <2>0 DEF FailRead, WorkerPcs
  <2> QED
    BY <1>8, <1>h, <2>1, SMTT(30) DEF FailRead, TypeInv, StateOK, RunFields, WorkersOK
<1>9. CASE FailSave(w)
  <2> DEFINE r == ws[w].run
             x == [IdleHandler EXCEPT !.pc = "waiting", !.op = "auto", !.of = r]
  <2>0. Busy(w) /\ r \in Runs
    BY <1>9, <1>b DEF FailSave, At
  <2>1. WorkersOK
    BY <1>9, <1>s, <2>0 DEF FailSave, AfterFailRun, WorkerPcs
  <2>2. store' \in [Runs -> Statuses] /\ lost' \subseteq Runs
    BY <1>9, <1>o, <2>0 DEF FailSave, Statuses, Terminal
  <2>3. x \in HandlerState
    BY <2>0, IdleStates, HandlerUpdates, Zenon
  <2>4. r \in Procs /\ HandlerOK(r, x)
    BY <2>0 DEF Procs, HandlerOK, IdleHandler, AutoPcs, NamesRun
  <2>5. hs' = [hs EXCEPT ![r] = x] \/ hs' = hs
    BY <1>9 DEF FailSave
  <2> HIDE DEF x
  <2>6. hs' \in [Procs -> HandlerState] /\ \A q \in Procs : HandlerOK(q, hs'[q])
    BY <1>h, <2>3, <2>4, <2>5, HandlerMove DEF TypeInv, StateOK
  <2> QED
    BY <1>9, <2>0, <2>1, <2>2, <2>6, Zenon
    DEF FailSave, TypeInv, StateOK, RunFields, WorkersOK
<1>10. CASE Finish(w)
  <2>1. IdleWorker.pc = "idle"
    BY DEF IdleWorker
  <2>2. WorkersOK
    BY <1>10, <2>1, IdleStates, WorkerMove, Zenon DEF Finish, WorkersOK
  <2> QED
    BY <1>10, <1>h, <2>2 DEF Finish, TypeInv, StateOK, RunFields, WorkersOK
<1> QED
  BY <1>1, <1>2, <1>3, <1>4, <1>5, <1>6, <1>7, <1>8, <1>9, <1>10, SMTT(30) DEF WorkerStep

(* Timers, shutdown, crash and restart keep the types. *)
LEMMA ProcessTypes ==
  ASSUME TypeInv,
         \/ \E r \in Runs : AutoRetryWake(r) \/ Timeout(r)
         \/ ProcessStep
         \/ UNCHANGED vars
  PROVE TypeInv'
<1> USE DEF storeVars, execVars, procVars
<1>u. ASSUME hs' = hs, ws' = ws PROVE RunFields'
  BY <1>u DEF TypeInv, RunFields, Busy
<1>1. ASSUME NEW r \in Runs, AutoRetryWake(r) PROVE TypeInv'
  <2> DEFINE x == [hs[r] EXCEPT !.pc = "create"]
  <2>0. r \in Procs /\ hs[r] \in HandlerState /\ HandlerOK(r, hs[r])
    BY DEF Procs, TypeInv, StateOK, RunFields
  <2>1. x \in HandlerState
    BY <2>0, HandlerUpdates, Zenon DEF HandlerPcs
  <2>2. HandlerOK(r, x)
    BY <2>0 DEF HandlerOK, HandlerState, AutoPcs, NamesRun
  <2>3. hs' = [hs EXCEPT ![r] = x] \/ hs' = [hs EXCEPT ![r] = IdleHandler]
    BY <1>1 DEF AutoRetryWake, Goto, Return
  <2> HIDE DEF x
  <2>4. hs' \in [Procs -> HandlerState] /\ \A q \in Procs : HandlerOK(q, hs'[q])
    BY <2>0, <2>1, <2>2, <2>3, HandlerMove, IdleStates, IdleOK, SMTT(30)
  <2>5. \A w \in Workers : Busy(w)' => ws'[w].run \in Runs
    BY <1>1 DEF AutoRetryWake, TypeInv, RunFields, Busy
  <2> QED
    BY <1>1, <2>4, <2>5 DEF AutoRetryWake, TypeInv, StateOK, RunFields
<1>2. ASSUME NEW r \in Runs, Timeout(r) PROVE TypeInv'
  BY <1>2, <1>u DEF Timeout, TypeInv, StateOK
<1>3. CASE HttpShutdown
  BY <1>3, <1>u DEF HttpShutdown, TypeInv, StateOK
<1>4. CASE ExecutorShutdown
  BY <1>4, <1>u DEF ExecutorShutdown, TypeInv, StateOK
<1>5. CASE Exit
  BY <1>5, <1>u DEF Exit, TypeInv, StateOK
<1>6. CASE Crash
  BY <1>6, <1>u DEF Crash, TypeInv, StateOK
<1>7. CASE Restart
  <2>2. \A q \in Procs : HandlerOK(q, hs'[q])
    BY <1>7, IdleOK DEF Restart
  <2>3. \A w \in Workers : Busy(w)' => ws'[w].run \in Runs
    BY <1>7 DEF Restart, Busy, IdleWorker
  <2> QED
    BY <1>7, <2>2, <2>3, IdleStates DEF Restart, TypeInv, StateOK, RunFields
<1>8. CASE UNCHANGED vars
  BY <1>8, <1>u DEF vars, TypeInv, StateOK
<1> QED
  BY <1>1, <1>2, <1>3, <1>4, <1>5, <1>6, <1>7, <1>8 DEF ProcessStep

(* The initial state satisfies the strengthened type invariant. *)
LEMMA InitTypes == Init => TypeInv
<1> SUFFICES ASSUME Init PROVE TypeInv
  OBVIOUS
<1>1. StateOK
  BY IdleStates DEF Init, StateOK, Statuses
<1>2. RunFields
  BY IdleOK, SMTT(30) DEF Init, RunFields, Busy, IdleWorker
<1> QED BY <1>1, <1>2 DEF TypeInv

(* Every step keeps the strengthened type invariant. *)
LEMMA NextTypes == TypeInv /\ [Next]_vars => TypeInv'
  BY HandlerTypes, SubmitTypes, WorkerTypes, ProcessTypes DEF Next, Quiescent

=============================================================================
