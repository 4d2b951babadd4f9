---------------------------- MODULE Work_proofs -----------------------------
(***************************************************************************)
(* Proofs about work that waits for its turn, for any jobs, workers, caps  *)
(* and numbers of attempts: that the job queue keeps its contract, who     *)
(* holds a job by it, and that a run stays within its token budget.        *)
(***************************************************************************)
EXTENDS JobQueue, TokenBudget, SetFacts, TLAPS

\* What Append does to a sequence.
LEMMA AppendFacts ==
    ASSUME NEW S, NEW s \in Seq(S), NEW e \in S
    PROVE  /\ Append(s, e) \in Seq(S) /\ Len(Append(s, e)) = Len(s) + 1
           /\ Append(s, e)[Len(s) + 1] = e
           /\ \A i \in 1 .. Len(s) : Append(s, e)[i] = s[i]
OBVIOUS

\* What a subsequence holds.
LEMMA SubSeqFacts ==
    ASSUME NEW S, NEW s, NEW m \in Int, NEW n \in Int, \A i \in m .. n : s[i] \in S
    PROVE  LET t == SubSeq(s, m, n)
           IN  /\ t \in Seq(S) /\ Len(t) = IF m <= n THEN n - m + 1 ELSE 0
               /\ \A i \in 1 .. n - m + 1 : t[i] = s[m + i - 1]
OBVIOUS

\* evictLocked finds a stored job, and a settled one if there is any.
LEMMA EvictIndexWorks ==
    ASSUME LeastFacts, JobsInv, jobOrder # <<>>
    PROVE  /\ EvictIndex \in 1 .. Len(jobOrder)
           /\ \/ job[jobOrder[EvictIndex]].status \in SettledJob
              \/ \A i \in 1 .. Len(jobOrder) : job[jobOrder[i]].status \notin SettledJob
<1>. DEFINE settled == {i \in DOMAIN jobOrder : job[jobOrder[i]].status \in SettledJob}
<1>1. jobOrder \in Seq(Jobs)  BY DEF JobsInv, JobsTypeOK
<1>2. DOMAIN jobOrder = 1 .. Len(jobOrder) /\ Len(jobOrder) \in Nat \ {0}  BY <1>1
<1>3. CASE settled = {}  BY <1>2, <1>3 DEF EvictIndex
<1>4. CASE settled # {}
  <2>1. settled \in SUBSET Nat  BY <1>2
  <2>2. \E i \in settled : \A k \in settled : i <= k  BY Zenon, <2>1, <1>4 DEF LeastFacts
  <2>3. EvictIndex = CHOOSE i \in settled : \A k \in settled : i <= k  BY <1>4 DEF EvictIndex
  <2>. HIDE DEF settled
  <2>4. EvictIndex \in settled  BY <2>2, <2>3
  <2>. QED  BY <2>4, <1>2 DEF settled
<1>. QED  BY <1>3, <1>4

-----------------------------------------------------------------------------
(* Enqueue *)

Elements(s) == {s[i] : i \in DOMAIN s}
Distinct(s) == \A k, l \in DOMAIN s : s[k] = s[l] => k = l

\* What is left of a list of distinct elements when the i-th is removed.
LEMMA SplicedDistinct ==
    ASSUME NEW S, NEW s \in Seq(S), NEW i \in 1 .. Len(s), Distinct(s)
    PROVE  /\ Spliced(s, i) \in Seq(S) /\ Distinct(Spliced(s, i))
           /\ Elements(Spliced(s, i)) = Elements(s) \ {s[i]}
<1>. DEFINE t == Spliced(s, i)
<1>0. \A k, l \in 1 .. Len(s) : s[k] = s[l] => k = l  BY DEF Distinct
<1>1. /\ t \in Seq(S) /\ Len(t) = Len(s) - 1 /\ DOMAIN t = 1 .. Len(s) - 1
      /\ \A k \in 1 .. Len(s) - 1 : t[k] = IF k < i THEN s[k] ELSE s[k + 1]
  <2>. DEFINE before == SubSeq(s, 1, i - 1)
              after == SubSeq(s, i + 1, Len(s))
  <2>1. /\ before \in Seq(S) /\ Len(before) = i - 1
        /\ \A k \in 1 .. i - 1 : before[k] = s[k]
    BY SubSeqFacts
  <2>2. /\ after \in Seq(S) /\ Len(after) = Len(s) - i
        /\ \A k \in 1 .. Len(s) - i : after[k] = s[i + k]
    BY SubSeqFacts
  <2>3. t = before \o after  BY DEF Spliced
  <2>. HIDE DEF before, after, t
  <2>4. /\ t \in Seq(S) /\ Len(t) = Len(before) + Len(after)
        /\ \A k \in 1 .. Len(before) + Len(after) :
              t[k] = IF k <= Len(before) THEN before[k] ELSE after[k - Len(before)]
    <3>1. before \in Seq(S) /\ after \in Seq(S)  BY <2>1, <2>2
    <3>. QED  BY <3>1, <2>3
  <2>5. Len(s) \in Nat /\ i \in Nat  OBVIOUS
  <2>6. Len(t) = Len(s) - 1 /\ DOMAIN t = 1 .. Len(s) - 1  BY <2>1, <2>2, <2>4, <2>5
  <2>7. ASSUME NEW k \in 1 .. Len(s) - 1
        PROVE  t[k] = IF k < i THEN s[k] ELSE s[k + 1]
    <3>1. CASE k < i
      <4>1. k \in 1 .. i - 1 /\ k <= Len(before)  BY <3>1, <2>1, <2>5
      <4>2. k \in 1 .. Len(before) + Len(after)  BY <2>1, <2>2, <2>5
      <4>3. t[k] = before[k]  BY <4>1, <4>2, <2>4
      <4>. QED  BY <4>1, <4>3, <3>1, <2>1
    <3>2. CASE ~(k < i)
      <4>1. k - (i - 1) \in 1 .. Len(s) - i /\ i + (k - (i - 1)) = k + 1  BY <3>2, <2>5
      <4>2. Len(before) = i - 1  BY <2>1
      <4>3. k \in 1 .. Len(before) + Len(after)  BY <2>1, <2>2, <2>5
      <4>4. ~(k <= Len(before))  BY <4>2, <3>2, <2>5
      <4>5. t[k] = after[k - Len(before)]  BY <4>3, <4>4, <2>4
      <4>6. t[k] = after[k - (i - 1)]  BY <4>2, <4>5
      <4>7. after[k - (i - 1)] = s[k + 1]  BY <4>1, <2>2
      <4>. QED  BY <4>6, <4>7, <3>2
    <3>. QED  BY <3>1, <3>2
  <2>. QED  BY Zenon, <2>4, <2>6, <2>7
<1>. HIDE DEF t
<1>2. \A k, l \in DOMAIN t : t[k] = t[l] => k = l
  <2>. SUFFICES ASSUME NEW k \in 1 .. Len(s) - 1, NEW l \in 1 .. Len(s) - 1, t[k] = t[l]
                PROVE  k = l
    BY <1>1
  <2>. DEFINE old(n) == IF n < i THEN n ELSE n + 1
  <2>1. t[k] = s[old(k)] /\ t[l] = s[old(l)]  BY <1>1
  <2>2. old(k) \in 1 .. Len(s) /\ old(l) \in 1 .. Len(s) /\ (old(k) = old(l) => k = l)  BY <1>1
  <2>. HIDE DEF old
  <2>. QED  BY <1>0, <2>1, <2>2, Zenon
<1>3. ASSUME NEW x \in Elements(t)  PROVE x \in Elements(s) \ {s[i]}
  <2>1. PICK k \in 1 .. Len(s) - 1 : x = t[k]  BY <1>1 DEF Elements
  <2>2. PICK l \in 1 .. Len(s) : x = s[l] /\ l # i  BY <1>1, <2>1
  <2>. QED  BY <1>0, <2>2 DEF Elements
<1>4. ASSUME NEW x \in Elements(s), x # s[i]  PROVE x \in Elements(t)
  <2>1. PICK l \in 1 .. Len(s) : x = s[l]  BY DEF Elements
  <2>2. PICK k \in 1 .. Len(s) - 1 : x = t[k]
    <3>1. CASE l < i  BY <3>1, <2>1, <1>1
    <3>2. CASE l > i
      <4>1. l - 1 \in 1 .. Len(s) - 1 /\ ~(l - 1 < i) /\ l - 1 + 1 = l  BY <3>2
      <4>. QED  BY Zenon, <4>1, <2>1, <1>1
    <3>. QED  BY <3>1, <3>2, <1>4, <2>1
  <2>. QED  BY Zenon, <2>2, <1>1 DEF Elements
<1>5. Elements(t) = Elements(s) \ {s[i]}  BY <1>3, <1>4
<1>. QED  BY <1>1, <1>2, <1>5, Zenon DEF t, Distinct

\* The same of an element added at the end.
LEMMA AppendDistinct ==
    ASSUME NEW S, NEW s \in Seq(S), NEW x \in S, x \notin Elements(s), Distinct(s)
    PROVE  /\ Append(s, x) \in Seq(S) /\ Distinct(Append(s, x))
           /\ Elements(Append(s, x)) = Elements(s) \cup {x}
<1>. DEFINE t == Append(s, x)
<1>1. /\ t \in Seq(S) /\ DOMAIN t = 1 .. Len(s) + 1 /\ t[Len(s) + 1] = x
      /\ DOMAIN s = 1 .. Len(s) /\ Len(s) \in Nat
      /\ \A k \in 1 .. Len(s) : t[k] = s[k]
  BY AppendFacts
<1>. HIDE DEF t
<1>2. \A k \in 1 .. Len(s) : s[k] # x  BY <1>1 DEF Elements
<1>3. \A k, l \in DOMAIN t : t[k] = t[l] => k = l  BY <1>1, <1>2 DEF Distinct
<1>4. Elements(t) = Elements(s) \cup {x}
  <2>1. ASSUME NEW e \in Elements(t)  PROVE e \in Elements(s) \cup {x}  BY <2>1, <1>1 DEF Elements
  <2>2. ASSUME NEW e \in Elements(s)  PROVE e \in Elements(t)  BY <2>2, <1>1 DEF Elements
  <2>3. x \in Elements(t)  BY <1>1 DEF Elements
  <2>. QED  BY <2>1, <2>2, <2>3
<1>. QED  BY <1>1, <1>3, <1>4, Zenon DEF t, Distinct

-----------------------------------------------------------------------------
(* The kinds of steps *)

\* A worker is done with its job, and the record says what became of it.
Dropped(w, rec) ==
    /\ Held(w) # NoJob
    /\ rec \in JobRecord /\ rec.attempts = job[Held(w)].attempts
    /\ \/ job[Held(w)].status = "evicted" /\ rec = job[Held(w)]
       \/ /\ job[Held(w)].status = "running"
          /\ \/ rec.status = "completed" /\ ~rec.lost
             \/ rec.status = "running" /\ rec.lost /\ durable
             \/ rec.status = "pending" /\ ~rec.lost /\ MoreAttempts(Held(w))
             \/ rec.status = "failed" /\ ~rec.lost /\ ~MoreAttempts(Held(w))
    /\ job' = [job EXCEPT ![Held(w)] = rec]
    /\ \E idle \in WorkerRecord :
          /\ idle.pc = "idle" /\ idle.job = NoJob
          /\ worker' = [worker EXCEPT ![w] = idle]
    /\ UNCHANGED <<durable, jobOrder>>

\* A worker goes on with its job, or without one.
WentOn(w) ==
    /\ \E next \in WorkerRecord :
          /\ next.job = Held(w)
          /\ next.pc \in Holding <=> worker[w].pc \in Holding
          /\ next.pc = "rescheduling" => durable /\ next.retry = MoreAttempts(Held(w))
          /\ worker' = [worker EXCEPT ![w] = next]
    /\ UNCHANGED <<durable, jobOrder, job>>

\* Every step of a worker but a claim is of one of these kinds.
LEMMA WorkerSteps ==
    ASSUME JobsInv, NEW w \in Workers,
           \/ DeliverJob(w) \/ RunHandler(w) \/ CompleteJob(w) \/ FailJob(w) \/ FailRead(w)
           \/ FailWrite(w) \/ ExitLoop(w) \/ StopWorker(w) \/ CancelCtx(w) \/ CrashWorker(w)
    PROVE  WentOn(w) \/ \E rec \in JobRecord : Dropped(w, rec)
<1>. DEFINE j == Held(w)
<1>1. /\ worker \in [Workers -> WorkerRecord] /\ worker[w] \in WorkerRecord
      /\ job \in [Jobs -> JobRecord] /\ WorkerConsistent(w)
  BY SMTT(30) DEF JobsInv, JobsTypeOK
<1>2. j # NoJob =>
        /\ j \in Jobs /\ job[j] \in JobRecord /\ ~job[j].lost
        /\ job[j].status \in {"running", "evicted"}
        /\ Queued(j) <=> job[j].status = "running"
        /\ durable => job[j].status = "running"
  <2>1. j \in Jobs \cup {NoJob}  BY <1>1 DEF WorkerRecord, Held
  <2>. QED  BY <1>1, <2>1 DEF WorkerConsistent, JobsInv, ListMatchesJobs, JobConsistent
<1>3. ASSUME j # NoJob, NEW idle \in WorkerRecord, idle.pc = "idle", idle.job = NoJob,
             worker' = [worker EXCEPT ![w] = idle], UNCHANGED <<durable, jobOrder>>,
             NEW rec \in JobRecord, job' = [job EXCEPT ![j] = rec],
             rec.attempts = job[j].attempts,
             \/ job[j].status = "evicted" /\ rec = job[j]
             \/ /\ job[j].status = "running"
                /\ \/ rec.status = "completed" /\ ~rec.lost
                   \/ rec.status = "running" /\ rec.lost /\ durable
                   \/ rec.status = "pending" /\ ~rec.lost /\ MoreAttempts(j)
                   \/ rec.status = "failed" /\ ~rec.lost /\ ~MoreAttempts(j)
      PROVE  Dropped(w, rec)
  BY Zenon, <1>3 DEF Dropped
<1>. DEFINE idle == [worker[w] EXCEPT !.pc = "idle", !.job = NoJob, !.retry = FALSE]
<1>4. idle \in WorkerRecord /\ idle.pc = "idle" /\ idle.job = NoJob
  BY Zenon, <1>1 DEF WorkerRecord
<1>5. Idle(w) => worker' = [worker EXCEPT ![w] = idle]
  BY Zenon, <1>1 DEF Idle, WorkerRecord
<1>. HIDE DEF idle
<1>. USE <1>1 DEF WorkerAt, Holding
<1>6. CASE DeliverJob(w)
  <2>. DEFINE next == [worker[w] EXCEPT !.pc = "completing"]
  <2>1. next \in WorkerRecord /\ next.job = Held(w) /\ next.pc = "completing"
        /\ worker' = [worker EXCEPT ![w] = next]
    BY <1>6 DEF DeliverJob, WorkerRecord, Held
  <2>. QED  BY Zenon, <1>6, <2>1 DEF DeliverJob, WentOn
<1>7. CASE RunHandler(w)
  <2>1. PICK pc \in {"completing", "failing"} : worker' = [worker EXCEPT ![w].pc = pc]
    BY Zenon, <1>7 DEF RunHandler
  <2>. DEFINE next == [worker[w] EXCEPT !.pc = pc]
  <2>2. next \in WorkerRecord /\ next.job = Held(w) /\ next.pc = pc
        /\ worker' = [worker EXCEPT ![w] = next]
    BY <2>1 DEF WorkerRecord, Held
  <2>. QED  BY Zenon, <1>7, <2>2 DEF RunHandler, WentOn
<1>8. CASE CompleteJob(w)
  <2>1. j # NoJob  BY <1>8 DEF CompleteJob, WorkerConsistent
  <2>. DEFINE rec == IF ~Queued(j) THEN job[j]
                     ELSE IF durable /\ ~worker[w].ctx THEN [job[j] EXCEPT !.lost = TRUE]
                     ELSE [job[j] EXCEPT !.status = "completed"]
  <2>2. job' = [job EXCEPT ![j] = rec]  BY Zenon, <1>8, <1>2, <2>1 DEF CompleteJob, Lose, JobRecord
  <2>3. /\ rec \in JobRecord /\ rec.attempts = job[j].attempts
        /\ Queued(j) => \/ rec.status = "completed" /\ ~rec.lost
                        \/ rec.status = "running" /\ rec.lost /\ durable
    BY Zenon, <1>2, <2>1 DEF JobRecord, JobStatuses, SettledJob
  <2>4. ~Queued(j) => rec = job[j]  OBVIOUS
  <2>. HIDE DEF rec, j
  <2>5. Dropped(w, rec)
    BY Zenon, <1>8, <1>2, <1>3, <1>4, <1>5, <2>1, <2>2, <2>3, <2>4 DEF CompleteJob
  <2>. QED  BY <2>3, <2>5
<1>9. ASSUME NEW retry \in BOOLEAN, j # NoJob, Queued(j), retry = MoreAttempts(j)
      PROVE  /\ Rescheduled(j, retry) \in JobRecord
             /\ Rescheduled(j, retry).attempts = job[j].attempts
             /\ ~Rescheduled(j, retry).lost
             /\ Rescheduled(j, retry).status = IF MoreAttempts(j) THEN "pending" ELSE "failed"
  BY Zenon, <1>9, <1>2 DEF Rescheduled, JobRecord, JobStatuses, SettledJob
<1>10. CASE FailJob(w)
  <2>1. j # NoJob  BY <1>10 DEF FailJob, WorkerConsistent
  <2>2. MoreAttempts(j) \in BOOLEAN  BY DEF MoreAttempts
  <2>. DEFINE rec == IF Queued(j) THEN Rescheduled(j, MoreAttempts(j)) ELSE job[j]
  <2>3. job' = [job EXCEPT ![j] = rec]  BY <1>10, <1>2, <2>1 DEF FailJob
  <2>4. /\ rec \in JobRecord /\ rec.attempts = job[j].attempts
        /\ Queued(j) => ~rec.lost /\ rec.status = IF MoreAttempts(j) THEN "pending" ELSE "failed"
        /\ ~Queued(j) => rec = job[j]
    BY <1>2, <1>9, <2>1, <2>2
  <2>. HIDE DEF rec, j
  <2>5. Dropped(w, rec)
    BY Zenon, <1>10, <1>2, <1>3, <1>4, <1>5, <2>1, <2>3, <2>4 DEF FailJob
  <2>. QED  BY <2>4, <2>5
<1>11. ASSUME j # NoJob, durable, job' = Lose(j), UNCHANGED <<durable, jobOrder>>,
              NEW free \in WorkerRecord, free.pc = "idle", free.job = NoJob,
              worker' = [worker EXCEPT ![w] = free]
       PROVE  \E rec \in JobRecord : Dropped(w, rec)
  <2>. DEFINE rec == [job[j] EXCEPT !.lost = TRUE]
  <2>1. /\ rec \in JobRecord /\ rec.attempts = job[j].attempts
        /\ rec.status = "running" /\ rec.lost /\ job' = [job EXCEPT ![j] = rec]
    BY Zenon, <1>11, <1>2 DEF Lose, JobRecord
  <2>. HIDE DEF rec, j
  <2>2. Dropped(w, rec)  BY Zenon, <1>11, <1>2, <1>3, <2>1
  <2>. QED  BY <2>1, <2>2
<1>12. CASE FailRead(w)
  <2>1. j # NoJob /\ durable  BY <1>12 DEF FailRead, WorkerConsistent
  <2>2. CASE ~worker[w].ctx
    BY <1>12, <2>1, <2>2, <1>4, <1>5, <1>11 DEF FailRead
  <2>3. CASE worker[w].ctx
    <3>. DEFINE next == [worker[w] EXCEPT !.pc = "rescheduling", !.retry = MoreAttempts(j)]
    <3>1. MoreAttempts(j) \in BOOLEAN  BY DEF MoreAttempts
    <3>2. /\ next \in WorkerRecord /\ next.job = Held(w) /\ next.pc = "rescheduling"
          /\ next.retry = MoreAttempts(j) /\ worker' = [worker EXCEPT ![w] = next]
      BY Zenon, <1>12, <2>3, <3>1 DEF FailRead, WorkerRecord, Held
    <3>. HIDE DEF next
    <3>3. UNCHANGED <<durable, jobOrder, job>>  BY <1>12, <2>3 DEF FailRead
    <3>. QED  BY Zenon, <1>12, <2>1, <3>2, <3>3 DEF FailRead, WentOn
  <2>. QED  BY <2>2, <2>3
<1>13. CASE FailWrite(w)
  <2>1. j # NoJob /\ durable /\ worker[w].retry = MoreAttempts(j) /\ worker[w].retry \in BOOLEAN
    BY <1>13 DEF FailWrite, WorkerConsistent, WorkerRecord
  <2>2. CASE ~worker[w].ctx
    BY <1>13, <2>1, <2>2, <1>4, <1>5, <1>11 DEF FailWrite
  <2>3. CASE worker[w].ctx
    <3>. DEFINE rec == Rescheduled(j, worker[w].retry)
    <3>1. Queued(j)  BY <1>2, <2>1
    <3>2. /\ rec \in JobRecord /\ rec.attempts = job[j].attempts /\ ~rec.lost
          /\ rec.status = IF MoreAttempts(j) THEN "pending" ELSE "failed"
      BY <1>9, <2>1, <3>1
    <3>3. job' = [job EXCEPT ![j] = rec]  BY <1>13, <2>3 DEF FailWrite
    <3>. HIDE DEF rec, j
    <3>4. Dropped(w, rec)
      BY Zenon, <1>13, <1>2, <1>3, <1>4, <1>5, <2>1, <3>1, <3>2, <3>3 DEF FailWrite
    <3>. QED  BY <3>2, <3>4
  <2>. QED  BY <2>2, <2>3
<1>14. CASE ExitLoop(w)
  <2>. DEFINE next == [Ready EXCEPT !.pc = "stopped", !.stop = TRUE]
  <2>1. /\ next \in WorkerRecord /\ next.job = NoJob /\ next.pc = "stopped"
        /\ worker' = [worker EXCEPT ![w] = next]
    BY Zenon, <1>14 DEF ExitLoop, Ready, WorkerRecord
  <2>2. Held(w) = NoJob  BY <1>14 DEF ExitLoop, WorkerConsistent
  <2>. HIDE DEF next
  <2>. QED  BY Zenon, <1>14, <2>1, <2>2 DEF ExitLoop, WentOn
<1>15. CASE StopWorker(w) \/ CancelCtx(w)
  <2>1. PICK next \in WorkerRecord :
          /\ next.job = Held(w) /\ next.pc = worker[w].pc /\ next.retry = worker[w].retry
          /\ worker' = [worker EXCEPT ![w] = next]
    <3>1. CASE StopWorker(w)
      <4>. USE DEF WorkerRecord
      <4>. WITNESS [worker[w] EXCEPT !.stop = TRUE] \in WorkerRecord
      <4>. QED  BY <3>1 DEF StopWorker, WorkerRecord, Held
    <3>2. CASE CancelCtx(w)
      <4>. USE DEF WorkerRecord
      <4>. WITNESS [worker[w] EXCEPT !.ctx = FALSE] \in WorkerRecord
      <4>. QED  BY <3>2 DEF CancelCtx, WorkerRecord, Held
    <3>. QED  BY <1>15, <3>1, <3>2
  <2>. QED  BY Zenon, <1>15, <2>1 DEF StopWorker, CancelCtx, WentOn, WorkerConsistent
<1>16. CASE CrashWorker(w)
  <2>1. Ready \in WorkerRecord /\ Ready.pc = "idle" /\ Ready.job = NoJob
    BY DEF Ready, WorkerRecord
  <2>. HIDE DEF Ready
  <2>. QED  BY Zenon, <1>16, <2>1, <1>11 DEF CrashWorker
<1>. QED
  BY <1>6, <1>7, <1>8, <1>10, <1>12, <1>13, <1>14, <1>15, <1>16

-----------------------------------------------------------------------------
(* The invariant *)

\* An empty queue and idle workers satisfy the invariant.
LEMMA InitInv == JobsInit => JobsInv
<1>. SUFFICES ASSUME JobsInit PROVE JobsInv  OBVIOUS
<1>. USE JobsConstants DEF JobsInit
<1>1. JobsTypeOK
  BY DEF JobsTypeOK, JobRecord, JobStatuses, WorkerRecord, Ready
<1>2. ListMatchesJobs
  BY DEF ListMatchesJobs, Queued, Elements
<1>3. ASSUME NEW j \in Jobs PROVE JobConsistent(j)
  BY DEF JobConsistent
<1>4. ASSUME NEW w \in Workers PROVE WorkerConsistent(w)
  BY DEF WorkerConsistent, Held, WorkerAt, Ready, Holding
<1>. QED  BY <1>1, <1>2, <1>3, <1>4 DEF JobsInv

\* Where the list stays and no job enters or leaves it, they still match.
LEMMA ListStays ==
    ASSUME JobsInv, UNCHANGED jobOrder,
           \A j \in Jobs : job'[j].status \in {"absent", "evicted"}
                              <=> job[j].status \in {"absent", "evicted"}
    PROVE  ListMatchesJobs'
BY DEF JobsInv, ListMatchesJobs, Queued

\* A worker that gives up its job (Complete, Fail, or an outcome that is lost) keeps it.
LEMMA DroppedInv ==
    ASSUME JobsInv, NEW w \in Workers, NEW rec \in JobRecord, Dropped(w, rec)
    PROVE  JobsInv'
<1>. DEFINE j == Held(w)
<1>1. PICK idle \in WorkerRecord :
        idle.pc = "idle" /\ idle.job = NoJob /\ worker' = [worker EXCEPT ![w] = idle]
  BY Zenon DEF Dropped
<1>2. /\ job \in [Jobs -> JobRecord] /\ worker \in [Workers -> WorkerRecord]
      /\ durable \in BOOLEAN /\ jobOrder \in Seq(Jobs)
      /\ j \in Jobs /\ job' = [job EXCEPT ![j] = rec] /\ UNCHANGED <<durable, jobOrder>>
  BY DEF JobsInv, JobsTypeOK, Dropped, WorkerRecord, Held
<1>3. JobsTypeOK'  BY <1>1, <1>2 DEF JobsTypeOK
<1>4. /\ \A k \in Jobs \ {j} : job'[k] = job[k]
      /\ job'[j] = rec
      /\ \A v \in Workers \ {w} : worker'[v] = worker[v]
      /\ worker'[w] = idle
  BY <1>1, <1>2
<1>5. rec.status # "absent" /\ (rec.status = "evicted" <=> job[j].status = "evicted")
      /\ job[j].status # "absent"
  BY DEF Dropped
<1>6. ListMatchesJobs'
  <2>1. \A k \in Jobs : job'[k].status \in {"absent", "evicted"}
                           <=> job[k].status \in {"absent", "evicted"}
    BY <1>4, <1>5
  <2>. QED  BY <1>2, <2>1, ListStays
<1>7. ASSUME NEW k \in Jobs PROVE JobConsistent(k)'
  <2>0. JobConsistent(k)  BY DEF JobsInv
  <2>1. CASE k = j
    BY <1>2, <1>4, <2>0, <2>1 DEF JobConsistent, Dropped, MoreAttempts
  <2>2. CASE k # j
    <3>1. job'[k] = job[k]  BY <1>4, <2>2
    <3>2. job'[k].status = "running" => job'[k].lost \/ \E v \in Workers : worker'[v].job = k
      <4>1. ASSUME NEW v \in Workers, Held(v) = k PROVE worker'[v].job = k
        BY <4>1, <2>2, <1>4 DEF Held
      <4>. QED  BY <2>0, <3>1, <4>1 DEF JobConsistent
    <3>. QED  BY <1>2, <2>0, <3>1, <3>2 DEF JobConsistent, Held
  <2>. QED  BY <2>1, <2>2
<1>8. ASSUME NEW v \in Workers PROVE WorkerConsistent(v)'
  <2>1. CASE v = w
    BY <1>1, <1>4, <2>1, Zenon DEF WorkerConsistent, Held, WorkerAt, Holding
  <2>2. CASE v # w
    <3>0. WorkerConsistent(v) /\ WorkerConsistent(w)  BY SMTT(30) DEF JobsInv
    <3>1. worker'[v] = worker[v] /\ (Held(v) # NoJob => Held(v) # j)
      BY <1>4, <2>2, <3>0 DEF WorkerConsistent, Dropped
    <3>2. Held(v) # NoJob => Held(v) \in Jobs /\ job'[Held(v)] = job[Held(v)]
      BY <1>2, <1>4, <3>1 DEF Held, WorkerRecord
    <3>3. Held(v) # NoJob => \A u \in Workers \ {v} : worker'[u].job # Held(v)
      BY <1>1, <1>4, <3>0, SMTT(30) DEF WorkerConsistent, Held
    <3>4. worker[v].pc = "rescheduling" => Held(v) # NoJob
      BY <3>0 DEF WorkerConsistent, Holding
    <3>. QED  BY <1>2, <3>0, <3>1, <3>2, <3>3, <3>4
                DEF WorkerConsistent, Held, WorkerAt, MoreAttempts
  <2>. QED  BY <2>1, <2>2
<1>. QED  BY <1>3, <1>6, <1>7, <1>8 DEF JobsInv

\* A worker that goes on with its job, or changes only its own flags, keeps it.
LEMMA WentOnInv ==
    ASSUME JobsInv, NEW w \in Workers, WentOn(w)
    PROVE  JobsInv'
<1>1. PICK next \in WorkerRecord :
        /\ next.job = Held(w) /\ (next.pc \in Holding <=> worker[w].pc \in Holding)
        /\ next.pc = "rescheduling" => durable /\ next.retry = MoreAttempts(Held(w))
        /\ worker' = [worker EXCEPT ![w] = next]
  BY Zenon DEF WentOn
<1>2. worker \in [Workers -> WorkerRecord] /\ UNCHANGED <<durable, jobOrder, job>>
  BY DEF JobsInv, JobsTypeOK, WentOn
<1>3. /\ \A v \in Workers : worker'[v].job = worker[v].job
      /\ \A v \in Workers \ {w} : worker'[v] = worker[v]
      /\ worker'[w] = next
  BY <1>1, <1>2 DEF Held
<1>4. JobsTypeOK'  BY <1>1, <1>2 DEF JobsInv, JobsTypeOK
<1>5. ListMatchesJobs'  BY <1>2 DEF JobsInv, ListMatchesJobs, Queued
<1>6. ASSUME NEW k \in Jobs PROVE JobConsistent(k)'
  BY <1>2, <1>3 DEF JobsInv, JobConsistent, Held
<1>7. ASSUME NEW v \in Workers PROVE WorkerConsistent(v)'
  <2>0. WorkerConsistent(v)  BY DEF JobsInv
  <2>1. CASE v = w
    BY <1>1, <1>2, <1>3, <2>0, <2>1 DEF WorkerConsistent, Held, WorkerAt, MoreAttempts
  <2>2. CASE v # w
    BY <1>2, <1>3, <2>0, <2>2 DEF WorkerConsistent, Held, WorkerAt, MoreAttempts
  <2>. QED  BY <2>1, <2>2
<1>. QED  BY <1>4, <1>5, <1>6, <1>7 DEF JobsInv

\* A claim takes a pending job that no worker holds.
LEMMA DequeueInv ==
    ASSUME JobsInv, NEW w \in Workers, Dequeue(w)
    PROVE  JobsInv'
<1>1. PICK j \in Jobs :
        /\ Dequeuable(j) /\ ClaimJob(j)
        /\ worker' = [worker EXCEPT ![w].job = j,
               ![w].pc = IF Kind[j] = "unhandled" THEN "failing" ELSE "handling"]
  BY Zenon DEF Dequeue
<1>2. /\ job \in [Jobs -> JobRecord] /\ worker \in [Workers -> WorkerRecord]
      /\ job[j] \in JobRecord /\ worker[w] \in WorkerRecord
      /\ job[j].status = "pending" /\ WorkerAt(w, "idle") /\ UNCHANGED <<durable, jobOrder>>
  BY <1>1 DEF JobsInv, JobsTypeOK, Dequeue, Dequeuable, Eligible
<1>3. /\ \A k \in Jobs \ {j} : job'[k] = job[k]
      /\ job'[j] = [job[j] EXCEPT !.status = "running", !.attempts = @ + 1]
      /\ job' \in [Jobs -> JobRecord]
  BY <1>1, <1>2 DEF ClaimJob, JobRecord, JobStatuses
<1>4. /\ \A v \in Workers \ {w} : worker'[v] = worker[v]
      /\ worker'[w].job = j /\ worker'[w].pc \in {"failing", "handling"}
      /\ worker' \in [Workers -> WorkerRecord]
  BY Zenon, <1>1, <1>2 DEF WorkerRecord, Holding
<1>5. /\ job'[j].status = "running" /\ job'[j].attempts = job[j].attempts + 1
      /\ job'[j].lost = job[j].lost /\ job[j].attempts \in Nat
  BY <1>2, <1>3 DEF JobRecord
<1>6. \A v \in Workers : Held(v) # j
  BY <1>1, <1>2, JobsConstants DEF JobsInv, WorkerConsistent
<1>7. JobsTypeOK'  BY <1>2, <1>3, <1>4 DEF JobsInv, JobsTypeOK
<1>8. ListMatchesJobs'
  <2>1. \A k \in Jobs : job'[k].status \in {"absent", "evicted"}
                           <=> job[k].status \in {"absent", "evicted"}
    BY Zenon, <1>2, <1>3, <1>5
  <2>. QED  BY <1>2, <2>1, ListStays
<1>9. ASSUME NEW k \in Jobs PROVE JobConsistent(k)'
  <2>0. JobConsistent(k)  BY DEF JobsInv
  <2>1. CASE k = j
    <3>1. job[j].attempts < MaxJobAttempts /\ ~job[j].lost
      BY <1>2, <2>0, <2>1 DEF JobConsistent
    <3>. QED  BY <1>4, <1>5, <2>1, <3>1, JobsConstants DEF JobConsistent, Held
  <2>2. CASE k # j
    <3>1. job'[k] = job[k]  BY <1>3, <2>2
    <3>2. job[k].status = "running" => job[k].lost \/ \E v \in Workers : worker'[v].job = k
      <4>1. ASSUME NEW v \in Workers, Held(v) = k PROVE v # w
        BY <4>1, <1>2, JobsConstants DEF JobsInv, WorkerConsistent, WorkerAt, Holding
      <4>. QED  BY <2>0, <4>1, <1>4 DEF JobConsistent, Held
    <3>. QED  BY <1>2, <2>0, <3>1, <3>2 DEF JobConsistent, Held
  <2>. QED  BY <2>1, <2>2
<1>10. ASSUME NEW v \in Workers PROVE WorkerConsistent(v)'
  <2>0. WorkerConsistent(v)  BY DEF JobsInv
  <2>1. CASE v = w
    <3>1. ~job'[j].lost  BY <1>2, <1>5 DEF JobsInv, JobConsistent
    <3>2. \A u \in Workers \ {w} : worker'[u].job # j  BY <1>4, <1>6 DEF Held
    <3>. QED  BY <1>4, <1>5, <2>1, <3>1, <3>2, JobsConstants, Zenon
                DEF WorkerConsistent, Held, WorkerAt, Holding
  <2>2. CASE v # w
    <3>1. worker'[v] = worker[v] /\ Held(v) # j  BY <1>4, <1>6, <2>2
    <3>2. Held(v) # NoJob => Held(v) \in Jobs /\ job'[Held(v)] = job[Held(v)]
      BY <1>2, <1>3, <3>1 DEF Held, WorkerRecord
    <3>3. Held(v) # NoJob => \A u \in Workers \ {v} : worker'[u].job # Held(v)
      BY <1>4, <2>0, <3>1 DEF WorkerConsistent, Held
    <3>4. worker[v].pc = "rescheduling" => Held(v) # NoJob
      BY <2>0 DEF WorkerConsistent, Holding
    <3>. QED  BY <1>2, <2>0, <3>1, <3>2, <3>3, <3>4
                DEF WorkerConsistent, Held, WorkerAt, MoreAttempts
  <2>. QED  BY <2>1, <2>2
<1>. QED  BY <1>7, <1>8, <1>9, <1>10 DEF JobsInv

\* The end of a backoff keeps it.
LEMMA BecomeDueInv ==
    ASSUME JobsInv, NEW j \in Jobs, BecomeDue(j)
    PROVE  JobsInv'
<1>1. job \in [Jobs -> JobRecord] /\ UNCHANGED <<durable, jobOrder, worker>>
  BY DEF JobsInv, JobsTypeOK, BecomeDue
<1>2. /\ job' \in [Jobs -> JobRecord]
      /\ \A k \in Jobs : /\ job'[k].status = job[k].status /\ job'[k].lost = job[k].lost
                         /\ job'[k].attempts = job[k].attempts
  BY Zenon, <1>1 DEF BecomeDue, JobRecord
<1>3. JobsTypeOK'  BY <1>1, <1>2 DEF JobsInv, JobsTypeOK
<1>4. ListMatchesJobs'  BY <1>1, <1>2, ListStays
<1>5. ASSUME NEW k \in Jobs PROVE JobConsistent(k)'
  BY <1>1, <1>2, Zenon DEF JobsInv, JobConsistent, Held
<1>6. ASSUME NEW w \in Workers PROVE WorkerConsistent(w)'
  <2>1. WorkerConsistent(w) /\ (Held(w) # NoJob => Held(w) \in Jobs)
    BY DEF JobsInv, JobsTypeOK, WorkerRecord, Held
  <2>2. worker[w].pc = "rescheduling" => Held(w) # NoJob
    BY <2>1 DEF WorkerConsistent, Holding
  <2>. QED  BY <1>1, <1>2, <2>1, <2>2 DEF WorkerConsistent, Held, WorkerAt, MoreAttempts
<1>. QED  BY <1>3, <1>4, <1>5, <1>6 DEF JobsInv

\* What Enqueue does to the jobs: the new one is pending, and where the cap is reached
\* another one is forgotten, an unsettled one only when no settled one is stored.
LEMMA EnqueueJobs ==
    ASSUME LeastFacts, JobsInv, NEW j \in Jobs, Enqueue(j)
    PROVE  /\ job[j].status = "absent" /\ job' \in [Jobs -> JobRecord]
           /\ job'[j] = [job[j] EXCEPT !.status = "pending"]
           /\ \/ \A k \in Jobs \ {j} : job'[k] = job[k]
              \/ \E e \in Jobs \ {j} :
                    /\ ~durable /\ job[e].status \notin {"absent", "evicted"}
                    /\ \/ job[e].status \in SettledJob
                       \/ \A k \in Jobs : job[k].status \notin SettledJob
                    /\ job'[e] = [job[e] EXCEPT !.status = "evicted"]
                    /\ \A k \in Jobs \ {j, e} : job'[k] = job[k]
           /\ ListMatchesJobs' /\ jobOrder' \in Seq(Jobs)
<1>1. /\ job \in [Jobs -> JobRecord] /\ jobOrder \in Seq(Jobs) /\ job[j].status = "absent"
      /\ job[j] \in JobRecord
  BY DEF JobsInv, JobsTypeOK, Enqueue
<1>2. /\ \A k \in Jobs : Queued(k) <=> job[k].status \notin {"absent", "evicted"}
      /\ Distinct(jobOrder)
      /\ DOMAIN jobOrder = 1 .. Len(jobOrder)
  BY <1>1 DEF JobsInv, ListMatchesJobs, Distinct
<1>q. \A k : /\ Queued(k) <=> k \in Elements(jobOrder)
             /\ Queued(k)' <=> k \in Elements(jobOrder')
  BY DEF Queued, Elements
<1>3. j \notin Elements(jobOrder)  BY <1>1, <1>2, <1>q
<1>4. [job[j] EXCEPT !.status = "pending"] \in JobRecord
  BY <1>1 DEF JobRecord, JobStatuses
<1>5. CASE ~Full
  <2>1. jobOrder' = Append(jobOrder, j)
        /\ job' = [k \in Jobs |-> IF k = j THEN [job[j] EXCEPT !.status = "pending"] ELSE job[k]]
    BY <1>5 DEF Enqueue
  <2>2. /\ jobOrder' \in Seq(Jobs) /\ Elements(jobOrder') = Elements(jobOrder) \cup {j}
        /\ Distinct(jobOrder')
    <3>1. /\ Append(jobOrder, j) \in Seq(Jobs) /\ Distinct(Append(jobOrder, j))
          /\ Elements(Append(jobOrder, j)) = Elements(jobOrder) \cup {j}
      BY <1>1, <1>2, <1>3, AppendDistinct
    <3>. QED  BY <2>1, <3>1, Zenon
  <2>3. /\ job'[j] = [job[j] EXCEPT !.status = "pending"] /\ job'[j].status = "pending"
        /\ \A k \in Jobs \ {j} : job'[k] = job[k]
    BY <1>1, <2>1 DEF JobRecord
  <2>4. job' \in [Jobs -> JobRecord]  BY <1>1, <1>4, <2>1
  <2>5. ListMatchesJobs'  BY Zenon, <1>2, <1>q, <2>2, <2>3 DEF ListMatchesJobs, Distinct
  <2>. QED  BY <1>1, <2>2, <2>3, <2>4, <2>5
<1>6. CASE Full
  <2>. DEFINE e == jobOrder[EvictIndex]
              rest == Spliced(jobOrder, EvictIndex)
  <2>1. jobOrder # <<>> /\ ~durable  BY <1>1, <1>6, JobsConstants DEF Full
  <2>2. /\ EvictIndex \in 1 .. Len(jobOrder)
        /\ \/ job[e].status \in SettledJob
           \/ \A i \in 1 .. Len(jobOrder) : job[jobOrder[i]].status \notin SettledJob
    BY <2>1, EvictIndexWorks
  <2>3. e \in Jobs /\ Queued(e) /\ e # j
    BY <1>1, <1>2, <1>3, <2>2 DEF Queued, Elements
  <2>4. job[e].status \in SettledJob \/ \A k \in Jobs : job[k].status \notin SettledJob
    <3>1. ASSUME NEW k \in Jobs, job[k].status \in SettledJob
          PROVE  \E i \in 1 .. Len(jobOrder) : job[jobOrder[i]].status \in SettledJob
      <4>1. Queued(k)  BY <3>1, <1>2 DEF SettledJob
      <4>. QED  BY <3>1, <4>1, <1>2 DEF Queued, Elements
    <3>. QED  BY <2>2, <3>1
  <2>5. /\ jobOrder' = Append(rest, j)
        /\ job' = [k \in Jobs |->
              IF k = j THEN [job[j] EXCEPT !.status = "pending"]
              ELSE IF k = e THEN [job[k] EXCEPT !.status = "evicted"]
              ELSE job[k]]
    BY <1>6 DEF Enqueue
  <2>6. /\ rest \in Seq(Jobs) /\ Elements(rest) = Elements(jobOrder) \ {e}
        /\ Distinct(rest)
    BY <1>1, <1>2, <2>2, SplicedDistinct
  <2>. HIDE DEF e, rest
  <2>7. /\ jobOrder' \in Seq(Jobs) /\ Elements(jobOrder') = (Elements(jobOrder) \ {e}) \cup {j}
        /\ Distinct(jobOrder')
    <3>1. j \notin Elements(rest)  BY <1>3, <2>6
    <3>2. /\ Append(rest, j) \in Seq(Jobs) /\ Distinct(Append(rest, j))
          /\ Elements(Append(rest, j)) = Elements(rest) \cup {j}
      BY <2>6, <3>1, AppendDistinct
    <3>. QED  BY <2>5, <2>6, <3>2, Zenon
  <2>8. /\ job'[j] = [job[j] EXCEPT !.status = "pending"] /\ job'[j].status = "pending"
        /\ job'[e] = [job[e] EXCEPT !.status = "evicted"] /\ job'[e].status = "evicted"
        /\ \A k \in Jobs \ {j, e} : job'[k] = job[k]
    BY <1>1, <2>3, <2>5 DEF JobRecord
  <2>9. job' \in [Jobs -> JobRecord]
    <3>1. [job[e] EXCEPT !.status = "evicted"] \in JobRecord
      BY <1>1, <2>3, Zenon DEF JobRecord, JobStatuses
    <3>. QED  BY Zenon, <1>1, <1>4, <2>5, <3>1
  <2>10. ListMatchesJobs'
    BY Zenon, <1>2, <1>q, <2>3, <2>7, <2>8 DEF ListMatchesJobs, Distinct
  <2>11. job[e].status \notin {"absent", "evicted"}  BY <1>2, <2>3
  <2>. QED  BY Zenon, <1>1, <2>1, <2>3, <2>4, <2>7, <2>8, <2>9, <2>10, <2>11
<1>. QED  BY <1>5, <1>6

\* Enqueue keeps it, with the eviction it may call for.
LEMMA EnqueueInv ==
    ASSUME LeastFacts, JobsInv, NEW j \in Jobs, Enqueue(j)
    PROVE  JobsInv'
<1>1. UNCHANGED <<durable, worker>> /\ job \in [Jobs -> JobRecord]
  BY DEF Enqueue, JobsInv, JobsTypeOK
<1>2. /\ job[j].status = "absent" /\ job'[j].status = "pending"
      /\ job'[j].lost = job[j].lost /\ job'[j].attempts = job[j].attempts
  <2>1. job[j].status = "absent" /\ job'[j] = [job[j] EXCEPT !.status = "pending"]
    BY EnqueueJobs
  <2>. QED  BY <1>1, <2>1 DEF JobRecord
<1>3. ASSUME NEW k \in Jobs \ {j}
      PROVE  /\ job'[k].lost = job[k].lost /\ job'[k].attempts = job[k].attempts
             /\ \/ job'[k].status = job[k].status
                \/ job'[k].status = "evicted" /\ ~durable
  <2>1. \/ job'[k] = job[k]
        \/ job'[k] = [job[k] EXCEPT !.status = "evicted"] /\ ~durable
    BY Zenon, EnqueueJobs
  <2>. QED  BY <1>1, <2>1 DEF JobRecord
<1>4. JobsTypeOK' /\ ListMatchesJobs'
  BY Zenon, <1>1, EnqueueJobs DEF JobsInv, JobsTypeOK
<1>5. ASSUME NEW k \in Jobs PROVE JobConsistent(k)'
  <2>0. JobConsistent(k)  BY DEF JobsInv
  <2>1. CASE k = j  BY <1>1, <1>2, <2>0, <2>1 DEF JobConsistent, Held
  <2>2. CASE k # j  BY <1>1, <1>3, <2>0, <2>2 DEF JobConsistent, Held
  <2>. QED  BY <2>1, <2>2
<1>6. ASSUME NEW w \in Workers PROVE WorkerConsistent(w)'
  <2>1. WorkerConsistent(w) /\ (Held(w) # NoJob => Held(w) \in Jobs \ {j})
    BY <1>2 DEF JobsInv, JobsTypeOK, WorkerRecord, Held, WorkerConsistent
  <2>2. worker[w].pc = "rescheduling" => Held(w) # NoJob
    BY <2>1 DEF WorkerConsistent, Holding
  <2>3. Held(w) # NoJob =>
          /\ job'[Held(w)].status \in {"running", "evicted"} /\ ~job'[Held(w)].lost
          /\ job'[Held(w)].attempts = job[Held(w)].attempts
    BY <1>3, <2>1 DEF WorkerConsistent
  <2>. QED  BY <1>1, <2>1, <2>2, <2>3, Zenon DEF WorkerConsistent, Held, WorkerAt, MoreAttempts
<1>. QED  BY <1>4, <1>5, <1>6 DEF JobsInv

\* Every step of the queue and its workers keeps the invariant.
LEMMA JobsNextInv ==
    ASSUME LeastFacts, JobsInv, [JobsNext]_jobVars
    PROVE  JobsInv'
<1>1. CASE UNCHANGED jobVars
  BY <1>1 DEF jobVars, JobsInv, JobsTypeOK, ListMatchesJobs, Queued, JobConsistent,
              WorkerConsistent, Held, WorkerAt, MoreAttempts
<1>2. ASSUME NEW j \in Jobs, Enqueue(j) \/ BecomeDue(j) PROVE JobsInv'
  BY <1>2, EnqueueInv, BecomeDueInv
<1>3. ASSUME NEW w \in Workers, Work(w) \/ StopWorker(w) \/ CancelCtx(w) \/ CrashWorker(w)
      PROVE  JobsInv'
  <2>1. CASE Dequeue(w)  BY <2>1, DequeueInv
  <2>2. CASE ~Dequeue(w)
    BY <1>3, <2>2, WorkerSteps, DroppedInv, WentOnInv DEF Work
  <2>. QED  BY <2>1, <2>2
<1>. QED  BY <1>1, <1>2, <1>3, Zenon DEF JobsNext

-----------------------------------------------------------------------------
(* The contract *)

\* A job whose record is the same stands the same.
LEMMA SameStanding ==
    ASSUME NEW k, job'[k] = job[k]
    PROVE  Standing(k)' = Standing(k)
BY DEF Standing

\* An empty queue is an empty contract.
LEMMA RefineInit == JobsInit => Contract!ContractInit
BY DEF JobsInit, Ready, Standing, Contract!ContractInit

\* Giving up a job is a Return of the contract.
LEMMA RefineDropped ==
    ASSUME JobsInv, NEW w \in Workers, NEW rec \in JobRecord, Dropped(w, rec)
    PROVE  Contract!ContractNext
<1>0. PICK j \in Jobs : j = Held(w)
  BY DEF JobsInv, JobsTypeOK, Dropped, WorkerRecord, Held
<1>1. PICK idle \in WorkerRecord : idle.job = NoJob /\ worker' = [worker EXCEPT ![w] = idle]
  BY Zenon DEF Dropped
<1>2. /\ job \in [Jobs -> JobRecord] /\ worker \in [Workers -> WorkerRecord]
      /\ j \in Jobs /\ job' = [job EXCEPT ![j] = rec] /\ ~job[j].lost
      /\ rec.attempts = job[j].attempts /\ job[j] \in JobRecord
  BY <1>0 DEF JobsInv, JobsTypeOK, Dropped, WorkerConsistent
<1>3. (\A k \in Jobs \ {j} : job'[k] = job[k]) /\ job'[j] = rec  BY <1>2
<1>4. \A k \in Jobs \ {j} : Standing(k)' = Standing(k)  BY <1>3, SameStanding
<1>5. \A k \in Jobs : job'[k].attempts = job[k].attempts  BY <1>2, <1>3
<1>6. \/ Standing(j) = "forgotten" /\ Standing(j)' = "forgotten"
      \/ /\ Standing(j) = "held"
         /\ \/ Standing(j)' \in {"completed", "abandoned"}
            \/ Standing(j)' = "waiting" /\ job[j].attempts < MaxJobAttempts
            \/ Standing(j)' = "failed" /\ ~(job[j].attempts < MaxJobAttempts)
  BY <1>0, <1>2, <1>3 DEF Dropped, Standing, MoreAttempts
<1>7. Contract!Return(j, w)
  <2>1. [v \in Workers |-> worker[v].job][w] = j  BY <1>0 DEF Held
  <2>2. \E s \in Contract!NextStates(j) :
          [k \in Jobs |-> Standing(k)]' = [[k \in Jobs |-> Standing(k)] EXCEPT ![j] = s]
    <3>1. Standing(j)' \in Contract!NextStates(j)
      BY <1>2, <1>6 DEF Contract!NextStates
    <3>2. [k \in Jobs |-> Standing(k)]'
            = [[k \in Jobs |-> Standing(k)] EXCEPT ![j] = Standing(j)']
      BY Zenon, <1>2, <1>4
    <3>. QED  BY Zenon, <3>1, <3>2
  <2>3. [v \in Workers |-> worker[v].job]'
          = [[v \in Workers |-> worker[v].job] EXCEPT ![w] = NoJob]
    BY Zenon, <1>1, <1>2
  <2>4. [k \in Jobs |-> job[k].attempts]' = [k \in Jobs |-> job[k].attempts]  BY <1>5
  <2>. QED  BY Zenon, <2>1, <2>2, <2>3, <2>4 DEF Contract!Return
<1>. QED  BY <1>2, <1>7 DEF Contract!ContractNext

\* A step on which a worker keeps its job is no step of the contract.
LEMMA RefineWentOn ==
    ASSUME JobsInv, NEW w \in Workers, WentOn(w)
    PROVE  UNCHANGED Contract!contractVars
<1>1. worker \in [Workers -> WorkerRecord] /\ UNCHANGED job
  BY DEF JobsInv, JobsTypeOK, WentOn
<1>2. \A v \in Workers : worker'[v].job = worker[v].job
  BY <1>1 DEF WentOn, Held
<1>3. \A k \in Jobs : Standing(k)' = Standing(k)  BY <1>1, SameStanding
<1>. QED  BY <1>1, <1>2, <1>3 DEF Contract!contractVars

\* A claim is a Hand of the contract.
LEMMA RefineDequeue ==
    ASSUME JobsInv, NEW w \in Workers, Dequeue(w)
    PROVE  Contract!ContractNext
<1>1. PICK j \in Jobs :
        /\ Dequeuable(j) /\ ClaimJob(j)
        /\ worker' = [worker EXCEPT ![w].job = j,
               ![w].pc = IF Kind[j] = "unhandled" THEN "failing" ELSE "handling"]
  BY Zenon DEF Dequeue
<1>2. /\ job \in [Jobs -> JobRecord] /\ worker \in [Workers -> WorkerRecord]
      /\ job[j] \in JobRecord /\ worker[w] \in WorkerRecord
      /\ job[j].status = "pending" /\ WorkerAt(w, "idle") /\ ~job[j].lost
      /\ job[j].attempts < MaxJobAttempts /\ worker[w].job = NoJob
  BY <1>1 DEF JobsInv, JobsTypeOK, Dequeue, Dequeuable, Eligible, JobConsistent,
              WorkerConsistent, WorkerAt, Holding, Held
<1>3. /\ \A k \in Jobs \ {j} : job'[k] = job[k]
      /\ job'[j].status = "running" /\ ~job'[j].lost /\ job'[j].attempts = job[j].attempts + 1
  BY <1>1, <1>2 DEF ClaimJob, JobRecord
<1>4. \A v \in Workers : worker'[v].job = IF v = w THEN j ELSE worker[v].job
  BY <1>1, <1>2 DEF WorkerRecord
<1>5. /\ Standing(j) = "waiting" /\ Standing(j)' = "held"
      /\ \A k \in Jobs \ {j} : Standing(k)' = Standing(k)
  BY <1>2, <1>3, SameStanding DEF Standing
<1>6. Contract!Hand(j, w)
  BY Zenon, <1>2, <1>3, <1>4, <1>5 DEF Contract!Hand
<1>. QED  BY <1>6 DEF Contract!ContractNext

\* Enqueue is a Submit of the contract, with what the eviction forgets.
LEMMA RefineEnqueue ==
    ASSUME LeastFacts, JobsInv, NEW j \in Jobs, Enqueue(j)
    PROVE  Contract!ContractNext
<1>1. job \in [Jobs -> JobRecord] /\ UNCHANGED worker  BY DEF JobsInv, JobsTypeOK, Enqueue
<1>2. job[j].status = "absent" /\ job'[j] = [job[j] EXCEPT !.status = "pending"]
  BY EnqueueJobs
<1>3. Standing(j) = "new" /\ Standing(j)' = "waiting"
  BY <1>1, <1>2 DEF Standing, JobRecord
<1>4. [v \in Workers |-> worker[v].job]' = [v \in Workers |-> worker[v].job]  BY <1>1
<1>5. CASE \A k \in Jobs \ {j} : job'[k] = job[k]
  <2>1. \A k \in Jobs \ {j} : Standing(k)' = Standing(k)  BY <1>5, SameStanding
  <2>2. \A k \in Jobs : job'[k].attempts = job[k].attempts  BY <1>1, <1>2, <1>5 DEF JobRecord
  <2>3. Contract!Submit(j)  BY <1>3, <1>4, <2>1, <2>2 DEF Contract!Submit
  <2>. QED  BY <2>3 DEF Contract!ContractNext
<1>6. CASE ~\A k \in Jobs \ {j} : job'[k] = job[k]
  <2>1. PICK e \in Jobs \ {j} :
          /\ ~durable /\ job[e].status \notin {"absent", "evicted"}
          /\ job[e].status \in SettledJob \/ \A k \in Jobs : job[k].status \notin SettledJob
          /\ job'[e] = [job[e] EXCEPT !.status = "evicted"]
          /\ \A k \in Jobs \ {j, e} : job'[k] = job[k]
    BY Zenon, <1>6, EnqueueJobs
  <2>2. \A k \in Jobs \ {j, e} : Standing(k)' = Standing(k)  BY <2>1, SameStanding
  <2>3. \A k \in Jobs : job'[k].attempts = job[k].attempts
    BY <1>1, <1>2, <2>1 DEF JobRecord
  <2>4. \A k \in Jobs : Standing(k) \in {"completed", "failed"} <=> job[k].status \in SettledJob
    BY <1>1 DEF Standing, JobRecord, JobStatuses, SettledJob
  <2>5. Standing(e) \notin {"new", "forgotten"} /\ Standing(e)' = "forgotten"
    BY <1>1, <2>1, Zenon DEF Standing, JobRecord, JobStatuses, SettledJob
  <2>6. Contract!Submit(j)
    <3>1. [k \in Jobs |-> Standing(k)]'
            = [[k \in Jobs |-> Standing(k)] EXCEPT ![j] = "waiting", ![e] = "forgotten"]
      BY Zenon, <1>3, <2>2, <2>5
    <3>2. Standing(e) \in Contract!Outcomes \/ Contract!NoOutcomeStored
      BY <2>1, <2>4 DEF Contract!Outcomes, Contract!NoOutcomeStored
    <3>. QED  BY <1>3, <1>4, <2>3, <2>5, <3>1, <3>2 DEF Contract!Submit
  <2>. QED  BY <2>6 DEF Contract!ContractNext
<1>. QED  BY <1>5, <1>6

\* The end of a backoff is no step of the contract.
LEMMA RefineBecomeDue ==
    ASSUME JobsInv, NEW j \in Jobs, BecomeDue(j)
    PROVE  UNCHANGED Contract!contractVars
<1>1. job \in [Jobs -> JobRecord] /\ UNCHANGED worker  BY DEF JobsInv, JobsTypeOK, BecomeDue
<1>2. \A k \in Jobs : /\ job'[k].status = job[k].status /\ job'[k].lost = job[k].lost
                      /\ job'[k].attempts = job[k].attempts
  BY <1>1 DEF BecomeDue, JobRecord
<1>3. \A k \in Jobs : Standing(k)' = Standing(k)  BY <1>2 DEF Standing
<1>. QED  BY <1>1, <1>2, <1>3 DEF Contract!contractVars

\* And is a step of the contract, or none.
LEMMA RefineNext ==
    ASSUME LeastFacts, JobsInv, [JobsNext]_jobVars
    PROVE  Contract!ContractNext \/ UNCHANGED Contract!contractVars
<1>1. CASE UNCHANGED jobVars
  <2>1. \A k \in Jobs : Standing(k)' = Standing(k)  BY <1>1, SameStanding DEF jobVars
  <2>. QED  BY <1>1, <2>1 DEF jobVars, Contract!contractVars
<1>2. ASSUME NEW j \in Jobs, Enqueue(j) \/ BecomeDue(j)
      PROVE  Contract!ContractNext \/ UNCHANGED Contract!contractVars
  BY <1>2, RefineEnqueue, RefineBecomeDue
<1>3. ASSUME NEW w \in Workers, Work(w) \/ StopWorker(w) \/ CancelCtx(w) \/ CrashWorker(w)
      PROVE  Contract!ContractNext \/ UNCHANGED Contract!contractVars
  <2>1. CASE Dequeue(w)  BY <2>1, RefineDequeue
  <2>2. CASE ~Dequeue(w)
    BY <1>3, <2>2, WorkerSteps, RefineDropped, RefineWentOn DEF Work
  <2>. QED  BY <2>1, <2>2
<1>. QED  BY <1>1, <1>2, <1>3 DEF JobsNext

\* What the invariant says of who holds a job.
LEMMA HoldersAreRight == JobsInv => Contract!ContractTypeOK /\ Contract!OneHolder
<1>. DEFINE standing == [j \in Jobs |-> Standing(j)]
            tries == [j \in Jobs |-> job[j].attempts]
            holding == [w \in Workers |-> worker[w].job]
<1>1. JobsInv => Contract!ContractTypeOK /\ Contract!OneHolder
  <2>. SUFFICES ASSUME JobsInv PROVE Contract!ContractTypeOK /\ Contract!OneHolder  OBVIOUS
  <2>1. /\ \A j \in Jobs : job[j] \in JobRecord
        /\ \A w \in Workers : worker[w] \in WorkerRecord /\ Held(w) = worker[w].job
    BY DEF JobsInv, JobsTypeOK, Held
  <2>2. \A j \in Jobs :
          /\ Standing(j) \in Contract!States
          /\ Standing(j) = "held" <=> job[j].status = "running" /\ ~job[j].lost
          /\ job[j].status \in {"running", "evicted"} /\ ~job[j].lost =>
               Standing(j) \in {"held", "forgotten"}
          /\ Standing(j) \in {"new", "waiting"} => job[j].status \in {"absent", "pending"}
    BY <2>1 DEF Standing, JobRecord, JobStatuses, SettledJob, Contract!States, Contract!Outcomes
  <2>3. Contract!ContractTypeOK
    <3>1. /\ \A j \in Jobs : job[j].attempts \in Nat
          /\ \A w \in Workers : worker[w].job \in Jobs \cup {NoJob}
      BY <2>1, Zenon DEF JobRecord, WorkerRecord
    <3>. QED  BY <2>2, <3>1 DEF Contract!ContractTypeOK
  <2>4. ASSUME NEW v \in Workers, NEW w \in Workers, holding[v] = holding[w], holding[v] # NoJob
        PROVE  v = w
    BY <2>1, <2>4 DEF JobsInv, WorkerConsistent
  <2>5. ASSUME NEW w \in Workers, holding[w] # NoJob
        PROVE  standing[holding[w]] \in {"held", "forgotten"}
    <3>1. /\ Held(w) = holding[w] /\ Held(w) \in Jobs
          /\ job[Held(w)].status \in {"running", "evicted"} /\ ~job[Held(w)].lost
      BY <2>1, <2>5 DEF JobsInv, WorkerConsistent, WorkerRecord
    <3>. QED  BY <3>1, <2>2, Zenon
  <2>6. ASSUME NEW j \in Jobs, standing[j] = "held" PROVE \E w \in Workers : holding[w] = j
    <3>1. job[j].status = "running" /\ ~job[j].lost  BY <2>2, <2>6
    <3>2. \E w \in Workers : Held(w) = j  BY <3>1 DEF JobsInv, JobConsistent
    <3>. QED  BY <3>2, <2>1
  <2>7. ASSUME NEW j \in Jobs
        PROVE  /\ tries[j] <= MaxJobAttempts
               /\ standing[j] \in {"new", "waiting"} => tries[j] < MaxJobAttempts
    BY <2>2 DEF JobsInv, JobConsistent
  <2>. QED  BY <2>3, <2>4, <2>5, <2>6, <2>7 DEF Contract!OneHolder
<1>. QED  BY <1>1, Zenon

-----------------------------------------------------------------------------
(* The token budget *)

\* What BudgetIsKept rests on: nothing is counted for an hour that has not begun, and
\* without a store usage has been missed.
BudgetInv ==
    /\ BudgetTypeOK /\ WindowCoversHour
    /\ ~hasStore => lossy
    /\ \A h \in 0 .. HourOf(MaxClock) : h > HourOf(clock) => usage[h] = 0

\* Clock hours are numbered in their order.
LEMMA HoursPass ==
    ASSUME NEW a \in Nat, NEW b \in Nat, a <= b
    PROVE  HourOf(a) \in Nat /\ HourOf(b) \in Nat /\ HourOf(a) <= HourOf(b)
<1>1. HourOf(a) <= HourOf(b)  BY BudgetConstants DEF HourOf
<1>2. HourOf(a) \in Nat  BY BudgetConstants DEF HourOf
<1>3. HourOf(b) \in Nat  BY BudgetConstants DEF HourOf
<1>. QED  BY <1>1, <1>2, <1>3

\* The window a call finds or makes counts at least what the store has for this hour,
\* unless a failed query made it start from nothing.
LEMMA WindowFound ==
    ASSUME BudgetInv, NEW loaded \in BOOLEAN
    PROVE  LET w == Window(loaded)
           IN /\ w \in [open : BOOLEAN, tokens : Nat, end : Nat]
              /\ ~lossy /\ (loaded \/ Live) => w.tokens >= usage[HourOf(clock)]
<1>1. /\ clock \in Nat /\ clock <= MaxClock /\ hasStore \in BOOLEAN
      /\ window \in [open : BOOLEAN, tokens : Nat, end : Nat]
      /\ usage \in [0 .. HourOf(MaxClock) -> 0 .. MaxUsage]
  BY DEF BudgetInv, BudgetTypeOK
<1>2. HourOf(clock) \in 0 .. HourOf(MaxClock)
  <2>1. HourOf(clock) \in Nat /\ HourOf(MaxClock) \in Nat /\ HourOf(clock) <= HourOf(MaxClock)
    BY <1>1, HoursPass, BudgetConstants, Zenon
  <2>. QED  BY <2>1
<1>3. usage[HourOf(clock)] \in Nat  BY <1>1, <1>2, BudgetConstants
<1>. DEFINE used == usage[HourOf(clock)]
<1>4. CASE Live
  <2>1. Window(loaded) = window  BY <1>4 DEF Window
  <2>2. ~lossy => window.tokens >= used  BY <1>4 DEF BudgetInv, WindowCoversHour
  <2>. QED  BY <2>1, <2>2, <1>1
<1>5. CASE ~Live
  <2>1. Window(loaded) = FreshWindow(loaded)  BY <1>5 DEF Window
  <2>2. /\ FreshWindow(loaded).tokens = IF hasStore /\ loaded THEN used ELSE 0
        /\ FreshWindow(loaded) \in [open : BOOLEAN, tokens : Nat, end : Nat]
    BY <1>1, <1>3, BudgetConstants DEF FreshWindow
  <2>3. ~lossy => hasStore  BY DEF BudgetInv
  <2>. QED  BY <2>1, <2>2, <2>3, <1>3, <1>5
<1>. QED  BY <1>4, <1>5

\* Every step of the budget keeps the invariant, and admits nothing over the limit.
LEMMA BudgetStep ==
    BudgetInv /\ [BudgetNext]_budgetVars =>
        BudgetInv' /\ (AdmittedWithinBudget \/ UNCHANGED budgetVars)
<1>. SUFFICES ASSUME BudgetInv, [BudgetNext]_budgetVars
              PROVE  BudgetInv' /\ (AdmittedWithinBudget \/ UNCHANGED budgetVars)
  OBVIOUS
<1>. DEFINE W == [open : BOOLEAN, tokens : Nat, end : Nat]
            this == HourOf(clock)
<1>1. /\ clock \in Nat /\ clock <= MaxClock /\ hasStore \in BOOLEAN /\ lossy \in BOOLEAN
      /\ window \in W /\ usage \in [0 .. HourOf(MaxClock) -> 0 .. MaxUsage]
      /\ req \in [Requests -> {"idle", "admitted", "refused", "done"}]
      /\ MaxUsage \in Nat /\ MaxClock \in Nat
  BY BudgetConstants DEF BudgetInv, BudgetTypeOK
<1>2. /\ HourOf(MaxClock) \in Nat /\ this \in 0 .. HourOf(MaxClock)
      /\ usage[this] \in Nat /\ usage[this] <= MaxUsage
  <2>1. this \in Nat /\ HourOf(MaxClock) \in Nat /\ this <= HourOf(MaxClock)
    BY <1>1, HoursPass, Zenon
  <2>. HIDE DEF this
  <2>. QED  BY <2>1, <1>1
<1>3. /\ ~hasStore => lossy
      /\ \A h \in 0 .. HourOf(MaxClock) : h > this => usage[h] = 0
  BY DEF BudgetInv
<1>4. CASE BudgetTick
  <2>1. clock < MaxClock /\ clock' = clock + 1 /\ UNCHANGED <<hasStore, window, usage, req, lossy>>
    BY <1>4 DEF BudgetTick
  <2>2. /\ clock' \in Nat /\ clock' <= MaxClock /\ clock <= clock'  BY <2>1, <1>1
  <2>3. /\ HourOf(clock') \in Nat /\ this <= HourOf(clock')
        /\ HourOf(clock') <= HourOf(MaxClock)
    BY <2>2, <1>1, HoursPass
  <2>4. BudgetTypeOK'  BY <1>1, <2>1, <2>2 DEF BudgetTypeOK
  <2>5. ASSUME ~lossy', Live' PROVE window'.tokens >= usage'[HourOf(clock')]
    <3>1. Live  BY <2>1, <2>5, <1>1 DEF Live
    <3>2. window.tokens >= usage[this]  BY <2>1, <2>5, <3>1 DEF BudgetInv, WindowCoversHour
    <3>3. CASE HourOf(clock') = this  BY <3>2, <3>3, <2>1
    <3>4. CASE HourOf(clock') > this
      <4>1. usage[HourOf(clock')] = 0  BY <3>4, <2>3, <1>2, <1>3
      <4>. QED  BY <4>1, <2>1, <1>1
    <3>. HIDE DEF this
    <3>. QED  BY <3>3, <3>4, <2>3, <1>2
  <2>6. \A h \in 0 .. HourOf(MaxClock) : h > HourOf(clock') => usage'[h] = 0
    <3>1. \A h \in 0 .. HourOf(MaxClock) : h > HourOf(clock') => h > this
      <4>. HIDE DEF this
      <4>. QED  BY <2>3, <1>2
    <3>. QED  BY <3>1, <1>3, <2>1
  <2>7. AdmittedWithinBudget  BY <2>1 DEF AdmittedWithinBudget
  <2>8. WindowCoversHour'  BY <2>5 DEF WindowCoversHour
  <2>. QED  BY <2>1, <2>4, <2>6, <2>7, <2>8, <1>3 DEF BudgetInv
<1>5. CASE RestartBudget
  <2>1. /\ UNCHANGED <<clock, hasStore, usage, lossy>> /\ window' = NoWindow
        /\ req' = [r \in Requests |-> IF req[r] = "admitted" THEN "done" ELSE req[r]]
    BY <1>5 DEF RestartBudget
  <2>2. window' \in W /\ ~window'.open  BY <2>1 DEF NoWindow
  <2>3. BudgetTypeOK'  BY <1>1, <2>1, <2>2 DEF BudgetTypeOK
  <2>4. WindowCoversHour'  BY <2>2 DEF WindowCoversHour, Live
  <2>5. AdmittedWithinBudget  BY <2>1 DEF AdmittedWithinBudget
  <2>. QED  BY <2>1, <2>3, <2>4, <2>5, <1>3 DEF BudgetInv
<1>6. ASSUME NEW r \in Requests, CheckBudget(r)
      PROVE  BudgetInv' /\ AdmittedWithinBudget
  <2>1. /\ UNCHANGED <<clock, hasStore, usage>> /\ req[r] = "idle"
        /\ req' = [req EXCEPT ![r] = IF WithinBudget(window'.tokens) THEN "admitted" ELSE "refused"]
    BY <1>6 DEF CheckBudget
  <2>2. PICK loaded \in BOOLEAN : window' = Window(loaded) /\ Missed(loaded \/ Live)
    BY <1>6 DEF CheckBudget
  <2>3. /\ window' \in W
        /\ ~lossy /\ (loaded \/ Live) => window'.tokens >= usage[this]
    BY <2>2, WindowFound
  <2>4. lossy' = (lossy \/ ~(loaded \/ Live))  BY <2>2 DEF Missed
  <2>5. lossy' \in BOOLEAN /\ (~hasStore => lossy') /\ (~lossy' => window'.tokens >= usage[this])
    BY <2>3, <2>4, <1>3, Zenon
  <2>6. BudgetTypeOK'  BY <1>1, <2>1, <2>3, <2>5 DEF BudgetTypeOK
  <2>7. WindowCoversHour'  BY <2>1, <2>5 DEF WindowCoversHour
  <2>8. AdmittedWithinBudget
    <3>. SUFFICES ASSUME NEW q \in Requests, req[q] = "idle", req'[q] = "admitted", ~lossy'
                  PROVE  usage[this] < Limit
      BY DEF AdmittedWithinBudget
    <3>1. q = r /\ WithinBudget(window'.tokens)  BY <2>1, <1>1
    <3>. HIDE DEF this
    <3>. QED  BY <3>1, <2>3, <2>5, <1>2, BudgetConstants DEF WithinBudget
  <2>. QED  BY <2>1, <2>5, <2>6, <2>7, <2>8, <1>3 DEF BudgetInv
<1>7. ASSUME NEW r \in Requests, NEW n \in Amounts, RecordUsage(r, n)
      PROVE  BudgetInv' /\ AdmittedWithinBudget
  <2>1. /\ UNCHANGED <<clock, hasStore>> /\ req[r] = "admitted"
        /\ \E pc \in {"admitted", "done"} : req' = [req EXCEPT ![r] = pc]
    BY <1>7, Zenon DEF RecordUsage
  <2>2. PICK loaded \in BOOLEAN, stored \in BOOLEAN :
          /\ Window(loaded).tokens + n <= MaxUsage /\ usage[this] + n <= MaxUsage
          /\ window' = [Window(loaded) EXCEPT !.tokens = @ + n]
          /\ usage' = IF hasStore /\ stored THEN [usage EXCEPT ![this] = @ + n] ELSE usage
          /\ Missed((loaded \/ Live) /\ stored)
    BY <1>7 DEF RecordUsage
  <2>. DEFINE w == Window(loaded)
  <2>3. /\ w \in W /\ n \in Nat
        /\ ~lossy /\ (loaded \/ Live) => w.tokens >= usage[this]
    BY WindowFound, BudgetConstants
  <2>. HIDE DEF w, this
  <2>4. window' = [w EXCEPT !.tokens = w.tokens + n]  BY <2>2 DEF w
  <2>5. window' \in W /\ window'.tokens = w.tokens + n  BY <2>3, <2>4
  <2>6. lossy' = (lossy \/ ~((loaded \/ Live) /\ stored))  BY <2>2 DEF Missed
  <2>7. /\ lossy' \in BOOLEAN /\ (~hasStore => lossy')
        /\ ~lossy' => ~lossy /\ (loaded \/ Live) /\ stored /\ hasStore
    BY <2>6, <1>3, Zenon
  <2>8. /\ usage' \in [0 .. HourOf(MaxClock) -> 0 .. MaxUsage]
        /\ hasStore /\ stored => usage'[this] = usage[this] + n
        /\ \A h \in 0 .. HourOf(MaxClock) : h # this => usage'[h] = usage[h]
    <3>1. CASE hasStore /\ stored
      <4>1. usage' = [usage EXCEPT ![this] = usage[this] + n]  BY <3>1, <2>2
      <4>2. usage[this] + n \in 0 .. MaxUsage  BY <2>2, <2>3, <1>1, <1>2, SMTT(30)
      <4>. QED  BY <4>1, <4>2, <1>1, <1>2
    <3>2. CASE ~(hasStore /\ stored)
      <4>1. usage' = usage  BY <3>2, <2>2
      <4>. QED  BY <4>1, <3>2, <1>1
    <3>. QED  BY <3>1, <3>2
  <2>9. BudgetTypeOK'  BY <1>1, <2>1, <2>5, <2>7, <2>8 DEF BudgetTypeOK
  <2>10. WindowCoversHour'
    <3>. SUFFICES ASSUME ~lossy' PROVE window'.tokens >= usage'[HourOf(clock')]
      BY DEF WindowCoversHour
    <3>1. usage'[HourOf(clock')] = usage[this] + n  BY <2>1, <2>7, <2>8 DEF this
    <3>2. w.tokens >= usage[this] /\ w.tokens \in Nat  BY <2>3, <2>7
    <3>. QED  BY <3>1, <3>2, <2>3, <2>5, <1>2
  <2>11. AdmittedWithinBudget
    <3>1. \A q \in Requests : req[q] = "idle" => req'[q] = "idle"  BY <2>1, <1>1
    <3>. QED  BY <3>1 DEF AdmittedWithinBudget
  <2>12. \A h \in 0 .. HourOf(MaxClock) : h > HourOf(clock') => usage'[h] = 0
    <3>1. \A h \in 0 .. HourOf(MaxClock) : h > this => h # this  BY <1>2
    <3>2. HourOf(clock') = this  BY <2>1 DEF this
    <3>. QED  BY <3>1, <3>2, <2>8, <1>3
  <2>. QED  BY <2>1, <2>7, <2>9, <2>10, <2>11, <2>12 DEF BudgetInv
<1>8. CASE UNCHANGED budgetVars
  <2>1. UNCHANGED <<clock, hasStore, window, usage, req, lossy>>  BY <1>8 DEF budgetVars
  <2>. QED  BY <2>1, <1>8 DEF BudgetInv, BudgetTypeOK, WindowCoversHour, Live
<1>. QED  BY <1>4, <1>5, <1>6, <1>7, <1>8 DEF BudgetNext

\* The budget of a tenant is kept hour by hour for every limit and every length of the
\* hour, whatever restarts, windows and requests come in between (TokenBudget.Check and
\* Record, with the usage store).
THEOREM HourlyBudgetKept == BudgetSpec => []BudgetTypeOK /\ BudgetIsKept
<1>1. BudgetInit => BudgetInv
  <2>. SUFFICES ASSUME BudgetInit PROVE BudgetInv  OBVIOUS
  <2>1. HourOf(MaxClock) \in Nat /\ HourOf(0) \in Nat /\ HourOf(0) <= HourOf(MaxClock)
    BY HoursPass, BudgetConstants
  <2>2. BudgetTypeOK
    <3>1. lossy \in BOOLEAN /\ hasStore \in BOOLEAN  BY Zenon DEF BudgetInit
    <3>. QED  BY <3>1, <2>1, BudgetConstants DEF BudgetInit, BudgetTypeOK, NoWindow
  <2>3. WindowCoversHour  BY DEF BudgetInit, NoWindow, WindowCoversHour, Live
  <2>4. ~hasStore => lossy  BY Zenon DEF BudgetInit
  <2>. QED  BY <2>2, <2>3, <2>4 DEF BudgetInit, BudgetInv
<1>2. BudgetInv => BudgetTypeOK  BY DEF BudgetInv
<1>3. BudgetInv /\ [BudgetNext]_budgetVars => [WindowCoversHour' /\ AdmittedWithinBudget]_budgetVars
  BY BudgetStep DEF BudgetInv
<1>4. BudgetInv /\ [BudgetNext]_budgetVars => BudgetInv'  BY BudgetStep
<1>. QED  BY <1>1, <1>2, <1>3, <1>4, PTL DEF BudgetSpec, BudgetIsKept

-----------------------------------------------------------------------------
INSTANCE WellFoundedInduction

\* What the lemmas assume of sets of numbers: the order of the numbers is well-founded.
LEMMA LeastFactsHold == LeastFacts
<1>. SUFFICES ASSUME NEW S \in SUBSET Nat, S # {} PROVE \E i \in S : \A k \in S : i <= k
  BY DEF LeastFacts
<1>1. \E i \in S : \A k \in S : ~(<<k, i>> \in OpToRel(<, Nat))
  BY Zenon, NatLessThanWellFounded, WFMin
<1>2. OpToRel(<, Nat) = {p \in Nat \X Nat : p[1] < p[2]}
  BY Zenon DEF OpToRel
<1>3. \E i \in S : \A k \in S : ~(<<k, i>> \in {p \in Nat \X Nat : p[1] < p[2]})
  BY <1>1, <1>2, Zenon
<1>4. PICK i \in S : \A k \in S : ~(<<k, i>> \in {p \in Nat \X Nat : p[1] < p[2]})
  BY <1>3
<1>5. ASSUME NEW k \in S  PROVE i <= k
  <2>1. i \in Nat /\ k \in Nat  OBVIOUS
  <2>2. k < i => <<k, i>> \in {p \in Nat \X Nat : p[1] < p[2]}  BY <2>1
  <2>. QED  BY <2>1, <2>2, <1>4
<1>. QED  BY <1>5

\* The invariant holds throughout, with either backend.
THEOREM JobsInvariant == JobsSpec => []JobsInv
<1>1. JobsInv /\ [JobsNext]_jobVars => JobsInv'  BY LeastFactsHold, JobsNextInv
<1>. QED  BY <1>1, InitInv, PTL DEF JobsSpec

\* The queue, in memory or in Postgres, implements its contract, for any jobs, workers,
\* kinds of jobs, caps and numbers of attempts (MemoryQueue, PostgresQueue and Worker.poll).
THEOREM ContractIsKept == JobsSpec => QueueKeepsContract
<1>1. JobsInv /\ [JobsNext]_jobVars => [Contract!ContractNext]_(Contract!contractVars)
  BY LeastFactsHold, RefineNext
<1>. QED
  BY <1>1, RefineInit, JobsInvariant, PTL
     DEF JobsSpec, QueueKeepsContract, Contract!ContractSpec

\* A job is in the hands of one worker at a time, what a worker has is its own or was
\* evicted under it, no job counts as held that nobody holds, and none is tried more than
\* MaxAttempts times (Dequeue, Complete and Fail of both backends, a worker's crash).
THEOREM OneHolderAtATime == JobsSpec => [](Contract!ContractTypeOK /\ Contract!OneHolder)
  BY HoldersAreRight, JobsInvariant, PTL

=============================================================================
