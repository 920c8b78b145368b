--------------------------- MODULE LifecycleProofs ---------------------------
(***************************************************************************)
(* Proofs about ServerLifecycle, for any number of jobs, workers, entries  *)
(* and any queue sizes.                                                    *)
(***************************************************************************)
EXTENDS ServerLifecycle, TLAPS

\* What a step of the server does to the pool, and what to the audit trail.
WorkerMove(w) ==
    \/ Receive(w) \/ RangeEnds(w) \/ CheckContext(w) \/ Restart(w)
    \/ ExecuteAnswers(w) \/ ExecutePanics(w) \/ ExecutePanicsTwice(w)

PoolMove ==
    \/ \E j \in Jobs : Enqueue(j)
    \/ \E w \in Workers : WorkerMove(w)
    \/ CloseQueue
    \/ PoolCancel
    \/ UNCHANGED poolVars

AuditMove ==
    \/ \E e \in Entries : AuditWrite(e)
    \/ \E a \in AuditWorkers :
          \/ TakeEntry(a) \/ TimerFires(a)
          \/ InsertBatch(a) \/ InsertErrs(a) \/ WritePanics(a)
    \/ CloseDB
    \/ UNCHANGED auditVars

\* Every step of the server is a step of the pool and of the audit trail.
LEMMA StepsOfComponents ==
    ASSUME PoolTypeOK, [Next]_vars
    PROVE  PoolMove /\ AuditMove
<1>1. \A w \in Workers : wpc[w] = "exec" => wjob[w] \in Entries
  BY PoolAssumption, LifecycleAssumption DEF PoolTypeOK
<1>2. CASE \E j \in Jobs : RequestJob(j)
  BY <1>2 DEF RequestJob, PoolMove, AuditMove
<1>3. CASE \E e \in Entries : RequestAudit(e)
  BY <1>3 DEF RequestAudit, PoolMove, AuditMove
<1>4. CASE \E w \in Workers : WorkerStep(w)
  <2>1. PICK w \in Workers : WorkerStep(w)
    BY <1>4
  <2>2. WorkerMove(w)
    BY <2>1 DEF WorkerStep, Answer, Panic, WorkerMove
  <2>3. (AuditWrite(wjob[w]) /\ wpc[w] = "exec") \/ UNCHANGED auditVars
    BY <2>1 DEF WorkerStep, Answer, Panic, ExecuteAnswers, ExecutePanics,
         ExecutePanicsTwice
  <2> QED BY <1>1, <2>2, <2>3 DEF PoolMove, AuditMove
<1>5. CASE \E a \in AuditWorkers : AuditStep(a)
  BY <1>5 DEF AuditStep, PoolMove, AuditMove
<1>6. CASE Signal \/ Expire
  BY <1>6 DEF Signal, Expire, PoolMove, AuditMove
<1>7. CASE Shutdown
  BY <1>7 DEF Shutdown, StopHTTP, DrainCloses, DrainReturns, Cancel, Flush,
       CloseDatabase, Exit, PoolMove, AuditMove
<1>8. CASE Stopped \/ UNCHANGED vars
  BY <1>8 DEF Stopped, vars, PoolMove, AuditMove
<1> QED BY <1>2, <1>3, <1>4, <1>5, <1>6, <1>7, <1>8 DEF Next

-----------------------------------------------------------------------------
(* The pool.                                                               *)

LEMMA PoolTypeStep ==
    ASSUME PoolTypeOK, PoolMove
    PROVE  PoolTypeOK'
<1> USE PoolAssumption DEF PoolTypeOK, Outcomes
<1>1. ASSUME NEW j \in Jobs, Enqueue(j)
      PROVE  PoolTypeOK'
  <2>1. Append(queue, j) \in Seq(Jobs) /\ Len(Append(queue, j)) = Len(queue) + 1
    OBVIOUS
  <2>2. queue' \in Seq(Jobs) /\ Len(queue') <= QueueSize
    <3>1. CASE queue' = queue
      BY <3>1
    <3>2. CASE queue' = Append(queue, j) /\ Len(queue) < QueueSize
      BY <3>2, <2>1
    <3> QED BY <1>1, <3>1, <3>2 DEF Enqueue
  <2>3. outcome' \in [Jobs -> Outcomes]
    BY <1>1 DEF Enqueue
  <2> QED BY <1>1, <2>2, <2>3 DEF Enqueue
<1>2. ASSUME NEW w \in Workers, Receive(w)
      PROVE  PoolTypeOK'
  <2>1. /\ Head(queue) \in Jobs
        /\ Tail(queue) \in Seq(Jobs)
        /\ Len(Tail(queue)) <= QueueSize
    BY <1>2 DEF Receive
  <2> QED BY <1>2, <2>1 DEF Receive
<1>3. ASSUME NEW w \in Workers, RangeEnds(w) \/ Restart(w)
      PROVE  PoolTypeOK'
  BY <1>3 DEF RangeEnds, Restart
<1>4. ASSUME NEW w \in Workers, CheckContext(w)
      PROVE  PoolTypeOK'
  BY <1>4 DEF CheckContext, Settle
<1>5. ASSUME NEW w \in Workers,
             ExecuteAnswers(w) \/ ExecutePanics(w) \/ ExecutePanicsTwice(w)
      PROVE  PoolTypeOK'
  BY <1>5 DEF ExecuteAnswers, ExecutePanics, ExecutePanicsTwice, Settle
<1>6. CASE CloseQueue \/ PoolCancel \/ UNCHANGED poolVars
  BY <1>6 DEF CloseQueue, PoolCancel, poolVars
<1> QED BY <1>1, <1>2, <1>3, <1>4, <1>5, <1>6 DEF PoolMove, WorkerMove

-----------------------------------------------------------------------------
(* The audit trail.                                                        *)

LEMMA AuditTypeStep ==
    ASSUME AuditTypeOK, AuditMove
    PROVE  AuditTypeOK'
<1> USE AuditAssumption DEF AuditTypeOK
<1>1. ASSUME NEW e \in Entries, AuditWrite(e)
      PROVE  AuditTypeOK'
  <2>1. /\ Append(auditCh, e) \in Seq(Entries)
        /\ Len(Append(auditCh, e)) = Len(auditCh) + 1
    OBVIOUS
  <2>2. auditCh' \in Seq(Entries) /\ Len(auditCh') <= AuditQueueSize
    <3>1. CASE auditCh' = auditCh
      BY <3>1
    <3>2. CASE auditCh' = Append(auditCh, e) /\ Len(auditCh) < AuditQueueSize
      BY <3>2, <2>1
    <3> QED BY <1>1, <3>1, <3>2 DEF AuditWrite
  <2>3. written' \in SUBSET Entries /\ missed' \in SUBSET Entries
    BY <1>1 DEF AuditWrite
  <2> QED BY <1>1, <2>2, <2>3 DEF AuditWrite
<1>2. ASSUME NEW a \in AuditWorkers, TakeEntry(a)
      PROVE  AuditTypeOK'
  <2>1. /\ Head(auditCh) \in Entries
        /\ Tail(auditCh) \in Seq(Entries)
        /\ Len(Tail(auditCh)) <= AuditQueueSize
    BY <1>2 DEF TakeEntry
  <2>2. /\ Append(batch[a], Head(auditCh)) \in Seq(Entries)
        /\ Len(Append(batch[a], Head(auditCh))) = Len(batch[a]) + 1
    BY <2>1
  <2>3. /\ batch' \in [AuditWorkers -> Seq(Entries)]
        /\ writing' \in [AuditWorkers -> BOOLEAN]
        /\ Len(batch'[a]) = Len(batch[a]) + 1
        /\ writing'[a] = (Len(batch[a]) + 1 >= BatchSize)
        /\ \A b \in AuditWorkers \ {a} : batch'[b] = batch[b] /\ writing'[b] = writing[b]
    BY <1>2, <2>2 DEF TakeEntry
  <2>4. \A b \in AuditWorkers :
           IF writing'[b] THEN Len(batch'[b]) \in 1 .. BatchSize
                          ELSE Len(batch'[b]) < BatchSize /\ attempt'[b] = 0
    <3>1. attempt' = attempt /\ ~writing[a]
      BY <1>2 DEF TakeEntry
    <3>2. Len(batch[a]) \in Nat /\ Len(batch[a]) < BatchSize /\ attempt[a] = 0
      BY <3>1
    <3> SUFFICES ASSUME NEW b \in AuditWorkers
                 PROVE  IF writing'[b] THEN Len(batch'[b]) \in 1 .. BatchSize
                        ELSE Len(batch'[b]) < BatchSize /\ attempt'[b] = 0
      OBVIOUS
    <3>3. CASE b = a
      BY <2>3, <3>1, <3>2, <3>3
    <3>4. CASE b # a
      BY <2>3, <3>1, <3>4
    <3> QED BY <3>3, <3>4
  <2> QED BY <1>2, <2>1, <2>3, <2>4 DEF TakeEntry
<1>3. ASSUME NEW a \in AuditWorkers, TimerFires(a)
      PROVE  AuditTypeOK'
  BY <1>3 DEF TimerFires
<1>4. ASSUME NEW a \in AuditWorkers, ClearBatch(a), missed' \in SUBSET Entries,
             stored' \in [Entries -> Nat]
      PROVE  AuditTypeOK'
  BY <1>4 DEF ClearBatch
<1>5. ASSUME NEW a \in AuditWorkers, InsertBatch(a) \/ InsertErrs(a)
      PROVE  AuditTypeOK'
  <2>1. ClearBatch(a) /\ missed' \in SUBSET Entries
    BY <1>5 DEF InsertBatch, InsertErrs, GiveUpBatch
  <2>2. stored' \in [Entries -> Nat]
    <3>1. CASE stored' = stored
      BY <3>1
    <3>2. CASE StoreBatch(a)
      <4>1. \A e \in Entries : stored[e] \in Nat /\ stored[e] + 1 \in Nat
        OBVIOUS
      <4> QED BY <3>2, <4>1 DEF StoreBatch
    <3> QED BY <1>5, <3>1, <3>2 DEF InsertBatch, InsertErrs
  <2> QED BY <1>4, <2>1, <2>2
<1>6. ASSUME NEW a \in AuditWorkers, WritePanics(a)
      PROVE  AuditTypeOK'
  <2>1. CASE attempt[a] < MaxRetries
    <3>1. attempt[a] + 1 \in 0 .. MaxRetries
      BY <2>1
    <3>2. /\ attempt' \in [AuditWorkers -> 0 .. MaxRetries]
          /\ \A b \in AuditWorkers : writing[b] \/ attempt'[b] = attempt[b]
      BY <1>6, <2>1, <3>1 DEF WritePanics
    <3>3. UNCHANGED <<auditCh, batch, writing, stored, written, missed, dbOpen>>
      BY <1>6, <2>1 DEF WritePanics
    <3> QED BY <3>2, <3>3
  <2>2. CASE attempt[a] >= MaxRetries
    <3>1. ClearBatch(a) /\ missed' \in SUBSET Entries /\ stored' = stored
      BY <1>6, <2>2 DEF WritePanics, GiveUpBatch
    <3> QED BY <1>4, <3>1
  <2> QED BY <2>1, <2>2
<1>7. CASE CloseDB \/ UNCHANGED auditVars
  BY <1>7 DEF CloseDB, auditVars
<1> QED BY <1>1, <1>2, <1>3, <1>5, <1>6, <1>7 DEF AuditMove

\* Every reachable state has its types and its bounds: the queues never hold
\* more than their capacity, a batch never more than auditBatchSize, and a
\* batch is retried at most MaxRetries times.
THEOREM LifecycleTypeCorrect == Spec => []TypeOK
<1>1. Init => TypeOK
  <2> SUFFICES ASSUME Init PROVE TypeOK
    OBVIOUS
  <2>1. PoolTypeOK
    <3>1. \A w \in Workers : wjob[w] = NoJob /\ wpc[w] = "recv"
      BY DEF Init, PoolInit
    <3>2. queue \in Seq(Jobs) /\ Len(queue) = 0
      BY DEF Init, PoolInit
    <3>3. /\ wpc \in [Workers -> {"recv", "check", "exec", "exit", "gone"}]
          /\ wjob \in [Workers -> Jobs \cup {NoJob}]
          /\ outcome \in [Jobs -> Outcomes]
      BY DEF Init, PoolInit, Outcomes
    <3>4. \A w \in Workers : wjob[w] # NoJob <=> wpc[w] \in {"check", "exec"}
      BY <3>1
    <3>5. closed \in BOOLEAN /\ poolDone \in BOOLEAN /\ restarts \in Nat
      BY DEF Init, PoolInit
    <3> QED BY <3>2, <3>3, <3>4, <3>5, PoolAssumption DEF PoolTypeOK
  <2>2. AuditTypeOK
    <3>1. /\ batch \in [AuditWorkers -> Seq(Entries)]
          /\ writing \in [AuditWorkers -> BOOLEAN]
          /\ attempt \in [AuditWorkers -> 0 .. MaxRetries]
          /\ stored \in [Entries -> Nat]
      BY AuditAssumption DEF Init, AuditInit
    <3>2. \A a \in AuditWorkers : ~writing[a] /\ Len(batch[a]) = 0 /\ attempt[a] = 0
      BY DEF Init, AuditInit
    <3>3. auditCh \in Seq(Entries) /\ Len(auditCh) = 0
      BY DEF Init, AuditInit
    <3> QED BY <3>1, <3>2, <3>3, AuditAssumption DEF Init, AuditInit, AuditTypeOK
  <2> QED BY <2>1, <2>2 DEF Init, TypeOK, Phases
<1>2. TypeOK /\ [Next]_vars => TypeOK'
  <2> SUFFICES ASSUME TypeOK, [Next]_vars PROVE TypeOK'
    OBVIOUS
  <2>1. PoolTypeOK' /\ AuditTypeOK'
    BY StepsOfComponents, PoolTypeStep, AuditTypeStep DEF TypeOK
  <2>2. phase' \in Phases /\ httpOpen' \in BOOLEAN /\ expired' \in BOOLEAN
    BY DEF TypeOK, Phases, Next, vars, serverVars, RequestJob, RequestAudit,
       WorkerStep, Answer, Panic, AuditStep, Signal, Expire, Shutdown, StopHTTP,
       DrainCloses, DrainReturns, Cancel, Flush, CloseDatabase, Exit, Stopped
  <2> QED BY <2>1, <2>2 DEF TypeOK
<1> QED BY <1>1, <1>2, PTL DEF Spec
-----------------------------------------------------------------------------
(* The order of the shutdown.                                              *)

\* What the phase says of the pool.  The first part is the strengthening the
\* others need: a goroutine ends only under a cancelled context, which is
\* cancelled only after Drain, so Drain never returns before the deadline.
PhaseInv ==
    /\ PoolNeverShrinks
    /\ poolDone => phase \in {"flush", "db", "exited"}
    /\ closed => phase \notin {"serving", "http", "close"}
    /\ phase \in {"cancel", "flush", "db", "exited"} => expired
    /\ httpOpen /\ phase \notin {"serving", "http"} => expired

LEMMA PhaseStep ==
    ASSUME TypeOK, PhaseInv, [Next]_vars
    PROVE  PhaseInv' /\ (expired => expired')
<1> USE DEF TypeOK, PoolTypeOK, PhaseInv, PoolNeverShrinks
<1>1. ASSUME NEW j \in Jobs, RequestJob(j)
      PROVE  PhaseInv' /\ (expired => expired')
  BY <1>1 DEF RequestJob, Enqueue, serverVars
<1>2. ASSUME NEW e \in Entries, RequestAudit(e)
      PROVE  PhaseInv' /\ (expired => expired')
  BY <1>2 DEF RequestAudit, serverVars, poolVars
<1>3. ASSUME NEW w \in Workers, WorkerStep(w)
      PROVE  PhaseInv' /\ (expired => expired')
  <2>1. UNCHANGED <<closed, poolDone, phase, httpOpen, expired>>
    BY <1>3 DEF WorkerStep, Answer, Panic, Receive, RangeEnds, CheckContext, Restart,
       ExecuteAnswers, ExecutePanics, ExecutePanicsTwice, serverVars
  <2>2. ~poolDone => \A v \in Workers : wpc'[v] # "gone"
    BY <1>3 DEF WorkerStep, Answer, Panic, Receive, RangeEnds, CheckContext, Restart,
       ExecuteAnswers, ExecutePanics, ExecutePanicsTwice, Settle
  <2> QED BY <2>1, <2>2
<1>4. ASSUME NEW a \in AuditWorkers, AuditStep(a)
      PROVE  PhaseInv' /\ (expired => expired')
  BY <1>4 DEF AuditStep, serverVars, poolVars
<1>5. CASE Signal \/ Expire
  BY <1>5 DEF Signal, Expire, poolVars
<1>6. CASE StopHTTP \/ DrainCloses
  BY <1>6 DEF StopHTTP, DrainCloses, CloseQueue, poolVars
<1>7. CASE DrainReturns
  <2>1. ~AllGone
    BY <1>7, PoolAssumption DEF DrainReturns, AllGone
  <2>2. expired
    BY <1>7, <2>1 DEF DrainReturns, WaitOver
  <2> QED BY <1>7, <2>2 DEF DrainReturns, poolVars
<1>8. CASE Cancel
  BY <1>8 DEF Cancel, PoolCancel
<1>9. CASE Flush \/ CloseDatabase \/ Exit
  BY <1>9 DEF Flush, CloseDatabase, Exit, poolVars, serverVars
<1>10. CASE Stopped \/ UNCHANGED vars
  BY <1>10 DEF Stopped, vars, poolVars, serverVars
<1> QED BY <1>1, <1>2, <1>3, <1>4, <1>5, <1>6, <1>7, <1>8, <1>9, <1>10
        DEF Next, Shutdown

LEMMA PhaseInvariant == Spec => []PhaseInv
<1>1. Init => PhaseInv
  BY DEF Init, PoolInit, PhaseInv, PoolNeverShrinks
<1>2. TypeOK /\ PhaseInv /\ [Next]_vars => PhaseInv'
  BY PhaseStep
<1> QED BY <1>1, <1>2, LifecycleTypeCorrect, PTL DEF Spec

\* PoolNeverShrinks holds for any number of workers and of panicking jobs.
THEOREM WorkersSurvive == Spec => []PoolNeverShrinks
<1>1. PhaseInv => PoolNeverShrinks
  BY DEF PhaseInv
<1> QED BY <1>1, PhaseInvariant, PTL

\* CutOffOnlyAfterDeadline holds for any number of jobs and workers: no job
\* is thrown away and no requester panics while the shutdown has time left.
THEOREM NoEarlyCutOff == Spec => []CutOffOnlyAfterDeadline
<1>1. Init => CutOffOnlyAfterDeadline
  BY DEF Init, PoolInit, CutOffOnlyAfterDeadline
<1>2. TypeOK /\ PhaseInv /\ CutOffOnlyAfterDeadline /\ [Next]_vars
        => CutOffOnlyAfterDeadline'
  <2> SUFFICES ASSUME TypeOK, PhaseInv, CutOffOnlyAfterDeadline, [Next]_vars,
                      NEW k \in Jobs, outcome'[k] \in {"discarded", "panicked"}
               PROVE  expired'
    BY DEF CutOffOnlyAfterDeadline
  <2>1. expired => expired'
    BY PhaseStep
  <2>2. CASE outcome[k] \in {"discarded", "panicked"}
    BY <2>1, <2>2 DEF CutOffOnlyAfterDeadline
  <2>3. CASE outcome'[k] # outcome[k]
    <3>1. CASE \E j \in Jobs : RequestJob(j)
      <4>1. PICK j \in Jobs : RequestJob(j)
        BY <3>1
      <4>2. k = j /\ closed /\ httpOpen
        BY <2>3, <4>1 DEF RequestJob, Enqueue, TypeOK, PoolTypeOK
      <4> QED BY <2>1, <4>2 DEF PhaseInv
    <3>2. CASE \E w \in Workers : WorkerStep(w)
      <4>1. PICK w \in Workers : WorkerStep(w)
        BY <3>2
      <4>2. poolDone
        BY <2>3, <4>1 DEF WorkerStep, Answer, Panic, Receive, RangeEnds, CheckContext,
           Restart, ExecuteAnswers, ExecutePanics, ExecutePanicsTwice, Settle,
           TypeOK, PoolTypeOK
      <4> QED BY <2>1, <4>2 DEF PhaseInv
    <3>3. CASE outcome' = outcome
      BY <2>3, <3>3
    <3> QED BY <3>1, <3>2, <3>3 DEF Next, RequestAudit, AuditStep, Signal, Expire,
        Shutdown, StopHTTP, DrainCloses, CloseQueue, DrainReturns, Cancel, PoolCancel,
        Flush, CloseDatabase, Exit, Stopped, vars, poolVars
  <2> QED BY <2>2, <2>3
<1> QED BY <1>1, <1>2, LifecycleTypeCorrect, PhaseInvariant, PTL DEF Spec
-----------------------------------------------------------------------------
(* Audit entries are neither lost without notice nor written twice.        *)

LEMMA AppendOne ==
    ASSUME NEW S, NEW s \in Seq(S), NEW x \in S
    PROVE  /\ \A y : In(y, Append(s, x)) <=> In(y, s) \/ y = x
           /\ Distinct(s) /\ ~In(x, s) => Distinct(Append(s, x))
<1>1. /\ Len(Append(s, x)) = Len(s) + 1 /\ Len(s) \in Nat
      /\ Append(s, x)[Len(s) + 1] = x
      /\ \A n \in 1 .. Len(s) : Append(s, x)[n] = s[n]
  OBVIOUS
<1> QED BY <1>1 DEF In, Distinct

LEMMA TakeFirst ==
    ASSUME NEW S, NEW s \in Seq(S), s # <<>>, Distinct(s)
    PROVE  /\ \A y : In(y, Tail(s)) <=> In(y, s) /\ y # Head(s)
           /\ Distinct(Tail(s))
           /\ In(Head(s), s)
<1>1. /\ Len(s) \in Nat \ {0} /\ Head(s) = s[1]
      /\ Len(Tail(s)) = Len(s) - 1
      /\ \A n \in 1 .. Len(Tail(s)) : Tail(s)[n] = s[n + 1]
  OBVIOUS
<1>2. \A n \in 1 .. Len(Tail(s)) : n + 1 \in 1 .. Len(s) /\ n + 1 # 1
  BY <1>1
<1>3. Distinct(Tail(s))
  <2> SUFFICES ASSUME NEW m \in 1 .. Len(Tail(s)), NEW n \in 1 .. Len(Tail(s)), m # n
               PROVE  s[m + 1] # s[n + 1]
    BY <1>1 DEF Distinct
  <2>1. m + 1 # n + 1
    BY <1>1
  <2> QED BY <1>2, <2>1 DEF Distinct
<1>4. In(Head(s), s)
  BY <1>1 DEF In
<1>5. ASSUME NEW y, In(y, Tail(s))
      PROVE  In(y, s) /\ y # Head(s)
  BY <1>1, <1>2, <1>5 DEF In, Distinct
<1>6. ASSUME NEW y, In(y, s), y # Head(s)
      PROVE  In(y, Tail(s))
  <2>1. PICK n \in 1 .. Len(s) : s[n] = y
    BY <1>6 DEF In
  <2>2. n # 1
    BY <1>1, <1>6, <2>1
  <2>3. n - 1 \in 1 .. Len(Tail(s)) /\ Tail(s)[n - 1] = y
    BY <1>1, <2>1, <2>2
  <2> QED BY <2>3 DEF In
<1> QED BY <1>3, <1>4, <1>5, <1>6

LEMMA EntryPlaceStep ==
    ASSUME AuditTypeOK, EntryInOnePlace, AuditMove
    PROVE  EntryInOnePlace'
<1> USE DEF AuditTypeOK
<1>1. ASSUME NEW e \in Entries, AuditWrite(e)
      PROVE  EntryInOnePlace'
  <2>1. ~Waiting(e) /\ stored[e] = 0 /\ e \notin missed
    BY <1>1 DEF AuditWrite, EntryInOnePlace
  <2>2. UNCHANGED <<batch, stored>> /\ written' = written \cup {e}
    BY <1>1 DEF AuditWrite
  <2>3. CASE auditCh' = Append(auditCh, e) /\ missed' = missed
    <3>1. /\ \A y : In(y, auditCh') <=> In(y, auditCh) \/ y = e
          /\ Distinct(auditCh')
      BY <2>1, <2>3, AppendOne DEF Waiting, EntryInOnePlace
    <3> QED BY <2>1, <2>2, <2>3, <3>1 DEF Waiting, EntryInOnePlace
  <2>4. CASE auditCh' = auditCh /\ missed' = missed \cup {e}
    BY <2>1, <2>2, <2>4 DEF Waiting, EntryInOnePlace
  <2> QED BY <1>1, <2>3, <2>4 DEF AuditWrite
<1>2. ASSUME NEW a \in AuditWorkers, TakeEntry(a)
      PROVE  EntryInOnePlace'
  <2> DEFINE e == Head(auditCh)
  <2>1. /\ auditCh # <<>> /\ auditCh' = Tail(auditCh) /\ e \in Entries
        /\ batch' = [batch EXCEPT ![a] = Append(batch[a], e)]
        /\ UNCHANGED <<stored, written, missed>>
    BY <1>2 DEF TakeEntry
  <2>2. /\ \A y : In(y, auditCh') <=> In(y, auditCh) /\ y # e
        /\ Distinct(auditCh') /\ In(e, auditCh)
    BY <2>1, TakeFirst DEF EntryInOnePlace
  <2>3. \A b \in AuditWorkers : ~In(e, batch[b])
    BY <2>1, <2>2 DEF EntryInOnePlace
  <2>4. /\ \A y : In(y, batch'[a]) <=> In(y, batch[a]) \/ y = e
        /\ Distinct(batch'[a])
    BY <2>1, <2>3, AppendOne DEF EntryInOnePlace
  <2>5. \A b \in AuditWorkers : b # a => batch'[b] = batch[b]
    BY <2>1
  <2> HIDE DEF e, AuditTypeOK
  <2>6. \A y \in Entries : Waiting(y)' <=> Waiting(y)
    BY <2>2, <2>4, <2>5 DEF Waiting
  <2>7. \A b, c \in AuditWorkers : \A y \in Entries :
            b # c => ~(In(y, batch'[b]) /\ In(y, batch'[c]))
    BY <2>3, <2>4, <2>5 DEF EntryInOnePlace
  <2>8. \A b \in AuditWorkers : \A y \in Entries : ~(In(y, auditCh') /\ In(y, batch'[b]))
    BY <2>2, <2>4, <2>5 DEF EntryInOnePlace
  <2>9. \A b \in AuditWorkers : Distinct(batch'[b])
    BY <2>4, <2>5 DEF EntryInOnePlace
  <2> QED BY <2>1, <2>2, <2>6, <2>7, <2>8, <2>9 DEF EntryInOnePlace
<1>3. ASSUME NEW a \in AuditWorkers, ClearBatch(a),
             \/ StoreBatch(a) /\ missed' = missed
             \/ GiveUpBatch(a) /\ stored' = stored
      PROVE  EntryInOnePlace'
  <2>1. /\ UNCHANGED <<auditCh, written>>
        /\ batch' = [batch EXCEPT ![a] = <<>>]
    BY <1>3 DEF ClearBatch
  <2>2. batch'[a] = <<>> /\ \A b \in AuditWorkers : b # a => batch'[b] = batch[b]
    BY <2>1
  <2>3. (\A y : ~In(y, batch'[a])) /\ Distinct(batch'[a])
    BY <2>2 DEF In, Distinct
  <2>4. \A y \in Entries : Waiting(y)' <=> Waiting(y) /\ ~In(y, batch[a])
    BY <2>1, <2>2, <2>3 DEF Waiting, EntryInOnePlace
  <2>5. \A y \in Entries : In(y, batch[a]) => Waiting(y) /\ stored[y] = 0 /\ y \notin missed
    BY DEF Waiting, EntryInOnePlace
  <2>6. \A y \in Entries :
            \/ /\ ~In(y, batch[a]) /\ stored'[y] = stored[y]
               /\ (y \in missed' <=> y \in missed)
            \/ /\ In(y, batch[a])
               /\ \/ stored'[y] = 1 /\ y \notin missed'
                  \/ stored'[y] = 0 /\ y \in missed'
    BY <1>3, <2>5 DEF StoreBatch, GiveUpBatch
  <2>7. \A y \in Entries : Waiting(y)' => stored'[y] = 0 /\ y \notin missed'
    BY <2>4, <2>6 DEF EntryInOnePlace
  <2>8. \A y \in Entries : stored'[y] <= 1 /\ (stored'[y] = 1 => y \notin missed')
    <3>1. \A y \in Entries : stored[y] <= 1 /\ (stored[y] = 1 => y \notin missed)
      BY DEF EntryInOnePlace
    <3> HIDE DEF AuditTypeOK
    <3> SUFFICES ASSUME NEW y \in Entries
                 PROVE  stored'[y] <= 1 /\ (stored'[y] = 1 => y \notin missed')
      OBVIOUS
    <3>2. CASE In(y, batch[a])
      BY <2>6, <3>2
    <3>3. CASE ~In(y, batch[a])
      BY <2>6, <3>1, <3>3
    <3> QED BY <3>2, <3>3
  <2>9. \A y \in Entries :
            y \in written' <=> Waiting(y)' \/ stored'[y] = 1 \/ y \in missed'
    BY <2>1, <2>4, <2>5, <2>6 DEF EntryInOnePlace
  <2>10. /\ \A b, c \in AuditWorkers : \A y \in Entries :
               b # c => ~(In(y, batch'[b]) /\ In(y, batch'[c]))
         /\ \A b \in AuditWorkers : \A y \in Entries :
               ~(In(y, auditCh') /\ In(y, batch'[b]))
         /\ \A b \in AuditWorkers : Distinct(batch'[b])
    BY <2>1, <2>2, <2>3 DEF EntryInOnePlace
  <2>11. Distinct(auditCh')
    BY <2>1 DEF EntryInOnePlace
  <2> QED BY <2>7, <2>8, <2>9, <2>10, <2>11 DEF EntryInOnePlace
<1>4. ASSUME NEW a \in AuditWorkers, InsertBatch(a) \/ InsertErrs(a) \/ WritePanics(a)
      PROVE  EntryInOnePlace' \/ UNCHANGED <<auditCh, batch, stored, written, missed>>
  BY <1>3, <1>4 DEF InsertBatch, InsertErrs, WritePanics
<1>5. CASE UNCHANGED <<auditCh, batch, stored, written, missed>>
  BY <1>5 DEF EntryInOnePlace, Waiting
<1> QED BY <1>1, <1>2, <1>4, <1>5 DEF AuditMove, TimerFires, CloseDB, auditVars

\* EntryInOnePlace holds for any number of entries, audit workers, batch
\* size and retries.
THEOREM EntriesAreConserved == Spec => []EntryInOnePlace
<1>1. Init => EntryInOnePlace
  BY DEF Init, AuditInit, EntryInOnePlace, Distinct, In, Waiting
<1>2. TypeOK /\ EntryInOnePlace /\ [Next]_vars => EntryInOnePlace'
  BY StepsOfComponents, EntryPlaceStep DEF TypeOK
<1> QED BY <1>1, <1>2, LifecycleTypeCorrect, PTL DEF Spec
=============================================================================
