--------------------------- MODULE ServerLifecycle ---------------------------
(***************************************************************************)
(* Serving and the ordered shutdown of cmd/server/main.go and              *)
(* server.Shutdown, over the worker pool and the audit trail.  Handlers    *)
(* enqueue validation jobs and write audit entries; a job's validation     *)
(* pushes one audit entry, named by the job itself.  On a signal, Shutdown *)
(* runs its five phases in order under one deadline (shutdownCtx).         *)
(***************************************************************************)
EXTENDS WorkerPool, AuditPipeline

ASSUME LifecycleAssumption == Jobs \subseteq Entries

VARIABLES
    phase,      \* where main and Shutdown are
    httpOpen,   \* a handler may still be running
    expired     \* shutdownCtx is done

serverVars == <<phase, httpOpen, expired>>
vars == <<poolVars, auditVars, serverVars>>

Phases == {"serving", "http", "close", "drain", "cancel", "flush", "db", "exited"}

TypeOK ==
    /\ PoolTypeOK
    /\ AuditTypeOK
    /\ phase \in Phases
    /\ httpOpen \in BOOLEAN
    /\ expired \in BOOLEAN

Init ==
    /\ PoolInit
    /\ AuditInit
    /\ phase = "serving"
    /\ httpOpen = TRUE
    /\ expired = FALSE

Alive == phase # "exited"

-----------------------------------------------------------------------------
(* Handlers.                                                               *)

RequestJob(j) ==
    /\ Alive /\ httpOpen
    /\ Enqueue(j)
    /\ UNCHANGED <<auditVars, serverVars>>

RequestAudit(e) ==
    /\ Alive /\ httpOpen
    /\ e \notin Jobs
    /\ AuditWrite(e)
    /\ UNCHANGED <<poolVars, serverVars>>

-----------------------------------------------------------------------------
(* The goroutines of the pool.                                             *)

\* Validate audits every verdict before it returns.
Answer(w) ==
    /\ Alive
    /\ ExecuteAnswers(w)
    /\ AuditWrite(wjob[w])
    /\ UNCHANGED serverVars

\* A panic may come before the audit entry or after it.
Panic(w) ==
    /\ Alive
    /\ ExecutePanics(w) \/ ExecutePanicsTwice(w)
    /\ AuditWrite(wjob[w]) \/ UNCHANGED auditVars
    /\ UNCHANGED serverVars

WorkerStep(w) ==
    \/ Answer(w)
    \/ Panic(w)
    \/ /\ Alive
       /\ Receive(w) \/ RangeEnds(w) \/ CheckContext(w) \/ Restart(w)
       /\ UNCHANGED <<auditVars, serverVars>>

AuditStep(a) ==
    /\ Alive
    /\ \/ TakeEntry(a)
       \/ TimerFires(a)
       \/ InsertBatch(a)
       \/ InsertErrs(a)
       \/ WritePanics(a)
    /\ UNCHANGED <<poolVars, serverVars>>

-----------------------------------------------------------------------------
(* main and Shutdown.                                                      *)

Signal ==
    /\ phase = "serving"
    /\ phase' = "http"
    /\ UNCHANGED <<poolVars, auditVars, httpOpen, expired>>

Expire ==
    /\ phase \notin {"serving", "exited"}
    /\ expired' = TRUE
    /\ UNCHANGED <<poolVars, auditVars, phase, httpOpen>>

\* 1) ShutdownWithContext waits for the open handlers, but no longer than
\* the deadline: past it they are left running.
StopHTTP ==
    /\ phase = "http"
    /\ \/ httpOpen' = FALSE
       \/ expired /\ UNCHANGED httpOpen
    /\ phase' = "close"
    /\ UNCHANGED <<poolVars, auditVars, expired>>

\* 2) Drain
DrainCloses ==
    /\ phase = "close"
    /\ CloseQueue
    /\ phase' = "drain"
    /\ UNCHANGED <<auditVars, httpOpen, expired>>

\* Slip: Drain waits for the workers, however long that takes.
DrainReturns_Never ==
    /\ phase = "drain"
    /\ AllGone
    /\ phase' = "cancel"
    /\ UNCHANGED <<poolVars, auditVars, httpOpen, expired>>

\* Slip: Drain does not wait.
DrainReturns_AtOnce ==
    /\ phase = "drain"
    /\ phase' = "cancel"
    /\ UNCHANGED <<poolVars, auditVars, httpOpen, expired>>

WaitOver == AllGone \/ expired

DrainReturns ==
    /\ phase = "drain"
    /\ WaitOver
    /\ phase' = "cancel"
    /\ UNCHANGED <<poolVars, auditVars, httpOpen, expired>>

\* 3) poolCancel
Cancel ==
    /\ phase = "cancel"
    /\ PoolCancel
    /\ phase' = "flush"
    /\ UNCHANGED <<auditVars, httpOpen, expired>>

\* 4) FlushWithContext has an empty body.
Flush ==
    /\ phase = "flush"
    /\ phase' = "db"
    /\ UNCHANGED <<poolVars, auditVars, httpOpen, expired>>

\* 5) db.Close(), and main returns a little later.
CloseDatabase ==
    /\ phase = "db"
    /\ dbOpen
    /\ CloseDB
    /\ UNCHANGED <<poolVars, serverVars>>

Exit ==
    /\ phase = "db"
    /\ ~dbOpen
    /\ phase' = "exited"
    /\ UNCHANGED <<poolVars, auditVars, httpOpen, expired>>

Shutdown ==
    StopHTTP \/ DrainCloses \/ DrainReturns \/ Cancel \/ Flush \/ CloseDatabase \/ Exit

Stopped == phase = "exited" /\ UNCHANGED vars

Next ==
    \/ \E j \in Jobs : RequestJob(j)
    \/ \E e \in Entries : RequestAudit(e)
    \/ \E w \in Workers : WorkerStep(w)
    \/ \E a \in AuditWorkers : AuditStep(a)
    \/ Signal
    \/ Expire
    \/ Shutdown
    \/ Stopped

Spec == Init /\ [][Next]_vars

\* Goroutines are scheduled, executions end (WORKER_TIMEOUT), an INSERT
\* returns, Shutdown goes on; no signal need come and no request.
FairGoroutines ==
    /\ \A w \in Workers : WF_vars(WorkerStep(w))
    /\ \A a \in AuditWorkers : WF_vars(AuditStep(a))
    /\ WF_vars(Shutdown)

FairSpec == Spec /\ FairGoroutines /\ WF_vars(Expire)

\* The same without the deadline, which is then only something that may come.
UntimedSpec == Spec /\ FairGoroutines

-----------------------------------------------------------------------------
(* Safety.                                                                 *)

\* However often jobs panic, and while the closed queue drains, no goroutine
\* of the pool ends before the pool is cancelled.
PoolNeverShrinks == ~poolDone => \A w \in Workers : wpc[w] # "gone"

\* A job is thrown away unanswered, or a requester panics on the closed
\* queue, only when the deadline of the shutdown has passed.
CutOffOnlyAfterDeadline ==
    \A j \in Jobs : outcome[j] \in {"discarded", "panicked"} => expired

Waiting(e) == In(e, auditCh) \/ \E a \in AuditWorkers : In(e, batch[a])

\* An audit entry offered to the channel is in one place: one position of the
\* channel or of one batch, or one row, or given up; never twice in the log,
\* whatever fails or is retried.
EntryInOnePlace ==
    /\ Distinct(auditCh)
    /\ \A a \in AuditWorkers : Distinct(batch[a])
    /\ \A a, b \in AuditWorkers : \A e \in Entries :
          a # b => ~(In(e, batch[a]) /\ In(e, batch[b]))
    /\ \A a \in AuditWorkers : \A e \in Entries :
          ~(In(e, auditCh) /\ In(e, batch[a]))
    /\ \A e \in Entries : Waiting(e) => stored[e] = 0 /\ e \notin missed
    /\ \A e \in Entries : stored[e] <= 1 /\ (stored[e] = 1 => e \notin missed)
    /\ \A e \in Entries :
          e \in written <=> Waiting(e) \/ stored[e] = 1 \/ e \in missed

-----------------------------------------------------------------------------
(* Liveness.                                                               *)

\* Every job the pool accepted is settled, by an answer, an error or a cut
\* off, unless the process ends first.
AcceptedJobsSettle ==
    \A j \in Jobs :
        outcome[j] \in {"queued", "running"}
            ~> outcome[j] \notin {"queued", "running"} \/ phase = "exited"

\* Every entry the channel took is written or given up, unless the process
\* ends first.
AuditEntriesSettle ==
    \A e \in Entries : Waiting(e) ~> ~Waiting(e) \/ phase = "exited"

\* After a signal the process ends, whatever the workers do.
ShutdownEnds == phase = "http" ~> phase = "exited"

-----------------------------------------------------------------------------
(* What the documentation says and the code does not do.                   *)

\* "Wait for worker pool to drain": Drain's wait ends because the workers
\* are gone, without the deadline having to pass.
PoolDrains == phase = "drain" ~> AllGone \/ expired

\* "Flush audit log buffer": at exit no entry is left in the channel or in a
\* batch.
AuditFlushed == phase = "exited" => \A e \in Entries : ~Waiting(e)
=============================================================================
