---------------------------- MODULE AuditPipeline ----------------------------
(***************************************************************************)
(* The audit trail (internal/infrastructure/audit and db/audit_writer.go): *)
(* a bounded channel that is written without blocking, workers that gather *)
(* entries into batches, and one INSERT per batch.  The server never       *)
(* closes the channel and never cancels the workers' context, so the exits *)
(* of Worker.run are not steps of the system.                              *)
(***************************************************************************)
EXTENDS Naturals, Sequences

CONSTANTS
    Entries,          \* audit entries
    AuditWorkers,     \* goroutines of audit.Worker
    AuditQueueSize,   \* capacity of the channel
    BatchSize,        \* auditBatchSize
    MaxRetries        \* AUDIT_RETRY_COUNT

ASSUME AuditAssumption ==
    /\ AuditQueueSize \in Nat \ {0}
    /\ BatchSize \in Nat \ {0}
    /\ MaxRetries \in Nat

VARIABLES
    auditCh,   \* the channel
    batch,     \* batch[a]: the batch of worker a
    writing,   \* writing[a]: a is in writeBatchWithRetry
    attempt,   \* attempt[a]: its attempts at the batch that failed
    stored,    \* stored[e]: how many rows of audit_log e has
    written,   \* the entries that were offered to the channel
    missed,    \* the entries given up: channel full, INSERT failed or panics
    dbOpen     \* the connection pool is open

auditVars == <<auditCh, batch, writing, attempt, stored, written, missed, dbOpen>>

AuditTypeOK ==
    /\ auditCh \in Seq(Entries) /\ Len(auditCh) <= AuditQueueSize
    /\ batch \in [AuditWorkers -> Seq(Entries)]
    /\ writing \in [AuditWorkers -> BOOLEAN]
    /\ attempt \in [AuditWorkers -> 0 .. MaxRetries]
    /\ \A a \in AuditWorkers :
          IF writing[a] THEN Len(batch[a]) \in 1 .. BatchSize
                        ELSE Len(batch[a]) < BatchSize /\ attempt[a] = 0
    /\ stored \in [Entries -> Nat]
    /\ written \in SUBSET Entries
    /\ missed \in SUBSET Entries
    /\ dbOpen \in BOOLEAN

AuditInit ==
    /\ auditCh = <<>>
    /\ batch = [a \in AuditWorkers |-> <<>>]
    /\ writing = [a \in AuditWorkers |-> FALSE]
    /\ attempt = [a \in AuditWorkers |-> 0]
    /\ stored = [e \in Entries |-> 0]
    /\ written = {}
    /\ missed = {}
    /\ dbOpen = TRUE

In(e, s) == \E n \in 1 .. Len(s) : s[n] = e

Distinct(s) == \A m, n \in 1 .. Len(s) : m # n => s[m] # s[n]

-----------------------------------------------------------------------------
\* AsyncWriter.Write and validationService.auditOutcome: a full channel
\* drops the entry.
AuditWrite(e) ==
    /\ e \notin written
    /\ written' = written \cup {e}
    /\ IF Len(auditCh) < AuditQueueSize
       THEN auditCh' = Append(auditCh, e) /\ UNCHANGED missed
       ELSE missed' = missed \cup {e} /\ UNCHANGED auditCh
    /\ UNCHANGED <<batch, writing, attempt, stored, dbOpen>>

\* Worker.run takes an entry; a full batch is written at once.
TakeEntry(a) ==
    /\ ~writing[a]
    /\ auditCh # <<>>
    /\ auditCh' = Tail(auditCh)
    /\ batch' = [batch EXCEPT ![a] = Append(@, Head(auditCh))]
    /\ writing' = [writing EXCEPT ![a] = Len(batch[a]) + 1 >= BatchSize]
    /\ UNCHANGED <<attempt, stored, written, missed, dbOpen>>

\* Slip: the timer is not reset, only full batches are written.
TimerFires_NotReset(a) ==
    /\ ~writing[a]
    /\ Len(batch[a]) >= BatchSize
    /\ writing' = [writing EXCEPT ![a] = TRUE]
    /\ UNCHANGED <<auditCh, batch, attempt, stored, written, missed, dbOpen>>

\* The batch timer fires.
TimerFires(a) ==
    /\ ~writing[a]
    /\ batch[a] # <<>>
    /\ writing' = [writing EXCEPT ![a] = TRUE]
    /\ UNCHANGED <<auditCh, batch, attempt, stored, written, missed, dbOpen>>

\* writeBatchWithRetry returns: batch = batch[:0].
ClearBatch(a) ==
    /\ batch' = [batch EXCEPT ![a] = <<>>]
    /\ writing' = [writing EXCEPT ![a] = FALSE]
    /\ attempt' = [attempt EXCEPT ![a] = 0]
    /\ UNCHANGED <<auditCh, written, dbOpen>>

StoreBatch(a) ==
    stored' = [e \in Entries |-> IF In(e, batch[a]) THEN stored[e] + 1 ELSE stored[e]]

GiveUpBatch(a) == missed' = missed \cup {e \in Entries : In(e, batch[a])}

InsertBatch(a) ==
    /\ writing[a]
    /\ dbOpen
    /\ StoreBatch(a)
    /\ ClearBatch(a)
    /\ UNCHANGED missed

\* Slip: a failed INSERT is tried again.
InsertErrs_Retried(a) ==
    /\ writing[a]
    /\ attempt[a] < MaxRetries
    /\ attempt' = [attempt EXCEPT ![a] = @ + 1]
    /\ StoreBatch(a) \/ UNCHANGED stored
    /\ UNCHANGED <<auditCh, batch, writing, written, missed, dbOpen>>

\* The INSERT errs, after it took effect (its answer was lost) or before.
\* WriteBatch logs the error and safeWriteBatch reports success, so the
\* batch is given up without a retry.
InsertErrs(a) ==
    /\ writing[a]
    /\ \/ dbOpen /\ StoreBatch(a) /\ UNCHANGED missed
       \/ GiveUpBatch(a) /\ UNCHANGED stored
    /\ ClearBatch(a)

\* The writer panics: the one failure that is retried, MaxRetries times
\* (never when AUDIT_RETRY_DELAY is 0: then MaxRetries stands for 0).
WritePanics(a) ==
    /\ writing[a]
    /\ UNCHANGED stored
    /\ \/ /\ attempt[a] < MaxRetries
          /\ attempt' = [attempt EXCEPT ![a] = @ + 1]
          /\ UNCHANGED <<auditCh, batch, writing, written, missed, dbOpen>>
       \/ /\ attempt[a] >= MaxRetries
          /\ GiveUpBatch(a)
          /\ ClearBatch(a)

\* s.db.Close()
CloseDB ==
    /\ dbOpen' = FALSE
    /\ UNCHANGED <<auditCh, batch, writing, attempt, stored, written, missed>>
=============================================================================
