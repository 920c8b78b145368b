SPECIFICATION FairSpec
CONSTANTS
    j1 = j1
    j2 = j2
    e1 = e1
    Jobs <- MCJobs
    Entries <- MCEntries
    Poisoned <- MCPoisoned
    Workers = {w1, w2}
    AuditWorkers = {a1}
    QueueSize = 1
    AuditQueueSize = 1
    BatchSize = 2
    MaxRetries = 1
    NoJob = NoJob
INVARIANTS CutOffOnlyAfterDeadline EntryInOnePlace
PROPERTIES AcceptedJobsSettle AuditEntriesSettle ShutdownEnds
