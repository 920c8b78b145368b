----------------------------- MODULE WorkerPool -----------------------------
(***************************************************************************)
(* The validation worker pool (internal/worker): a bounded queue of jobs   *)
(* and a fixed number of goroutines.  Each goroutine runs a worker in a    *)
(* loop: the worker ranges over the queue, and when it returns or panics   *)
(* the goroutine starts another one, until the pool's context is cancelled.*)
(*                                                                         *)
(* The steps of a goroutine, wpc: recv (waiting in range), check (the      *)
(* context is looked at), exec (the job runs), exit (run has returned or   *)
(* panicked) and gone.                                                     *)
(***************************************************************************)
EXTENDS Naturals, Sequences

CONSTANTS
    Jobs,        \* validation jobs
    Workers,     \* goroutines of the pool
    QueueSize,   \* capacity of the queue
    Poisoned,    \* jobs whose requester has closed the result channel
    NoJob

ASSUME PoolAssumption ==
    /\ QueueSize \in Nat \ {0}
    /\ Workers # {}
    /\ Poisoned \subseteq Jobs
    /\ NoJob \notin Jobs

VARIABLES
    queue,      \* Pool.queue
    closed,     \* the queue is closed
    poolDone,   \* the context of Start is cancelled
    wpc,        \* wpc[w]: the next step of goroutine w
    wjob,       \* wjob[w]: the job in its hands
    outcome,    \* outcome[j]: what became of job j
    restarts    \* Pool.restarts

poolVars == <<queue, closed, poolDone, wpc, wjob, outcome, restarts>>

Outcomes == {"new", "rejected", "panicked", "queued", "running",
             "answered", "internal_error", "lost", "discarded"}

PoolTypeOK ==
    /\ queue \in Seq(Jobs) /\ Len(queue) <= QueueSize
    /\ closed \in BOOLEAN
    /\ poolDone \in BOOLEAN
    /\ wpc \in [Workers -> {"recv", "check", "exec", "exit", "gone"}]
    /\ wjob \in [Workers -> Jobs \cup {NoJob}]
    /\ \A w \in Workers : wjob[w] # NoJob <=> wpc[w] \in {"check", "exec"}
    /\ outcome \in [Jobs -> Outcomes]
    /\ restarts \in Nat

PoolInit ==
    /\ queue = <<>>
    /\ closed = FALSE
    /\ poolDone = FALSE
    /\ wpc = [w \in Workers |-> "recv"]
    /\ wjob = [w \in Workers |-> NoJob]
    /\ outcome = [j \in Jobs |-> "new"]
    /\ restarts = 0

-----------------------------------------------------------------------------
\* Enqueue never blocks: a full queue rejects the job, and sending on a
\* closed queue panics in the requester.
Enqueue(j) ==
    /\ outcome[j] = "new"
    /\ \/ /\ closed
          /\ outcome' = [outcome EXCEPT ![j] = "panicked"]
          /\ UNCHANGED queue
       \/ /\ ~closed
          /\ Len(queue) < QueueSize
          /\ queue' = Append(queue, j)
          /\ outcome' = [outcome EXCEPT ![j] = "queued"]
       \/ /\ ~closed
          /\ Len(queue) >= QueueSize
          /\ outcome' = [outcome EXCEPT ![j] = "rejected"]
          /\ UNCHANGED queue
    /\ UNCHANGED <<closed, poolDone, wpc, wjob, restarts>>

\* for job := range w.queue; a closed queue still hands out what it holds.
Receive(w) ==
    /\ wpc[w] = "recv"
    /\ queue # <<>>
    /\ wjob' = [wjob EXCEPT ![w] = Head(queue)]
    /\ queue' = Tail(queue)
    /\ outcome' = [outcome EXCEPT ![Head(queue)] = "running"]
    /\ wpc' = [wpc EXCEPT ![w] = "check"]
    /\ UNCHANGED <<closed, poolDone, restarts>>

RangeEnds(w) ==
    /\ wpc[w] = "recv"
    /\ closed
    /\ queue = <<>>
    /\ wpc' = [wpc EXCEPT ![w] = "exit"]
    /\ UNCHANGED <<queue, closed, poolDone, wjob, outcome, restarts>>

\* The worker is done with its job.
Settle(w, result, next) ==
    /\ outcome' = [outcome EXCEPT ![wjob[w]] = result]
    /\ wjob' = [wjob EXCEPT ![w] = NoJob]
    /\ wpc' = [wpc EXCEPT ![w] = next]

\* After a cancellation the job just received is thrown away, unanswered.
CheckContext(w) ==
    /\ wpc[w] = "check"
    /\ IF poolDone
       THEN Settle(w, "discarded", "exit")
       ELSE wpc' = [wpc EXCEPT ![w] = "exec"] /\ UNCHANGED <<wjob, outcome>>
    /\ UNCHANGED <<queue, closed, poolDone, restarts>>

\* Execute ends: an answer (a verdict or the error of the job's timeout), or
\* a panic, which safeProcess answers with internal_error.
ExecuteAnswers(w) ==
    /\ wpc[w] = "exec"
    /\ wjob[w] \notin Poisoned
    /\ Settle(w, "answered", "recv")
    /\ UNCHANGED <<queue, closed, poolDone, restarts>>

ExecutePanics(w) ==
    /\ wpc[w] = "exec"
    /\ wjob[w] \notin Poisoned
    /\ Settle(w, "internal_error", "recv")
    /\ UNCHANGED <<queue, closed, poolDone, restarts>>

\* Slip: the result is sent without a default, and the worker waits for a
\* requester that has gone.
ExecutePanicsTwice_Blocks(w) ==
    /\ wpc[w] = "exec"
    /\ wjob[w] \in Poisoned
    /\ UNCHANGED <<queue, closed, poolDone, wpc, wjob, outcome, restarts>>

\* Sending on a closed result channel panics, in the deferred handler too,
\* so the panic leaves run and is recovered by the loop of Start.
ExecutePanicsTwice(w) ==
    /\ wpc[w] = "exec"
    /\ wjob[w] \in Poisoned
    /\ Settle(w, "lost", "exit")
    /\ restarts' = restarts + 1
    /\ UNCHANGED <<queue, closed, poolDone>>

\* The loop of Start: only the context ends it, never a closed queue.
Restart(w) ==
    /\ wpc[w] = "exit"
    /\ wpc' = [wpc EXCEPT ![w] = IF poolDone THEN "gone" ELSE "recv"]
    /\ UNCHANGED <<queue, closed, poolDone, wjob, outcome, restarts>>

\* The part of Drain that closes the queue (once), and poolCancel.
CloseQueue ==
    /\ closed' = TRUE
    /\ UNCHANGED <<queue, poolDone, wpc, wjob, outcome, restarts>>

PoolCancel ==
    /\ poolDone' = TRUE
    /\ UNCHANGED <<queue, closed, wpc, wjob, outcome, restarts>>

\* p.wg.Wait() returns.
AllGone == \A w \in Workers : wpc[w] = "gone"
=============================================================================
