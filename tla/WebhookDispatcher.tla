------------------------- MODULE WebhookDispatcher -------------------------
(***************************************************************************)
(* internal/webhook/dispatcher.go: events fan out to the webhooks loaded at *)
(* start, through a bounded queue, to one goroutine that delivers; failed   *)
(* deliveries come back to the queue by timer.  A payload is its event, and *)
(* what a receiver is sent is the number of the attempt.                    *)
(***************************************************************************)
EXTENDS Naturals, Sequences

CONSTANTS
    Hooks,
    Events,
    Wants,        \* <<e, h>>: h belongs to the tenant of e and subscribes to it
    Unsendable,   \* deliveries whose size, URL or secret makes deliver give up
    QueueSize,    \* 500
    MaxAttempts,  \* 5
    NoJob

Deliveries == Events \X Hooks
Job == [d : Deliveries, attempt : 1 .. MaxAttempts]

ASSUME WebhookAssumption ==
    /\ Wants \subseteq Deliveries
    /\ Unsendable \subseteq Deliveries
    /\ QueueSize \in Nat
    /\ MaxAttempts \in Nat \ {0}
    /\ NoJob \notin Job

VARIABLES
    table,    \* rows of webhooks
    cache,    \* the webhooks the dispatcher knows
    fanout,   \* fanout[e]: webhooks that Dispatch of e has yet to offer a job
    queue,    \* channel events
    current,  \* the job that deliver has in hand
    timers,   \* jobs waiting for their AfterFunc
    stopped,  \* ctx is cancelled
    ended,    \* loop has returned
    fate,     \* fate[d]: what became of delivery d
    got       \* got[d]: the attempts the receiver has seen

vars == <<table, cache, fanout, queue, current, timers, stopped, ended, fate, got>>

Fates == {"none", "offered", "pending", "delivered", "refused", "gaveUp", "dropped"}

TypeOK ==
    /\ table \in SUBSET Hooks /\ cache \in SUBSET Hooks
    /\ fanout \in [Events -> SUBSET Hooks]
    /\ queue \in Seq(Job) /\ Len(queue) <= QueueSize
    /\ current \in Job \cup {NoJob}
    /\ timers \in SUBSET Job /\ \A j \in timers : j.attempt < MaxAttempts
    /\ stopped \in BOOLEAN /\ ended \in BOOLEAN
    /\ fate \in [Deliveries -> Fates]
    /\ got \in [Deliveries -> Seq(1 .. MaxAttempts)]

\* LoadWebhooks runs once, before the routes are set up; it skips rows that it
\* cannot read, and its failure is only logged.
Init ==
    /\ table \in SUBSET Hooks
    /\ cache \in SUBSET table
    /\ fanout = [e \in Events |-> {}]
    /\ queue = <<>>
    /\ current = NoJob
    /\ timers = {}
    /\ stopped = FALSE /\ ended = FALSE
    /\ fate = [d \in Deliveries |-> "none"]
    /\ got = [d \in Deliveries |-> <<>>]

-----------------------------------------------------------------------------
\* RegisterWebhook writes the row; the dispatcher is not told.
Register(h) ==
    /\ h \notin table
    /\ table' = table \cup {h}
    /\ UNCHANGED <<cache, fanout, queue, current, timers, stopped, ended, fate, got>>

\* Dispatch takes the webhooks of the tenant under the lock; without any, or
\* without an id for the payload, it returns and the event leaves no trace.
Dispatch(e) ==
    /\ \A h \in Hooks : fate[<<e, h>>] = "none"
    /\ fanout' = [fanout EXCEPT ![e] = {h \in cache : <<e, h>> \in Wants}]
    /\ fate' = [d \in Deliveries |->
                   IF d[1] = e /\ d[2] \in cache /\ d \in Wants THEN "offered" ELSE fate[d]]
    /\ UNCHANGED <<table, cache, queue, current, timers, stopped, ended, got>>

Settle(d, f) == fate' = [fate EXCEPT ![d] = f]

\* A send that does not block: a full queue drops the job.
Send(j) ==
    \/ /\ Len(queue) < QueueSize
       /\ queue' = Append(queue, j)
       /\ Settle(j.d, "pending")
    \/ /\ Len(queue) >= QueueSize
       /\ UNCHANGED queue
       /\ Settle(j.d, "dropped")

\* One turn of the loop of Dispatch.
Offer(e, h) ==
    /\ h \in fanout[e]
    /\ fanout' = [fanout EXCEPT ![e] = @ \ {h}]
    /\ Send([d |-> <<e, h>>, attempt |-> 1])
    /\ UNCHANGED <<table, cache, current, timers, stopped, ended, got>>

\* loop: select takes a job although the context may be done.
Take ==
    /\ ~ended /\ current = NoJob
    /\ queue # <<>>
    /\ current' = Head(queue)
    /\ queue' = Tail(queue)
    /\ UNCHANGED <<table, cache, fanout, timers, stopped, ended, fate, got>>

LoopEnds ==
    /\ ~ended /\ current = NoJob
    /\ stopped
    /\ ended' = TRUE
    /\ UNCHANGED <<table, cache, fanout, queue, current, timers, stopped, fate, got>>

\* deliver gives up before it sends anything.
Refuse ==
    /\ current # NoJob
    /\ current.d \in Unsendable
    /\ Settle(current.d, "refused")
    /\ current' = NoJob
    /\ UNCHANGED <<table, cache, fanout, queue, timers, stopped, ended, got>>

Seen == got' = [got EXCEPT ![current.d] = Append(@, current.attempt)]

\* Retries are scheduled until the last attempt.
Again ==
    IF current.attempt < MaxAttempts
    THEN timers' = timers \cup {current} /\ UNCHANGED fate
    ELSE Settle(current.d, "gaveUp") /\ UNCHANGED timers

\* The receiver answers 2xx.
Accepted ==
    /\ current # NoJob
    /\ current.d \notin Unsendable
    /\ ~stopped
    /\ Seen
    /\ Settle(current.d, "delivered")
    /\ current' = NoJob
    /\ UNCHANGED <<table, cache, fanout, queue, timers, stopped, ended>>

\* Slip: the job is kept at hand although its retry is scheduled.
Failed_Kept ==
    /\ current # NoJob
    /\ current.d \notin Unsendable
    /\ Seen \/ UNCHANGED got
    /\ Again
    /\ UNCHANGED <<table, cache, fanout, queue, current, stopped, ended>>

\* Another status, no connection, a timeout or, once stopped, a cancelled
\* request; the receiver may have seen it.
Failed ==
    /\ current # NoJob
    /\ current.d \notin Unsendable
    /\ Seen \/ UNCHANGED got
    /\ Again
    /\ current' = NoJob
    /\ UNCHANGED <<table, cache, fanout, queue, stopped, ended>>

\* Slip: the attempt is not counted.
TimerFires_Uncounted(j) ==
    /\ j \in timers
    /\ timers' = timers \ {j}
    /\ Send(j)
    /\ UNCHANGED <<table, cache, fanout, current, stopped, ended, got>>

\* Slip: the timer is never started.
TimerFires_Never(j) == FALSE /\ UNCHANGED vars

\* The function of AfterFunc, which nothing cancels.
TimerFires(j) ==
    /\ j \in timers
    /\ timers' = timers \ {j}
    /\ Send([j EXCEPT !.attempt = @ + 1])
    /\ UNCHANGED <<table, cache, fanout, current, stopped, ended, got>>

Stop ==
    /\ ~stopped
    /\ stopped' = TRUE
    /\ UNCHANGED <<table, cache, fanout, queue, current, timers, ended, fate, got>>

Next ==
    \/ \E h \in Hooks : Register(h)
    \/ \E e \in Events : Dispatch(e) \/ \E h \in Hooks : Offer(e, h)
    \/ Take \/ LoopEnds \/ Refuse \/ Accepted \/ Failed
    \/ \E j \in timers : TimerFires(j)
    \/ Stop

Spec == Init /\ [][Next]_vars

\* The goroutines of loop and of Dispatch run, requests end within the
\* client's timeout, timers fire.
FairSpec ==
    /\ Spec
    /\ WF_vars(Take) /\ WF_vars(Refuse \/ Accepted \/ Failed)
    /\ \A e \in Events, h \in Hooks : WF_vars(Offer(e, h))
    /\ \A j \in Job : WF_vars(TimerFires(j))

-----------------------------------------------------------------------------
HasJob(d) ==
    \/ \E i \in 1 .. Len(queue) : queue[i].d = d
    \/ \E j \in timers : j.d = d
    \/ current # NoJob /\ current.d = d

\* The jobs of a delivery: it is pending while there is one, and there is
\* never a second, neither in the queue nor at hand nor waiting for its timer
\* (the closure of AfterFunc takes the job over from deliver).
OneJobPerDelivery ==
    /\ \A d \in Deliveries : fate[d] = "pending" <=> HasJob(d)
    /\ \A i, k \in 1 .. Len(queue) : queue[i].d = queue[k].d => i = k
    /\ \A j, k \in timers : j.d = k.d => j = k
    /\ \A i \in 1 .. Len(queue), j \in timers : queue[i].d # j.d
    /\ current # NoJob => /\ \A i \in 1 .. Len(queue) : queue[i].d # current.d
                          /\ \A j \in timers : j.d # current.d

\* A receiver sees the attempts of a delivery in order and none twice, so that
\* X-Webhook-Id and X-Webhook-Attempt identify a request.
AttemptsInOrder ==
    \A d \in Deliveries : \A i, k \in 1 .. Len(got[d]) : i < k => got[d][i] < got[d][k]

\* What was settled stays settled: after an answer of 2xx, or after the
\* delivery was given up, nothing more is sent.
SettledIsFinal ==
    [][\A d \in Deliveries : fate[d] \in {"delivered", "refused", "gaveUp", "dropped"}
          => fate'[d] = fate[d] /\ got'[d] = got[d]]_vars

\* Every event that Dispatch was called with is settled for every webhook,
\* unless the dispatcher is stopped.
DeliveriesSettle ==
    \A d \in Deliveries :
        fate[d] \in {"offered", "pending"}
            ~> (fate[d] \in {"delivered", "refused", "gaveUp", "dropped"} \/ stopped)

-----------------------------------------------------------------------------
(* What the documentation says and the code does not do.                   *)

\* "Delivery is retried with exponential backoff: ... (up to 5 attempts).": a
\* delivery that was attempted is not given up before the last attempt.
RetriedToTheLast ==
    \A d \in Deliveries : fate[d] = "dropped" => got[d] = <<>>

\* "Register a webhook": a webhook registered before an event gets it.
RegisteredHooksFire ==
    [][\A e \in Events : Dispatch(e) =>
          \A h \in table : <<e, h>> \in Wants => fate'[<<e, h>>] # "none"]_vars
=============================================================================
