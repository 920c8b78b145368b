--------------------------- MODULE WebhookProofs ---------------------------
(***************************************************************************)
(* Theorems about WebhookDispatcher, for any number of webhooks and events, *)
(* any queue size and any number of attempts.                               *)
(***************************************************************************)
EXTENDS WebhookDispatcher, TLAPS

\* An event is offered to the webhooks that Dispatch has yet to come to.
OfferedInFanout ==
    \A e \in Events, h \in Hooks : h \in fanout[e] <=> fate[<<e, h>>] = "offered"

\* What the receiver has seen are earlier attempts than the one to come.
Before(d, n) == \A k \in 1 .. Len(got[d]) : got[d][k] < n

AttemptsCounted ==
    /\ \A d \in Deliveries : fate[d] \in {"none", "offered"} => got[d] = <<>>
    /\ \A i \in 1 .. Len(queue) : Before(queue[i].d, queue[i].attempt)
    /\ \A j \in timers : Before(j.d, j.attempt + 1)
    /\ current # NoJob => Before(current.d, current.attempt)

JobInv == OneJobPerDelivery /\ OfferedInFanout /\ AttemptsCounted /\ AttemptsInOrder

-----------------------------------------------------------------------------
\* Taking the head of a queue, and appending to it.
LEMMA TailFacts ==
    ASSUME NEW S, NEW q \in Seq(S), q # <<>>
    PROVE  /\ Len(q) \in Nat \ {0} /\ Len(Tail(q)) = Len(q) - 1
           /\ Head(q) = q[1] /\ q[1] \in S /\ Tail(q) \in Seq(S)
           /\ \A i \in 1 .. Len(q) - 1 : Tail(q)[i] = q[i + 1]
  OBVIOUS

LEMMA ElementFacts ==
    ASSUME NEW S, NEW q \in Seq(S)
    PROVE  \A i \in 1 .. Len(q) : q[i] \in S
  OBVIOUS

LEMMA AppendFacts ==
    ASSUME NEW S, NEW q \in Seq(S), NEW x \in S
    PROVE  /\ Len(q) \in Nat
           /\ Append(q, x) \in Seq(S) /\ Len(Append(q, x)) = Len(q) + 1
           /\ Append(q, x)[Len(q) + 1] = x
           /\ \A i \in 1 .. Len(q) : Append(q, x)[i] = q[i]
  OBVIOUS

\* A job, its parts and its update.
LEMMA JobFacts ==
    /\ \A j \in Job : j.d \in Deliveries /\ j.attempt \in 1 .. MaxAttempts
    /\ \A d \in Deliveries : [d |-> d, attempt |-> 1] \in Job
    /\ \A j \in Job : j.attempt < MaxAttempts =>
          /\ [j EXCEPT !.attempt = @ + 1] \in Job
          /\ [j EXCEPT !.attempt = @ + 1].d = j.d
          /\ [j EXCEPT !.attempt = @ + 1].attempt = j.attempt + 1
  BY WebhookAssumption DEF Job

\* A job that is offered to the queue leaves the types intact.
LEMMA SendTypes ==
    ASSUME TypeOK, NEW j \in Job, Send(j)
    PROVE  /\ queue' \in Seq(Job) /\ Len(queue') <= QueueSize
           /\ fate' \in [Deliveries -> Fates]
  <1>1. j.d \in Deliveries
    BY JobFacts
  <1>2. fate' \in [Deliveries -> Fates]
    BY <1>1 DEF TypeOK, Send, Settle, Fates
  <1>3. queue' \in Seq(Job) /\ Len(queue') <= QueueSize
    <2>1. CASE Len(queue) < QueueSize /\ queue' = Append(queue, j)
      <3>1. queue \in Seq(Job) /\ Len(queue) \in Nat /\ QueueSize \in Nat
        BY WebhookAssumption DEF TypeOK
      <3>2. queue' \in Seq(Job) /\ Len(queue') = Len(queue) + 1
        BY <2>1, <3>1, AppendFacts
      <3> QED
        BY <2>1, <3>1, <3>2
    <2>2. CASE UNCHANGED queue
      BY <2>2 DEF TypeOK
    <2> QED
      BY <2>1, <2>2 DEF Send
  <1> QED
    BY <1>2, <1>3

\* What the receiver sees keeps its type.
LEMMA SeenTypes ==
    ASSUME TypeOK, current # NoJob, Seen \/ UNCHANGED got
    PROVE  got' \in [Deliveries -> Seq(1 .. MaxAttempts)]
  <1>1. current.d \in Deliveries /\ current.attempt \in 1 .. MaxAttempts
    BY JobFacts DEF TypeOK
  <1>2. CASE Seen
    BY <1>1, <1>2 DEF Seen, TypeOK
  <1>3. CASE UNCHANGED got
    BY <1>3 DEF TypeOK
  <1> QED
    BY <1>2, <1>3

LEMMA TypeInit == Init => TypeOK
  <1> SUFFICES ASSUME Init PROVE TypeOK
    OBVIOUS
  <1>1. queue \in Seq(Job) /\ Len(queue) <= QueueSize
    BY WebhookAssumption DEF Init
  <1>2. got \in [Deliveries -> Seq(1 .. MaxAttempts)]
    BY DEF Init
  <1> QED
    BY <1>1, <1>2 DEF Init, TypeOK, Fates

LEMMA TypeStep == TypeOK /\ [Next]_vars => TypeOK'
  <1> SUFFICES ASSUME TypeOK, [Next]_vars PROVE TypeOK'
    OBVIOUS
  <1>1. ASSUME NEW h \in Hooks, Register(h) PROVE TypeOK'
    BY <1>1 DEF TypeOK, Register
  <1>2. ASSUME NEW e \in Events, Dispatch(e) PROVE TypeOK'
    <2>1. fanout' \in [Events -> SUBSET Hooks]
      BY <1>2 DEF TypeOK, Dispatch
    <2>2. fate' \in [Deliveries -> Fates]
      BY <1>2 DEF TypeOK, Dispatch, Fates
    <2> QED
      BY <1>2, <2>1, <2>2 DEF TypeOK, Dispatch
  <1>3. ASSUME NEW e \in Events, NEW h \in Hooks, Offer(e, h) PROVE TypeOK'
    <2>1. [d |-> <<e, h>>, attempt |-> 1] \in Job
      BY JobFacts DEF Deliveries
    <2>2. Send([d |-> <<e, h>>, attempt |-> 1])
      BY <1>3 DEF Offer
    <2>3. fanout' \in [Events -> SUBSET Hooks]
      BY <1>3 DEF TypeOK, Offer
    <2> QED
      BY <1>3, <2>1, <2>2, <2>3, SendTypes DEF TypeOK, Offer
  <1>4. CASE Take
    <2>1. queue \in Seq(Job) /\ queue # <<>> /\ QueueSize \in Nat
      BY <1>4, WebhookAssumption DEF TypeOK, Take
    <2>2. /\ Len(queue) \in Nat /\ Len(Tail(queue)) = Len(queue) - 1
          /\ Head(queue) \in Job /\ Tail(queue) \in Seq(Job)
      BY <2>1, TailFacts
    <2>3. Len(Tail(queue)) <= QueueSize
      BY <2>1, <2>2 DEF TypeOK
    <2> QED
      BY <1>4, <2>2, <2>3 DEF TypeOK, Take
  <1>5. CASE LoopEnds
    BY <1>5 DEF TypeOK, LoopEnds
  <1>6. CASE Refuse
    BY <1>6, JobFacts DEF TypeOK, Refuse, Settle, Fates
  <1>7. CASE Accepted
    <2>1. got' \in [Deliveries -> Seq(1 .. MaxAttempts)]
      BY <1>7, SeenTypes DEF Accepted
    <2>2. fate' \in [Deliveries -> Fates]
      BY <1>7, JobFacts DEF TypeOK, Accepted, Settle, Fates
    <2> QED
      BY <1>7, <2>1, <2>2 DEF TypeOK, Accepted
  <1>8. CASE Failed
    <2>1. got' \in [Deliveries -> Seq(1 .. MaxAttempts)]
      BY <1>8, SeenTypes DEF Failed
    <2>2. /\ fate' \in [Deliveries -> Fates]
          /\ timers' \in SUBSET Job /\ \A j \in timers' : j.attempt < MaxAttempts
      BY <1>8, JobFacts DEF TypeOK, Failed, Again, Settle, Fates
    <2> QED
      BY <1>8, <2>1, <2>2 DEF TypeOK, Failed
  <1>9. ASSUME NEW j \in timers, TimerFires(j) PROVE TypeOK'
    <2>1. j \in Job /\ [j EXCEPT !.attempt = @ + 1] \in Job
      BY JobFacts DEF TypeOK
    <2>2. Send([j EXCEPT !.attempt = @ + 1])
      BY <1>9 DEF TimerFires
    <2> QED
      BY <1>9, <2>1, <2>2, SendTypes DEF TypeOK, TimerFires
  <1>10. CASE Stop
    BY <1>10 DEF TypeOK, Stop
  <1>11. CASE UNCHANGED vars
    BY <1>11 DEF TypeOK, vars
  <1> QED
    BY <1>1, <1>2, <1>3, <1>4, <1>5, <1>6, <1>7, <1>8, <1>9, <1>10, <1>11 DEF Next

\* Queue, job at hand, timers and what receivers have seen hold values of their
\* types; in particular the queue keeps to its size and no attempt is numbered
\* beyond the last.
THEOREM WebhookTypeCorrect == Spec => []TypeOK
  BY TypeInit, TypeStep, PTL DEF Spec

-----------------------------------------------------------------------------
\* A job that no other job of its delivery accompanies may be sent; it comes
\* from T, the timers without it.
LEMMA SendJobs ==
    ASSUME TypeOK, OneJobPerDelivery, AttemptsCounted,
           NEW j \in Job, NEW T \in SUBSET timers,
           Send(j), timers' = T, UNCHANGED <<current, got>>,
           \A k \in timers \ T : k.d = j.d,
           \A k \in T : k.d # j.d,
           \A i \in 1 .. Len(queue) : queue[i].d # j.d,
           current # NoJob => current.d # j.d,
           Before(j.d, j.attempt)
    PROVE  OneJobPerDelivery' /\ AttemptsCounted'
  <1>1. j.d \in Deliveries /\ fate \in [Deliveries -> Fates] /\ queue \in Seq(Job)
    BY JobFacts DEF TypeOK
  <1>2. CASE Len(queue) < QueueSize /\ queue' = Append(queue, j) /\ Settle(j.d, "pending")
    <2>1. /\ Len(queue) \in Nat /\ Len(queue') = Len(queue) + 1
          /\ queue'[Len(queue) + 1] = j
          /\ \A i \in 1 .. Len(queue) : queue'[i] = queue[i]
      BY <1>1, <1>2, AppendFacts
    <2>2. \A d \in Deliveries : fate'[d] = IF d = j.d THEN "pending" ELSE fate[d]
      BY <1>1, <1>2 DEF Settle
    <2>3. HasJob(j.d)'
      BY <2>1 DEF HasJob
    <2>4. ASSUME NEW d \in Deliveries, d # j.d PROVE HasJob(d)' <=> HasJob(d)
      <3>1. (\E i \in 1 .. Len(queue') : queue'[i].d = d) <=> (\E i \in 1 .. Len(queue) : queue[i].d = d)
        BY <2>1, <2>4
      <3>2. (\E k \in timers' : k.d = d) <=> (\E k \in timers : k.d = d)
        BY <2>4
      <3> QED
        BY <3>1, <3>2 DEF HasJob
    <2>5. \A d \in Deliveries : fate'[d] = "pending" <=> HasJob(d)'
      BY <2>2, <2>3, <2>4 DEF OneJobPerDelivery
    <2>6. \A i, k \in 1 .. Len(queue') : queue'[i].d = queue'[k].d => i = k
      BY <2>1 DEF OneJobPerDelivery
    <2>7. \A i \in 1 .. Len(queue'), k \in timers' : queue'[i].d # k.d
      BY <2>1 DEF OneJobPerDelivery
    <2>8. current' # NoJob => /\ \A i \in 1 .. Len(queue') : queue'[i].d # current'.d
                             /\ \A k \in timers' : k.d # current'.d
      BY <2>1 DEF OneJobPerDelivery
    <2>9. OneJobPerDelivery'
      BY <2>5, <2>6, <2>7, <2>8 DEF OneJobPerDelivery
    <2>10. AttemptsCounted'
      BY <2>1, <2>2 DEF AttemptsCounted, Before
    <2> QED
      BY <2>9, <2>10
  <1>3. CASE UNCHANGED queue /\ Settle(j.d, "dropped")
    <2>1. \A d \in Deliveries : fate'[d] = IF d = j.d THEN "dropped" ELSE fate[d]
      BY <1>1, <1>3 DEF Settle
    <2>2. ~HasJob(j.d)'
      BY <1>3 DEF HasJob
    <2>3. \A d \in Deliveries : d # j.d => (HasJob(d)' <=> HasJob(d))
      BY <1>3 DEF HasJob
    <2>4. OneJobPerDelivery'
      BY <1>3, <2>1, <2>2, <2>3 DEF OneJobPerDelivery
    <2>5. AttemptsCounted'
      BY <1>3, <2>1 DEF AttemptsCounted, Before
    <2> QED
      BY <2>4, <2>5
  <1> QED
    BY <1>2, <1>3 DEF Send

\* A greater number may be appended to increasing ones.
LEMMA AppendGreater ==
    ASSUME NEW N \in Nat, NEW s \in Seq(1 .. N), NEW n \in 1 .. N,
           \A k \in 1 .. Len(s) : s[k] < n,
           \A i, k \in 1 .. Len(s) : i < k => s[i] < s[k]
    PROVE  /\ \A k \in 1 .. Len(Append(s, n)) : Append(s, n)[k] < n + 1
           /\ \A i, k \in 1 .. Len(Append(s, n)) : i < k => Append(s, n)[i] < Append(s, n)[k]
  <1> DEFINE t == Append(s, n)
  <1>1. /\ Len(s) \in Nat /\ Len(t) = Len(s) + 1 /\ t[Len(s) + 1] = n
        /\ \A i \in 1 .. Len(s) : t[i] = s[i]
    BY AppendFacts
  <1>2. \A i \in 1 .. Len(s) : s[i] \in 1 .. N
    OBVIOUS
  <1> HIDE DEF t
  <1>3. \A k \in 1 .. Len(t) : t[k] < n + 1
    <2> TAKE k \in 1 .. Len(t)
    <2>1. CASE k = Len(s) + 1
      BY <1>1, <2>1
    <2>2. CASE k \in 1 .. Len(s)
      <3>1. t[k] = s[k] /\ s[k] \in 1 .. N /\ s[k] < n
        BY <1>1, <1>2, <2>2
      <3> QED
        BY <3>1
    <2> QED
      BY <1>1, <2>1, <2>2
  <1>4. ASSUME NEW i \in 1 .. Len(t), NEW k \in 1 .. Len(t), i < k PROVE t[i] < t[k]
    <2>1. i \in 1 .. Len(s) /\ t[i] = s[i]
      BY <1>1, <1>4
    <2>2. CASE k = Len(s) + 1
      BY <1>1, <2>1, <2>2
    <2>3. CASE k \in 1 .. Len(s)
      BY <1>1, <1>4, <2>1, <2>3
    <2> QED
      BY <1>1, <2>2, <2>3
  <1> QED
    BY <1>3, <1>4 DEF t

\* A request that the receiver sees has a higher number than those before it.
LEMMA SeenInOrder ==
    ASSUME TypeOK, current # NoJob, AttemptsCounted, AttemptsInOrder, Seen \/ UNCHANGED got
    PROVE  /\ AttemptsInOrder'
           /\ \A d \in Deliveries : d # current.d => got'[d] = got[d]
           /\ \A k \in 1 .. Len(got'[current.d]) : got'[current.d][k] < current.attempt + 1
  <1>1. /\ current.d \in Deliveries /\ current.attempt \in 1 .. MaxAttempts
        /\ got \in [Deliveries -> Seq(1 .. MaxAttempts)]
    BY JobFacts DEF TypeOK
  <1>2. Before(current.d, current.attempt)
    BY DEF AttemptsCounted
  <1>3. CASE Seen
    <2>1. /\ got'[current.d] = Append(got[current.d], current.attempt)
          /\ \A d \in Deliveries : d # current.d => got'[d] = got[d]
      BY <1>1, <1>3 DEF Seen
    <2>2. got[current.d] \in Seq(1 .. MaxAttempts) /\ MaxAttempts \in Nat
      BY <1>1, WebhookAssumption
    <2>3. /\ \A k \in 1 .. Len(got[current.d]) : got[current.d][k] < current.attempt
          /\ \A i, k \in 1 .. Len(got[current.d]) : i < k => got[current.d][i] < got[current.d][k]
      BY <1>1, <1>2 DEF AttemptsInOrder, Before
    <2>4. /\ \A k \in 1 .. Len(got'[current.d]) : got'[current.d][k] < current.attempt + 1
          /\ \A i, k \in 1 .. Len(got'[current.d]) : i < k => got'[current.d][i] < got'[current.d][k]
      BY <1>1, <2>1, <2>2, <2>3, AppendGreater
    <2>5. ASSUME NEW d \in Deliveries, NEW i \in 1 .. Len(got'[d]), NEW k \in 1 .. Len(got'[d]), i < k
          PROVE  got'[d][i] < got'[d][k]
      <3>1. CASE d = current.d
        BY <2>4, <2>5, <3>1
      <3>2. CASE d # current.d
        BY <2>1, <2>5, <3>2 DEF AttemptsInOrder
      <3> QED
        BY <3>1, <3>2
    <2>6. AttemptsInOrder'
      BY <2>5 DEF AttemptsInOrder
    <2> QED
      BY <2>1, <2>4, <2>6
  <1>4. CASE UNCHANGED got
    <2>1. \A k \in 1 .. Len(got[current.d]) : got[current.d][k] \in 1 .. MaxAttempts
      BY <1>1, ElementFacts
    <2>2. \A k \in 1 .. Len(got[current.d]) : got[current.d][k] < current.attempt + 1
      <3> TAKE k \in 1 .. Len(got[current.d])
      <3>1. got[current.d][k] \in 1 .. MaxAttempts /\ got[current.d][k] < current.attempt
        BY <1>2, <2>1 DEF Before
      <3> QED
        BY <1>1, <3>1, WebhookAssumption
    <2> QED
      BY <1>4, <2>2 DEF AttemptsInOrder
  <1> QED
    BY <1>3, <1>4

LEMMA JobInit == Init => JobInv
  BY DEF Init, JobInv, OneJobPerDelivery, HasJob, OfferedInFanout, AttemptsCounted,
         AttemptsInOrder, Before, Deliveries

\* Each action of the dispatcher keeps the invariant.
LEMMA JobDispatch ==
    ASSUME TypeOK, JobInv, NEW e \in Events, Dispatch(e)
    PROVE  JobInv'
  <1>1. \A d \in Deliveries : fate'[d] = fate[d] \/ (fate[d] = "none" /\ fate'[d] = "offered")
    <2> TAKE d \in Deliveries
    <2>1. d[2] \in Hooks /\ d = <<d[1], d[2]>>
      BY DEF Deliveries
    <2>2. fate'[d] = IF d[1] = e /\ d[2] \in cache /\ d \in Wants THEN "offered" ELSE fate[d]
      BY DEF Dispatch
    <2>3. d[1] = e => fate[d] = "none"
      <3>1. \A h \in Hooks : fate[<<e, h>>] = "none"
        BY DEF Dispatch
      <3> QED
        BY <2>1, <3>1
    <2> QED
      BY <2>2, <2>3
  <1>2. OneJobPerDelivery'
    BY <1>1 DEF JobInv, OneJobPerDelivery, HasJob, Dispatch
  <1>3. AttemptsCounted'
    BY <1>1 DEF JobInv, AttemptsCounted, Before, Dispatch
  <1>4. OfferedInFanout'
    <2> SUFFICES ASSUME NEW f \in Events, NEW h \in Hooks
                 PROVE  h \in fanout'[f] <=> fate'[<<f, h>>] = "offered"
      BY DEF OfferedInFanout
    <2>1. <<f, h>> \in Deliveries /\ <<f, h>>[1] = f /\ <<f, h>>[2] = h
      BY DEF Deliveries
    <2>2. fate'[<<f, h>>] = IF f = e /\ h \in cache /\ <<f, h>> \in Wants THEN "offered" ELSE fate[<<f, h>>]
      BY <2>1 DEF Dispatch
    <2>3. fanout'[f] = IF f = e THEN {g \in cache : <<e, g>> \in Wants} ELSE fanout[f]
      BY DEF Dispatch, TypeOK
    <2>4. f = e => fate[<<f, h>>] = "none"
      BY DEF Dispatch
    <2>5. h \in fanout[f] <=> fate[<<f, h>>] = "offered"
      BY DEF JobInv, OfferedInFanout
    <2> QED
      BY <2>2, <2>3, <2>4, <2>5
  <1>5. AttemptsInOrder'
    BY DEF JobInv, AttemptsInOrder, Dispatch
  <1> QED
    BY <1>2, <1>3, <1>4, <1>5 DEF JobInv

LEMMA JobOffer ==
    ASSUME TypeOK, JobInv, NEW e \in Events, NEW h \in Hooks, Offer(e, h)
    PROVE  JobInv'
  <1> DEFINE j == [d |-> <<e, h>>, attempt |-> 1]
  <1>1. j \in Job /\ j.d = <<e, h>> /\ j.attempt = 1 /\ <<e, h>> \in Deliveries
    BY JobFacts DEF Deliveries
  <1>2. fate[<<e, h>>] = "offered" /\ got[<<e, h>>] = <<>>
    BY <1>1 DEF Offer, JobInv, OfferedInFanout, AttemptsCounted
  <1>3. ~HasJob(<<e, h>>)
    BY <1>1, <1>2 DEF JobInv, OneJobPerDelivery
  <1>4. Send(j) /\ timers' = timers /\ UNCHANGED <<current, got>>
    BY DEF Offer
  <1> HIDE DEF j
  <1>5. Before(j.d, j.attempt)
    BY <1>1, <1>2 DEF Before
  <1>6. OneJobPerDelivery' /\ AttemptsCounted'
    BY <1>1, <1>3, <1>4, <1>5, SendJobs DEF JobInv, HasJob
  <1>7. OfferedInFanout'
    <2> SUFFICES ASSUME NEW f \in Events, NEW g \in Hooks
                 PROVE  g \in fanout'[f] <=> fate'[<<f, g>>] = "offered"
      BY DEF OfferedInFanout
    <2>1. g \in fanout'[f] <=> (g \in fanout[f] /\ <<f, g>> # <<e, h>>)
      BY DEF Offer, TypeOK
    <2>2. <<f, g>> # <<e, h>> => fate'[<<f, g>>] = fate[<<f, g>>]
      BY <1>1, <1>4 DEF Send, Settle, TypeOK, Deliveries
    <2>3. fate'[<<e, h>>] # "offered"
      BY <1>1, <1>4 DEF Send, Settle, TypeOK
    <2> QED
      BY <2>1, <2>2, <2>3 DEF JobInv, OfferedInFanout
  <1>8. AttemptsInOrder'
    BY <1>4 DEF JobInv, AttemptsInOrder
  <1> QED
    BY <1>6, <1>7, <1>8 DEF JobInv

LEMMA JobTake ==
    ASSUME TypeOK, JobInv, Take
    PROVE  JobInv'
  <1>1. /\ queue \in Seq(Job) /\ queue # <<>> /\ current = NoJob
        /\ current' = Head(queue) /\ queue' = Tail(queue)
        /\ UNCHANGED <<fanout, timers, fate, got>>
    BY DEF TypeOK, Take
  <1>2. /\ Len(queue) \in Nat \ {0} /\ Len(queue') = Len(queue) - 1
        /\ current' = queue[1] /\ current' \in Job
        /\ \A i \in 1 .. Len(queue) - 1 : queue'[i] = queue[i + 1]
    BY <1>1, TailFacts
  <1>3. current' # NoJob
    BY <1>2, WebhookAssumption
  <1>4. ASSUME NEW d \in Deliveries PROVE HasJob(d)' <=> HasJob(d)
    <2>1. HasJob(d)' => HasJob(d)
      BY <1>1, <1>2 DEF HasJob
    <2>2. ASSUME NEW i \in 1 .. Len(queue), queue[i].d = d PROVE HasJob(d)'
      <3>1. CASE i = 1
        BY <1>2, <1>3, <2>2, <3>1 DEF HasJob
      <3>2. CASE i # 1
        <4>1. i - 1 \in 1 .. Len(queue) - 1 /\ (i - 1) + 1 = i
          BY <1>2, <3>2
        <4>2. queue'[i - 1] = queue[i]
          BY <1>2, <4>1
        <4> QED
          BY <1>2, <2>2, <4>1, <4>2 DEF HasJob
      <3> QED
        BY <3>1, <3>2
    <2> QED
      BY <1>1, <2>1, <2>2 DEF HasJob
  <1>5. \A i, k \in 1 .. Len(queue') : queue'[i].d = queue'[k].d => i = k
    BY <1>2 DEF JobInv, OneJobPerDelivery
  <1>6. \A i \in 1 .. Len(queue') : queue'[i].d # current'.d
    <2> TAKE i \in 1 .. Len(queue')
    <2>1. i + 1 \in 1 .. Len(queue) /\ 1 \in 1 .. Len(queue) /\ i + 1 # 1
      BY <1>2
    <2> QED
      BY <1>2, <2>1 DEF JobInv, OneJobPerDelivery
  <1>7. OneJobPerDelivery'
    BY <1>1, <1>2, <1>4, <1>5, <1>6 DEF JobInv, OneJobPerDelivery
  <1>8. AttemptsCounted'
    BY <1>1, <1>2 DEF JobInv, AttemptsCounted, Before
  <1> QED
    BY <1>1, <1>7, <1>8 DEF JobInv, OfferedInFanout, AttemptsInOrder

\* The job at hand is let go of; only its delivery is settled, if at all, and
\* only its receiver may have seen something.
LEMMA JobLetGo ==
    ASSUME TypeOK, JobInv, current # NoJob, current' = NoJob,
           UNCHANGED <<fanout, queue>>,
           Seen \/ UNCHANGED got,
           \/ /\ UNCHANGED timers
              /\ \E f \in {"refused", "delivered", "gaveUp"} : Settle(current.d, f)
           \/ timers' = timers \cup {current} /\ UNCHANGED fate
    PROVE  JobInv'
  <1>1. /\ current.d \in Deliveries /\ current.attempt \in 1 .. MaxAttempts
        /\ fate \in [Deliveries -> Fates]
    BY JobFacts DEF TypeOK
  <1>2. fate[current.d] = "pending"
    BY <1>1 DEF JobInv, OneJobPerDelivery, HasJob
  <1>3. /\ AttemptsInOrder'
        /\ \A d \in Deliveries : d # current.d => got'[d] = got[d]
        /\ \A k \in 1 .. Len(got'[current.d]) : got'[current.d][k] < current.attempt + 1
    BY SeenInOrder DEF JobInv
  <1>4. /\ \A d \in Deliveries : d # current.d => fate'[d] = fate[d]
        /\ fate'[current.d] \in {"pending", "refused", "delivered", "gaveUp"}
        /\ fate'[current.d] = "pending" <=> current \in timers'
    <2>1. current \notin timers
      BY DEF JobInv, OneJobPerDelivery
    <2> QED
      BY <1>1, <1>2, <2>1 DEF Settle
  <1>5. \A i \in 1 .. Len(queue) : queue[i] \in Job /\ queue[i].d \in Deliveries
    BY ElementFacts, JobFacts DEF TypeOK
  <1>6. \A j \in timers : j \in Job /\ j.d \in Deliveries
    BY JobFacts DEF TypeOK
  <1>7. \A d \in Deliveries : fate'[d] = "pending" <=> HasJob(d)'
    <2> TAKE d \in Deliveries
    <2>1. CASE d = current.d
      BY <1>4, <2>1 DEF HasJob, JobInv, OneJobPerDelivery
    <2>2. CASE d # current.d
      BY <1>4, <2>2 DEF HasJob, JobInv, OneJobPerDelivery
    <2> QED
      BY <2>1, <2>2
  <1>8. OneJobPerDelivery'
    BY <1>7 DEF JobInv, OneJobPerDelivery
  <1>9. AttemptsCounted'
    BY <1>2, <1>3, <1>4, <1>5, <1>6 DEF JobInv, OneJobPerDelivery, AttemptsCounted, Before
  <1>10. OfferedInFanout'
    BY <1>2, <1>4 DEF JobInv, OfferedInFanout, Deliveries
  <1> QED
    BY <1>3, <1>8, <1>9, <1>10 DEF JobInv

LEMMA JobTimer ==
    ASSUME TypeOK, JobInv, NEW j \in timers, TimerFires(j)
    PROVE  JobInv'
  <1> DEFINE n == [j EXCEPT !.attempt = @ + 1]
  <1>1. /\ n \in Job /\ n.d = j.d /\ n.attempt = j.attempt + 1
        /\ j.d \in Deliveries /\ fate \in [Deliveries -> Fates]
    BY JobFacts DEF TypeOK
  <1>2. /\ Send(n) /\ timers' = timers \ {j}
        /\ UNCHANGED <<fanout, current, got>>
    BY DEF TimerFires
  <1> HIDE DEF n
  <1>3. fate[j.d] = "pending"
    BY <1>1 DEF JobInv, OneJobPerDelivery, HasJob
  <1>4. Before(n.d, n.attempt)
    BY <1>1 DEF JobInv, AttemptsCounted
  <1>5. /\ \A k \in timers \ (timers \ {j}) : k.d = n.d
        /\ \A k \in timers \ {j} : k.d # n.d
        /\ \A i \in 1 .. Len(queue) : queue[i].d # n.d
        /\ current # NoJob => current.d # n.d
    BY <1>1 DEF JobInv, OneJobPerDelivery
  <1>6. OneJobPerDelivery' /\ AttemptsCounted'
    BY <1>1, <1>2, <1>4, <1>5, SendJobs DEF JobInv
  <1>7. /\ \A d \in Deliveries : d # j.d => fate'[d] = fate[d]
        /\ fate'[j.d] \in {"pending", "dropped"}
    BY <1>1, <1>2 DEF Send, Settle
  <1>8. OfferedInFanout'
    BY <1>2, <1>3, <1>7 DEF JobInv, OfferedInFanout, Deliveries
  <1> QED
    BY <1>2, <1>6, <1>8 DEF JobInv, AttemptsInOrder

LEMMA JobStep == TypeOK /\ JobInv /\ [Next]_vars => JobInv'
  <1> SUFFICES ASSUME TypeOK, JobInv, [Next]_vars PROVE JobInv'
    OBVIOUS
  <1>1. ASSUME UNCHANGED <<fanout, queue, current, timers, fate, got>> PROVE JobInv'
    BY <1>1 DEF JobInv, OneJobPerDelivery, HasJob, OfferedInFanout, AttemptsCounted,
                AttemptsInOrder, Before
  <1>2. CASE (\E h \in Hooks : Register(h)) \/ LoopEnds \/ Stop \/ UNCHANGED vars
    BY <1>1, <1>2 DEF Register, LoopEnds, Stop, vars
  <1>3. CASE Refuse
    BY <1>3, JobLetGo DEF Refuse
  <1>4. CASE Accepted
    BY <1>4, JobLetGo DEF Accepted
  <1>5. CASE Failed
    BY <1>5, JobLetGo DEF Failed, Again
  <1> QED
    BY <1>2, <1>3, <1>4, <1>5, JobDispatch, JobOffer, JobTake, JobTimer DEF Next

LEMMA JobsHold == Spec => [](TypeOK /\ JobInv)
  BY TypeInit, TypeStep, JobInit, JobStep, PTL DEF Spec

\* A delivery has one job while it is pending and none otherwise.
THEOREM DeliveriesAreNotDoubled == Spec => []OneJobPerDelivery
  BY JobsHold, PTL DEF JobInv

\* Receivers see the attempts of a delivery in order and none twice.
THEOREM AttemptsAreOrdered == Spec => []AttemptsInOrder
  BY JobsHold, PTL DEF JobInv

Settled == {"delivered", "refused", "gaveUp", "dropped"}

\* A step concerns deliveries that are not settled.
LEMMA SettledStep ==
    ASSUME TypeOK, JobInv, [Next]_vars, NEW d \in Deliveries, fate[d] \in Settled
    PROVE  fate'[d] = fate[d] /\ got'[d] = got[d]
  <1>1. fate \in [Deliveries -> Fates] /\ got \in [Deliveries -> Seq(1 .. MaxAttempts)]
    BY DEF TypeOK
  <1>2. ~HasJob(d)
    BY DEF JobInv, OneJobPerDelivery, Settled
  <1>3. CASE UNCHANGED <<fate, got>>
    BY <1>3
  <1>4. CASE (\E h \in Hooks : Register(h)) \/ Take \/ LoopEnds \/ Stop \/ UNCHANGED vars
    BY <1>3, <1>4 DEF Register, Take, LoopEnds, Stop, vars
  <1>5. ASSUME NEW e \in Events, Dispatch(e) PROVE fate'[d] = fate[d] /\ got'[d] = got[d]
    <2>1. d[2] \in Hooks /\ d = <<d[1], d[2]>>
      BY DEF Deliveries
    <2>2. \A h \in Hooks : fate[<<e, h>>] = "none"
      BY <1>5 DEF Dispatch
    <2>3. d[1] # e
      BY <2>1, <2>2 DEF Settled
    <2> QED
      BY <1>5, <2>3 DEF Dispatch
  <1>6. ASSUME NEW e \in Events, NEW h \in Hooks, Offer(e, h)
        PROVE  fate'[d] = fate[d] /\ got'[d] = got[d]
    <2>1. fate[<<e, h>>] = "offered" /\ <<e, h>> \in Deliveries
      BY <1>6 DEF Offer, JobInv, OfferedInFanout, Deliveries
    <2>2. d # <<e, h>>
      BY <2>1 DEF Settled
    <2>3. Settle(<<e, h>>, "pending") \/ Settle(<<e, h>>, "dropped")
      BY <1>6 DEF Offer, Send
    <2> QED
      BY <1>1, <1>6, <2>1, <2>2, <2>3 DEF Offer, Settle
  <1>7. CASE Refuse \/ Accepted \/ Failed
    <2>1. current # NoJob /\ current.d # d
      BY <1>2, <1>7 DEF Refuse, Accepted, Failed, HasJob
    <2>2. UNCHANGED fate \/ \E f \in Fates : Settle(current.d, f)
      BY <1>7 DEF Refuse, Accepted, Failed, Again, Fates
    <2>3. UNCHANGED got \/ Seen
      BY <1>7 DEF Refuse, Accepted, Failed
    <2> QED
      BY <1>1, <2>1, <2>2, <2>3 DEF Settle, Seen
  <1>8. ASSUME NEW j \in timers, TimerFires(j) PROVE fate'[d] = fate[d] /\ got'[d] = got[d]
    <2>1. j.d # d
      BY <1>2 DEF HasJob
    <2>2. [j EXCEPT !.attempt = @ + 1].d = j.d
      BY JobFacts DEF TypeOK
    <2>3. Settle(j.d, "pending") \/ Settle(j.d, "dropped")
      BY <1>8, <2>2 DEF TimerFires, Send
    <2> QED
      BY <1>1, <1>8, <2>1, <2>3 DEF TimerFires, Settle
  <1> QED
    BY <1>4, <1>5, <1>6, <1>7, <1>8 DEF Next

\* Once a delivery is accepted, refused, given up or dropped, nothing more is
\* sent for it.
THEOREM SettledStays == Spec => SettledIsFinal
  <1>1. TypeOK /\ JobInv /\ [Next]_vars
        => [\A d \in Deliveries : fate[d] \in {"delivered", "refused", "gaveUp", "dropped"}
               => fate'[d] = fate[d] /\ got'[d] = got[d]]_vars
    BY SettledStep DEF Settled
  <1> QED
    BY <1>1, JobsHold, PTL DEF Spec, SettledIsFinal
=============================================================================
