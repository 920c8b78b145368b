---------------------------- MODULE FailLimiter ----------------------------
(***************************************************************************)
(* http/middleware/adaptive_fail_limiter.go: failed requests of an address  *)
(* and tenant are counted by the minute; past a threshold they earn a       *)
(* strike, and the day's strikes decide how long the pair is blocked.       *)
(* Counters and blocks are kept in Redis, shared by the instances and one   *)
(* call at a time, or, without Redis, in the maps of each instance.         *)
(***************************************************************************)
EXTENDS Integers, Sequences

CONSTANTS
    Requests,             \* clients, with one request at a time each
    Instances,
    Keys, Ips,            \* combinedKey(ip, tenantID); addresses
    KeyOf, IpOf,          \* of a request: its key and address
    Redis,
    Setups,               \* deployments: with Redis or without, and who serves whom
    LocalCacheEnabled, FailOpen,
    FailsPerMinute, GlobalFailsPerMinute, BlockDurations, LocalBlockTTL,
    Second, Minute, Day,  \* in ticks
    MaxNow, MaxFaults,    \* bounds on the clock, on failing calls
    MaxAgain,             \* and on requests after the first of each client
    None

Stores == Instances \cup {Redis}
MinuteCounters == ({"fail"} \X Keys) \cup ({"gfail"} \X Ips)
Counters == MinuteCounters \cup ({"strike"} \X Keys)

ASSUME FailAssumption ==
    /\ KeyOf \in [Requests -> Keys] /\ IpOf \in [Requests -> Ips]
    /\ Redis \notin Instances
    /\ Setups \subseteq [redis : BOOLEAN, at : [Requests -> Instances]]
    /\ LocalCacheEnabled \in BOOLEAN /\ FailOpen \in BOOLEAN
    /\ FailsPerMinute \in Nat \ {0} /\ GlobalFailsPerMinute \in Nat \ {0}
    /\ BlockDurations \in Seq(Nat \ {0}) /\ BlockDurations # <<>>
    /\ LocalBlockTTL \in Nat \ {0} /\ Second \in Nat \ {0} /\ Minute \in Nat \ {0} /\ Day \in Nat \ {0}
    /\ None \notin Nat

VARIABLES
    now,
    useRedis,  \* redisClient # nil
    at,        \* at[r]: the instance that serves r
    ctr,       \* ctr[s][c]: the count, and when it runs out
    block,     \* block[s][k]: the end of the block, 0 if there is none
    req,       \* req[r]: where a request is, and the variables of its calls
    faults, again,
    hist,      \* hist[s][c]: when c, a counter of a minute, was incremented
    stuck,     \* counters whose expiry could not be set, for good
    promised,  \* promised[k]: the latest end of a block that a strike led to
    barred     \* barred[s][k]: until when the last block lasts at least

vars == <<now, useRedis, at, ctr, block, req, faults, again, hist, stuck, promised, barred>>

Steps == {"check", "ttl", "cache", "handle", "incr", "expire", "strike", "block", "set",
          "done", "blocked", "refused"}

TypeOK ==
    /\ now \in Nat /\ faults \in Nat /\ again \in Nat /\ useRedis \in BOOLEAN /\ at \in [Requests -> Instances]
    /\ ctr \in [Stores -> [Counters -> [count : Nat, until : Nat \cup {None}]]]
    /\ block \in [Stores -> [Keys -> Nat]]
    /\ req \in [Requests -> [pc : Steps, kind : {"fail", "gfail", "strike"},
                             start : Nat, ttl : Nat, num : Nat, hit : BOOLEAN]]
    /\ hist \in [Stores -> [MinuteCounters -> Seq(Nat)]]
    /\ stuck \subseteq {Redis} \X MinuteCounters
    /\ promised \in [Keys -> Nat]
    /\ barred \in [Stores -> [Keys -> Nat]]

\* A request at pc with none of its calls' variables in use.
Reaches(pc) == [pc |-> pc, kind |-> "fail", start |-> 0, ttl |-> 0, num |-> 0, hit |-> FALSE]

Init ==
    /\ now = 0 /\ faults = 0 /\ again = 0
    /\ \E d \in Setups : useRedis = d.redis /\ at = d.at
    /\ ctr = [s \in Stores |-> [c \in Counters |-> [count |-> 0, until |-> 0]]]
    /\ block = [s \in Stores |-> [k \in Keys |-> 0]]
    /\ req = [r \in Requests |-> Reaches("check")]
    /\ hist = [s \in Stores |-> [c \in MinuteCounters |-> <<>>]]
    /\ stuck = {}
    /\ promised = [k \in Keys |-> 0]
    /\ barred = [s \in Stores |-> [k \in Keys |-> 0]]

Least(a, b) == IF a < b THEN a ELSE b
Most(a, b) == IF a < b THEN b ELSE a
Midnight == ((now \div Day) + 1) * Day

\* Where the counters of a request are kept.
StoreOf(r) == IF useRedis THEN Redis ELSE at[r]

\* failKey, globalFailKey, strikeKey.
CounterOf(r) == <<req[r].kind, IF req[r].kind = "gfail" THEN IpOf[r] ELSE KeyOf[r]>>

\* A counter that ran out is as good as none: Redis drops it, pruneLocal or the
\* next increment does.
Alive(e) == e.until = None \/ now < e.until

-----------------------------------------------------------------------------
(* isBlocked, and the handler.                                             *)

\* The instance's own map comes first.
Check(r) ==
    /\ req[r].pc = "check"
    /\ \/ /\ LocalCacheEnabled /\ now < block[at[r]][KeyOf[r]]
          /\ req' = [req EXCEPT ![r] = Reaches("blocked")]
       \/ /\ ~(LocalCacheEnabled /\ now < block[at[r]][KeyOf[r]])
          /\ req' = [req EXCEPT ![r] = IF useRedis THEN [@ EXCEPT !.pc = "ttl", !.start = now]
                                       ELSE Reaches("handle")]
    /\ UNCHANGED <<now, useRedis, at, ctr, block, faults, again, hist, stuck, promised, barred>>

\* TTL answers in whole seconds, the nearest to what remains.
Rounded(left) ==
    {t \in 0 .. left + Second :
        t % Second = 0 /\ 2 * t <= 2 * left + Second /\ 2 * left <= 2 * t + Second}

\* A block that has less than half a second left may look like none.
ReadTTL(r) ==
    LET left == Most(block[Redis][KeyOf[r]], now) - now
    IN  /\ req[r].pc = "ttl"
        /\ \E ttl \in Rounded(left) :
              \/ /\ ttl = 0
                 /\ req' = [req EXCEPT ![r] = Reaches("handle")]
              \/ /\ ttl > 0
                 /\ req' = [req EXCEPT ![r] = IF LocalCacheEnabled
                                              THEN [@ EXCEPT !.pc = "cache", !.ttl = ttl]
                                              ELSE Reaches("blocked")]
        /\ UNCHANGED <<now, useRedis, at, ctr, block, faults, again, hist, stuck, promised, barred>>

\* Slip: the entry counts from the moment it is written.
CachedUntil_FromNow(r) == now + Least(req[r].ttl, LocalBlockTTL)

\* The entry counts from the moment isBlocked was called.
CachedUntil(r) == req[r].start + Least(req[r].ttl, LocalBlockTTL)

CacheBlock(r) ==
    /\ req[r].pc = "cache"
    /\ block' = [block EXCEPT ![at[r]][KeyOf[r]] = CachedUntil(r)]
    /\ req' = [req EXCEPT ![r] = Reaches("blocked")]
    /\ UNCHANGED <<now, useRedis, at, ctr, faults, again, hist, stuck, promised, barred>>

\* c.Next and shouldCountFailure: the answer counts as a failure or does not.
Handle(r) ==
    /\ req[r].pc = "handle"
    /\ \E pc \in {"done", "incr"} : req' = [req EXCEPT ![r].pc = pc]
    /\ UNCHANGED <<now, useRedis, at, ctr, block, faults, again, hist, stuck, promised, barred>>

-----------------------------------------------------------------------------
(* onFailure: both counters, then the strike, then the block.              *)

\* What follows once a call has counted n, at request q.
Counted(q, n) ==
    CASE q.kind = "fail" ->
            [Reaches("incr") EXCEPT !.kind = "gfail", !.hit = n > FailsPerMinute]
      [] q.kind = "gfail" ->
            IF q.hit \/ n > GlobalFailsPerMinute
            THEN [Reaches("strike") EXCEPT !.kind = "strike"]
            ELSE Reaches("done")
      [] q.kind = "strike" ->
            [Reaches("block") EXCEPT !.num = n]

\* Slip: only a strike sets its expiry.
SetsExpiry_Strikes(r, n) == req[r].kind = "strike"

\* The first failure of a minute sets the expiry, and so does every strike.
SetsExpiry(r, n) == n = 1 \/ req[r].kind = "strike"

\* The increment is recorded; a strike is not.
Record(s, c) ==
    hist' = IF c \in MinuteCounters THEN [hist EXCEPT ![s][c] = Append(@, now)] ELSE hist

\* INCR at Redis: a new counter has no expiry.
IncrAt(c) ==
    LET e == ctr[Redis][c]
    IN  /\ ctr' = [ctr EXCEPT ![Redis][c] = IF Alive(e) THEN [e EXCEPT !.count = @ + 1]
                                            ELSE [count |-> 1, until |-> None]]
        /\ Record(Redis, c)

\* incrementFailure, incrementGlobalFailure and incrementStrike with Redis.
Incr(r) ==
    LET c == CounterOf(r)
        n == ctr'[Redis][c].count
    IN  /\ useRedis /\ req[r].pc = "incr"
        /\ IncrAt(c)
        /\ req' = [req EXCEPT ![r] =
                      IF ~SetsExpiry(r, n) THEN Counted(@, n)
                      ELSE [@ EXCEPT !.pc = "expire", !.num = n,
                                     !.start = IF req[r].kind = "strike" THEN req[r].start
                                               ELSE now]]
        /\ UNCHANGED <<now, useRedis, at, block, faults, again, stuck, promised, barred>>

\* EXPIRE takes whole seconds, one at least.
Seconds(d) == IF d < Second THEN Second ELSE (d \div Second) * Second

\* EXPIRE does nothing to a key that is gone.
ExpireAt(r) ==
    LET c == CounterOf(r)
        ttl == IF req[r].kind = "strike" THEN Seconds(req[r].ttl) ELSE Minute
    IN  ctr' = IF Alive(ctr[Redis][c]) THEN [ctr EXCEPT ![Redis][c].until = now + ttl] ELSE ctr

Expire(r) ==
    /\ req[r].pc = "expire"
    /\ ExpireAt(r)
    /\ req' = [req EXCEPT ![r] = Counted(@, @.num)]
    /\ UNCHANGED <<now, useRedis, at, block, faults, again, hist, stuck, promised, barred>>

\* incrementStrike reads the clock first: the strike counts until midnight.
Strike(r) ==
    /\ req[r].pc = "strike"
    /\ req' = [req EXCEPT ![r].pc = "incr", ![r].start = now, ![r].ttl = Midnight - now]
    /\ UNCHANGED <<now, useRedis, at, ctr, block, faults, again, hist, stuck, promised, barred>>

\* incrementFailureLocal, incrementGlobalFailureLocal and incrementStrikeLocal:
\* a minute's window is replaced once it is over, a day's when the day differs.
IncrLocal(r) ==
    LET c == CounterOf(r)
        e == ctr[at[r]][c]
        day == req[r].start + req[r].ttl
        fresh == IF req[r].kind = "strike" THEN e.until # day ELSE ~Alive(e)
        n == IF fresh THEN 1 ELSE e.count + 1
        end == IF req[r].kind = "strike" THEN day ELSE now + Minute
    IN  /\ ~useRedis /\ req[r].pc = "incr"
        /\ ctr' = [ctr EXCEPT ![at[r]][c] = [count |-> n, until |-> IF fresh THEN end ELSE e.until]]
        /\ Record(at[r], c)
        /\ req' = [req EXCEPT ![r] = Counted(@, n)]
        /\ UNCHANGED <<now, useRedis, at, block, faults, again, stuck, promised, barred>>

blockDurationForStrike(strike) == BlockDurations[Least(strike, Len(BlockDurations))]

\* The shortest block there is.
MinBlock == CHOOSE d \in {BlockDurations[i] : i \in 1 .. Len(BlockDurations)} :
                \A i \in 1 .. Len(BlockDurations) : d <= BlockDurations[i]

\* The block is set at s: strike and clock promise its end.
Promise(r, s, end) ==
    /\ promised' = [promised EXCEPT ![KeyOf[r]] = Most(@, end)]
    /\ barred' = IF s = StoreOf(r) THEN [barred EXCEPT ![s][KeyOf[r]] = now + MinBlock] ELSE barred

\* setBlock: the map of the instance, then Redis.
SetBlock(r) ==
    LET end == now + blockDurationForStrike(req[r].num)
    IN  /\ req[r].pc = "block"
        /\ block' = IF LocalCacheEnabled THEN [block EXCEPT ![at[r]][KeyOf[r]] = end] ELSE block
        /\ Promise(r, at[r], end)
        /\ req' = [req EXCEPT ![r] = IF useRedis THEN [@ EXCEPT !.pc = "set", !.start = now]
                                     ELSE Reaches("done")]
        /\ UNCHANGED <<now, useRedis, at, ctr, faults, again, hist, stuck>>

\* Slip: SET with NX, so that a block that is there stays as it is.
SetAt_NX(r) ==
    LET end == now + blockDurationForStrike(req[r].num)
    IN  /\ block' = IF now < block[Redis][KeyOf[r]] THEN block
                    ELSE [block EXCEPT ![Redis][KeyOf[r]] = end]
        /\ Promise(r, Redis, end)

SetAt(r) ==
    LET end == now + blockDurationForStrike(req[r].num)
    IN  /\ block' = [block EXCEPT ![Redis][KeyOf[r]] = end]
        /\ Promise(r, Redis, end)

SetRedis(r) ==
    /\ req[r].pc = "set"
    /\ SetAt(r)
    /\ req' = [req EXCEPT ![r] = Reaches("done")]
    /\ UNCHANGED <<now, useRedis, at, ctr, faults, again, hist, stuck>>

-----------------------------------------------------------------------------
\* The failure that began a counter of a minute leaves it without an expiry: no
\* later one sets it.
LosesExpiry(r) ==
    LET c == CounterOf(r)
        e == ctr'[Redis][c]
    IN  /\ c \in MinuteCounters /\ e.until = None
        /\ \/ req[r].pc = "expire"
           \/ req[r].pc = "incr" /\ e.count = 1 /\ ctr' # ctr

\* A call to Redis fails or times out, with or without effect.  With FailOpen
\* the request goes on as if nothing had happened, or else it is refused.
CallFails(r) ==
    /\ useRedis /\ faults < MaxFaults
    /\ faults' = faults + 1
    /\ \/ /\ req[r].pc = "ttl"
          /\ req' = [req EXCEPT ![r] = Reaches(IF FailOpen THEN "handle" ELSE "refused")]
          /\ UNCHANGED <<ctr, block, hist, stuck, promised, barred>>
       \/ /\ req[r].pc \in {"incr", "expire", "set"}
          /\ req' = [req EXCEPT ![r] = Reaches(IF FailOpen THEN "done" ELSE "refused")]
          /\ \/ req[r].pc = "incr" /\ IncrAt(CounterOf(r)) /\ UNCHANGED <<block, promised, barred>>
             \/ req[r].pc = "expire" /\ ExpireAt(r) /\ UNCHANGED <<block, hist, promised, barred>>
             \/ req[r].pc = "set" /\ SetAt(r) /\ UNCHANGED <<ctr, hist>>
             \/ UNCHANGED <<ctr, block, hist, promised, barred>>
          /\ stuck' = IF LosesExpiry(r) THEN stuck \cup {<<Redis, CounterOf(r)>>} ELSE stuck
    /\ UNCHANGED <<now, useRedis, at, again>>

\* The client sends its next request.
SendAgain(r) ==
    /\ req[r].pc \in {"done", "blocked", "refused"}
    /\ again < MaxAgain
    /\ again' = again + 1
    /\ req' = [req EXCEPT ![r] = Reaches("check")]
    /\ UNCHANGED <<now, useRedis, at, ctr, block, faults, hist, stuck, promised, barred>>

\* A call that has 120 ms, under way.
Calling(r) ==
    /\ useRedis
    /\ \/ req[r].pc \in {"ttl", "expire", "set"}
       \/ req[r].pc = "incr" /\ req[r].kind = "strike"

\* No call takes more than a tick, though it may see one.
Tick ==
    /\ now < MaxNow
    /\ \A r \in Requests : Calling(r) => req[r].start = now
    /\ now' = now + 1
    /\ UNCHANGED <<useRedis, at, ctr, block, req, faults, again, hist, stuck, promised, barred>>

Next ==
    \/ \E r \in Requests :
          \/ Check(r) \/ ReadTTL(r) \/ CacheBlock(r) \/ Handle(r)
          \/ Incr(r) \/ Expire(r) \/ Strike(r) \/ IncrLocal(r)
          \/ SetBlock(r) \/ SetRedis(r) \/ CallFails(r) \/ SendAgain(r)
    \/ Tick

Spec == Init /\ [][Next]_vars

-----------------------------------------------------------------------------
\* A counter of a minute counts failures of one minute, and of the tick that
\* setting its expiry may take; unless the expiry could not be set.
CountsAMinute ==
    \A s \in Stores : \A c \in MinuteCounters :
        LET e == ctr[s][c]
            h == hist[s][c]
        IN  (Alive(e) /\ e.until # None /\ <<s, c>> \notin stuck) =>
                \A i \in 1 .. Len(h) : i > Len(h) - e.count => e.until - h[i] <= Minute + 1

\* More than n increments within a minute.
Excess(s, c, n) == \E i \in n + 1 .. Len(hist[s][c]) : hist[s][c][i] - hist[s][c][i - n] <= Minute

\* No strike comes before the pair, or the address, has had more failures
\* within one minute than allowed; unless a counter could not be made to expire.
StrikeForCause ==
    [][\A r \in Requests : (req[r].pc # "strike" /\ req'[r].pc = "strike") =>
          LET s == StoreOf(r)
              f == <<"fail", KeyOf[r]>>
              g == <<"gfail", IpOf[r]>>
          IN  \/ Excess(s, f, FailsPerMinute)' \/ Excess(s, g, GlobalFailsPerMinute)'
              \/ <<s, f>> \in stuck \/ <<s, g>> \in stuck]_vars

\* While the last block lasts, in Redis or without Redis in the instance, no
\* request gets through unless the call that looks for the block fails or, of a
\* block in Redis, no more than half a second is left: neither another strike
\* nor a cached entry cuts it below the shortest block.
BlockHolds ==
    [][\A r \in Requests : (req[r].pc # "handle" /\ req'[r].pc = "handle" /\ faults' = faults) =>
          2 * barred[StoreOf(r)][KeyOf[r]] <= 2 * now + (IF useRedis THEN Second ELSE 0)]_vars

\* Twice the time by which an entry at s may be late: it may be a copy.
Slack(s) == IF useRedis /\ s # Redis THEN Second ELSE 0

\* No block outlasts what some strike led to; a cached one does so by half a
\* second at most, to which Redis rounds the time that remains.
BlocksArePromised ==
    \A s \in Stores : \A k \in Keys : 2 * block[s][k] <= 2 * promised[k] + Slack(s)

-----------------------------------------------------------------------------
(* What comments and documentation say and the code does not do.           *)

\* "Reset at midnight local-time by expiring strike key at next midnight".
StrikesEndAtMidnight ==
    \A s \in Stores : \A k \in Keys :
        LET until == ctr[s][<<"strike", k>>].until IN until = None \/ until % Day = 0

\* "blocks IPs/tenants with repeated failures": only for more failures than
\* allowed in a minute, whatever Redis does.
StrikeForExcess ==
    [][\A r \in Requests : (req[r].pc # "strike" /\ req'[r].pc = "strike") =>
          \/ Excess(StoreOf(r), <<"fail", KeyOf[r]>>, FailsPerMinute)'
          \/ Excess(StoreOf(r), <<"gfail", IpOf[r]>>, GlobalFailsPerMinute)']_vars
=============================================================================
