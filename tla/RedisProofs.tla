---------------------------- MODULE RedisProofs ----------------------------
(***************************************************************************)
(* What the instances keep in Redis, for any number of instances, requests *)
(* and calls: the counters and blocks of the failure limiter (FailLimiter) *)
(* and, at the end, the entry of a row that has changed (L2Cache).         *)
(*                                                                         *)
(* FailLimiter: types (Shape); blocks are promised (PromiseInv) and hold   *)
(* (Guarded); counters count a minute (WindowInv), so that a hit and a     *)
(* strike have a cause (HitsHaveCause).                                    *)
(***************************************************************************)
EXTENDS FailLimiter, L2Cache, WellFoundedInduction, TLAPS

AllKinds == {"fail", "gfail", "strike"}
ReqType == [pc : Steps, kind : AllKinds,
            start : Nat, ttl : Nat, num : Nat, hit : BOOLEAN]
CtrType == [count : Nat, until : Nat \cup {None}]

\* The strike that a block is set for has been counted.
StrikesCounted == \A r \in Requests : req[r].pc \in {"expire", "block", "set"} => req[r].num > 0

\* Only requests that use Redis wait for it.
RedisUsed == \A r \in Requests : req[r].pc \in {"ttl", "cache", "expire", "set"} => useRedis

LEMMA ReachesType ==
    ASSUME NEW pc \in Steps
    PROVE  /\ Reaches(pc) \in ReqType /\ Reaches(pc).pc = pc /\ Reaches(pc).kind = "fail"
           /\ ~Reaches(pc).hit
  BY DEF Reaches, ReqType, AllKinds

\* One variable of a request changes, and no other.

LEMMA PcChanges ==
    ASSUME NEW q \in ReqType, NEW v \in Steps
    PROVE  LET p == [q EXCEPT !.pc = v]
           IN  /\ p \in ReqType /\ p.pc = v
               /\ p.kind = q.kind /\ p.start = q.start /\ p.ttl = q.ttl
               /\ p.num = q.num /\ p.hit = q.hit
  BY DEF ReqType, AllKinds

LEMMA KindChanges ==
    ASSUME NEW q \in ReqType, NEW v \in AllKinds
    PROVE  LET p == [q EXCEPT !.kind = v]
           IN  /\ p \in ReqType /\ p.kind = v
               /\ p.pc = q.pc /\ p.start = q.start /\ p.ttl = q.ttl
               /\ p.num = q.num /\ p.hit = q.hit
  BY DEF ReqType, AllKinds

LEMMA StartChanges ==
    ASSUME NEW q \in ReqType, NEW v \in Nat
    PROVE  LET p == [q EXCEPT !.start = v]
           IN  /\ p \in ReqType /\ p.start = v
               /\ p.pc = q.pc /\ p.kind = q.kind /\ p.ttl = q.ttl
               /\ p.num = q.num /\ p.hit = q.hit
  BY DEF ReqType, AllKinds

LEMMA TtlChanges ==
    ASSUME NEW q \in ReqType, NEW v \in Nat
    PROVE  LET p == [q EXCEPT !.ttl = v]
           IN  /\ p \in ReqType /\ p.ttl = v
               /\ p.pc = q.pc /\ p.kind = q.kind /\ p.start = q.start
               /\ p.num = q.num /\ p.hit = q.hit
  BY DEF ReqType, AllKinds

LEMMA NumChanges ==
    ASSUME NEW q \in ReqType, NEW v \in Nat
    PROVE  LET p == [q EXCEPT !.num = v]
           IN  /\ p \in ReqType /\ p.num = v
               /\ p.pc = q.pc /\ p.kind = q.kind /\ p.start = q.start
               /\ p.ttl = q.ttl /\ p.hit = q.hit
  BY DEF ReqType, AllKinds

LEMMA HitChanges ==
    ASSUME NEW q \in ReqType, NEW v \in BOOLEAN
    PROVE  LET p == [q EXCEPT !.hit = v]
           IN  /\ p \in ReqType /\ p.hit = v
               /\ p.pc = q.pc /\ p.kind = q.kind /\ p.start = q.start
               /\ p.ttl = q.ttl /\ p.num = q.num
  BY DEF ReqType, AllKinds

LEMMA CountedFail ==
    ASSUME NEW q \in ReqType, NEW n \in Nat
    PROVE  /\ Counted(q, n) \in ReqType
           /\ q.kind = "fail" =>
                 /\ Counted(q, n).pc = "incr" /\ Counted(q, n).kind = "gfail"
                 /\ Counted(q, n).hit => n > FailsPerMinute
           /\ q.kind = "gfail" =>
                 /\ Counted(q, n).pc \in {"strike", "done"}
                 /\ Counted(q, n).pc = "strike" =>
                       Counted(q, n).kind = "strike" /\ (q.hit \/ n > GlobalFailsPerMinute)
                 /\ ~Counted(q, n).hit
           /\ q.kind = "strike" =>
                 Counted(q, n).pc = "block" /\ Counted(q, n).num = n /\ ~Counted(q, n).hit
<1>0. {"incr", "strike", "done", "block"} \subseteq Steps
  BY DEF Steps
<1>1. CASE q.kind = "fail"
  <2> DEFINE p == [Reaches("incr") EXCEPT !.kind = "gfail"]
             h == n > FailsPerMinute
  <2>1. h \in BOOLEAN
    OBVIOUS
  <2>2. Counted(q, n) = [p EXCEPT !.hit = h]
    BY <1>1 DEF Counted
  <2>3. Reaches("incr") \in ReqType /\ Reaches("incr").pc = "incr"
    BY <1>0, ReachesType
  <2>4. p \in ReqType /\ p.pc = "incr" /\ p.kind = "gfail"
    BY <2>3, KindChanges DEF AllKinds
  <2> HIDE DEF p, h
  <2>5. /\ Counted(q, n) \in ReqType /\ Counted(q, n).pc = "incr"
        /\ Counted(q, n).kind = "gfail" /\ Counted(q, n).hit = h
    BY <2>1, <2>2, <2>4, HitChanges
  <2> QED BY <1>1, <2>5 DEF h
<1>2. CASE q.kind = "gfail"
  <2> DEFINE p == [Reaches("strike") EXCEPT !.kind = "strike"]
  <2>1. Counted(q, n) = IF q.hit \/ n > GlobalFailsPerMinute THEN p ELSE Reaches("done")
    BY <1>2 DEF Counted
  <2>2. Reaches("strike") \in ReqType /\ Reaches("strike").pc = "strike" /\ ~Reaches("strike").hit
    BY <1>0, ReachesType
  <2>3. p \in ReqType /\ p.pc = "strike" /\ p.kind = "strike" /\ ~p.hit
    BY <2>2, KindChanges DEF AllKinds
  <2>4. Reaches("done") \in ReqType /\ Reaches("done").pc = "done" /\ ~Reaches("done").hit
    BY <1>0, ReachesType
  <2> HIDE DEF p
  <2> QED BY <1>2, <2>1, <2>3, <2>4
<1>3. CASE q.kind = "strike"
  <2>1. Counted(q, n) = [Reaches("block") EXCEPT !.num = n]
    BY <1>3 DEF Counted
  <2>2. Reaches("block") \in ReqType /\ Reaches("block").pc = "block" /\ ~Reaches("block").hit
    BY <1>0, ReachesType
  <2>3. /\ Counted(q, n) \in ReqType /\ Counted(q, n).pc = "block"
        /\ Counted(q, n).num = n /\ ~Counted(q, n).hit
    BY <2>1, <2>2, NumChanges
  <2> QED BY <1>3, <2>3
<1> QED BY <1>1, <1>2, <1>3 DEF ReqType, AllKinds

LEMMA MidnightComes ==
    ASSUME now \in Nat
    PROVE  Midnight \in Nat /\ Midnight > now
  BY FailAssumption DEF Midnight

LEMMA DurationTypes ==
    ASSUME NEW n \in Nat \ {0}
    PROVE  blockDurationForStrike(n) \in Nat \ {0}
           /\ \E i \in 1 .. Len(BlockDurations) : blockDurationForStrike(n) = BlockDurations[i]
<1>1. Len(BlockDurations) \in Nat \ {0}
  BY FailAssumption
<1>2. Least(n, Len(BlockDurations)) \in 1 .. Len(BlockDurations)
  BY <1>1 DEF Least
<1> QED BY <1>2, FailAssumption DEF blockDurationForStrike

LEMMA CounterTypes ==
    ASSUME TypeOK, NEW r \in Requests
    PROVE  CounterOf(r) \in Counters /\ StoreOf(r) \in Stores
  BY FailAssumption DEF TypeOK, CounterOf, Counters, MinuteCounters, StoreOf, Stores

\* One more failure or strike at Redis.
LEMMA IncrAtEffects ==
    ASSUME TypeOK, NEW c \in Counters, IncrAt(c)
    PROVE  /\ ctr' \in [Stores -> [Counters -> CtrType]]
           /\ hist' \in [Stores -> [MinuteCounters -> Seq(Nat)]]
           /\ ctr'[Redis][c].count \in Nat \ {0}
           /\ ctr'[Redis][c] = IF Alive(ctr[Redis][c])
                               THEN [ctr[Redis][c] EXCEPT !.count = ctr[Redis][c].count + 1]
                               ELSE [count |-> 1, until |-> None]
           /\ \A s \in Stores, d \in Counters : (s # Redis \/ d # c) => ctr'[s][d] = ctr[s][d]
           /\ \A s \in Stores, d \in MinuteCounters :
                 hist'[s][d] = IF s = Redis /\ d = c THEN Append(hist[s][d], now) ELSE hist[s][d]
<1>1. Redis \in Stores /\ ctr[Redis][c] \in CtrType /\ now \in Nat
  BY DEF TypeOK, Stores, CtrType
<1> DEFINE e == IF Alive(ctr[Redis][c])
                THEN [ctr[Redis][c] EXCEPT !.count = ctr[Redis][c].count + 1]
                ELSE [count |-> 1, until |-> None]
<1>2. e \in CtrType /\ e.count \in Nat \ {0}
  BY <1>1 DEF CtrType
<1>3. ctr' = [ctr EXCEPT ![Redis][c] = e]
  BY DEF IncrAt
<1>4. ctr \in [Stores -> [Counters -> CtrType]]
  BY DEF TypeOK, CtrType
<1>5. hist \in [Stores -> [MinuteCounters -> Seq(Nat)]]
  BY DEF TypeOK
<1>6. hist' = IF c \in MinuteCounters
              THEN [hist EXCEPT ![Redis][c] = Append(hist[Redis][c], now)] ELSE hist
  BY DEF IncrAt, Record
<1> HIDE DEF e
<1>7. c \in MinuteCounters => Append(hist[Redis][c], now) \in Seq(Nat)
  BY <1>1, <1>5
<1>8. /\ ctr' \in [Stores -> [Counters -> CtrType]] /\ ctr'[Redis][c] = e
      /\ \A s \in Stores, d \in Counters : (s # Redis \/ d # c) => ctr'[s][d] = ctr[s][d]
  BY <1>1, <1>2, <1>3, <1>4
<1>9. /\ hist' \in [Stores -> [MinuteCounters -> Seq(Nat)]]
      /\ \A s \in Stores, d \in MinuteCounters :
            hist'[s][d] = IF s = Redis /\ d = c THEN Append(hist[s][d], now) ELSE hist[s][d]
  BY <1>1, <1>5, <1>6, <1>7
<1> QED BY <1>2, <1>8, <1>9 DEF e

LEMMA NatTimes == \A a, b \in Nat : a * b \in Nat
  OBVIOUS

LEMMA SecondsTypes ==
    ASSUME NEW d \in Nat
    PROVE  Seconds(d) \in Nat
<1>0. Second \in Nat \ {0}
  BY FailAssumption
<1>1. Second \in Nat /\ d \div Second \in Nat
  BY <1>0
<1>2. (d \div Second) * Second \in Nat
  BY <1>1, NatTimes
<1> QED BY <1>1, <1>2 DEF Seconds

LEMMA ExpireAtEffects ==
    ASSUME TypeOK, NEW r \in Requests, ExpireAt(r)
    PROVE  /\ ctr' \in [Stores -> [Counters -> CtrType]]
           /\ \A s \in Stores, d \in Counters :
                 (s # Redis \/ d # CounterOf(r)) => ctr'[s][d] = ctr[s][d]
           /\ ctr'[Redis][CounterOf(r)].count = ctr[Redis][CounterOf(r)].count
           /\ req[r].kind # "strike" /\ Alive(ctr[Redis][CounterOf(r)]) =>
                 ctr'[Redis][CounterOf(r)].until = now + Minute
           /\ ~Alive(ctr[Redis][CounterOf(r)]) => ctr' = ctr
<1> DEFINE c == CounterOf(r)
           u == now + (IF req[r].kind = "strike" THEN Seconds(req[r].ttl) ELSE Minute)
<1>0. now \in Nat /\ Seconds(req[r].ttl) \in Nat /\ Minute \in Nat
  BY SecondsTypes, FailAssumption DEF TypeOK
<1>1. /\ Redis \in Stores /\ c \in Counters /\ u \in Nat
      /\ ctr \in [Stores -> [Counters -> CtrType]]
  <2>1. Redis \in Stores /\ ctr \in [Stores -> [Counters -> CtrType]]
    BY DEF TypeOK, Stores, CtrType
  <2>2. c \in Counters
    BY CounterTypes
  <2>3. u \in Nat
    BY <1>0
  <2> QED BY <2>1, <2>2, <2>3
<1>2. ctr' = IF Alive(ctr[Redis][c])
             THEN [ctr EXCEPT ![Redis][c] = [ctr[Redis][c] EXCEPT !.until = u]] ELSE ctr
  BY DEF ExpireAt
<1>3. [ctr[Redis][c] EXCEPT !.until = u] \in CtrType
      /\ [ctr[Redis][c] EXCEPT !.until = u].count = ctr[Redis][c].count
      /\ [ctr[Redis][c] EXCEPT !.until = u].until = u
  BY <1>1 DEF CtrType
<1>4. req[r].kind # "strike" => u = now + Minute
  OBVIOUS
<1> HIDE DEF c, u
<1>5. /\ ctr' \in [Stores -> [Counters -> CtrType]]
      /\ \A s \in Stores, d \in Counters : (s # Redis \/ d # c) => ctr'[s][d] = ctr[s][d]
      /\ ctr'[Redis][c].count = ctr[Redis][c].count
      /\ Alive(ctr[Redis][c]) => ctr'[Redis][c].until = u
      /\ ~Alive(ctr[Redis][c]) => ctr' = ctr
  BY <1>1, <1>2, <1>3
<1> QED BY <1>4, <1>5 DEF c

-----------------------------------------------------------------------------
\* Where a request goes.
LEMMA RequestGoes ==
    ASSUME TypeOK, NEW r \in Requests, NEW q \in ReqType, req' = [req EXCEPT ![r] = q]
    PROVE  /\ req' \in [Requests -> ReqType]
           /\ req'[r] = q
           /\ \A x \in Requests \ {r} : req'[x] = req[x]
<1>1. req \in [Requests -> ReqType]
  BY DEF TypeOK, ReqType, AllKinds
<1> QED BY <1>1

OneMoves(r) ==
    /\ req' \in [Requests -> ReqType]
    /\ \A x \in Requests \ {r} : req'[x] = req[x]

LEMMA ReqTypes == ASSUME TypeOK, NEW r \in Requests PROVE req[r] \in ReqType
  BY DEF TypeOK, ReqType, AllKinds

LEMMA CheckMoves ==
    ASSUME TypeOK, NEW r \in Requests, Check(r)
    PROVE  /\ OneMoves(r)
           /\ \/ req'[r].pc = "blocked" /\ ~req'[r].hit
              \/ /\ req'[r].pc = "handle" /\ ~req'[r].hit /\ ~useRedis
                 /\ ~(LocalCacheEnabled /\ now < block[at[r]][KeyOf[r]])
              \/ /\ req'[r].pc = "ttl" /\ req'[r].start = now /\ useRedis
                 /\ req'[r].kind = req[r].kind /\ req'[r].hit = req[r].hit
<1>0. {"blocked", "handle", "ttl"} \subseteq Steps /\ now \in Nat /\ req[r] \in ReqType
  BY ReqTypes DEF Steps, TypeOK
<1>1. CASE req' = [req EXCEPT ![r] = Reaches("blocked")]
  BY <1>0, <1>1, ReachesType, RequestGoes DEF OneMoves
<1>2. CASE ~useRedis /\ req' = [req EXCEPT ![r] = Reaches("handle")]
           /\ ~(LocalCacheEnabled /\ now < block[at[r]][KeyOf[r]])
  BY <1>0, <1>2, ReachesType, RequestGoes DEF OneMoves
<1>3. CASE useRedis /\ req' = [req EXCEPT ![r] = [req[r] EXCEPT !.pc = "ttl", !.start = now]]
  <2> DEFINE c == [req[r] EXCEPT !.pc = "ttl"]
             p == [c EXCEPT !.start = now]
  <2>1. c \in ReqType /\ c.pc = "ttl" /\ c.kind = req[r].kind /\ c.hit = req[r].hit
    BY <1>0, PcChanges
  <2>2. req' = [req EXCEPT ![r] = p]
    BY <1>3
  <2> HIDE DEF c
  <2>3. p \in ReqType /\ p.pc = "ttl" /\ p.start = now /\ p.kind = req[r].kind /\ p.hit = req[r].hit
    BY <1>0, <2>1, StartChanges
  <2> HIDE DEF p
  <2> QED BY <1>3, <2>2, <2>3, RequestGoes DEF OneMoves
<1> QED BY <1>1, <1>2, <1>3 DEF Check

LEMMA ReadTTLMoves ==
    ASSUME TypeOK, NEW r \in Requests, ReadTTL(r)
    PROVE  /\ OneMoves(r)
           /\ \/ /\ req'[r].pc = "handle" /\ ~req'[r].hit
                 /\ 2 * block[Redis][KeyOf[r]] <= 2 * now + Second
              \/ req'[r].pc = "blocked" /\ ~req'[r].hit
              \/ /\ req'[r].pc = "cache" /\ req'[r].start = req[r].start
                 /\ 2 * (now + req'[r].ttl) <= 2 * block[Redis][KeyOf[r]] + Second
                 /\ req'[r].kind = req[r].kind /\ req'[r].hit = req[r].hit
<1>0. /\ {"blocked", "handle", "cache"} \subseteq Steps /\ now \in Nat /\ req[r] \in ReqType
      /\ block[Redis][KeyOf[r]] \in Nat /\ Second \in Nat \ {0}
  <2>1. KeyOf[r] \in Keys /\ Redis \in Stores /\ Second \in Nat \ {0}
    BY FailAssumption DEF Stores
  <2>2. block[Redis][KeyOf[r]] \in Nat
    BY <2>1 DEF TypeOK
  <2> QED BY <2>1, <2>2, ReqTypes DEF Steps, TypeOK
<1> DEFINE b == block[Redis][KeyOf[r]]
           left == Most(b, now) - now
<1>1. PICK ttl \in Rounded(left) :
         \/ ttl = 0 /\ req' = [req EXCEPT ![r] = Reaches("handle")]
         \/ req' = [req EXCEPT ![r] = Reaches("blocked")]
         \/ ttl > 0 /\ req' = [req EXCEPT ![r] = [req[r] EXCEPT !.pc = "cache", !.ttl = ttl]]
  BY DEF ReadTTL
<1>2. left \in Nat
  BY <1>0 DEF Most
<1>3. /\ ttl \in Nat
      /\ ttl = 0 => 2 * b <= 2 * now + Second
      /\ ttl > 0 => 2 * (now + ttl) <= 2 * b + Second
  <2>1. /\ ttl \in Nat /\ 2 * ttl <= 2 * left + Second /\ 2 * left <= 2 * ttl + Second
        /\ ttl % Second = 0
    BY <1>0, <1>2 DEF Rounded
  <2>2. CASE b <= now
    <3>1. left = 0
      BY <1>0, <2>2 DEF Most
    <3>2. ttl < Second
      BY <1>0, <2>1, <3>1
    <3>3. ttl % Second = ttl
      BY <1>0, <2>1, <3>2
    <3>4. ttl = 0
      BY <2>1, <3>3, Zenon
    <3> QED BY <1>0, <2>2, <3>4
  <2>3. CASE now < b
    <3>1. left = b - now
      BY <1>0, <2>3 DEF Most
    <3> QED BY <1>0, <2>1, <3>1
  <2> QED BY <1>0, <2>2, <2>3
<1> HIDE DEF left, b
<1>4. CASE ttl = 0 /\ req' = [req EXCEPT ![r] = Reaches("handle")]
  BY <1>0, <1>3, <1>4, ReachesType, RequestGoes DEF OneMoves, b
<1>5. CASE req' = [req EXCEPT ![r] = Reaches("blocked")]
  BY <1>0, <1>5, ReachesType, RequestGoes DEF OneMoves
<1>6. CASE ttl > 0 /\ req' = [req EXCEPT ![r] = [req[r] EXCEPT !.pc = "cache", !.ttl = ttl]]
  <2> DEFINE c == [req[r] EXCEPT !.pc = "cache"]
             p == [c EXCEPT !.ttl = ttl]
  <2>1. c \in ReqType /\ c.pc = "cache" /\ c.start = req[r].start /\ c.kind = req[r].kind
        /\ c.hit = req[r].hit
    BY <1>0, PcChanges
  <2>2. req' = [req EXCEPT ![r] = p]
    BY <1>6
  <2> HIDE DEF c
  <2>3. p \in ReqType /\ p.pc = "cache" /\ p.start = req[r].start /\ p.ttl = ttl
        /\ p.kind = req[r].kind /\ p.hit = req[r].hit
    BY <1>3, <2>1, TtlChanges
  <2> HIDE DEF p
  <2>4. 2 * (now + ttl) <= 2 * b + Second
    BY <1>3, <1>6
  <2> QED BY <2>2, <2>3, <2>4, RequestGoes DEF OneMoves, b
<1> QED BY <1>1, <1>4, <1>5, <1>6

LEMMA SendAgainMoves ==
    ASSUME TypeOK, NEW r \in Requests, SendAgain(r)
    PROVE  /\ OneMoves(r) /\ req'[r].pc = "check" /\ ~req'[r].hit
           /\ req[r].pc \in {"done", "blocked", "refused"}
<1>1. "check" \in Steps
  BY DEF Steps
<1>2. req' = [req EXCEPT ![r] = Reaches("check")]
  BY DEF SendAgain
<1> QED BY <1>1, <1>2, ReachesType, RequestGoes DEF OneMoves, SendAgain

LEMMA HandleMoves ==
    ASSUME TypeOK, NEW r \in Requests, Handle(r)
    PROVE  /\ OneMoves(r)
           /\ req[r].pc = "handle" /\ req'[r].pc \in {"done", "incr"}
           /\ req'[r].kind = req[r].kind /\ req'[r].hit = req[r].hit
<1>1. PICK pc \in {"done", "incr"} : req' = [req EXCEPT ![r].pc = pc]
  BY DEF Handle
<1> DEFINE p == [req[r] EXCEPT !.pc = pc]
<1>2. req[r] \in ReqType /\ pc \in Steps
  BY ReqTypes DEF Steps
<1>3. p \in ReqType /\ p.pc = pc /\ p.kind = req[r].kind /\ p.hit = req[r].hit
  BY <1>2, PcChanges
<1>4. req' = [req EXCEPT ![r] = p]
  BY <1>1
<1> HIDE DEF p
<1> QED BY <1>3, <1>4, RequestGoes DEF OneMoves, Handle

\* The expiry is to be set: for the first failure, and for every strike.
LEMMA AwaitsExpiry ==
    ASSUME TypeOK, NEW r \in Requests, NEW n \in Nat, NEW t \in Nat,
           req' = [req EXCEPT ![r] = [req[r] EXCEPT !.pc = "expire", !.num = n, !.start = t]]
    PROVE  /\ OneMoves(r)
           /\ req'[r].pc = "expire" /\ req'[r].num = n /\ req'[r].start = t
           /\ req'[r].kind = req[r].kind /\ req'[r].hit = req[r].hit
<1> DEFINE a == [req[r] EXCEPT !.pc = "expire"]
           b == [a EXCEPT !.num = n]
           c == [b EXCEPT !.start = t]
<1>1. req[r] \in ReqType /\ "expire" \in Steps
  BY ReqTypes DEF Steps
<1>2. req' = [req EXCEPT ![r] = c]
  OBVIOUS
<1>3. a \in ReqType /\ a.pc = "expire" /\ a.kind = req[r].kind /\ a.hit = req[r].hit
  BY <1>1, PcChanges
<1> HIDE DEF a
<1>4. b \in ReqType /\ b.pc = "expire" /\ b.num = n /\ b.kind = req[r].kind /\ b.hit = req[r].hit
  BY <1>3, NumChanges
<1> HIDE DEF b
<1>5. c \in ReqType /\ c.pc = "expire" /\ c.num = n /\ c.start = t /\ c.kind = req[r].kind
      /\ c.hit = req[r].hit
  BY <1>4, StartChanges
<1> HIDE DEF c
<1> QED BY <1>2, <1>5, RequestGoes DEF OneMoves

LEMMA IncrMoves ==
    ASSUME TypeOK, NEW r \in Requests, Incr(r)
    PROVE  /\ OneMoves(r) /\ IncrAt(CounterOf(r)) /\ CounterOf(r) \in Counters
           /\ LET n == ctr'[Redis][CounterOf(r)].count
              IN  \/ ~SetsExpiry(r, n) /\ req'[r] = Counted(req[r], n)
                  \/ /\ SetsExpiry(r, n)
                     /\ req'[r].pc = "expire" /\ req'[r].num = n
                     /\ req'[r].kind = req[r].kind /\ req'[r].hit = req[r].hit
                     /\ req'[r].start = IF req[r].kind = "strike" THEN req[r].start ELSE now
<1> DEFINE n == ctr'[Redis][CounterOf(r)].count
<1>1. IncrAt(CounterOf(r)) /\ CounterOf(r) \in Counters
  BY CounterTypes DEF Incr
<1>2. n \in Nat /\ req[r] \in ReqType /\ now \in Nat /\ req[r].start \in Nat
  BY <1>1, IncrAtEffects, ReqTypes DEF TypeOK
<1>3. CASE ~SetsExpiry(r, n)
  <2>1. req' = [req EXCEPT ![r] = Counted(req[r], n)]
    BY <1>3 DEF Incr
  <2>2. Counted(req[r], n) \in ReqType
    BY <1>2, CountedFail
  <2> HIDE DEF n
  <2> QED BY <1>1, <1>3, <2>1, <2>2, RequestGoes DEF OneMoves, n
<1>4. CASE SetsExpiry(r, n)
  <2> DEFINE t == IF req[r].kind = "strike" THEN req[r].start ELSE now
  <2>1. req' = [req EXCEPT ![r] = [req[r] EXCEPT !.pc = "expire", !.num = n, !.start = t]]
    <3>1. CASE req[r].kind = "strike"
      BY <1>4, <3>1 DEF Incr
    <3>2. CASE req[r].kind # "strike"
      BY <1>4, <3>2 DEF Incr
    <3> QED BY <3>1, <3>2
  <2>2. t \in Nat
    BY <1>2
  <2> HIDE DEF n, t
  <2>3. /\ OneMoves(r)
        /\ req'[r].pc = "expire" /\ req'[r].num = n /\ req'[r].start = t
        /\ req'[r].kind = req[r].kind /\ req'[r].hit = req[r].hit
    BY <1>2, <2>1, <2>2, AwaitsExpiry
  <2> QED BY <1>1, <1>4, <2>3 DEF n, t
<1> QED BY <1>3, <1>4

LEMMA ExpireMoves ==
    ASSUME TypeOK, NEW r \in Requests, Expire(r)
    PROVE  OneMoves(r) /\ req'[r] = Counted(req[r], req[r].num)
<1>1. req[r] \in ReqType /\ req[r].num \in Nat
  BY ReqTypes DEF TypeOK
<1>2. Counted(req[r], req[r].num) \in ReqType
  BY <1>1, CountedFail
<1>3. req' = [req EXCEPT ![r] = Counted(req[r], req[r].num)]
  BY DEF Expire
<1> QED BY <1>2, <1>3, RequestGoes DEF OneMoves

LEMMA StrikeMoves ==
    ASSUME TypeOK, NEW r \in Requests, Strike(r)
    PROVE  /\ OneMoves(r)
           /\ req'[r].pc = "incr" /\ req'[r].start = now /\ req'[r].kind = req[r].kind
           /\ req'[r].hit = req[r].hit
<1> DEFINE a == [req[r] EXCEPT !.pc = "incr"]
           b == [a EXCEPT !.start = now]
           c == [b EXCEPT !.ttl = Midnight - now]
<1>1. req[r] \in ReqType /\ "incr" \in Steps /\ now \in Nat /\ Midnight - now \in Nat
  BY ReqTypes, MidnightComes DEF Steps, TypeOK
<1>2. req' = [req EXCEPT ![r] = c]
  BY DEF Strike
<1>3. a \in ReqType /\ a.pc = "incr" /\ a.kind = req[r].kind /\ a.hit = req[r].hit
  BY <1>1, PcChanges
<1> HIDE DEF a
<1>4. b \in ReqType /\ b.pc = "incr" /\ b.start = now /\ b.kind = req[r].kind /\ b.hit = req[r].hit
  BY <1>1, <1>3, StartChanges
<1> HIDE DEF b
<1>5. c \in ReqType /\ c.pc = "incr" /\ c.start = now /\ c.kind = req[r].kind /\ c.hit = req[r].hit
  BY <1>1, <1>4, TtlChanges
<1> HIDE DEF c
<1> QED BY <1>2, <1>5, RequestGoes DEF OneMoves

\* A failure or a strike in the maps of the instance.
LEMMA IncrLocalMoves ==
    ASSUME TypeOK, NEW r \in Requests, IncrLocal(r)
    PROVE  LET c == CounterOf(r)
               e == ctr[at[r]][c]
           IN  /\ OneMoves(r) /\ c \in Counters /\ at[r] \in Stores /\ at[r] # Redis
               /\ ctr' \in [Stores -> [Counters -> CtrType]]
               /\ hist' \in [Stores -> [MinuteCounters -> Seq(Nat)]]
               /\ req'[r] = Counted(req[r], ctr'[at[r]][c].count)
               /\ ctr'[at[r]][c].count \in Nat \ {0}
               /\ \A s \in Stores, d \in Counters :
                     (s # at[r] \/ d # c) => ctr'[s][d] = ctr[s][d]
               /\ \A s \in Stores, d \in MinuteCounters :
                     hist'[s][d] = IF s = at[r] /\ d = c THEN Append(hist[s][d], now)
                                   ELSE hist[s][d]
               /\ req[r].kind # "strike" =>
                     ctr'[at[r]][c] = IF Alive(e) THEN [count |-> e.count + 1, until |-> e.until]
                                      ELSE [count |-> 1, until |-> now + Minute]
<1> DEFINE s0 == at[r]
           c == CounterOf(r)
           e == ctr[s0][c]
           day == req[r].start + req[r].ttl
           fresh == IF req[r].kind = "strike" THEN e.until # day ELSE ~Alive(e)
           n == IF fresh THEN 1 ELSE e.count + 1
           end == IF req[r].kind = "strike" THEN day ELSE now + Minute
           x == [count |-> n, until |-> IF fresh THEN end ELSE e.until]
<1>1. /\ s0 \in Stores /\ s0 # Redis /\ c \in Counters /\ now \in Nat /\ Minute \in Nat
      /\ req[r] \in ReqType /\ req[r].start \in Nat /\ req[r].ttl \in Nat
  <2>1. s0 \in Instances /\ now \in Nat
    BY DEF TypeOK
  <2>2. Redis \notin Instances /\ Minute \in Nat
    BY FailAssumption
  <2>3. req[r] \in ReqType /\ req[r].start \in Nat /\ req[r].ttl \in Nat
    BY ReqTypes DEF ReqType
  <2> QED BY <2>1, <2>2, <2>3, CounterTypes DEF Stores
<1>2. /\ ctr \in [Stores -> [Counters -> CtrType]]
      /\ hist \in [Stores -> [MinuteCounters -> Seq(Nat)]]
  BY DEF TypeOK, CtrType
<1>3. e \in CtrType /\ e.count \in Nat /\ e.until \in Nat \cup {None}
  <2>1. e \in CtrType
    BY <1>1, <1>2
  <2> QED BY <2>1 DEF CtrType
<1>4. x \in CtrType /\ x.count = n /\ n \in Nat \ {0}
  <2>1. end \in Nat
    BY <1>1
  <2> QED BY <1>3, <2>1 DEF CtrType
<1>5. ctr' = [ctr EXCEPT ![s0][c] = x]
  BY DEF IncrLocal
<1>6. req' = [req EXCEPT ![r] = Counted(req[r], n)]
  BY DEF IncrLocal
<1>7. hist' = IF c \in MinuteCounters THEN [hist EXCEPT ![s0][c] = Append(hist[s0][c], now)]
              ELSE hist
  BY DEF IncrLocal, Record
<1>8. req[r].kind # "strike" =>
         x = IF Alive(e) THEN [count |-> e.count + 1, until |-> e.until]
             ELSE [count |-> 1, until |-> now + Minute]
  OBVIOUS
<1> HIDE DEF x, n, s0, c
<1>9. Counted(req[r], n) \in ReqType
  BY <1>1, <1>4, CountedFail
<1>10. OneMoves(r) /\ req'[r] = Counted(req[r], n)
  BY <1>6, <1>9, RequestGoes DEF OneMoves
<1>11. /\ ctr' \in [Stores -> [Counters -> CtrType]] /\ ctr'[s0][c] = x
       /\ \A s \in Stores, d \in Counters : (s # s0 \/ d # c) => ctr'[s][d] = ctr[s][d]
  BY <1>1, <1>2, <1>4, <1>5
<1>12. c \in MinuteCounters => Append(hist[s0][c], now) \in Seq(Nat)
  BY <1>1, <1>2
<1>13. /\ hist' \in [Stores -> [MinuteCounters -> Seq(Nat)]]
       /\ \A s \in Stores, d \in MinuteCounters :
             hist'[s][d] = IF s = s0 /\ d = c THEN Append(hist[s][d], now) ELSE hist[s][d]
  BY <1>1, <1>2, <1>7, <1>12
<1> QED BY <1>1, <1>4, <1>8, <1>10, <1>11, <1>13 DEF s0, c

-----------------------------------------------------------------------------
(* Blocks.                                                                 *)

LEMMA KeyTypes ==
    ASSUME TypeOK, NEW r \in Requests
    PROVE  /\ KeyOf[r] \in Keys /\ at[r] \in Stores /\ at[r] # Redis /\ Redis \in Stores
           /\ block \in [Stores -> [Keys -> Nat]] /\ promised \in [Keys -> Nat]
           /\ barred \in [Stores -> [Keys -> Nat]] /\ now \in Nat
<1>1. KeyOf[r] \in Keys /\ Redis \notin Instances
  BY FailAssumption
<1> QED BY <1>1 DEF TypeOK, Stores

LEMMA NatHasLeast ==
    ASSUME NEW S \in SUBSET Nat, S # {}
    PROVE  \E d \in S : \A e \in S : d <= e
<1> DEFINE R == {p \in Nat \X Nat : p[1] < p[2]}
<1>1. IsWellFoundedOn(R, Nat)
  BY NatLessThanWellFounded DEF OpToRel
<1> HIDE DEF R
<1>2. PICK d \in S : \A e \in S : ~(<<e, d>> \in R)
  BY <1>1, WFMin
<1>3. \A e \in S : ~(e < d)
  BY <1>2 DEF R
<1> QED BY <1>3

\* No block is shorter than the shortest.
LEMMA MinBlockIsLeast ==
    /\ MinBlock \in Nat
    /\ \A n \in Nat \ {0} : MinBlock <= blockDurationForStrike(n)
<1> DEFINE D == {BlockDurations[i] : i \in 1 .. Len(BlockDurations)}
<1>1. BlockDurations \in Seq(Nat) /\ Len(BlockDurations) \in Nat \ {0}
  BY FailAssumption
<1>2. D \in SUBSET Nat /\ D # {}
  BY <1>1
<1>3. \E d \in D : \A i \in 1 .. Len(BlockDurations) : d <= BlockDurations[i]
  <2>1. PICK d \in D : \A e \in D : d <= e
    BY <1>2, NatHasLeast
  <2> QED BY <2>1
<1>4. MinBlock \in D /\ \A i \in 1 .. Len(BlockDurations) : MinBlock <= BlockDurations[i]
  BY <1>3 DEF MinBlock
<1> QED BY <1>2, <1>4, DurationTypes

\* A block is set at s: until end, which is promised.
BlockSet(s, k, end) ==
    /\ block' \in [Stores -> [Keys -> Nat]]
    /\ \A x \in Stores, j \in Keys : block'[x][j] = IF x = s /\ j = k THEN end ELSE block[x][j]

LEMMA PromiseEffects ==
    ASSUME TypeOK, NEW r \in Requests, NEW s \in Stores, NEW end \in Nat, Promise(r, s, end)
    PROVE  /\ promised' \in [Keys -> Nat] /\ barred' \in [Stores -> [Keys -> Nat]]
           /\ \A k \in Keys : promised[k] <= promised'[k]
           /\ end <= promised'[KeyOf[r]]
           /\ \A x \in Stores, k \in Keys :
                 barred'[x][k] = IF x = s /\ k = KeyOf[r] /\ s = StoreOf(r)
                                 THEN now + MinBlock ELSE barred[x][k]
<1>1. /\ KeyOf[r] \in Keys /\ promised \in [Keys -> Nat] /\ barred \in [Stores -> [Keys -> Nat]]
      /\ now + MinBlock \in Nat
  BY KeyTypes, MinBlockIsLeast
<1>2. promised' = [promised EXCEPT ![KeyOf[r]] = Most(promised[KeyOf[r]], end)]
  BY DEF Promise
<1>3. /\ promised' \in [Keys -> Nat]
      /\ \A k \in Keys : promised[k] <= promised'[k]
      /\ end <= promised'[KeyOf[r]]
  BY <1>1, <1>2 DEF Most
<1>4. barred' = IF s = StoreOf(r) THEN [barred EXCEPT ![s][KeyOf[r]] = now + MinBlock] ELSE barred
  BY DEF Promise
<1>5. /\ barred' \in [Stores -> [Keys -> Nat]]
      /\ \A x \in Stores, k \in Keys :
            barred'[x][k] = IF x = s /\ k = KeyOf[r] /\ s = StoreOf(r)
                            THEN now + MinBlock ELSE barred[x][k]
  BY <1>1, <1>4
<1> QED BY <1>3, <1>5

LEMMA SetAtEffects ==
    ASSUME TypeOK, NEW r \in Requests, req[r].num > 0, SetAt(r)
    PROVE  LET end == now + blockDurationForStrike(req[r].num)
           IN  end \in Nat /\ BlockSet(Redis, KeyOf[r], end) /\ Promise(r, Redis, end)
<1> DEFINE end == now + blockDurationForStrike(req[r].num)
<1>1. req[r].num \in Nat \ {0}
  BY DEF TypeOK
<1>2. end \in Nat
  <2>1. blockDurationForStrike(req[r].num) \in Nat
    BY <1>1, DurationTypes
  <2> QED BY <2>1, KeyTypes
<1>3. block' = [block EXCEPT ![Redis][KeyOf[r]] = end]
  BY DEF SetAt
<1>4. Promise(r, Redis, end)
  BY DEF SetAt
<1> HIDE DEF end
<1>5. BlockSet(Redis, KeyOf[r], end)
  BY <1>2, <1>3, KeyTypes DEF BlockSet
<1> QED BY <1>2, <1>4, <1>5 DEF end

LEMMA SetBlockMoves ==
    ASSUME TypeOK, StrikesCounted, NEW r \in Requests, SetBlock(r)
    PROVE  LET end == now + blockDurationForStrike(req[r].num)
           IN  /\ OneMoves(r) /\ end \in Nat /\ req[r].num \in Nat \ {0}
               /\ LocalCacheEnabled => BlockSet(at[r], KeyOf[r], end)
               /\ ~LocalCacheEnabled => block' = block
               /\ Promise(r, at[r], end)
               /\ ~req'[r].hit \/ req'[r].hit = req[r].hit
               /\ \/ /\ useRedis /\ req'[r].pc = "set" /\ req'[r].num = req[r].num
                     /\ req'[r].start = now
                  \/ req'[r].pc = "done"
<1> DEFINE end == now + blockDurationForStrike(req[r].num)
<1>1. req[r].num \in Nat \ {0} /\ req[r] \in ReqType /\ now \in Nat
  BY ReqTypes DEF SetBlock, StrikesCounted, TypeOK
<1>2. end \in Nat
  <2>1. blockDurationForStrike(req[r].num) \in Nat
    BY <1>1, DurationTypes
  <2> QED BY <1>1, <2>1
<1>3. block' = IF LocalCacheEnabled THEN [block EXCEPT ![at[r]][KeyOf[r]] = end] ELSE block
  BY DEF SetBlock
<1>4. Promise(r, at[r], end)
  BY DEF SetBlock
<1> HIDE DEF end
<1>5. LocalCacheEnabled => BlockSet(at[r], KeyOf[r], end)
  BY <1>2, <1>3, KeyTypes DEF BlockSet
<1>6. CASE useRedis
  <2> DEFINE a == [req[r] EXCEPT !.pc = "set"]
             b == [a EXCEPT !.start = now]
  <2>1. req' = [req EXCEPT ![r] = b]
    BY <1>6 DEF SetBlock
  <2>2. "set" \in Steps
    BY DEF Steps
  <2>3. a \in ReqType /\ a.pc = "set" /\ a.num = req[r].num /\ a.hit = req[r].hit
    BY <1>1, <2>2, PcChanges
  <2> HIDE DEF a
  <2>4. b \in ReqType /\ b.pc = "set" /\ b.num = req[r].num /\ b.start = now /\ b.hit = req[r].hit
    BY <1>1, <2>3, StartChanges
  <2> HIDE DEF b
  <2>5. /\ OneMoves(r) /\ req'[r].pc = "set" /\ req'[r].num = req[r].num /\ req'[r].start = now
        /\ req'[r].hit = req[r].hit
    BY <2>1, <2>4, RequestGoes DEF OneMoves
  <2> QED BY <1>1, <1>2, <1>3, <1>4, <1>5, <1>6, <2>5 DEF end
<1>7. CASE ~useRedis
  <2>1. req' = [req EXCEPT ![r] = Reaches("done")] /\ "done" \in Steps
    BY <1>7 DEF SetBlock, Steps
  <2>2. OneMoves(r) /\ req'[r].pc = "done" /\ ~req'[r].hit
    BY <2>1, ReachesType, RequestGoes DEF OneMoves
  <2> QED BY <1>1, <1>2, <1>3, <1>4, <1>5, <2>2 DEF end
<1> QED BY <1>6, <1>7 DEF TypeOK

LEMMA SetRedisMoves ==
    ASSUME TypeOK, StrikesCounted, NEW r \in Requests, SetRedis(r)
    PROVE  /\ OneMoves(r) /\ req'[r].pc = "done" /\ ~req'[r].hit
           /\ SetAt(r) /\ req[r].num > 0
<1>1. "done" \in Steps
  BY DEF Steps
<1>2. req' = [req EXCEPT ![r] = Reaches("done")]
  BY DEF SetRedis
<1> QED BY <1>1, <1>2, ReachesType, RequestGoes DEF OneMoves, SetRedis, StrikesCounted

LEMMA CacheMoves ==
    ASSUME TypeOK, NEW r \in Requests, CacheBlock(r)
    PROVE  /\ OneMoves(r) /\ req'[r].pc = "blocked" /\ ~req'[r].hit
           /\ \E end \in Nat : /\ end <= req[r].start + req[r].ttl
                               /\ BlockSet(at[r], KeyOf[r], end)
<1>1. "blocked" \in Steps
  BY DEF Steps
<1>2. req' = [req EXCEPT ![r] = Reaches("blocked")]
  BY DEF CacheBlock
<1>3. OneMoves(r) /\ req'[r].pc = "blocked" /\ ~req'[r].hit
  BY <1>1, <1>2, ReachesType, RequestGoes DEF OneMoves
<1>4. req[r].start \in Nat /\ req[r].ttl \in Nat
  BY DEF TypeOK
<1>5. CachedUntil(r) \in Nat /\ CachedUntil(r) <= req[r].start + req[r].ttl
  <2>1. LocalBlockTTL \in Nat
    BY FailAssumption
  <2> DEFINE start == req[r].start
             ttl == req[r].ttl
  <2>2. start \in Nat /\ ttl \in Nat /\ CachedUntil(r) = start + Least(ttl, LocalBlockTTL)
    BY <1>4 DEF CachedUntil
  <2> HIDE DEF start, ttl
  <2>3. Least(ttl, LocalBlockTTL) \in Nat /\ Least(ttl, LocalBlockTTL) <= ttl
    BY <2>1, <2>2 DEF Least
  <2>4. start + Least(ttl, LocalBlockTTL) \in Nat /\ start + Least(ttl, LocalBlockTTL) <= start + ttl
    BY <2>2, <2>3
  <2> QED BY <2>2, <2>4 DEF start, ttl
<1>6. BlockSet(at[r], KeyOf[r], CachedUntil(r))
  BY <1>5, KeyTypes DEF CacheBlock, BlockSet
<1> QED BY <1>3, <1>5, <1>6

\* A call that fails ends the request's share in counting or blocking.
LEMMA CallFailsMoves ==
    ASSUME TypeOK, StrikesCounted, NEW r \in Requests, CallFails(r)
    PROVE  /\ OneMoves(r) /\ ~req'[r].hit /\ faults' # faults /\ useRedis
           /\ \/ req[r].pc = "ttl" /\ req'[r].pc \in {"handle", "refused"}
              \/ req[r].pc \in {"incr", "expire", "set"} /\ req'[r].pc \in {"done", "refused"}
<1>1. {"handle", "refused", "done"} \subseteq Steps
  BY DEF Steps
<1>2. faults' # faults /\ useRedis
  BY DEF CallFails, TypeOK
<1>3. CASE req[r].pc = "ttl"
  <2>1. PICK pc \in {"handle", "refused"} : req' = [req EXCEPT ![r] = Reaches(pc)]
    BY <1>3 DEF CallFails
  <2>2. Reaches(pc) \in ReqType /\ Reaches(pc).pc = pc /\ ~Reaches(pc).hit
    BY <1>1, ReachesType
  <2>3. OneMoves(r) /\ req'[r] = Reaches(pc)
    BY <2>1, <2>2, RequestGoes DEF OneMoves
  <2> QED BY <1>2, <1>3, <2>2, <2>3
<1>4. CASE req[r].pc \in {"incr", "expire", "set"}
  <2>1. PICK pc \in {"done", "refused"} : req' = [req EXCEPT ![r] = Reaches(pc)]
    BY <1>4 DEF CallFails
  <2>2. Reaches(pc) \in ReqType /\ Reaches(pc).pc = pc /\ ~Reaches(pc).hit
    BY <1>1, ReachesType
  <2>3. OneMoves(r) /\ req'[r] = Reaches(pc)
    BY <2>1, <2>2, RequestGoes DEF OneMoves
  <2> QED BY <1>2, <1>4, <2>2, <2>3
<1> QED BY <1>3, <1>4 DEF CallFails

-----------------------------------------------------------------------------
(* Types.                                                                  *)

Shape == TypeOK /\ StrikesCounted /\ RedisUsed

LEMMA ShapeInitial == Init => Shape
<1> SUFFICES ASSUME Init PROVE Shape
  OBVIOUS
<1>1. Reaches("check") \in ReqType /\ Reaches("check").pc = "check"
  BY ReachesType DEF Steps
<1>2. PICK d \in Setups : useRedis = d.redis /\ at = d.at
  BY DEF Init
<1>3. useRedis \in BOOLEAN /\ at \in [Requests -> Instances]
  BY <1>2, FailAssumption
<1>4. req \in [Requests -> ReqType]
  BY <1>1 DEF Init
<1>5. /\ ctr \in [Stores -> [Counters -> [count : Nat, until : Nat \cup {None}]]]
      /\ block \in [Stores -> [Keys -> Nat]]
      /\ barred \in [Stores -> [Keys -> Nat]] /\ promised \in [Keys -> Nat]
  BY DEF Init
<1>6. hist \in [Stores -> [MinuteCounters -> Seq(Nat)]]
  BY DEF Init
<1>7. \A r \in Requests : req[r].pc = "check"
  BY <1>1 DEF Init
<1>8. TypeOK
  BY <1>3, <1>4, <1>5, <1>6 DEF Init, TypeOK, ReqType, AllKinds
<1> QED BY <1>7, <1>8 DEF Shape, StrikesCounted, RedisUsed

\* The requests that do not move keep what they had.
LEMMA OthersStay ==
    ASSUME Shape, NEW r \in Requests, OneMoves(r), useRedis' = useRedis,
           req'[r].pc \in {"expire", "block", "set"} => req'[r].num > 0,
           req'[r].pc \in {"ttl", "cache", "expire", "set"} => useRedis
    PROVE  StrikesCounted' /\ RedisUsed'
  BY DEF Shape, StrikesCounted, RedisUsed, OneMoves

LEMMA CountedCounts ==
    ASSUME NEW q \in ReqType, NEW n \in Nat \ {0}, q.kind = "strike" => n > 0
    PROVE  /\ Counted(q, n).pc \in {"expire", "block", "set"} => Counted(q, n).num > 0
           /\ Counted(q, n).pc \notin {"ttl", "cache", "expire", "set"}
<1>1. q.kind \in AllKinds
  BY DEF ReqType
<1> QED BY <1>1, CountedFail DEF AllKinds

\* A counter that got stuck stays so.
LEMMA StuckGrows ==
    ASSUME TypeOK, NEW r \in Requests, CallFails(r)
    PROVE  stuck' \subseteq {Redis} \X MinuteCounters /\ stuck \subseteq stuck'
<1>1. stuck \subseteq {Redis} \X MinuteCounters
  BY DEF TypeOK
<1>2. stuck' = stuck \/ (LosesExpiry(r) /\ stuck' = stuck \cup {<<Redis, CounterOf(r)>>})
  BY DEF CallFails
<1>3. LosesExpiry(r) => CounterOf(r) \in MinuteCounters
  BY DEF LosesExpiry
<1> QED BY <1>1, <1>2, <1>3

LEMMA ShapeStep ==
    ASSUME Shape, [Next]_vars
    PROVE  Shape'
<1>0. TypeOK /\ StrikesCounted /\ RedisUsed
  BY DEF Shape
<1> DEFINE Rest == /\ faults' \in Nat /\ again' \in Nat /\ useRedis' = useRedis /\ at' = at
                   /\ now' \in Nat
           Stored == /\ ctr' \in [Stores -> [Counters -> CtrType]]
                     /\ hist' \in [Stores -> [MinuteCounters -> Seq(Nat)]]
                     /\ stuck' \subseteq {Redis} \X MinuteCounters
           Blocked == /\ block' \in [Stores -> [Keys -> Nat]] /\ promised' \in [Keys -> Nat]
                      /\ barred' \in [Stores -> [Keys -> Nat]]
           Counting == /\ \A r \in Requests :
                             req'[r].pc \in {"expire", "block", "set"} => req'[r].num > 0
                       /\ \A r \in Requests :
                             req'[r].pc \in {"ttl", "cache", "expire", "set"} => useRedis
<1>1. ASSUME NEW r \in Requests, OneMoves(r), Rest, Stored, Blocked,
             req'[r].pc \in {"expire", "block", "set"} => req'[r].num > 0,
             req'[r].pc \in {"ttl", "cache", "expire", "set"} => useRedis
      PROVE  Shape'
  <2>1. StrikesCounted' /\ RedisUsed'
    BY <1>1, OthersStay
  <2>2. TypeOK'
    BY <1>0, <1>1 DEF TypeOK, OneMoves, ReqType, AllKinds, CtrType
  <2> QED BY <2>1, <2>2 DEF Shape
<1>2. UNCHANGED <<ctr, hist, stuck>> => Stored
  BY <1>0 DEF TypeOK, CtrType
<1>3. UNCHANGED <<block, promised, barred>> => Blocked
  BY <1>0 DEF TypeOK
<1>4. UNCHANGED <<faults, again, useRedis, at, now>> => Rest
  BY <1>0 DEF TypeOK
<1> HIDE DEF Rest, Stored, Blocked
<1>5. ASSUME NEW r \in Requests, Check(r) PROVE Shape'
  BY <1>0, <1>1, <1>2, <1>3, <1>4, <1>5, CheckMoves DEF Check
<1>6. ASSUME NEW r \in Requests, ReadTTL(r) PROVE Shape'
  BY <1>0, <1>1, <1>2, <1>3, <1>4, <1>6, ReadTTLMoves DEF ReadTTL, RedisUsed
<1>7. ASSUME NEW r \in Requests, CacheBlock(r) PROVE Shape'
  <2>1. Blocked
    BY <1>0, <1>7, CacheMoves DEF Blocked, CacheBlock, TypeOK, BlockSet
  <2> QED BY <1>0, <1>1, <1>2, <1>4, <1>7, <2>1, CacheMoves DEF CacheBlock
<1>8. ASSUME NEW r \in Requests, Handle(r) PROVE Shape'
  BY <1>0, <1>1, <1>2, <1>3, <1>4, <1>8, HandleMoves DEF Handle
<1>9. ASSUME NEW r \in Requests, IncrAt(CounterOf(r)), stuck' \subseteq {Redis} \X MinuteCounters
      PROVE  Stored
  <2>1. CounterOf(r) \in Counters
    BY <1>0, CounterTypes
  <2>2. ctr' \in [Stores -> [Counters -> CtrType]]
    BY <1>0, <1>9, <2>1, IncrAtEffects
  <2>3. hist' \in [Stores -> [MinuteCounters -> Seq(Nat)]]
    BY <1>0, <1>9, <2>1, IncrAtEffects
  <2> QED BY <1>9, <2>2, <2>3 DEF Stored
<1>10. ASSUME NEW r \in Requests, Incr(r) PROVE Shape'
  <2>1. Stored
    BY <1>0, <1>9, <1>10 DEF Incr, TypeOK
  <2>2. Rest /\ Blocked /\ OneMoves(r) /\ useRedis
    BY <1>0, <1>3, <1>4, <1>10, IncrMoves DEF Incr
  <2> DEFINE n == ctr'[Redis][CounterOf(r)].count
  <2>3. n \in Nat \ {0} /\ req[r] \in ReqType
    BY <1>0, <1>10, IncrMoves, IncrAtEffects, ReqTypes
  <2>4. req'[r] = Counted(req[r], n) \/ (req'[r].pc = "expire" /\ req'[r].num = n)
    BY <1>0, <1>10, IncrMoves
  <2> HIDE DEF n
  <2>5. req'[r].pc \in {"expire", "block", "set"} => req'[r].num > 0
    BY <2>3, <2>4, CountedCounts
  <2> QED BY <1>1, <2>1, <2>2, <2>5
<1>11. ASSUME NEW r \in Requests, Expire(r) PROVE Shape'
  <2>1. Stored
    BY <1>0, <1>11, ExpireAtEffects DEF Expire, Stored, TypeOK
  <2>2. req[r].num \in Nat \ {0} /\ req[r] \in ReqType
    BY <1>0, <1>11, ReqTypes DEF Expire, StrikesCounted, TypeOK
  <2>3. OneMoves(r) /\ req'[r] = Counted(req[r], req[r].num)
    BY <1>0, <1>11, ExpireMoves
  <2>4. /\ req'[r].pc \in {"expire", "block", "set"} => req'[r].num > 0
        /\ req'[r].pc \notin {"ttl", "cache", "expire", "set"}
    BY <2>2, <2>3, CountedCounts
  <2> QED BY <1>0, <1>1, <1>3, <1>4, <1>11, <2>1, <2>3, <2>4 DEF Expire
<1>12. ASSUME NEW r \in Requests, Strike(r) PROVE Shape'
  BY <1>0, <1>1, <1>2, <1>3, <1>4, <1>12, StrikeMoves DEF Strike
<1>13. ASSUME NEW r \in Requests, IncrLocal(r) PROVE Shape'
  <2>1. Stored
    BY <1>0, <1>13, IncrLocalMoves DEF IncrLocal, Stored, TypeOK
  <2> DEFINE n == ctr'[at[r]][CounterOf(r)].count
  <2>2. n \in Nat \ {0} /\ req[r] \in ReqType /\ OneMoves(r) /\ req'[r] = Counted(req[r], n)
    BY <1>0, <1>13, IncrLocalMoves, ReqTypes
  <2> HIDE DEF n
  <2>3. /\ req'[r].pc \in {"expire", "block", "set"} => req'[r].num > 0
        /\ req'[r].pc \notin {"ttl", "cache", "expire", "set"}
    BY <2>2, CountedCounts
  <2> QED BY <1>1, <1>3, <1>4, <1>13, <2>1, <2>2, <2>3 DEF IncrLocal
<1>14. ASSUME NEW r \in Requests, SetBlock(r) PROVE Shape'
  <2> DEFINE end == now + blockDurationForStrike(req[r].num)
  <2>1. /\ OneMoves(r) /\ end \in Nat /\ req[r].num \in Nat \ {0} /\ Promise(r, at[r], end)
        /\ LocalCacheEnabled => BlockSet(at[r], KeyOf[r], end)
        /\ ~LocalCacheEnabled => block' = block
        /\ \/ useRedis /\ req'[r].pc = "set" /\ req'[r].num = req[r].num
           \/ req'[r].pc = "done"
    BY <1>0, <1>14, SetBlockMoves
  <2> HIDE DEF end
  <2>2. promised' \in [Keys -> Nat] /\ barred' \in [Stores -> [Keys -> Nat]]
    BY <1>0, <2>1, KeyTypes, PromiseEffects
  <2>3. Blocked
    BY <1>0, <2>1, <2>2, KeyTypes DEF BlockSet, Blocked
  <2> QED BY <1>1, <1>2, <1>4, <1>14, <2>1, <2>3 DEF SetBlock
<1>15. ASSUME NEW r \in Requests, SetAt(r), req[r].num > 0 PROVE Blocked
  <2> DEFINE end == now + blockDurationForStrike(req[r].num)
  <2>1. end \in Nat /\ BlockSet(Redis, KeyOf[r], end) /\ Promise(r, Redis, end)
    BY <1>0, <1>15, SetAtEffects
  <2> HIDE DEF end
  <2>2. promised' \in [Keys -> Nat] /\ barred' \in [Stores -> [Keys -> Nat]]
    BY <1>0, <2>1, KeyTypes, PromiseEffects
  <2> QED BY <2>1, <2>2 DEF BlockSet, Blocked
<1>16. ASSUME NEW r \in Requests, SetRedis(r) PROVE Shape'
  BY <1>0, <1>1, <1>2, <1>4, <1>15, <1>16, SetRedisMoves DEF SetRedis
<1>17. ASSUME NEW r \in Requests, CallFails(r) PROVE Shape'
  <2>1. OneMoves(r) /\ req'[r].pc \in {"handle", "refused", "done"}
    BY <1>0, <1>17, CallFailsMoves
  <2>2. Rest
    BY <1>0, <1>17 DEF CallFails, Rest, TypeOK
  <2>3. stuck' \subseteq {Redis} \X MinuteCounters
    BY <1>0, <1>17, StuckGrows
  <2>5. ctr' = ctr /\ hist' = hist => Stored
    BY <1>0, <2>3 DEF Stored, TypeOK, CtrType
  <2>6. IncrAt(CounterOf(r)) => Stored
    BY <1>9, <2>3
  <2>7. ExpireAt(r) /\ hist' = hist => Stored
    BY <1>0, <2>3, ExpireAtEffects DEF Stored, TypeOK
  <2>8. req[r].pc = "set" => req[r].num > 0
    BY <1>0 DEF StrikesCounted
  <2>9. Stored /\ Blocked
    BY <1>3, <1>15, <1>17, <2>5, <2>6, <2>7, <2>8 DEF CallFails
  <2> QED BY <1>1, <2>1, <2>2, <2>9
<1>18. CASE Tick
  BY <1>0, <1>18 DEF Tick, Shape, TypeOK, StrikesCounted, RedisUsed
<1>19. CASE UNCHANGED vars
  BY <1>0, <1>19 DEF vars, Shape, TypeOK, StrikesCounted, RedisUsed
<1>20. ASSUME NEW r \in Requests, SendAgain(r) PROVE Shape'
  <2>1. Rest
    BY <1>0, <1>20 DEF SendAgain, Rest, TypeOK
  <2> QED BY <1>0, <1>1, <1>2, <1>3, <1>20, <2>1, SendAgainMoves DEF SendAgain
<1> QED BY <1>20, <1>5, <1>6, <1>7, <1>8, <1>10, <1>11, <1>12, <1>13, <1>14, <1>16, <1>17, <1>18, <1>19
    DEF Next

\* The clock, counters, blocks, requests and histories keep their types (TypeOK),
\* for any number of requests, instances and failing calls.
THEOREM FailTypeCorrect == Spec => []TypeOK
<1>1. Shape => TypeOK
  BY DEF Shape
<1> QED BY <1>1, ShapeInitial, ShapeStep, PTL DEF Spec

-----------------------------------------------------------------------------
(* Blocks are promised.                                                    *)

\* A request that looks for a block asked for it before now, and what it found
\* was promised, but for half a second.
LooksPast ==
    /\ \A r \in Requests : req[r].pc \in {"ttl", "cache"} => req[r].start <= now
    /\ \A r \in Requests :
          req[r].pc = "cache" =>
             2 * (req[r].start + req[r].ttl) <= 2 * promised[KeyOf[r]] + Second

PromiseInv == LooksPast /\ BlocksArePromised

\* The requests that do not move keep what they found.
LEMMA OthersLook ==
    ASSUME Shape, LooksPast, NEW r \in Requests, OneMoves(r), now' = now,
           promised' \in [Keys -> Nat], \A k \in Keys : promised[k] <= promised'[k],
           req'[r].pc \in {"ttl", "cache"} => req'[r].start <= now,
           req'[r].pc = "cache" =>
              2 * (req'[r].start + req'[r].ttl) <= 2 * promised'[KeyOf[r]] + Second
    PROVE  LooksPast'
<1>1. ASSUME NEW x \in Requests, req'[x].pc \in {"ttl", "cache"} PROVE req'[x].start <= now'
  BY <1>1 DEF LooksPast, OneMoves
<1>2. ASSUME NEW x \in Requests, req'[x].pc = "cache"
      PROVE  2 * (req'[x].start + req'[x].ttl) <= 2 * promised'[KeyOf[x]] + Second
  <2>1. CASE x = r
    BY <1>2, <2>1
  <2>2. CASE x # r
    <3>1. TypeOK
      BY DEF Shape
    <3>2. /\ req[x] \in ReqType /\ KeyOf[x] \in Keys /\ req'[x] = req[x]
          /\ promised \in [Keys -> Nat]
      BY <2>2, <3>1, ReqTypes, KeyTypes DEF OneMoves
    <3>3. 2 * (req[x].start + req[x].ttl) <= 2 * promised[KeyOf[x]] + Second
      BY <1>2, <3>2 DEF LooksPast
    <3>4. /\ req[x].start \in Nat /\ req[x].ttl \in Nat /\ promised[KeyOf[x]] \in Nat
          /\ promised'[KeyOf[x]] \in Nat /\ promised[KeyOf[x]] <= promised'[KeyOf[x]]
          /\ Second \in Nat
      BY <3>2, FailAssumption DEF ReqType
    <3> QED BY <3>2, <3>3, <3>4
  <2> QED BY <2>1, <2>2
<1> QED BY <1>1, <1>2 DEF LooksPast

LEMMA SlackTypes == \A s : Slack(s) \in Nat
  BY FailAssumption DEF Slack

\* A block is set whose end is promised.
LEMMA PromisedIsSet ==
    ASSUME TypeOK, BlocksArePromised, NEW s \in Stores, NEW k \in Keys, NEW end \in Nat,
           BlockSet(s, k, end), promised' \in [Keys -> Nat], useRedis' = useRedis,
           \A j \in Keys : promised[j] <= promised'[j], 2 * end <= 2 * promised'[k] + Slack(s)
    PROVE  BlocksArePromised'
<1> SUFFICES ASSUME NEW x \in Stores, NEW j \in Keys
             PROVE  2 * block'[x][j] <= 2 * promised'[j] + Slack(x)
  BY DEF BlocksArePromised, Slack
<1>0. block \in [Stores -> [Keys -> Nat]] /\ promised \in [Keys -> Nat]
  BY DEF TypeOK
<1>1. /\ block[x][j] \in Nat /\ promised[j] \in Nat /\ promised'[j] \in Nat
      /\ Slack(x) \in Nat
  BY <1>0, SlackTypes
<1>2. 2 * block[x][j] <= 2 * promised[j] + Slack(x) /\ promised[j] <= promised'[j]
  BY DEF BlocksArePromised
<1>3. block'[x][j] = IF x = s /\ j = k THEN end ELSE block[x][j]
  BY DEF BlockSet
<1>4. CASE x = s /\ j = k
  BY <1>3, <1>4
<1>5. CASE ~(x = s /\ j = k)
  BY <1>1, <1>2, <1>3, <1>5
<1> QED BY <1>4, <1>5

LEMMA PromiseStep ==
    ASSUME Shape, PromiseInv, [Next]_vars
    PROVE  PromiseInv'
<1>0. TypeOK /\ StrikesCounted /\ RedisUsed /\ LooksPast /\ BlocksArePromised
  BY DEF Shape, PromiseInv
<1>1. now \in Nat /\ promised \in [Keys -> Nat]
  BY <1>0 DEF TypeOK
<1>2. promised' = promised =>
         promised' \in [Keys -> Nat] /\ \A k \in Keys : promised[k] <= promised'[k]
  BY <1>1
<1>3. UNCHANGED <<block, promised, useRedis>> => BlocksArePromised'
  BY <1>0 DEF BlocksArePromised, Slack
<1>4. ASSUME NEW r \in Requests, OneMoves(r), UNCHANGED <<now, block, promised, useRedis>>,
             req'[r].pc \notin {"ttl", "cache"}
      PROVE  PromiseInv'
  BY <1>2, <1>3, <1>4, <1>0, OthersLook DEF PromiseInv
<1>5. ASSUME NEW r \in Requests, Check(r) PROVE PromiseInv'
  <2>1. /\ OneMoves(r)
        /\ req'[r].pc \in {"ttl", "cache"} => req'[r].start = now /\ req'[r].pc = "ttl"
    BY <1>0, <1>5, CheckMoves
  <2>2. UNCHANGED <<now, block, promised, useRedis>>
    BY <1>5 DEF Check
  <2> QED BY <1>0, <1>1, <1>2, <1>3, <2>1, <2>2, OthersLook DEF PromiseInv
<1>6. ASSUME NEW r \in Requests, ReadTTL(r) PROVE PromiseInv'
  <2>1. UNCHANGED <<now, block, promised, useRedis>> /\ req[r].pc = "ttl"
    BY <1>6 DEF ReadTTL
  <2>2. CASE req'[r].pc = "cache"
    <3>1. /\ OneMoves(r) /\ req'[r].start = req[r].start
          /\ 2 * (now + req'[r].ttl) <= 2 * block[Redis][KeyOf[r]] + Second
      BY <1>0, <1>6, <2>2, ReadTTLMoves
    <3>2. req[r].start <= now
      BY <1>0, <2>1 DEF LooksPast
    <3>3. block[Redis][KeyOf[r]] \in Nat /\ promised[KeyOf[r]] \in Nat /\ Second \in Nat
      BY <1>0, KeyTypes, FailAssumption
    <3>4. 2 * block[Redis][KeyOf[r]] <= 2 * promised[KeyOf[r]] + 0
      <4>1. KeyOf[r] \in Keys /\ Redis \in Stores /\ Slack(Redis) = 0
        BY <1>0, KeyTypes DEF Slack
      <4> QED BY <1>0, <4>1 DEF BlocksArePromised
    <3>5. req[r].start \in Nat /\ req'[r].ttl \in Nat
      BY <1>0, <3>1, ReqTypes DEF ReqType, OneMoves
    <3>6. /\ req'[r].start <= now
          /\ 2 * (req'[r].start + req'[r].ttl) <= 2 * promised'[KeyOf[r]] + Second
      BY <1>1, <2>1, <3>1, <3>2, <3>3, <3>4, <3>5
    <3> QED BY <1>0, <1>2, <1>3, <2>1, <3>1, <3>6, OthersLook DEF PromiseInv
  <2>3. CASE req'[r].pc # "cache"
    BY <1>0, <1>4, <1>6, <2>1, <2>3, ReadTTLMoves
  <2> QED BY <2>2, <2>3
<1>7. ASSUME NEW r \in Requests, CacheBlock(r) PROVE PromiseInv'
  <2>1. OneMoves(r) /\ req'[r].pc = "blocked" /\ UNCHANGED <<now, promised, useRedis>> /\ req[r].pc = "cache"
    BY <1>0, <1>7, CacheMoves DEF CacheBlock
  <2>2. PICK end \in Nat : end <= req[r].start + req[r].ttl /\ BlockSet(at[r], KeyOf[r], end)
    BY <1>0, <1>7, CacheMoves
  <2>3. 2 * (req[r].start + req[r].ttl) <= 2 * promised[KeyOf[r]] + Second
    BY <1>0, <2>1 DEF LooksPast
  <2>4. /\ KeyOf[r] \in Keys /\ at[r] \in Stores /\ promised[KeyOf[r]] \in Nat
        /\ req[r].start \in Nat /\ req[r].ttl \in Nat
    BY <1>0, KeyTypes, ReqTypes DEF ReqType
  <2>5. 2 * end <= 2 * promised'[KeyOf[r]] + Slack(at[r])
    <3>1. Slack(at[r]) = Second /\ Second \in Nat
      BY <1>0, <2>1, KeyTypes, FailAssumption DEF Slack, RedisUsed
    <3> QED BY <2>1, <2>2, <2>3, <2>4, <3>1
  <2>6. BlocksArePromised'
    BY <1>0, <1>2, <2>1, <2>2, <2>4, <2>5, PromisedIsSet
  <2> QED BY <1>0, <1>2, <2>1, <2>6, OthersLook DEF PromiseInv
<1>8. ASSUME NEW r \in Requests, Handle(r) PROVE PromiseInv'
  BY <1>0, <1>4, <1>8, HandleMoves DEF Handle
<1>9. ASSUME NEW r \in Requests, NEW n \in Nat \ {0}, OneMoves(r), req'[r] = Counted(req[r], n),
             UNCHANGED <<now, block, promised, useRedis>>
      PROVE  PromiseInv'
  <2>1. req'[r].pc \notin {"ttl", "cache"}
    BY <1>0, <1>9, CountedCounts, CountedFail, ReqTypes
  <2> QED BY <1>4, <1>9, <2>1
<1>10. ASSUME NEW r \in Requests, Incr(r) PROVE PromiseInv'
  <2> DEFINE n == ctr'[Redis][CounterOf(r)].count
  <2>1. OneMoves(r) /\ n \in Nat \ {0} /\ UNCHANGED <<now, block, promised, useRedis>>
    BY <1>0, <1>10, IncrMoves, IncrAtEffects DEF Incr
  <2>2. req'[r] = Counted(req[r], n) \/ req'[r].pc = "expire"
    BY <1>0, <1>10, IncrMoves
  <2> HIDE DEF n
  <2> QED BY <1>4, <1>9, <2>1, <2>2
<1>11. ASSUME NEW r \in Requests, Expire(r) PROVE PromiseInv'
  <2>1. req[r].num \in Nat \ {0} /\ UNCHANGED <<now, block, promised, useRedis>>
    BY <1>0, <1>11, ReqTypes DEF Expire, StrikesCounted, TypeOK
  <2> QED BY <1>0, <1>9, <1>11, <2>1, ExpireMoves
<1>12. ASSUME NEW r \in Requests, Strike(r) PROVE PromiseInv'
  BY <1>0, <1>4, <1>12, StrikeMoves DEF Strike
<1>13. ASSUME NEW r \in Requests, IncrLocal(r) PROVE PromiseInv'
  <2>1. UNCHANGED <<now, block, promised, useRedis>>
    BY <1>13 DEF IncrLocal
  <2> QED BY <1>0, <1>9, <1>13, <2>1, IncrLocalMoves
<1>14. ASSUME NEW r \in Requests, SetBlock(r) PROVE PromiseInv'
  <2> DEFINE end == now + blockDurationForStrike(req[r].num)
  <2>1. /\ OneMoves(r) /\ end \in Nat /\ Promise(r, at[r], end)
        /\ LocalCacheEnabled => BlockSet(at[r], KeyOf[r], end)
        /\ ~LocalCacheEnabled => block' = block
        /\ req'[r].pc \notin {"ttl", "cache"}
    BY <1>0, <1>14, SetBlockMoves
  <2>2. now' = now /\ useRedis' = useRedis
    BY <1>14 DEF SetBlock
  <2> HIDE DEF end
  <2>3. /\ promised' \in [Keys -> Nat] /\ \A k \in Keys : promised[k] <= promised'[k]
        /\ end <= promised'[KeyOf[r]] /\ KeyOf[r] \in Keys /\ at[r] \in Stores
    BY <1>0, <2>1, KeyTypes, PromiseEffects
  <2>4. LooksPast'
    BY <1>0, <2>1, <2>2, <2>3, OthersLook
  <2>5. CASE LocalCacheEnabled
    <3>1. 2 * end <= 2 * promised'[KeyOf[r]] + Slack(at[r])
      BY <2>1, <2>3, SlackTypes
    <3> QED BY <1>0, <2>1, <2>2, <2>3, <2>4, <2>5, <3>1, PromisedIsSet DEF PromiseInv
  <2>6. CASE ~LocalCacheEnabled
    <3> SUFFICES ASSUME NEW s \in Stores, NEW k \in Keys
                 PROVE  2 * block'[s][k] <= 2 * promised'[k] + Slack(s)
      BY <2>2, <2>4 DEF PromiseInv, BlocksArePromised, Slack
    <3>1. /\ block[s][k] \in Nat /\ promised[k] \in Nat /\ promised'[k] \in Nat
          /\ 2 * block[s][k] <= 2 * promised[k] + Slack(s) /\ promised[k] <= promised'[k]
          /\ Slack(s) \in Nat
      BY <1>0, <2>3, SlackTypes DEF TypeOK, BlocksArePromised
    <3> QED BY <2>1, <2>6, <3>1
  <2> QED BY <2>5, <2>6
<1>15. ASSUME NEW r \in Requests, SetAt(r), req[r].num > 0, OneMoves(r), now' = now,
              useRedis' = useRedis, req'[r].pc \notin {"ttl", "cache"}
       PROVE  PromiseInv'
  <2> DEFINE end == now + blockDurationForStrike(req[r].num)
  <2>1. end \in Nat /\ BlockSet(Redis, KeyOf[r], end) /\ Promise(r, Redis, end)
    BY <1>0, <1>15, SetAtEffects
  <2> HIDE DEF end
  <2>2. /\ promised' \in [Keys -> Nat] /\ \A k \in Keys : promised[k] <= promised'[k]
        /\ end <= promised'[KeyOf[r]] /\ KeyOf[r] \in Keys /\ Redis \in Stores
    BY <1>0, <2>1, KeyTypes, PromiseEffects
  <2>3. LooksPast'
    BY <1>0, <1>15, <2>2, OthersLook
  <2>4. 2 * end <= 2 * promised'[KeyOf[r]] + Slack(Redis)
    BY <2>1, <2>2, SlackTypes
  <2> QED BY <1>0, <1>15, <2>1, <2>2, <2>3, <2>4, PromisedIsSet DEF PromiseInv
<1>16. ASSUME NEW r \in Requests, SetRedis(r) PROVE PromiseInv'
  <2>1. now' = now /\ useRedis' = useRedis
    BY <1>16 DEF SetRedis
  <2> QED BY <1>0, <1>15, <1>16, <2>1, SetRedisMoves
<1>17. ASSUME NEW r \in Requests, CallFails(r) PROVE PromiseInv'
  <2>1. OneMoves(r) /\ req'[r].pc \notin {"ttl", "cache"}
    BY <1>0, <1>17, CallFailsMoves
  <2>2. now' = now /\ useRedis' = useRedis
    BY <1>17 DEF CallFails
  <2>3. UNCHANGED <<block, promised>> \/ (req[r].pc = "set" /\ SetAt(r))
    BY <1>17 DEF CallFails
  <2>4. req[r].pc = "set" => req[r].num > 0
    BY <1>0 DEF StrikesCounted
  <2> QED BY <1>4, <1>15, <2>1, <2>2, <2>3, <2>4
<1>18. CASE Tick
  <2>1. now' = now + 1 /\ UNCHANGED <<req, block, promised, useRedis>>
    BY <1>18 DEF Tick
  <2>2. \A r \in Requests : req[r].start \in Nat
    BY <1>0, ReqTypes DEF ReqType
  <2>3. LooksPast'
    BY <1>0, <1>1, <2>1, <2>2 DEF LooksPast
  <2> QED BY <1>3, <2>1, <2>3 DEF PromiseInv
<1>19. CASE UNCHANGED vars
  BY <1>0, <1>19 DEF vars, PromiseInv, LooksPast, BlocksArePromised, Slack
<1>20. ASSUME NEW r \in Requests, SendAgain(r) PROVE PromiseInv'
  BY <1>0, <1>4, <1>20, SendAgainMoves DEF SendAgain
<1> QED BY <1>20, <1>5, <1>6, <1>7, <1>8, <1>10, <1>11, <1>12, <1>13, <1>14, <1>16, <1>17, <1>18, <1>19
    DEF Next

\* No block outlasts what some strike led to, and a cached one by half a second
\* at most: it counts from before Redis was asked, and Redis rounds its answer.
THEOREM BlocksEndAsPromised == Spec => []BlocksArePromised
<1>1. ASSUME Init PROVE PromiseInv
  <2>1. \A r \in Requests : req[r].pc = "check"
    BY <1>1, ReachesType DEF Init, Steps
  <2>2. BlocksArePromised
    <3>1. \A s \in Stores, k \in Keys : block[s][k] = 0 /\ promised[k] = 0 /\ Slack(s) \in Nat
      BY <1>1, SlackTypes DEF Init
    <3> QED BY <3>1 DEF BlocksArePromised
  <2> QED BY <2>1, <2>2 DEF PromiseInv, LooksPast
<1>2. PromiseInv => BlocksArePromised
  BY DEF PromiseInv
<1> QED BY <1>1, <1>2, ShapeInitial, ShapeStep, PromiseStep, PTL DEF Spec

-----------------------------------------------------------------------------
(* A block holds.                                                          *)

\* Blocks are kept somewhere: in Redis, or in the maps of the instances.
BlocksKept == LocalCacheEnabled \/ \A d \in Setups : d.redis

\* Where a request that looks for a block finds the last one, it lasts as long
\* as that one lasts at least.
Guards(s, k) == barred[s][k] <= block[s][k]
Guarded ==
    /\ useRedis \/ LocalCacheEnabled
    /\ useRedis => \A k \in Keys : Guards(Redis, k)
    /\ ~useRedis => \A s \in Instances, k \in Keys : Guards(s, k)

LEMMA StoresApart == Redis \in Stores /\ Redis \notin Instances /\ Instances \subseteq Stores
  BY FailAssumption DEF Stores

\* Where blocks stay and none is cut, the guard stays.
LEMMA GuardStays ==
    ASSUME Guarded, UNCHANGED <<block, barred, useRedis>>
    PROVE  Guarded'
  BY DEF Guarded, Guards

LEMMA GuardStep ==
    ASSUME Shape, Guarded, [Next]_vars
    PROVE  Guarded'
<1>0. TypeOK /\ StrikesCounted /\ RedisUsed
  BY DEF Shape
<1>1. ASSUME NEW r \in Requests, CacheBlock(r) PROVE Guarded'
  <2>1. useRedis /\ UNCHANGED <<barred, useRedis>>
    BY <1>0, <1>1 DEF CacheBlock, RedisUsed
  <2>2. PICK end \in Nat : BlockSet(at[r], KeyOf[r], end)
    BY <1>0, <1>1, CacheMoves
  <2>3. at[r] # Redis /\ Redis \in Stores
    BY <1>0, KeyTypes
  <2>4. \A k \in Keys : block'[Redis][k] = block[Redis][k]
    BY <2>2, <2>3 DEF BlockSet
  <2> QED BY <2>1, <2>4 DEF Guarded, Guards
<1>2. ASSUME NEW r \in Requests, SetBlock(r) PROVE Guarded'
  <2> DEFINE end == now + blockDurationForStrike(req[r].num)
  <2>1. /\ end \in Nat /\ req[r].num \in Nat \ {0} /\ Promise(r, at[r], end)
        /\ LocalCacheEnabled => BlockSet(at[r], KeyOf[r], end)
        /\ ~LocalCacheEnabled => block' = block
    BY <1>0, <1>2, SetBlockMoves
  <2>2. /\ at[r] # Redis /\ Redis \in Stores /\ at[r] \in Stores /\ KeyOf[r] \in Keys /\ now \in Nat
        /\ block \in [Stores -> [Keys -> Nat]]
    BY <1>0, KeyTypes
  <2>3. now + MinBlock <= end
    <3>1. /\ MinBlock \in Nat /\ blockDurationForStrike(req[r].num) \in Nat
          /\ MinBlock <= blockDurationForStrike(req[r].num)
      BY <2>1, MinBlockIsLeast, DurationTypes
    <3> QED BY <2>2, <3>1
  <2>4. useRedis' = useRedis
    BY <1>2 DEF SetBlock
  <2> HIDE DEF end
  <2>5. \A x \in Stores, k \in Keys :
           barred'[x][k] = IF x = at[r] /\ k = KeyOf[r] /\ at[r] = StoreOf(r)
                           THEN now + MinBlock ELSE barred[x][k]
    BY <1>0, <2>1, <2>2, PromiseEffects
  <2>6. \A k \in Keys : block'[Redis][k] = block[Redis][k] /\ barred'[Redis][k] = barred[Redis][k]
    BY <2>1, <2>2, <2>5 DEF BlockSet
  <2>7. CASE useRedis
    BY <2>4, <2>6, <2>7 DEF Guarded, Guards
  <2>8. CASE ~useRedis
    <3>1. LocalCacheEnabled
      BY <2>8 DEF Guarded
    <3>2. ASSUME NEW s \in Instances, NEW k \in Keys PROVE Guards(s, k)'
      <4>1. s \in Stores /\ Guards(s, k)
        BY <2>8, StoresApart DEF Guarded
      <4>2. CASE s = at[r] /\ k = KeyOf[r]
        <5>1. block'[s][k] = end
          BY <2>1, <3>1, <4>1, <4>2 DEF BlockSet
        <5>2. barred'[s][k] = now + MinBlock
          BY <2>5, <2>8, <4>1, <4>2 DEF StoreOf
        <5> QED BY <2>3, <5>1, <5>2 DEF Guards
      <4>3. CASE ~(s = at[r] /\ k = KeyOf[r])
        BY <2>1, <2>5, <3>1, <4>1, <4>3 DEF BlockSet, Guards
      <4> QED BY <4>2, <4>3
    <3> QED BY <2>4, <2>8, <3>1, <3>2 DEF Guarded
  <2> QED BY <2>7, <2>8
<1>3. ASSUME NEW r \in Requests, SetAt(r), req[r].num > 0, useRedis, useRedis' = useRedis
      PROVE  Guarded'
  <2> DEFINE end == now + blockDurationForStrike(req[r].num)
  <2>1. /\ end \in Nat /\ BlockSet(Redis, KeyOf[r], end) /\ Promise(r, Redis, end)
        /\ req[r].num \in Nat \ {0}
    BY <1>0, <1>3, SetAtEffects DEF TypeOK
  <2>2. Redis \in Stores /\ KeyOf[r] \in Keys /\ now \in Nat
    BY <1>0, KeyTypes
  <2>3. now + MinBlock <= end
    <3>1. /\ MinBlock \in Nat /\ blockDurationForStrike(req[r].num) \in Nat
          /\ MinBlock <= blockDurationForStrike(req[r].num)
      BY <2>1, MinBlockIsLeast, DurationTypes
    <3> QED BY <2>2, <3>1
  <2> HIDE DEF end
  <2>4. \A x \in Stores, k \in Keys :
           barred'[x][k] = IF x = Redis /\ k = KeyOf[r] /\ Redis = StoreOf(r)
                           THEN now + MinBlock ELSE barred[x][k]
    BY <1>0, <2>1, <2>2, PromiseEffects
  <2>5. ASSUME NEW k \in Keys PROVE Guards(Redis, k)'
    <3>1. Guards(Redis, k)
      BY <1>3 DEF Guarded
    <3>2. CASE k = KeyOf[r]
      <4>1. block'[Redis][k] = end
        BY <2>1, <2>2, <3>2 DEF BlockSet
      <4>2. barred'[Redis][k] = now + MinBlock
        BY <1>3, <2>2, <2>4, <3>2 DEF StoreOf
      <4> QED BY <2>3, <4>1, <4>2 DEF Guards
    <3>3. CASE k # KeyOf[r]
      BY <2>1, <2>2, <2>4, <3>1, <3>3 DEF BlockSet, Guards
    <3> QED BY <3>2, <3>3
  <2> QED BY <1>3, <2>5 DEF Guarded
<1>4. ASSUME NEW r \in Requests, SetRedis(r) PROVE Guarded'
  <2>1. useRedis /\ useRedis' = useRedis
    BY <1>0, <1>4 DEF SetRedis, RedisUsed
  <2> QED BY <1>0, <1>3, <1>4, <2>1, SetRedisMoves
<1>5. ASSUME NEW r \in Requests, CallFails(r) PROVE Guarded'
  <2>1. UNCHANGED <<block, barred>> \/ (req[r].pc = "set" /\ SetAt(r))
    BY <1>5 DEF CallFails
  <2>2. useRedis /\ useRedis' = useRedis
    BY <1>5 DEF CallFails
  <2>3. req[r].pc = "set" => req[r].num > 0
    BY <1>0 DEF StrikesCounted
  <2> QED BY <1>3, <2>1, <2>2, <2>3, GuardStays
<1>6. ASSUME NEW r \in Requests, Check(r) \/ ReadTTL(r) \/ Handle(r) \/ Incr(r) \/ Expire(r)
                                 \/ Strike(r) \/ IncrLocal(r) \/ SendAgain(r)
      PROVE  Guarded'
  <2>1. UNCHANGED <<block, barred, useRedis>>
    BY <1>6 DEF Check, ReadTTL, Handle, Incr, Expire, Strike, IncrLocal, SendAgain
  <2> QED BY <2>1, GuardStays
<1>7. CASE Tick \/ UNCHANGED vars
  <2>1. UNCHANGED <<block, barred, useRedis>>
    BY <1>7 DEF Tick, vars
  <2> QED BY <2>1, GuardStays
<1> QED BY <1>1, <1>2, <1>4, <1>5, <1>6, <1>7 DEF Next

\* A request gets through only if it saw no block, or the call failed.
LEMMA ThroughPastBlock ==
    ASSUME Shape, Guarded, [Next]_vars, NEW r \in Requests,
           req[r].pc # "handle", req'[r].pc = "handle", faults' = faults
    PROVE  2 * barred[StoreOf(r)][KeyOf[r]] <= 2 * now + (IF useRedis THEN Second ELSE 0)
<1>0. TypeOK /\ StrikesCounted /\ RedisUsed
  BY DEF Shape
<1>1. /\ KeyOf[r] \in Keys /\ at[r] \in Stores /\ at[r] \in Instances /\ now \in Nat
      /\ block \in [Stores -> [Keys -> Nat]] /\ barred \in [Stores -> [Keys -> Nat]]
      /\ Redis \in Stores
  BY <1>0, KeyTypes DEF TypeOK
<1>2. PICK x \in Requests : Check(x) \/ ReadTTL(x) \/ CacheBlock(x) \/ Handle(x) \/ Incr(x)
                            \/ Expire(x) \/ Strike(x) \/ IncrLocal(x) \/ SetBlock(x)
                            \/ SetRedis(x) \/ CallFails(x) \/ SendAgain(x)
  <2>1. req' # req
    OBVIOUS
  <2> QED BY <2>1 DEF Next, Tick, vars
<1>3. OneMoves(x)
  BY <1>0, <1>2, CheckMoves, ReadTTLMoves, CacheMoves, HandleMoves, IncrMoves, ExpireMoves,
     StrikeMoves, IncrLocalMoves, SetBlockMoves, SetRedisMoves, CallFailsMoves,
     SendAgainMoves
<1>4. x = r
  BY <1>3 DEF OneMoves
<1>5. CASE Check(r)
  <2>1. ~useRedis /\ ~(LocalCacheEnabled /\ now < block[at[r]][KeyOf[r]])
    BY <1>0, <1>5, CheckMoves
  <2>2. LocalCacheEnabled /\ Guards(at[r], KeyOf[r])
    BY <1>1, <2>1 DEF Guarded
  <2>3. block[at[r]][KeyOf[r]] \in Nat /\ barred[at[r]][KeyOf[r]] \in Nat
    BY <1>1
  <2>4. 2 * barred[at[r]][KeyOf[r]] <= 2 * now + 0
    BY <1>1, <2>1, <2>2, <2>3 DEF Guards
  <2> QED BY <2>1, <2>4 DEF StoreOf
<1>6. CASE ReadTTL(r)
  <2>1. useRedis /\ 2 * block[Redis][KeyOf[r]] <= 2 * now + Second
    BY <1>0, <1>6, ReadTTLMoves DEF ReadTTL, RedisUsed
  <2>2. Guards(Redis, KeyOf[r])
    BY <1>1, <2>1 DEF Guarded
  <2>3. block[Redis][KeyOf[r]] \in Nat /\ barred[Redis][KeyOf[r]] \in Nat
    BY <1>1
  <2>4. 2 * barred[Redis][KeyOf[r]] <= 2 * now + Second
    BY <1>1, <2>1, <2>2, <2>3, FailAssumption DEF Guards
  <2> QED BY <2>1, <2>4 DEF StoreOf
<1>7. ASSUME NEW n \in Nat, req'[r] = Counted(req[r], n) PROVE FALSE
  <2>1. req[r] \in ReqType
    BY <1>0, ReqTypes
  <2>2. req[r].kind \in {"fail", "gfail", "strike"}
    BY <2>1 DEF ReqType, AllKinds
  <2>3. Counted(req[r], n).pc \in {"incr", "strike", "done", "block"}
    BY <2>1, <2>2, CountedFail
  <2> QED BY <1>7, <2>3
<1>8. CASE Incr(r)
  <2> DEFINE n == ctr'[Redis][CounterOf(r)].count
  <2>1. n \in Nat
    BY <1>0, <1>8, IncrMoves, IncrAtEffects
  <2>2. req'[r] = Counted(req[r], n) \/ req'[r].pc = "expire"
    BY <1>0, <1>8, IncrMoves
  <2> HIDE DEF n
  <2> QED BY <1>7, <2>1, <2>2
<1>9. CASE Expire(r)
  BY <1>0, <1>7, <1>9, ExpireMoves DEF TypeOK
<1>10. CASE IncrLocal(r)
  BY <1>0, <1>7, <1>10, IncrLocalMoves
<1>11. CASE CacheBlock(r) \/ Handle(r) \/ Strike(r) \/ SetBlock(r) \/ SetRedis(r) \/ CallFails(r)
            \/ SendAgain(r)
  BY <1>0, <1>11, CacheMoves, HandleMoves, StrikeMoves, SetBlockMoves, SetRedisMoves,
     CallFailsMoves, SendAgainMoves
<1> QED BY <1>2, <1>4, <1>5, <1>6, <1>8, <1>9, <1>10, <1>11

\* While the last block of a pair lasts, none of its requests gets through,
\* unless the call that looks for the block fails or Redis rounds half a second
\* to nothing.  Without Redis and without the instances' maps there is no block.
THEOREM BlocksHold ==
    ASSUME BlocksKept
    PROVE  Spec => BlockHolds
<1>1. ASSUME Init PROVE Guarded
  <2>1. PICK d \in Setups : useRedis = d.redis
    BY <1>1 DEF Init
  <2>2. useRedis \/ LocalCacheEnabled
    BY <2>1 DEF BlocksKept
  <2>3. \A s \in Stores, k \in Keys : Guards(s, k)
    BY <1>1 DEF Init, Guards
  <2> QED BY <2>2, <2>3, StoresApart DEF Guarded
<1> DEFINE Holds == \A r \in Requests :
                       (req[r].pc # "handle" /\ req'[r].pc = "handle" /\ faults' = faults) =>
                          2 * barred[StoreOf(r)][KeyOf[r]]
                             <= 2 * now + (IF useRedis THEN Second ELSE 0)
<1>2. ASSUME Shape, Guarded, [Next]_vars PROVE Holds
  BY <1>2, ThroughPastBlock
<1>3. Shape /\ Guarded /\ [Next]_vars => [Holds]_vars
  BY <1>2
<1>4. ASSUME Shape, Guarded, [Next]_vars PROVE Guarded'
  BY <1>4, GuardStep
<1> HIDE DEF Holds
<1>5. Init /\ [][Next]_vars => [][Holds]_vars
  BY <1>1, <1>3, <1>4, ShapeInitial, ShapeStep, PTL
<1> QED BY <1>5 DEF Spec, BlockHolds, Holds

-----------------------------------------------------------------------------
(* Counters count a minute.                                                *)

\* The increments that the counter c counts, as indices of its history.
Window(s, c) == {i \in 1 .. Len(hist[s][c]) : i > Len(hist[s][c]) - ctr[s][c].count}

\* The failure that began a counter, whose expiry is to be set.
Awaits(r) == req[r].pc = "expire" /\ req[r].kind # "strike"

HistPast ==
    \A s \in Stores, c \in MinuteCounters : \A i \in 1 .. Len(hist[s][c]) : hist[s][c][i] <= now

\* It was counted at most a tick ago, as the first, and what c counts came later.
AwaitsRecent ==
    \A r \in Requests : Awaits(r) =>
        /\ req[r].start <= now /\ now <= req[r].start + 1 /\ req[r].num = 1
        /\ \A i \in Window(Redis, CounterOf(r)) :
              req[r].start <= hist[Redis][CounterOf(r)][i]

\* Nothing that a living counter counts is older than a minute and a tick.
WindowHolds(s, c) ==
    /\ Alive(ctr[s][c]) => ctr[s][c].count > 0
    /\ (Alive(ctr[s][c]) /\ <<s, c>> \notin stuck) =>
        /\ ctr[s][c].count <= Len(hist[s][c])
        /\ ctr[s][c].until # None =>
              \A i \in Window(s, c) : ctr[s][c].until - hist[s][c][i] <= Minute + 1
        /\ ctr[s][c].until = None => s = Redis /\ \E r \in Requests : Awaits(r) /\ CounterOf(r) = c

Windows == \A s \in Stores, c \in MinuteCounters : WindowHolds(s, c)

WindowInv == HistPast /\ AwaitsRecent /\ Windows

LEMMA KeyCounters ==
    ASSUME TypeOK, NEW r \in Requests
    PROVE  /\ <<"fail", KeyOf[r]>> \in MinuteCounters /\ <<"gfail", IpOf[r]>> \in MinuteCounters
           /\ req[r].kind = "fail" => CounterOf(r) = <<"fail", KeyOf[r]>>
           /\ req[r].kind = "gfail" => CounterOf(r) = <<"gfail", IpOf[r]>>
           /\ req[r].kind # "strike" => CounterOf(r) \in MinuteCounters
<1>1. KeyOf[r] \in Keys /\ IpOf[r] \in Ips
  BY FailAssumption
<1>2. req[r].kind \in AllKinds
  BY ReqTypes DEF ReqType
<1> QED BY <1>1, <1>2 DEF CounterOf, MinuteCounters, AllKinds

LEMMA StoredTypes ==
    ASSUME TypeOK, NEW s \in Stores, NEW c \in MinuteCounters
    PROVE  /\ c \in Counters /\ hist[s][c] \in Seq(Nat) /\ Len(hist[s][c]) \in Nat
           /\ \A i \in 1 .. Len(hist[s][c]) : hist[s][c][i] \in Nat
           /\ ctr[s][c].count \in Nat /\ ctr[s][c].until \in Nat \cup {None}
           /\ now \in Nat /\ Minute \in Nat \ {0}
<1>1. c \in Counters /\ Minute \in Nat \ {0}
  BY FailAssumption DEF Counters
<1>2. hist[s][c] \in Seq(Nat) /\ now \in Nat
  BY DEF TypeOK
<1>3. ctr[s][c] \in CtrType
  BY <1>1 DEF TypeOK, CtrType
<1> QED BY <1>1, <1>2, <1>3 DEF CtrType

\* All a living counter counts happened within the last minute.
LEMMA WindowIsRecent ==
    ASSUME TypeOK, WindowInv, NEW s \in Stores, NEW c \in MinuteCounters,
           Alive(ctr[s][c]), <<s, c>> \notin stuck, NEW i \in Window(s, c)
    PROVE  now - hist[s][c][i] <= Minute
<1>1. /\ hist[s][c][i] \in Nat /\ now \in Nat /\ Minute \in Nat \ {0}
      /\ ctr[s][c].until \in Nat \cup {None}
  BY StoredTypes DEF Window
<1>2. WindowHolds(s, c)
  BY DEF WindowInv, Windows
<1>3. CASE ctr[s][c].until # None
  <2>1. ctr[s][c].until - hist[s][c][i] <= Minute + 1
    BY <1>2, <1>3 DEF WindowHolds
  <2>2. now < ctr[s][c].until /\ ctr[s][c].until \in Nat
    BY <1>1, <1>3 DEF Alive
  <2> QED BY <1>1, <2>1, <2>2
<1>4. CASE ctr[s][c].until = None
  <2>1. PICK r \in Requests : Awaits(r) /\ CounterOf(r) = c /\ s = Redis
    BY <1>2, <1>4 DEF WindowHolds
  <2>2. req[r].start <= hist[s][c][i] /\ now <= req[r].start + 1 /\ req[r].start \in Nat
    BY <2>1, ReqTypes DEF WindowInv, AwaitsRecent, ReqType
  <2> QED BY <1>1, <2>2
<1> QED BY <1>3, <1>4

\* One more increment of c.
Appended(s, c) ==
    hist'[s][c] = Append(hist[s][c], now)

LEMMA AppendedLooks ==
    ASSUME TypeOK, NEW s \in Stores, NEW c \in MinuteCounters, Appended(s, c)
    PROVE  /\ Len(hist'[s][c]) = Len(hist[s][c]) + 1
           /\ \A i \in 1 .. Len(hist[s][c]) : hist'[s][c][i] = hist[s][c][i]
           /\ hist'[s][c][Len(hist[s][c]) + 1] = now
  BY StoredTypes DEF Appended

\* More increments than n in a living counter are more than n within a minute.
LEMMA CountedIsExcess ==
    ASSUME TypeOK, WindowInv, NEW s \in Stores, NEW c \in MinuteCounters, NEW n \in Nat \ {0},
           Alive(ctr[s][c]), <<s, c>> \notin stuck, Appended(s, c), ctr[s][c].count + 1 > n
    PROVE  Excess(s, c, n)'
<1> DEFINE h == hist[s][c]
           L == Len(h)
           count == ctr[s][c].count
<1>1. L \in Nat /\ now \in Nat /\ Minute \in Nat /\ count \in Nat
  BY StoredTypes
<1>2. count > 0 /\ count <= L
  BY DEF WindowInv, Windows, WindowHolds
<1>3. /\ Len(hist'[s][c]) = L + 1
      /\ \A i \in 1 .. L : hist'[s][c][i] = h[i]
      /\ hist'[s][c][L + 1] = now
  BY AppendedLooks
<1>4. L + 1 - n \in Window(s, c) /\ L + 1 - n \in 1 .. L
  <2> HIDE DEF L, count
  <2>1. L + 1 - n \in 1 .. L /\ L + 1 - n > L - count
    BY <1>1, <1>2 DEF count
  <2> QED BY <2>1 DEF Window, L, count
<1>5. now - h[L + 1 - n] <= Minute
  BY <1>4, WindowIsRecent
<1> HIDE DEF L, h
<1>6. PICK j \in Nat : j = L + 1
  BY <1>1
<1>7. j \in n + 1 .. Len(hist'[s][c])
  BY <1>1, <1>3, <1>4, <1>6
<1>8. hist'[s][c][j] = now /\ hist'[s][c][j - n] = h[L + 1 - n]
  <2>1. PICK m \in 1 .. L : m = L + 1 - n
    BY <1>4
  <2>2. j - n = m
    BY <1>1, <1>6, <2>1
  <2>3. hist'[s][c][m] = h[m]
    BY <1>3
  <2> QED BY <1>3, <1>6, <2>1, <2>2, <2>3
<1>9. hist'[s][c][j] - hist'[s][c][j - n] <= Minute
  BY <1>5, <1>8
<1> QED BY <1>7, <1>9 DEF Excess

\* Excess stays: a history only grows.
LEMMA ExcessStays ==
    ASSUME TypeOK, NEW s \in Stores, NEW c \in MinuteCounters, NEW n \in Nat,
           Excess(s, c, n), hist'[s][c] = hist[s][c] \/ Appended(s, c)
    PROVE  Excess(s, c, n)'
<1>1. PICK i \in n + 1 .. Len(hist[s][c]) : hist[s][c][i] - hist[s][c][i - n] <= Minute
  BY DEF Excess
<1>2. Len(hist[s][c]) \in Nat
  BY StoredTypes
<1>3. i \in 1 .. Len(hist[s][c]) /\ i - n \in 1 .. Len(hist[s][c])
  BY <1>1, <1>2
<1>4. CASE hist'[s][c] = hist[s][c]
  BY <1>1, <1>4 DEF Excess
<1>5. CASE Appended(s, c)
  <2> DEFINE L == Len(hist[s][c])
  <2>1. Len(hist'[s][c]) = L + 1 /\ \A j \in 1 .. L : hist'[s][c][j] = hist[s][c][j]
    BY <1>5, AppendedLooks
  <2>2. hist'[s][c][i] = hist[s][c][i] /\ hist'[s][c][i - n] = hist[s][c][i - n]
    BY <1>3, <2>1
  <2>3. i \in n + 1 .. L /\ L \in Nat
    BY <1>1, <1>2
  <2> HIDE DEF L
  <2>4. i \in n + 1 .. Len(hist'[s][c])
    BY <2>1, <2>3
  <2> QED BY <1>1, <2>2, <2>4 DEF Excess
<1> QED BY <1>4, <1>5

\* The request that moves is no longer one, or was not one, that awaits.
LEMMA OthersAwait ==
    ASSUME NEW r \in Requests, OneMoves(r), NEW x \in Requests \ {r}
    PROVE  Awaits(x)' = Awaits(x) /\ CounterOf(x)' = CounterOf(x) /\ req'[x] = req[x]
  BY DEF OneMoves, Awaits, CounterOf

\* No counter of a minute changes, and who awaits its expiry stays.
LEMMA WindowsStay ==
    ASSUME TypeOK, WindowInv, NEW r \in Requests, OneMoves(r), now' = now, stuck \subseteq stuck',
           \A s \in Stores, c \in MinuteCounters :
              ctr'[s][c] = ctr[s][c] /\ hist'[s][c] = hist[s][c],
           ~Awaits(r), ~Awaits(r)'
    PROVE  WindowInv'
<1>0. Redis \in Stores
  BY StoresApart
<1>1. HistPast'
  BY DEF WindowInv, HistPast
<1>2. ASSUME NEW x \in Requests, Awaits(x)'
      PROVE  /\ req'[x].start <= now' /\ now' <= req'[x].start + 1 /\ req'[x].num = 1
             /\ \A i \in Window(Redis, CounterOf(x))' :
                   req'[x].start <= hist'[Redis][CounterOf(x)'][i]
  <2>1. x # r
    BY <1>2
  <2>2. Awaits(x) /\ CounterOf(x)' = CounterOf(x) /\ req'[x] = req[x]
    BY <1>2, <2>1, OthersAwait
  <2>3. CounterOf(x) \in MinuteCounters
    BY <2>2, KeyCounters DEF Awaits
  <2>4. Window(Redis, CounterOf(x))' = Window(Redis, CounterOf(x))
    BY <1>0, <2>2, <2>3 DEF Window
  <2> QED BY <1>0, <2>2, <2>3, <2>4 DEF WindowInv, AwaitsRecent
<1>3. ASSUME NEW s \in Stores, NEW c \in MinuteCounters PROVE WindowHolds(s, c)'
  <2>1. WindowHolds(s, c)
    BY DEF WindowInv, Windows
  <2>2. Window(s, c)' = Window(s, c) /\ ctr'[s][c] = ctr[s][c] /\ hist'[s][c] = hist[s][c]
    BY DEF Window
  <2>3. Alive(ctr[s][c])' = Alive(ctr[s][c]) /\ (<<s, c>> \notin stuck' => <<s, c>> \notin stuck)
    BY <2>2 DEF Alive
  <2>4. ASSUME NEW x \in Requests, Awaits(x), CounterOf(x) = c
        PROVE  Awaits(x)' /\ CounterOf(x)' = c
    <3>1. x # r
      BY <2>4
    <3> QED BY <2>4, <3>1, OthersAwait
  <2> QED BY <2>1, <2>2, <2>3, <2>4 DEF WindowHolds
<1> QED BY <1>1, <1>2, <1>3 DEF WindowInv, AwaitsRecent, Windows

\* A failure is counted by c at s, in a living counter or in a new one.
LEMMA WindowGrows ==
    ASSUME TypeOK, WindowInv, NEW r \in Requests, OneMoves(r), now' = now, stuck \subseteq stuck',
           NEW s \in Stores, NEW c \in MinuteCounters, NEW u \in Nat \cup {None}, Appended(s, c),
           \A x \in Stores, d \in MinuteCounters :
              (x # s \/ d # c) => ctr'[x][d] = ctr[x][d] /\ hist'[x][d] = hist[x][d],
           Alive(ctr[s][c]) => /\ ctr'[s][c].count = ctr[s][c].count + 1
                               /\ ctr'[s][c].until = ctr[s][c].until,
           ~Alive(ctr[s][c]) => ctr'[s][c].count = 1 /\ ctr'[s][c].until = u,
           u = None \/ u = now + Minute,
           ~Alive(ctr[s][c]) /\ u = None => s = Redis /\ (Awaits(r)' \/ <<s, c>> \in stuck'),
           ~Awaits(r),
           Awaits(r)' => /\ s = Redis /\ CounterOf(r)' = c /\ ~Alive(ctr[s][c])
                         /\ req'[r].start = now /\ req'[r].num = 1
    PROVE  WindowInv'
<1> DEFINE L == Len(hist[s][c])
<1>0. /\ Redis \in Stores /\ L \in Nat /\ now \in Nat /\ ctr[s][c].count \in Nat
      /\ Minute \in Nat \ {0}
  BY StoresApart, StoredTypes
<1>1. /\ Len(hist'[s][c]) = L + 1 /\ \A i \in 1 .. L : hist'[s][c][i] = hist[s][c][i]
      /\ hist'[s][c][L + 1] = now
  BY AppendedLooks
<1>2. ASSUME NEW i \in Window(s, c)' PROVE i = L + 1 \/ (Alive(ctr[s][c]) /\ i \in Window(s, c))
  <2> DEFINE K == Len(hist'[s][c])
             n == ctr'[s][c].count
  <2>1. K = L + 1 /\ i \in 1 .. K /\ i > K - n
    BY <1>1 DEF Window
  <2>2. n \in Nat /\ L \in Nat
    BY <1>0
  <2>3. /\ Alive(ctr[s][c]) => n = ctr[s][c].count + 1
        /\ ~Alive(ctr[s][c]) => n = 1
    OBVIOUS
  <2> HIDE DEF L, K, n
  <2>4. i \in 1 .. L + 1 /\ i > L + 1 - n
    BY <2>1, <2>2
  <2>5. CASE Alive(ctr[s][c])
    <3>1. i = L + 1 \/ (i \in 1 .. L /\ i > L - ctr[s][c].count)
      BY <1>0, <2>3, <2>4, <2>5
    <3> QED BY <2>5, <3>1 DEF Window, L
  <2>6. CASE ~Alive(ctr[s][c])
    BY <1>0, <2>3, <2>4, <2>6
  <2> QED BY <2>5, <2>6
<1> HIDE DEF L
<1>3. HistPast'
  <2> SUFFICES ASSUME NEW x \in Stores, NEW d \in MinuteCounters, NEW i \in 1 .. Len(hist'[x][d])
               PROVE  hist'[x][d][i] <= now
    BY DEF HistPast
  <2>1. CASE x = s /\ d = c
    <3>1. i = L + 1 \/ i \in 1 .. L
      BY <1>0, <1>1, <2>1
    <3>2. CASE i = L + 1
      BY <1>0, <1>1, <2>1, <3>2
    <3>3. CASE i \in 1 .. L
      BY <1>1, <2>1, <3>3 DEF WindowInv, HistPast, L
    <3> QED BY <3>1, <3>2, <3>3
  <2>2. CASE x # s \/ d # c
    BY <2>2 DEF WindowInv, HistPast
  <2> QED BY <2>1, <2>2
<1>4. ASSUME NEW x \in Requests, Awaits(x)'
      PROVE  /\ req'[x].start <= now' /\ now' <= req'[x].start + 1 /\ req'[x].num = 1
             /\ \A i \in Window(Redis, CounterOf(x))' :
                   req'[x].start <= hist'[Redis][CounterOf(x)'][i]
  <2>1. CASE x = r
    <3>1. /\ s = Redis /\ CounterOf(r)' = c /\ ~Alive(ctr[s][c])
          /\ req'[r].start = now /\ req'[r].num = 1
      BY <1>4, <2>1
    <3>2. ASSUME NEW i \in Window(Redis, CounterOf(x))'
          PROVE  hist'[Redis][CounterOf(x)'][i] = now
      BY <1>1, <1>2, <2>1, <3>1, <3>2
    <3> QED BY <1>0, <2>1, <3>1, <3>2
  <2>2. CASE x # r
    <3>1. Awaits(x) /\ CounterOf(x)' = CounterOf(x) /\ req'[x] = req[x]
      BY <1>4, <2>2, OthersAwait
    <3>2. CounterOf(x) \in MinuteCounters
      BY <3>1, KeyCounters DEF Awaits
    <3>3. /\ req[x].start <= now /\ now <= req[x].start + 1 /\ req[x].num = 1
          /\ \A i \in Window(Redis, CounterOf(x)) : req[x].start <= hist[Redis][CounterOf(x)][i]
      BY <3>1 DEF WindowInv, AwaitsRecent
    <3>4. CASE s = Redis /\ CounterOf(x) = c
      <4>1. ASSUME NEW i \in Window(s, c)' PROVE req[x].start <= hist'[s][c][i]
        <5>1. CASE i = L + 1
          BY <1>1, <3>3, <5>1
        <5>2. CASE i \in Window(s, c)
          <6>1. i \in 1 .. L
            BY <5>2 DEF Window, L
          <6> QED BY <1>1, <3>3, <3>4, <5>2, <6>1
        <5> QED BY <1>2, <4>1, <5>1, <5>2
      <4> QED BY <3>1, <3>3, <3>4, <4>1
    <3>5. CASE s # Redis \/ CounterOf(x) # c
      <4>1. Window(Redis, CounterOf(x))' = Window(Redis, CounterOf(x))
        BY <1>0, <3>1, <3>2, <3>5 DEF Window
      <4>2. hist'[Redis][CounterOf(x)] = hist[Redis][CounterOf(x)]
        BY <1>0, <3>2, <3>5
      <4> QED BY <3>1, <3>3, <4>1, <4>2
    <3> QED BY <3>4, <3>5
  <2> QED BY <2>1, <2>2
<1>5. ASSUME NEW x \in Requests, NEW d \in MinuteCounters, Awaits(x), CounterOf(x) = d
      PROVE  Awaits(x)' /\ CounterOf(x)' = d
  <2>1. x # r
    BY <1>5
  <2> QED BY <1>5, <2>1, OthersAwait
<1>6. WindowHolds(s, c)'
  <2>0. WindowHolds(s, c)
    BY DEF WindowInv, Windows
  <2>1. CASE Alive(ctr[s][c])
    <3>1. /\ ctr'[s][c].count = ctr[s][c].count + 1 /\ ctr'[s][c].until = ctr[s][c].until
          /\ ctr[s][c].until \in Nat \cup {None}
      BY <2>1, StoredTypes
    <3>2. CASE <<s, c>> \in stuck
      BY <1>0, <3>1, <3>2 DEF WindowHolds
    <3>3. CASE <<s, c>> \notin stuck
      <4>1. /\ ctr[s][c].count > 0 /\ ctr[s][c].count <= L
            /\ ctr[s][c].until # None =>
                  \A i \in Window(s, c) : ctr[s][c].until - hist[s][c][i] <= Minute + 1
            /\ ctr[s][c].until = None =>
                  s = Redis /\ \E x \in Requests : Awaits(x) /\ CounterOf(x) = c
        BY <2>0, <2>1, <3>3 DEF WindowHolds, L
      <4>2. ASSUME ctr[s][c].until # None, NEW i \in Window(s, c)'
            PROVE  ctr[s][c].until - hist'[s][c][i] <= Minute + 1
        <5>1. ctr[s][c].until \in Nat
          BY <3>1, <4>2
        <5>2. CASE i = L + 1
          <6>1. L \in Window(s, c) /\ L \in 1 .. L
            <7>1. L \in Nat /\ ctr[s][c].count \in Nat
              BY <1>0, StoredTypes
            <7> HIDE DEF L
            <7>2. L \in 1 .. L /\ L > L - ctr[s][c].count
              BY <4>1, <7>1
            <7> QED BY <7>2 DEF Window, L
          <6>2. ctr[s][c].until - hist[s][c][L] <= Minute + 1 /\ hist[s][c][L] <= now
            BY <4>1, <4>2, <6>1 DEF WindowInv, HistPast, L
          <6>3. hist[s][c][L] \in Nat
            BY <6>1, StoredTypes DEF L
          <6>4. hist'[s][c][i] = now
            BY <1>1, <5>2
          <6>5. now \in Nat /\ Minute \in Nat
            BY <1>0
          <6> QED BY <5>1, <6>2, <6>3, <6>4, <6>5
        <5>3. CASE i \in Window(s, c)
          <6>1. i \in 1 .. L
            BY <5>3 DEF Window, L
          <6> QED BY <1>1, <4>1, <4>2, <5>3, <6>1
        <5> QED BY <1>2, <4>2, <5>2, <5>3
      <4>3. ctr'[s][c].count > 0 /\ ctr'[s][c].count <= Len(hist'[s][c])
        BY <1>0, <1>1, <3>1, <4>1
      <4> QED BY <1>5, <3>1, <4>1, <4>2, <4>3 DEF WindowHolds
    <3> QED BY <3>2, <3>3
  <2>2. CASE ~Alive(ctr[s][c])
    <3>1. ctr'[s][c].count = 1 /\ ctr'[s][c].until = u
      BY <2>2
    <3>2. ctr'[s][c].count > 0 /\ ctr'[s][c].count <= Len(hist'[s][c])
      BY <1>0, <1>1, <3>1
    <3>3. ASSUME u # None, NEW i \in Window(s, c)'
          PROVE  u - hist'[s][c][i] <= Minute + 1
      <4>1. i = L + 1 /\ u = now + Minute
        BY <1>2, <2>2, <3>3
      <4> QED BY <1>0, <1>1, <4>1
    <3>4. u = None /\ <<s, c>> \notin stuck' =>
             s = Redis /\ \E x \in Requests : Awaits(x)' /\ CounterOf(x)' = c
      BY <2>2
    <3> QED BY <3>1, <3>2, <3>3, <3>4 DEF WindowHolds
  <2> QED BY <2>1, <2>2
<1>7. ASSUME NEW x \in Stores, NEW d \in MinuteCounters, x # s \/ d # c PROVE WindowHolds(x, d)'
  <2>1. WindowHolds(x, d)
    BY DEF WindowInv, Windows
  <2>2. Window(x, d)' = Window(x, d) /\ ctr'[x][d] = ctr[x][d] /\ hist'[x][d] = hist[x][d]
    BY <1>7 DEF Window
  <2>3. Alive(ctr[x][d])' = Alive(ctr[x][d]) /\ (<<x, d>> \notin stuck' => <<x, d>> \notin stuck)
    BY <2>2 DEF Alive
  <2> QED BY <1>5, <2>1, <2>2, <2>3 DEF WindowHolds
<1> QED BY <1>3, <1>4, <1>6, <1>7 DEF WindowInv, AwaitsRecent, Windows

\* The expiry of c is set, or could not be.
LEMMA AwaitEnds ==
    ASSUME TypeOK, WindowInv, NEW r \in Requests, OneMoves(r), now' = now, stuck \subseteq stuck',
           Awaits(r), ~Awaits(r)', NEW c \in MinuteCounters, c = CounterOf(r),
           \A s \in Stores, d \in MinuteCounters : hist'[s][d] = hist[s][d],
           \A s \in Stores, d \in MinuteCounters :
              (s # Redis \/ d # c) => ctr'[s][d] = ctr[s][d],
           ctr'[Redis][c].count = ctr[Redis][c].count,
           \/ /\ ctr'[Redis][c] = ctr[Redis][c]
              /\ ctr[Redis][c].until = None => <<Redis, c>> \in stuck'
           \/ Alive(ctr[Redis][c]) /\ ctr'[Redis][c].until = now + Minute
    PROVE  WindowInv'
<1>0. Redis \in Stores /\ now \in Nat /\ Minute \in Nat \ {0} /\ req[r].start \in Nat
  BY StoresApart, StoredTypes, ReqTypes DEF ReqType
<1>1. HistPast'
  BY DEF WindowInv, HistPast
<1>2. ASSUME NEW s \in Stores, NEW d \in MinuteCounters
      PROVE  Window(s, d)' = Window(s, d) /\ ctr'[s][d].count = ctr[s][d].count
  BY DEF Window
<1>3. ASSUME NEW x \in Requests, Awaits(x)'
      PROVE  /\ req'[x].start <= now' /\ now' <= req'[x].start + 1 /\ req'[x].num = 1
             /\ \A i \in Window(Redis, CounterOf(x))' :
                   req'[x].start <= hist'[Redis][CounterOf(x)'][i]
  <2>1. x # r
    BY <1>3
  <2>2. Awaits(x) /\ CounterOf(x)' = CounterOf(x) /\ req'[x] = req[x]
    BY <1>3, <2>1, OthersAwait
  <2>3. CounterOf(x) \in MinuteCounters
    BY <2>2, KeyCounters DEF Awaits
  <2>4. Window(Redis, CounterOf(x))' = Window(Redis, CounterOf(x))
    BY <1>0, <1>2, <2>2, <2>3
  <2> QED BY <1>0, <2>2, <2>3, <2>4 DEF WindowInv, AwaitsRecent
<1>4. WindowHolds(Redis, c)'
  <2>0. WindowHolds(Redis, c)
    BY <1>0 DEF WindowInv, Windows
  <2>1. CASE /\ ctr'[Redis][c] = ctr[Redis][c]
             /\ ctr[Redis][c].until = None => <<Redis, c>> \in stuck'
    <3>1. Alive(ctr[Redis][c])' = Alive(ctr[Redis][c])
      BY <2>1 DEF Alive
    <3> QED BY <1>0, <1>2, <2>0, <2>1, <3>1 DEF WindowHolds
  <2>2. CASE Alive(ctr[Redis][c]) /\ ctr'[Redis][c].until = now + Minute
    <3> DEFINE u == now + Minute
    <3>1. ctr'[Redis][c].until = u /\ u # None
      BY <1>0, <2>2, FailAssumption
    <3>2. ASSUME NEW i \in Window(Redis, c)'
          PROVE  u - hist'[Redis][c][i] <= Minute + 1
      <4>1. i \in Window(Redis, c) /\ hist'[Redis][c][i] = hist[Redis][c][i]
        BY <1>0, <1>2
      <4>2. hist[Redis][c][i] \in Nat
        BY <1>0, <4>1, StoredTypes DEF Window
      <4>3. req[r].start <= hist[Redis][c][i] /\ now <= req[r].start + 1
        BY <4>1 DEF WindowInv, AwaitsRecent
      <4> QED BY <1>0, <4>1, <4>2, <4>3
    <3>3. /\ ctr'[Redis][c].count > 0
          /\ <<Redis, c>> \notin stuck => ctr'[Redis][c].count <= Len(hist'[Redis][c])
      BY <1>0, <1>2, <2>0, <2>2 DEF WindowHolds
    <3>4. <<Redis, c>> \notin stuck' => <<Redis, c>> \notin stuck
      OBVIOUS
    <3> HIDE DEF u
    <3> QED BY <3>1, <3>2, <3>3, <3>4 DEF WindowHolds
  <2> QED BY <2>1, <2>2
<1>5. ASSUME NEW s \in Stores, NEW d \in MinuteCounters, s # Redis \/ d # c PROVE WindowHolds(s, d)'
  <2>1. WindowHolds(s, d)
    BY DEF WindowInv, Windows
  <2>2. Window(s, d)' = Window(s, d) /\ ctr'[s][d] = ctr[s][d] /\ hist'[s][d] = hist[s][d]
    BY <1>2, <1>5
  <2>3. Alive(ctr[s][d])' = Alive(ctr[s][d]) /\ (<<s, d>> \notin stuck' => <<s, d>> \notin stuck)
    BY <2>2 DEF Alive
  <2>4. ASSUME s = Redis, NEW x \in Requests, Awaits(x), CounterOf(x) = d
        PROVE  Awaits(x)' /\ CounterOf(x)' = d
    <3>1. x # r
      BY <1>5, <2>4
    <3> QED BY <2>4, <3>1, OthersAwait
  <2> QED BY <2>1, <2>2, <2>3, <2>4 DEF WindowHolds
<1> QED BY <1>1, <1>3, <1>4, <1>5 DEF WindowInv, AwaitsRecent, Windows

LEMMA StrikesApart ==
    ASSUME NEW r \in Requests, req[r].kind = "strike"
    PROVE  CounterOf(r) \notin MinuteCounters
  BY DEF CounterOf, MinuteCounters

LEMMA CountedGoesOn ==
    ASSUME TypeOK, NEW r \in Requests, NEW n \in Nat \ {0}, req'[r] = Counted(req[r], n)
    PROVE  ~Awaits(r)'
<1>1. req[r] \in ReqType
  BY ReqTypes
<1>2. Counted(req[r], n).pc # "expire"
  BY <1>1, CountedCounts
<1> QED BY <1>2 DEF Awaits

\* A failure or strike is counted at Redis, and the request awaits the expiry
\* of a new counter, or the counter is stuck.
LEMMA RedisCounts ==
    ASSUME TypeOK, WindowInv, NEW r \in Requests, OneMoves(r), now' = now, stuck \subseteq stuck',
           IncrAt(CounterOf(r)), ~Awaits(r),
           Awaits(r)' => /\ CounterOf(r)' = CounterOf(r) /\ ctr'[Redis][CounterOf(r)].count = 1
                         /\ req'[r].start = now /\ req'[r].num = 1 /\ req[r].kind # "strike",
           req[r].kind # "strike" /\ ctr'[Redis][CounterOf(r)].count = 1
              /\ ctr'[Redis][CounterOf(r)].until = None /\ ctr' # ctr =>
              Awaits(r)' \/ <<Redis, CounterOf(r)>> \in stuck'
    PROVE  WindowInv'
<1> DEFINE c == CounterOf(r)
           e == ctr[Redis][c]
<1>1. c \in Counters /\ Redis \in Stores
  BY CounterTypes, StoresApart
<1>2. /\ ctr'[Redis][c] = IF Alive(e) THEN [e EXCEPT !.count = e.count + 1]
                          ELSE [count |-> 1, until |-> None]
      /\ \A s \in Stores, d \in Counters : (s # Redis \/ d # c) => ctr'[s][d] = ctr[s][d]
      /\ \A s \in Stores, d \in MinuteCounters :
            hist'[s][d] = IF s = Redis /\ d = c THEN Append(hist[s][d], now) ELSE hist[s][d]
  BY <1>1, IncrAtEffects
<1>3. MinuteCounters \subseteq Counters
  BY DEF Counters
<1>4. CASE req[r].kind = "strike"
  <2>1. c \notin MinuteCounters
    BY <1>4, StrikesApart
  <2>2. \A s \in Stores, d \in MinuteCounters : ctr'[s][d] = ctr[s][d] /\ hist'[s][d] = hist[s][d]
    BY <1>2, <1>3, <2>1
  <2> QED BY <1>4, <2>2, WindowsStay
<1>5. CASE req[r].kind # "strike"
  <2>1. c \in MinuteCounters
    BY <1>5, KeyCounters
  <2>2. e \in CtrType
    BY <1>1 DEF TypeOK, CtrType
  <2>3. Alive(e) => ctr'[Redis][c].count = e.count + 1 /\ ctr'[Redis][c].until = e.until
    BY <1>2, <2>2 DEF CtrType
  <2>4. ~Alive(e) => ctr'[Redis][c].count = 1 /\ ctr'[Redis][c].until = None /\ e.until # None
    BY <1>2 DEF Alive
  <2>5. Alive(e) => ctr'[Redis][c].count # 1
    <3>1. Alive(e) => e.count > 0 /\ e.count \in Nat
      BY <1>1, <2>1, StoredTypes DEF WindowInv, Windows, WindowHolds
    <3> QED BY <2>3, <3>1
  <2>6. Appended(Redis, c)
    BY <1>1, <1>2, <2>1 DEF Appended
  <2>7. \A x \in Stores, d \in MinuteCounters :
           (x # Redis \/ d # c) => ctr'[x][d] = ctr[x][d] /\ hist'[x][d] = hist[x][d]
    BY <1>2, <1>3
  <2>8. ~Alive(e) => Awaits(r)' \/ <<Redis, c>> \in stuck'
    BY <1>5, <2>4
  <2>9. Awaits(r)' => /\ CounterOf(r)' = c /\ ~Alive(e)
                      /\ req'[r].start = now /\ req'[r].num = 1
    BY <2>5
  <2> HIDE DEF c
  <2> QED BY <1>1, <2>1, <2>3, <2>4, <2>6, <2>7, <2>8, <2>9, WindowGrows
<1> QED BY <1>4, <1>5

\* The call for the expiry ends, with effect or without.
LEMMA ExpiryEnds ==
    ASSUME TypeOK, WindowInv, NEW r \in Requests, OneMoves(r), now' = now, stuck \subseteq stuck',
           req[r].pc = "expire", ~Awaits(r)', hist' = hist,
           \/ ExpireAt(r)
           \/ /\ ctr' = ctr
              /\ Awaits(r) /\ ctr[Redis][CounterOf(r)].until = None =>
                    <<Redis, CounterOf(r)>> \in stuck'
    PROVE  WindowInv'
<1> DEFINE c == CounterOf(r)
<1>0. c \in Counters /\ Redis \in Stores /\ MinuteCounters \subseteq Counters
  BY CounterTypes, StoresApart DEF Counters
<1>1. /\ \A s \in Stores, d \in Counters : (s # Redis \/ d # c) => ctr'[s][d] = ctr[s][d]
      /\ ctr'[Redis][c].count = ctr[Redis][c].count
  BY ExpireAtEffects
<1>2. CASE req[r].kind = "strike"
  <2>1. c \notin MinuteCounters
    BY <1>2, StrikesApart
  <2>2. \A s \in Stores, d \in MinuteCounters : ctr'[s][d] = ctr[s][d] /\ hist'[s][d] = hist[s][d]
    BY <1>0, <1>1, <2>1
  <2>3. ~Awaits(r)
    BY <1>2 DEF Awaits
  <2> QED BY <2>2, <2>3, WindowsStay
<1>3. CASE req[r].kind # "strike"
  <2>1. Awaits(r) /\ c \in MinuteCounters
    BY <1>3, KeyCounters DEF Awaits
  <2>2. \/ /\ ctr'[Redis][c] = ctr[Redis][c]
           /\ ctr[Redis][c].until = None => <<Redis, c>> \in stuck'
        \/ Alive(ctr[Redis][c]) /\ ctr'[Redis][c].until = now + Minute
    <3>1. CASE ExpireAt(r)
      <4>1. ctr[Redis][c].until = None => Alive(ctr[Redis][c])
        BY DEF Alive
      <4> QED BY <1>3, <3>1, <4>1, ExpireAtEffects
    <3>2. CASE ctr' = ctr /\ (Awaits(r) /\ ctr[Redis][c].until = None => <<Redis, c>> \in stuck')
      BY <2>1, <3>2
    <3> QED BY <3>1, <3>2
  <2>3. \A s \in Stores, d \in MinuteCounters :
           (s # Redis \/ d # c) => ctr'[s][d] = ctr[s][d]
    BY <1>0, <1>1
  <2> HIDE DEF c
  <2>4. c = CounterOf(r)
    BY DEF c
  <2> QED BY <1>1, <2>1, <2>2, <2>3, <2>4, AwaitEnds
<1> QED BY <1>2, <1>3

LEMMA WindowStep ==
    ASSUME Shape, WindowInv, [Next]_vars
    PROVE  WindowInv'
<1>0. TypeOK /\ StrikesCounted /\ RedisUsed
  BY DEF Shape
<1>1. ASSUME NEW r \in Requests, OneMoves(r), UNCHANGED <<now, ctr, hist>>, stuck \subseteq stuck',
             req[r].pc # "expire", req'[r].pc # "expire"
      PROVE  WindowInv'
  <2>1. ~Awaits(r) /\ ~Awaits(r)'
    BY <1>1 DEF Awaits
  <2> QED BY <1>0, <1>1, <2>1, WindowsStay
<1>2. ASSUME NEW r \in Requests, Check(r) PROVE WindowInv'
  BY <1>0, <1>1, <1>2, CheckMoves DEF Check
<1>3. ASSUME NEW r \in Requests, ReadTTL(r) PROVE WindowInv'
  BY <1>0, <1>1, <1>3, ReadTTLMoves DEF ReadTTL
<1>4. ASSUME NEW r \in Requests, CacheBlock(r) PROVE WindowInv'
  BY <1>0, <1>1, <1>4, CacheMoves DEF CacheBlock
<1>5. ASSUME NEW r \in Requests, Handle(r) PROVE WindowInv'
  BY <1>0, <1>1, <1>5, HandleMoves DEF Handle
<1>6. ASSUME NEW r \in Requests, Strike(r) PROVE WindowInv'
  BY <1>0, <1>1, <1>6, StrikeMoves DEF Strike
<1>7. ASSUME NEW r \in Requests, SetBlock(r) PROVE WindowInv'
  BY <1>0, <1>1, <1>7, SetBlockMoves DEF SetBlock
<1>8. ASSUME NEW r \in Requests, SetRedis(r) PROVE WindowInv'
  BY <1>0, <1>1, <1>8, SetRedisMoves DEF SetRedis
<1>9. ASSUME NEW r \in Requests, Incr(r) PROVE WindowInv'
  <2> DEFINE n == ctr'[Redis][CounterOf(r)].count
  <2>1. /\ OneMoves(r) /\ IncrAt(CounterOf(r)) /\ n \in Nat \ {0} /\ now' = now /\ stuck' = stuck
        /\ req[r].pc = "incr"
    BY <1>0, <1>9, IncrMoves, IncrAtEffects DEF Incr
  <2>2. CASE ~SetsExpiry(r, n)
    <3>1. req'[r] = Counted(req[r], n)
      BY <1>0, <1>9, <2>2, IncrMoves
    <3>2. ~Awaits(r)'
      BY <1>0, <2>1, <3>1, CountedGoesOn
    <3>3. n # 1 /\ ~Awaits(r)
      BY <2>1, <2>2 DEF SetsExpiry, Awaits
    <3> QED BY <1>0, <2>1, <3>2, <3>3, RedisCounts
  <2>3. CASE SetsExpiry(r, n)
    <3>1. /\ req'[r].pc = "expire" /\ req'[r].num = n
          /\ req'[r].kind = req[r].kind
          /\ req'[r].start = IF req[r].kind = "strike" THEN req[r].start ELSE now
      BY <1>0, <1>9, <2>3, IncrMoves
    <3>2. CounterOf(r)' = CounterOf(r)
      BY <3>1 DEF CounterOf
    <3>3. /\ Awaits(r)' => req[r].kind # "strike" /\ n = 1
          /\ req[r].kind # "strike" => Awaits(r)'
          /\ ~Awaits(r)
      BY <2>1, <2>3, <3>1 DEF Awaits, SetsExpiry
    <3> QED BY <1>0, <2>1, <3>1, <3>2, <3>3, RedisCounts
  <2> QED BY <2>2, <2>3
<1>10. ASSUME NEW r \in Requests, Expire(r) PROVE WindowInv'
  <2>1. OneMoves(r) /\ req'[r] = Counted(req[r], req[r].num)
    BY <1>0, <1>10, ExpireMoves
  <2>2. req[r].pc = "expire" /\ ExpireAt(r) /\ UNCHANGED <<now, hist, stuck>>
    BY <1>10 DEF Expire
  <2>3. req[r].num \in Nat \ {0}
    BY <1>0, <2>2 DEF StrikesCounted, TypeOK
  <2>4. ~Awaits(r)'
    BY <1>0, <2>1, <2>3, CountedGoesOn
  <2> QED BY <1>0, <2>1, <2>2, <2>4, ExpiryEnds
<1>11. ASSUME NEW r \in Requests, IncrLocal(r) PROVE WindowInv'
  <2> DEFINE c == CounterOf(r)
             e == ctr[at[r]][c]
             u == now + Minute
  <2>1. /\ OneMoves(r) /\ c \in Counters /\ at[r] \in Stores /\ at[r] # Redis
        /\ req'[r] = Counted(req[r], ctr'[at[r]][c].count)
        /\ ctr'[at[r]][c].count \in Nat \ {0}
        /\ \A s \in Stores, d \in Counters : (s # at[r] \/ d # c) => ctr'[s][d] = ctr[s][d]
        /\ \A s \in Stores, d \in MinuteCounters :
              hist'[s][d] = IF s = at[r] /\ d = c THEN Append(hist[s][d], now) ELSE hist[s][d]
        /\ req[r].kind # "strike" =>
              ctr'[at[r]][c] = IF Alive(e) THEN [count |-> e.count + 1, until |-> e.until]
                               ELSE [count |-> 1, until |-> now + Minute]
    BY <1>0, <1>11, IncrLocalMoves
  <2>2. UNCHANGED <<now, stuck>> /\ req[r].pc = "incr"
    BY <1>11 DEF IncrLocal
  <2>3. ~Awaits(r) /\ ~Awaits(r)'
    BY <1>0, <2>1, <2>2, CountedGoesOn DEF Awaits
  <2>4. MinuteCounters \subseteq Counters
    BY DEF Counters
  <2>5. CASE req[r].kind = "strike"
    <3>1. c \notin MinuteCounters
      BY <2>5, StrikesApart
    <3>2. \A s \in Stores, d \in MinuteCounters :
             ctr'[s][d] = ctr[s][d] /\ hist'[s][d] = hist[s][d]
      BY <2>1, <2>4, <3>1
    <3> QED BY <1>0, <2>1, <2>2, <2>3, <3>2, WindowsStay
  <2>6. CASE req[r].kind # "strike"
    <3>1. c \in MinuteCounters
      BY <1>0, <2>6, KeyCounters
    <3>2. Appended(at[r], c)
      BY <2>1, <3>1 DEF Appended
    <3>3. \A x \in Stores, d \in MinuteCounters :
             (x # at[r] \/ d # c) => ctr'[x][d] = ctr[x][d] /\ hist'[x][d] = hist[x][d]
      BY <2>1, <2>4
    <3>4. /\ Alive(e) => ctr'[at[r]][c].count = e.count + 1 /\ ctr'[at[r]][c].until = e.until
          /\ ~Alive(e) => ctr'[at[r]][c].count = 1 /\ ctr'[at[r]][c].until = u
      BY <2>1, <2>6
    <3>5. u \in Nat /\ u # None
      BY <1>0, <2>1, <3>1, StoredTypes, FailAssumption
    <3>6. u = now + Minute
      OBVIOUS
    <3> HIDE DEF c, u
    <3> QED BY <1>0, <2>1, <2>2, <2>3, <3>1, <3>2, <3>3, <3>4, <3>5, <3>6, WindowGrows
  <2> QED BY <2>5, <2>6
<1>12. ASSUME NEW r \in Requests, CallFails(r) PROVE WindowInv'
  <2>1. /\ OneMoves(r) /\ stuck \subseteq stuck' /\ now' = now
        /\ req'[r].pc # "expire" /\ ~Awaits(r)'
    BY <1>0, <1>12, CallFailsMoves, StuckGrows DEF CallFails, Awaits
  <2>2. CASE req[r].pc \in {"ttl", "set"}
    <3>1. UNCHANGED <<ctr, hist>> /\ req[r].pc # "expire"
      BY <1>12, <2>2 DEF CallFails
    <3> QED BY <1>1, <2>1, <3>1
  <2>3. CASE req[r].pc = "incr"
    <3>1. ~Awaits(r)
      BY <2>3 DEF Awaits
    <3>2. CASE IncrAt(CounterOf(r))
      <4>1. stuck' = IF LosesExpiry(r) THEN stuck \cup {<<Redis, CounterOf(r)>>} ELSE stuck
        BY <1>12, <2>3 DEF CallFails
      <4>2. req[r].kind # "strike" => CounterOf(r) \in MinuteCounters
        BY <1>0, KeyCounters
      <4>3. req[r].kind # "strike" /\ ctr'[Redis][CounterOf(r)].count = 1
               /\ ctr'[Redis][CounterOf(r)].until = None /\ ctr' # ctr => LosesExpiry(r)
        BY <2>3, <4>2 DEF LosesExpiry
      <4> QED BY <1>0, <2>1, <3>1, <3>2, <4>1, <4>3, RedisCounts
    <3>3. CASE UNCHANGED <<ctr, hist>>
      BY <1>1, <2>1, <2>3, <3>3
    <3> QED BY <1>12, <2>3, <3>2, <3>3 DEF CallFails
  <2>4. CASE req[r].pc = "expire"
    <3>1. /\ hist' = hist /\ (ExpireAt(r) \/ ctr' = ctr)
          /\ stuck' = IF LosesExpiry(r) THEN stuck \cup {<<Redis, CounterOf(r)>>} ELSE stuck
      BY <1>12, <2>4 DEF CallFails
    <3>2. Awaits(r) => CounterOf(r) \in MinuteCounters
      BY <1>0, KeyCounters DEF Awaits
    <3>3. ctr' = ctr /\ Awaits(r) /\ ctr[Redis][CounterOf(r)].until = None => LosesExpiry(r)
      BY <2>4, <3>2 DEF LosesExpiry
    <3> QED BY <1>0, <2>1, <2>4, <3>1, <3>3, ExpiryEnds
  <2> QED BY <1>12, <2>2, <2>3, <2>4 DEF CallFails
<1>13. CASE Tick
  <2>1. now' = now + 1 /\ UNCHANGED <<ctr, hist, stuck, req>> /\ now \in Nat
    BY <1>0, <1>13 DEF Tick, TypeOK
  <2>2. HistPast'
    <3> SUFFICES ASSUME NEW s \in Stores, NEW c \in MinuteCounters, NEW i \in 1 .. Len(hist[s][c])
                 PROVE  hist[s][c][i] <= now + 1
      BY <2>1 DEF HistPast
    <3>1. hist[s][c][i] <= now /\ hist[s][c][i] \in Nat
      BY <1>0, StoredTypes DEF WindowInv, HistPast
    <3> QED BY <2>1, <3>1
  <2>3. ASSUME NEW x \in Requests, Awaits(x)'
        PROVE  /\ req'[x].start <= now' /\ now' <= req'[x].start + 1 /\ req'[x].num = 1
               /\ \A i \in Window(Redis, CounterOf(x))' :
                     req'[x].start <= hist'[Redis][CounterOf(x)'][i]
    <3>1. Awaits(x) /\ CounterOf(x)' = CounterOf(x)
          /\ Window(Redis, CounterOf(x))' = Window(Redis, CounterOf(x))
      BY <2>1, <2>3 DEF Awaits, CounterOf, Window
    <3>2. req[x].start = now
      BY <1>0, <1>13, <3>1 DEF Tick, Calling, Awaits, RedisUsed
    <3>3. req[x].num = 1 /\ \A i \in Window(Redis, CounterOf(x)) :
                               req[x].start <= hist[Redis][CounterOf(x)][i]
      BY <3>1 DEF WindowInv, AwaitsRecent
    <3> QED BY <2>1, <3>1, <3>2, <3>3
  <2>4. ASSUME NEW s \in Stores, NEW c \in MinuteCounters PROVE WindowHolds(s, c)'
    <3>1. WindowHolds(s, c) /\ Window(s, c)' = Window(s, c)
      BY <2>1 DEF WindowInv, Windows, Window
    <3>2. ctr[s][c].until \in Nat \cup {None}
      BY <1>0, StoredTypes
    <3>3. Alive(ctr[s][c])' => Alive(ctr[s][c])
      BY <2>1, <3>2 DEF Alive
    <3>4. \A x \in Requests : Awaits(x)' = Awaits(x) /\ CounterOf(x)' = CounterOf(x)
      BY <2>1 DEF Awaits, CounterOf
    <3> QED BY <2>1, <3>1, <3>3, <3>4 DEF WindowHolds
  <2> QED BY <2>2, <2>3, <2>4 DEF WindowInv, AwaitsRecent, Windows
<1>14. CASE UNCHANGED vars
  BY <1>14 DEF vars, WindowInv, HistPast, AwaitsRecent, Windows, WindowHolds, Window, Awaits,
               CounterOf, Alive
<1>15. ASSUME NEW r \in Requests, SendAgain(r) PROVE WindowInv'
  BY <1>0, <1>1, <1>15, SendAgainMoves DEF SendAgain
<1> QED BY <1>2, <1>3, <1>4, <1>5, <1>6, <1>7, <1>8, <1>9, <1>10, <1>11, <1>12, <1>13, <1>14,
           <1>15
    DEF Next

LEMMA WindowInitial == Init => WindowInv
<1> SUFFICES ASSUME Init PROVE WindowInv
  OBVIOUS
<1>1. ASSUME NEW s \in Stores, NEW c \in MinuteCounters
      PROVE  hist[s][c] = <<>> /\ ctr[s][c] = [count |-> 0, until |-> 0]
  BY DEF Init, Counters
<1>2. HistPast
  BY <1>1 DEF HistPast
<1>3. \A r \in Requests : ~Awaits(r)
  BY ReachesType DEF Init, Awaits, Steps
<1>4. 0 # None /\ now = 0
  BY FailAssumption DEF Init
<1>5. Windows
  BY <1>1, <1>4 DEF Windows, WindowHolds, Alive
<1> QED BY <1>2, <1>3, <1>5 DEF WindowInv, AwaitsRecent

\* A counter of a minute counts failures of one minute and a tick, unless its
\* expiry could not be set.
THEOREM MinutesAreCounted == Spec => []CountsAMinute
<1>1. ASSUME Shape, WindowInv PROVE CountsAMinute
  <2> SUFFICES ASSUME NEW s \in Stores, NEW c \in MinuteCounters, Alive(ctr[s][c]),
                      ctr[s][c].until # None, <<s, c>> \notin stuck,
                      NEW i \in 1 .. Len(hist[s][c]), i > Len(hist[s][c]) - ctr[s][c].count
               PROVE  ctr[s][c].until - hist[s][c][i] <= Minute + 1
    BY DEF CountsAMinute
  <2>1. i \in Window(s, c)
    BY DEF Window
  <2> QED BY <1>1, <2>1 DEF WindowInv, Windows, WindowHolds
<1> QED BY <1>1, ShapeInitial, ShapeStep, WindowInitial, WindowStep, PTL DEF Spec

-----------------------------------------------------------------------------
(* Strikes have a cause.                                                   *)

\* A request that remembers a hit of its pair has cause for it.
HasCause(r) ==
    \/ Excess(StoreOf(r), <<"fail", KeyOf[r]>>, FailsPerMinute)
    \/ <<StoreOf(r), <<"fail", KeyOf[r]>>>> \in stuck
HitsHaveCause == \A r \in Requests : req[r].hit => HasCause(r)

\* Every step: histories grow, what is stuck stays, and so do the deployments.
Grows ==
    /\ \A s \in Stores, c \in MinuteCounters : hist'[s][c] = hist[s][c] \/ Appended(s, c)
    /\ stuck \subseteq stuck' /\ UNCHANGED <<useRedis, at>>

LEMMA EveryStepGrows ==
    ASSUME Shape, [Next]_vars
    PROVE  Grows
<1>0. TypeOK
  BY DEF Shape
<1>1. hist' = hist /\ stuck' = stuck /\ UNCHANGED <<useRedis, at>> => Grows
  BY DEF Grows
<1>2. ASSUME NEW r \in Requests, IncrAt(CounterOf(r)), stuck \subseteq stuck',
             UNCHANGED <<useRedis, at>>
      PROVE  Grows
  <2>1. CounterOf(r) \in Counters
    BY <1>0, CounterTypes
  <2>2. \A s \in Stores, d \in MinuteCounters :
           hist'[s][d] = IF s = Redis /\ d = CounterOf(r) THEN Append(hist[s][d], now)
                         ELSE hist[s][d]
    BY <1>0, <1>2, <2>1, IncrAtEffects
  <2> QED BY <1>2, <2>2 DEF Grows, Appended
<1>3. ASSUME NEW r \in Requests, Incr(r) PROVE Grows
  BY <1>2, <1>3 DEF Incr
<1>4. ASSUME NEW r \in Requests, IncrLocal(r) PROVE Grows
  <2>1. \A s \in Stores, d \in MinuteCounters :
           hist'[s][d] = IF s = at[r] /\ d = CounterOf(r) THEN Append(hist[s][d], now)
                         ELSE hist[s][d]
    BY <1>0, <1>4, IncrLocalMoves
  <2>2. UNCHANGED <<stuck, useRedis, at>>
    BY <1>4 DEF IncrLocal
  <2> QED BY <2>1, <2>2 DEF Grows, Appended
<1>5. ASSUME NEW r \in Requests, CallFails(r) PROVE Grows
  <2>1. stuck \subseteq stuck' /\ UNCHANGED <<useRedis, at>>
    BY <1>0, <1>5, StuckGrows DEF CallFails
  <2>2. hist' = hist \/ IncrAt(CounterOf(r))
    BY <1>5 DEF CallFails
  <2>3. hist' = hist => Grows
    BY <2>1 DEF Grows
  <2> QED BY <1>2, <2>1, <2>2, <2>3
<1>6. ASSUME NEW r \in Requests, Check(r) \/ ReadTTL(r) \/ CacheBlock(r) \/ Handle(r) \/ Expire(r)
                                 \/ Strike(r) \/ SetBlock(r) \/ SetRedis(r) \/ SendAgain(r)
      PROVE  Grows
  BY <1>1, <1>6 DEF Check, ReadTTL, CacheBlock, Handle, Expire, Strike, SetBlock, SetRedis,
                    SendAgain
<1>7. CASE Tick \/ UNCHANGED vars
  BY <1>1, <1>7 DEF Tick, vars
<1> QED BY <1>3, <1>4, <1>5, <1>6, <1>7 DEF Next

LEMMA CauseStays ==
    ASSUME TypeOK, Grows, NEW r \in Requests, HasCause(r)
    PROVE  HasCause(r)'
<1> DEFINE s == StoreOf(r)
           c == <<"fail", KeyOf[r]>>
<1>1. s \in Stores /\ c \in MinuteCounters /\ s' = s /\ FailsPerMinute \in Nat
  BY CounterTypes, KeyCounters, FailAssumption DEF Grows, StoreOf
<1>2. CASE Excess(s, c, FailsPerMinute)
  <2>1. hist'[s][c] = hist[s][c] \/ Appended(s, c)
    BY <1>1 DEF Grows
  <2> HIDE DEF c
  <2>2. ASSUME NEW x \in Stores, x = s PROVE Excess(x, c, FailsPerMinute)'
    BY <1>1, <1>2, <2>1, <2>2, ExcessStays
  <2>3. Excess(s, c, FailsPerMinute)'
    BY <1>1, <2>2 DEF Excess
  <2> QED BY <2>3 DEF HasCause, c
<1>3. CASE <<s, c>> \in stuck
  BY <1>1, <1>3 DEF HasCause, Grows
<1> QED BY <1>2, <1>3 DEF HasCause

\* A failure that is counted beyond n has n others within the minute.
LEMMA CountedForCause ==
    ASSUME Shape, WindowInv, NEW r \in Requests, Incr(r) \/ IncrLocal(r), req[r].kind # "strike",
           NEW s \in Stores, s = StoreOf(r), NEW c \in MinuteCounters, c = CounterOf(r),
           NEW n \in Nat \ {0}, ctr'[s][c].count > n
    PROVE  Excess(s, c, n)' \/ <<s, c>> \in stuck
<1>0. TypeOK
  BY DEF Shape
<1>1. c \in Counters /\ Redis \in Stores
  BY <1>0, StoresApart DEF Counters
<1>2. /\ Appended(s, c)
      /\ Alive(ctr[s][c]) => ctr'[s][c].count = ctr[s][c].count + 1
      /\ ~Alive(ctr[s][c]) => ctr'[s][c].count = 1
  <2>1. CASE Incr(r)
    <3>1. s = Redis /\ IncrAt(c)
      BY <2>1 DEF Incr, StoreOf
    <3>2. ctr[Redis][c] \in CtrType
      BY <1>0, <1>1 DEF TypeOK, CtrType
    <3>3. /\ ctr'[Redis][c] = IF Alive(ctr[Redis][c])
                              THEN [ctr[Redis][c] EXCEPT !.count = ctr[Redis][c].count + 1]
                              ELSE [count |-> 1, until |-> None]
          /\ Appended(Redis, c)
      BY <1>0, <1>1, <3>1, IncrAtEffects DEF Appended
    <3>4. /\ Alive(ctr[Redis][c]) => ctr'[Redis][c].count = ctr[Redis][c].count + 1
          /\ ~Alive(ctr[Redis][c]) => ctr'[Redis][c].count = 1
      BY <3>2, <3>3 DEF CtrType
    <3> QED BY <3>1, <3>3, <3>4
  <2>2. CASE IncrLocal(r)
    <3>1. s = at[r]
      BY <2>2 DEF IncrLocal, StoreOf
    <3>2. /\ ctr'[at[r]][c] = IF Alive(ctr[at[r]][c])
                              THEN [count |-> ctr[at[r]][c].count + 1,
                                    until |-> ctr[at[r]][c].until]
                              ELSE [count |-> 1, until |-> now + Minute]
          /\ Appended(at[r], c)
      BY <1>0, <2>2, IncrLocalMoves DEF Appended
    <3>3. /\ Alive(ctr[at[r]][c]) => ctr'[at[r]][c].count = ctr[at[r]][c].count + 1
          /\ ~Alive(ctr[at[r]][c]) => ctr'[at[r]][c].count = 1
      BY <3>2
    <3> QED BY <3>1, <3>2, <3>3
  <2> QED BY <2>1, <2>2
<1>3. Alive(ctr[s][c]) /\ ctr[s][c].count + 1 > n
  BY <1>2
<1> QED BY <1>0, <1>2, <1>3, CountedIsExcess

\* Of a step by r: a hit that r newly remembers has a cause, and so has a strike.
LEMMA CauseOfStep ==
    ASSUME Shape, WindowInv, HitsHaveCause, [Next]_vars, NEW r \in Requests, req'[r] # req[r],
           NEW s \in Stores, s = StoreOf(r)
    PROVE  LET f == <<"fail", KeyOf[r]>>
               g == <<"gfail", IpOf[r]>>
           IN  /\ req'[r].hit => \/ HasCause(r)
                                 \/ Excess(s, f, FailsPerMinute)' \/ <<s, f>> \in stuck
               /\ (req[r].pc # "strike" /\ req'[r].pc = "strike") =>
                     \/ HasCause(r)
                     \/ Excess(s, g, GlobalFailsPerMinute)' \/ <<s, g>> \in stuck
<1> DEFINE f == <<"fail", KeyOf[r]>>
           g == <<"gfail", IpOf[r]>>
           Caused == /\ req'[r].hit => \/ HasCause(r)
                                       \/ Excess(s, f, FailsPerMinute)' \/ <<s, f>> \in stuck
                     /\ (req[r].pc # "strike" /\ req'[r].pc = "strike") =>
                           \/ HasCause(r)
                           \/ Excess(s, g, GlobalFailsPerMinute)' \/ <<s, g>> \in stuck
<1> SUFFICES Caused
  OBVIOUS
<1>0. TypeOK /\ StrikesCounted /\ RedisUsed
  BY DEF Shape
<1>1. /\ f \in MinuteCounters /\ g \in MinuteCounters
      /\ req[r].kind = "fail" => CounterOf(r) = f
      /\ req[r].kind = "gfail" => CounterOf(r) = g
  BY <1>0, KeyCounters
<1>2. FailsPerMinute \in Nat \ {0} /\ GlobalFailsPerMinute \in Nat \ {0}
  BY FailAssumption
<1>3. req[r].hit => HasCause(r)
  BY DEF HitsHaveCause
<1>4. req[r] \in ReqType /\ req[r].kind \in AllKinds
  BY <1>0, ReqTypes DEF ReqType
<1>5. ASSUME Incr(r) \/ IncrLocal(r), req'[r] = Counted(req[r], ctr'[s][CounterOf(r)].count),
             ctr'[s][CounterOf(r)].count \in Nat
      PROVE  Caused
  <2> DEFINE n == ctr'[s][CounterOf(r)].count
  <2>1. CASE req[r].kind = "fail"
    <3>1. n > FailsPerMinute => Excess(s, f, FailsPerMinute)' \/ <<s, f>> \in stuck
      BY <1>1, <1>2, <1>5, <2>1, CountedForCause
    <3>2. req'[r].pc = "incr" /\ (req'[r].hit => n > FailsPerMinute)
      BY <1>4, <1>5, <2>1, CountedFail
    <3> QED BY <3>1, <3>2
  <2>2. CASE req[r].kind = "gfail"
    <3>1. n > GlobalFailsPerMinute => Excess(s, g, GlobalFailsPerMinute)' \/ <<s, g>> \in stuck
      BY <1>1, <1>2, <1>5, <2>2, CountedForCause
    <3>2. ~req'[r].hit /\ (req'[r].pc = "strike" => req[r].hit \/ n > GlobalFailsPerMinute)
      BY <1>4, <1>5, <2>2, CountedFail
    <3> QED BY <1>3, <3>1, <3>2
  <2>3. CASE req[r].kind = "strike"
    BY <1>4, <1>5, <2>3, CountedFail
  <2> QED BY <1>4, <2>1, <2>2, <2>3 DEF AllKinds
<1>6. CASE Incr(r)
  <2>1. s = Redis
    BY <1>6 DEF Incr, StoreOf
  <2> DEFINE n == ctr'[Redis][CounterOf(r)].count
  <2>2. n \in Nat
    BY <1>0, <1>6, IncrMoves, IncrAtEffects
  <2>3. \/ req'[r] = Counted(req[r], n)
        \/ req'[r].pc = "expire" /\ req'[r].hit = req[r].hit
    BY <1>0, <1>6, IncrMoves
  <2>4. CASE req'[r] = Counted(req[r], n)
    BY <1>5, <1>6, <2>1, <2>2, <2>4
  <2>5. CASE req'[r].pc = "expire" /\ req'[r].hit = req[r].hit
    BY <1>3, <2>5
  <2> QED BY <2>3, <2>4, <2>5
<1>7. CASE IncrLocal(r)
  <2>1. s = at[r]
    BY <1>7 DEF IncrLocal, StoreOf
  <2>2. /\ req'[r] = Counted(req[r], ctr'[at[r]][CounterOf(r)].count)
        /\ ctr'[at[r]][CounterOf(r)].count \in Nat
    BY <1>0, <1>7, IncrLocalMoves
  <2> QED BY <1>5, <1>7, <2>1, <2>2
<1>8. CASE Expire(r)
  <2>1. req'[r] = Counted(req[r], req[r].num) /\ req[r].pc = "expire"
    BY <1>0, <1>8, ExpireMoves DEF Expire
  <2>2. req[r].kind # "strike" => req[r].num = 1
    BY <2>1 DEF WindowInv, AwaitsRecent, Awaits
  <2>3. req[r].num \in Nat
    BY <1>4 DEF ReqType
  <2>4. CASE req[r].kind = "fail"
    <3>1. ~(req[r].num > FailsPerMinute)
      BY <1>2, <2>2, <2>4
    <3> QED BY <1>4, <2>1, <2>3, <2>4, <3>1, CountedFail
  <2>5. CASE req[r].kind = "gfail"
    <3>1. ~(req[r].num > GlobalFailsPerMinute)
      BY <1>2, <2>2, <2>5
    <3> QED BY <1>3, <1>4, <2>1, <2>3, <2>5, <3>1, CountedFail
  <2>6. CASE req[r].kind = "strike"
    BY <1>4, <2>1, <2>3, <2>6, CountedFail
  <2> QED BY <1>4, <2>4, <2>5, <2>6 DEF AllKinds
<1>9. ASSUME ~req'[r].hit \/ req'[r].hit = req[r].hit, req'[r].pc # "strike" PROVE Caused
  <2>1. req'[r].hit => req[r].hit
    BY <1>9, Zenon
  <2> QED BY <1>3, <1>9, <2>1
<1> HIDE DEF Caused
<1>10. CASE Check(r)
  BY <1>0, <1>9, <1>10, CheckMoves
<1>11. CASE ReadTTL(r)
  BY <1>0, <1>9, <1>11, ReadTTLMoves
<1>12. CASE CacheBlock(r)
  BY <1>0, <1>9, <1>12, CacheMoves
<1>13. CASE Handle(r)
  BY <1>0, <1>9, <1>13, HandleMoves
<1>14. CASE Strike(r)
  BY <1>0, <1>9, <1>14, StrikeMoves
<1>15. CASE SetBlock(r)
  BY <1>0, <1>9, <1>15, SetBlockMoves
<1>16. CASE SetRedis(r)
  BY <1>0, <1>9, <1>16, SetRedisMoves
<1>17. CASE CallFails(r)
  BY <1>0, <1>9, <1>17, CallFailsMoves
<1>20. CASE SendAgain(r)
  BY <1>0, <1>9, <1>20, SendAgainMoves
<1>18. PICK x \in Requests : Check(x) \/ ReadTTL(x) \/ CacheBlock(x) \/ Handle(x) \/ Incr(x)
                             \/ Expire(x) \/ Strike(x) \/ IncrLocal(x) \/ SetBlock(x)
                             \/ SetRedis(x) \/ CallFails(x) \/ SendAgain(x)
  BY DEF Next, Tick, vars
<1>19. x = r
  <2>1. OneMoves(x)
    BY <1>0, <1>18, CheckMoves, ReadTTLMoves, CacheMoves, HandleMoves, IncrMoves, ExpireMoves,
       StrikeMoves, IncrLocalMoves, SetBlockMoves, SetRedisMoves, CallFailsMoves,
       SendAgainMoves
  <2> QED BY <2>1 DEF OneMoves
<1> QED BY <1>20, <1>6, <1>7, <1>8, <1>10, <1>11, <1>12, <1>13, <1>14, <1>15, <1>16, <1>17, <1>18, <1>19

LEMMA HitStep ==
    ASSUME Shape, WindowInv, HitsHaveCause, [Next]_vars
    PROVE  HitsHaveCause'
<1> SUFFICES ASSUME NEW r \in Requests, req'[r].hit PROVE HasCause(r)'
  BY DEF HitsHaveCause
<1>0. TypeOK /\ Grows
  BY EveryStepGrows DEF Shape
<1>1. PICK s \in Stores : s = StoreOf(r)
  BY <1>0, CounterTypes
<1>2. CASE HasCause(r)
  BY <1>0, <1>2, CauseStays
<1>3. CASE ~HasCause(r)
  <2>1. req'[r] # req[r]
    BY <1>3 DEF HitsHaveCause
  <2>2. Excess(s, <<"fail", KeyOf[r]>>, FailsPerMinute)' \/ <<s, <<"fail", KeyOf[r]>>>> \in stuck
    BY <1>1, <1>3, <2>1, CauseOfStep
  <2>3. StoreOf(r)' = s /\ stuck \subseteq stuck'
    BY <1>0, <1>1 DEF Grows, StoreOf
  <2> QED BY <2>2, <2>3 DEF HasCause, Excess
<1> QED BY <1>2, <1>3

\* No strike comes before the pair, or the address, has had more failures within
\* one minute than allowed, however many requests share the counters and
\* whichever calls to Redis fail; a counter without an expiry is exempt.
THEOREM StrikesHaveCause == Spec => StrikeForCause
<1> DEFINE Cause == \A r \in Requests : (req[r].pc # "strike" /\ req'[r].pc = "strike") =>
                       LET s == StoreOf(r)
                           f == <<"fail", KeyOf[r]>>
                           g == <<"gfail", IpOf[r]>>
                       IN  \/ Excess(s, f, FailsPerMinute)' \/ Excess(s, g, GlobalFailsPerMinute)'
                           \/ <<s, f>> \in stuck \/ <<s, g>> \in stuck
<1>1. Init => HitsHaveCause
  <2>1. "check" \in Steps
    BY DEF Steps
  <2> QED BY <2>1, ReachesType DEF Init, HitsHaveCause
<1>2. ASSUME Shape, WindowInv, HitsHaveCause, [Next]_vars PROVE Cause
  <2> SUFFICES ASSUME NEW r \in Requests, req[r].pc # "strike", req'[r].pc = "strike"
               PROVE  LET s == StoreOf(r)
                          f == <<"fail", KeyOf[r]>>
                          g == <<"gfail", IpOf[r]>>
                      IN  \/ Excess(s, f, FailsPerMinute)' \/ Excess(s, g, GlobalFailsPerMinute)'
                          \/ <<s, f>> \in stuck \/ <<s, g>> \in stuck
    OBVIOUS
  <2> DEFINE f == <<"fail", KeyOf[r]>>
             g == <<"gfail", IpOf[r]>>
  <2>0. TypeOK /\ Grows
    BY <1>2, EveryStepGrows DEF Shape
  <2>1. PICK s \in Stores : s = StoreOf(r)
    BY <2>0, CounterTypes
  <2>2. StoreOf(r)' = s
    BY <2>0, <2>1 DEF Grows, StoreOf
  <2>3. HasCause(r) \/ Excess(s, g, GlobalFailsPerMinute)' \/ <<s, g>> \in stuck
    BY <1>2, <2>1, CauseOfStep
  <2>4. f \in MinuteCounters /\ FailsPerMinute \in Nat
    BY <2>0, KeyCounters, FailAssumption
  <2>5. HasCause(r) => Excess(s, f, FailsPerMinute)' \/ <<s, f>> \in stuck
    <3>1. hist'[s][f] = hist[s][f] \/ Appended(s, f)
      BY <2>0, <2>4 DEF Grows
    <3>2. Excess(s, f, FailsPerMinute) => Excess(s, f, FailsPerMinute)'
      BY <2>0, <2>4, <3>1, ExcessStays
    <3> QED BY <2>1, <3>2 DEF HasCause
  <2>6. \/ Excess(s, f, FailsPerMinute)' \/ Excess(s, g, GlobalFailsPerMinute)'
        \/ <<s, f>> \in stuck \/ <<s, g>> \in stuck
    BY <2>3, <2>5
  <2> QED BY <2>1, <2>2, <2>6 DEF Excess
<1>3. Shape /\ WindowInv /\ HitsHaveCause /\ [Next]_vars => [Cause]_vars
  BY <1>2
<1> HIDE DEF Cause
<1>4. Init /\ [][Next]_vars => [][Cause]_vars
  BY <1>1, <1>3, ShapeInitial, ShapeStep, WindowInitial, WindowStep, HitStep, PTL
<1> QED BY <1>4 DEF Spec, StrikeForCause, Cause

-----------------------------------------------------------------------------
(* L2Cache: how long Redis can hold the entry of a row that has changed.   *)

\* No time counts while somebody can still set the entry of the old row, and
\* the time that has passed since and the time that such an entry has left
\* fit into the TTL.
StaleInv ==
    /\ OldIsRead => since = 0
    /\ entry # NoEntry /\ entry.val = "old" => entry.left + since <= TTL

CallType == [pc : CallSteps, kind : Kinds, val : Rows]

LEMMA IdleIsACall == Idle \in CallType
  BY DEF Idle, CallType, CallSteps, Kinds, Rows

LEMMA GoToKeepsType ==
    ASSUME L2TypeOK, NEW c \in Calls, NEW step \in CallSteps, GoTo(c, step)
    PROVE  call' \in [Calls -> CallType]
  BY DEF L2TypeOK, GoTo, CallType

LEMMA ReturnKeepsType ==
    ASSUME L2TypeOK, NEW c \in Calls, Return(c)
    PROVE  call' \in [Calls -> CallType]
<1>1. [call[c] EXCEPT !.pc = "check", !.kind = "publish"] \in CallType
  BY DEF L2TypeOK, CallType, CallSteps, Kinds
<1> QED
  BY <1>1, IdleIsACall DEF L2TypeOK, Return, CallType

LEMMA BeginKeepsType ==
    ASSUME L2TypeOK, NEW c \in Calls, NEW kind \in Kinds, NEW val \in Rows,
           Begin(c, kind, val)
    PROVE  call' \in [Calls -> CallType]
  BY DEF L2TypeOK, Begin, CallType, CallSteps

LEMMA EffectKeepsType ==
    ASSUME L2TypeOK, NEW c \in Calls, Effect(c)
    PROVE  entry' \in Entries \cup {NoEntry}
<1>1. CASE call[c].kind = "set"
  <2>1. call[c].val \in Rows /\ TTL \in 1..TTL
    BY L2Assumption DEF L2TypeOK
  <2>2. entry' = [val |-> call[c].val, left |-> TTL]
    BY <1>1 DEF Effect
  <2> QED BY <2>1, <2>2 DEF Entries
<1>2. CASE call[c].kind = "del"
  BY <1>2 DEF Effect
<1>3. CASE call[c].kind \notin {"set", "del"}
  BY <1>3 DEF Effect, L2TypeOK
<1> QED BY <1>1, <1>2, <1>3

LEMMA L2TypeInductive ==
    ASSUME L2TypeOK, [L2Next]_l2Vars
    PROVE  L2TypeOK'
<1> USE L2Assumption
<1>1. CASE UNCHANGED l2Vars
  BY <1>1 DEF L2TypeOK, l2Vars
<1>2. ASSUME NEW c \in Calls,
             \/ Traffic(c) \/ Get(c) \/ SetRead(c) \/ SetChanged(c) \/ Invalidate(c)
             \/ Subscribe(c)
      PROVE  L2TypeOK'
  <2>1. \E kind \in Kinds, val \in Rows : Begin(c, kind, val)
    BY <1>2 DEF Traffic, Get, SetRead, SetChanged, Invalidate,
       Subscribe, Kinds, Rows, L2TypeOK
  <2>2. call' \in [Calls -> CallType]
    BY <2>1, BeginKeepsType
  <2>3. row' \in Rows /\ UNCHANGED <<breaker, up, entry, since>>
    BY <1>2 DEF Traffic, Get, SetRead, SetChanged, Invalidate,
       Subscribe, Rows, L2TypeOK
  <2> QED
    BY <2>2, <2>3 DEF L2TypeOK, CallType, breaker
<1>3. ASSUME NEW c \in Calls, (\E step \in CallSteps : GoTo(c, step)) \/ Return(c),
             UNCHANGED <<up, row, since>>, entry' \in Entries \cup {NoEntry},
             enabled' \in BOOLEAN, failures' \in 0..Threshold + 1, age' \in 0..Cooldown + 1
      PROVE  L2TypeOK'
  BY <1>3, GoToKeepsType, ReturnKeepsType DEF L2TypeOK, CallType
<1>4. ASSUME NEW c \in Calls, CheckEnabled(c) \/ CheckCooldown(c) PROVE L2TypeOK'
  BY <1>4, <1>3 DEF CheckEnabled, CheckCooldown, breaker, L2TypeOK, CallSteps
<1>5. ASSUME NEW c \in Calls, ResetFailures(c) \/ RecordSuccess(c) PROVE L2TypeOK'
  BY <1>5, <1>3 DEF ResetFailures, RecordSuccess, L2TypeOK, CallSteps
<1>6. ASSUME NEW c \in Calls, Enable(c) \/ Trip(c) PROVE L2TypeOK'
  BY <1>6, <1>3 DEF Enable, Trip, L2TypeOK, CallSteps
<1>7. ASSUME NEW c \in Calls, Found(c) \/ Missed(c) PROVE L2TypeOK'
  BY <1>7, <1>3 DEF Found, Missed, breaker, L2TypeOK, CallSteps
<1>8. ASSUME NEW c \in Calls, Done(c) \/ NoAnswer(c) PROVE L2TypeOK'
  <2>1. entry' \in Entries \cup {NoEntry}
    BY <1>8, EffectKeepsType DEF Done, NoAnswer, L2TypeOK
  <2> QED
    BY <1>8, <1>3, <2>1 DEF Done, NoAnswer, L2TypeOK, breaker, CallSteps
<1>9. ASSUME NEW c \in Calls, AddFailure(c) PROVE L2TypeOK'
  <2>1. failures' \in 0..Threshold + 1
    BY <1>9 DEF AddFailure, L2TypeOK
  <2> QED
    BY <1>9, <1>3, <2>1 DEF AddFailure, L2TypeOK, CallSteps
<1>10. ASSUME NEW c \in Calls, Stamp(c) PROVE L2TypeOK'
  BY <1>10, <1>3 DEF Stamp, L2TypeOK, CallSteps
<1>11. CASE Outage
  BY <1>11 DEF Outage, L2TypeOK, breaker
<1>12. CASE Elsewhere
  BY <1>12 DEF Elsewhere, L2TypeOK, breaker, Entries, Rows
<1>13. CASE L2Tick
  <2>1. age' \in 0..Cooldown + 1 /\ since' \in 0..TTL
    BY <1>13 DEF L2Tick, L2TypeOK, UpTo
  <2>2. entry' \in Entries \cup {NoEntry}
    BY <1>13 DEF L2Tick, L2TypeOK, Entries
  <2> QED
    BY <1>13, <2>1, <2>2 DEF L2Tick, L2TypeOK
<1> QED
  BY <1>1, <1>2, <1>4, <1>5, <1>6, <1>7, <1>8, <1>9, <1>10, <1>11, <1>12, <1>13
  DEF L2Next, Advance

LEMMA L2Initial ==
    ASSUME L2Init
    PROVE  L2TypeOK /\ StaleInv
  BY L2Assumption, IdleIsACall DEF L2Init, L2TypeOK, StaleInv, Rows, CallType

\* The variables of the breaker and of its calls hold values of their types
\* (L2TypeOK), for any number of calls.
THEOREM L2TypeCorrect == L2Spec => []L2TypeOK
  BY L2Initial, L2TypeInductive, PTL DEF L2Spec

-----------------------------------------------------------------------------
\* A step that begins no reader of the old row leaves none behind that was
\* not there before.
LEMMA NoNewReader ==
    ASSUME L2TypeOK, row' = row \/ row' = "new",
           \A c \in Calls : \/ call'[c].kind = call[c].kind /\ call'[c].val = call[c].val
                            \/ call'[c].kind # "set"
                            \/ call'[c].val = row
                            \/ call'[c].val = "new"
    PROVE  OldIsRead' => OldIsRead
  BY DEF OldIsRead, L2TypeOK, Rows

LEMMA StaleInductive ==
    ASSUME L2TypeOK, StaleInv, [L2Next]_l2Vars
    PROVE  StaleInv'
<1> USE L2Assumption
<1>1. CASE UNCHANGED l2Vars
  BY <1>1 DEF StaleInv, OldIsRead, l2Vars
\* Steps that leave the entry alone.
<1>2. ASSUME UNCHANGED <<entry, since>>, OldIsRead' => OldIsRead PROVE StaleInv'
  BY <1>2 DEF StaleInv
<1>3. ASSUME NEW c \in Calls,
             \/ Traffic(c) \/ Get(c) \/ SetRead(c) \/ SetChanged(c) \/ Invalidate(c)
             \/ Subscribe(c)
      PROVE  StaleInv'
  <2>1. OldIsRead' => OldIsRead
    BY <1>3, NoNewReader
    DEF Traffic, Get, SetRead, SetChanged, Invalidate, Subscribe,
        Begin, L2TypeOK
  <2> QED
    BY <1>3, <1>2, <2>1
    DEF Traffic, Get, SetRead, SetChanged, Invalidate, Subscribe
<1>4. ASSUME NEW c \in Calls, (\E step \in CallSteps : GoTo(c, step)) \/ Return(c), row' = row
      PROVE  OldIsRead' => OldIsRead
  <2>1. CASE \E step \in CallSteps : GoTo(c, step)
    BY <1>4, <2>1, NoNewReader DEF GoTo, L2TypeOK
  <2>2. CASE Return(c)
    BY <1>4, <2>2, NoNewReader DEF Return, Idle, L2TypeOK
  <2> QED BY <1>4, <2>1, <2>2
<1>5. ASSUME NEW c \in Calls,
             \/ CheckEnabled(c) \/ CheckCooldown(c) \/ ResetFailures(c) \/ Enable(c)
             \/ Found(c) \/ Missed(c) \/ RecordSuccess(c) \/ AddFailure(c) \/ Trip(c)
             \/ Stamp(c)
      PROVE  StaleInv'
  BY <1>5, <1>4, <1>2 DEF CheckEnabled, CheckCooldown, ResetFailures, Enable, Found,
     Missed, RecordSuccess, AddFailure, Trip, Stamp, CallSteps
\* A Set of the old row is itself a reader of it: the TTL starts at zero.
<1>6. ASSUME NEW c \in Calls, Effect(c) \/ UNCHANGED entry, UNCHANGED since
      PROVE  entry' # NoEntry /\ entry'.val = "old" => entry'.left + since' <= TTL
  <2>1. CASE UNCHANGED entry
    BY <1>6, <2>1 DEF StaleInv
  <2>2. CASE Effect(c) /\ call[c].kind = "set"
    <3>1. entry' = [val |-> call[c].val, left |-> TTL]
      BY <2>2 DEF Effect
    <3>2. ASSUME call[c].val = "old" PROVE since = 0
      BY <2>2, <3>2 DEF OldIsRead, StaleInv
    <3> QED
      BY <1>6, <3>1, <3>2
  <2>3. CASE Effect(c) /\ call[c].kind = "del"
    BY <2>3 DEF Effect
  <2>4. CASE Effect(c) /\ call[c].kind \notin {"set", "del"}
    BY <1>6, <2>4 DEF Effect, StaleInv
  <2> QED BY <1>6, <2>1, <2>2, <2>3, <2>4
<1>7. ASSUME NEW c \in Calls, Done(c) \/ NoAnswer(c) PROVE StaleInv'
  <2>1. OldIsRead' => OldIsRead
    BY <1>7, <1>4 DEF Done, NoAnswer, CallSteps
  <2> QED
    BY <1>7, <1>6, <2>1 DEF Done, NoAnswer, StaleInv
<1>8. CASE Outage
  BY <1>8, <1>2 DEF Outage, OldIsRead
<1>9. CASE Elsewhere
  <2>1. OldIsRead' => OldIsRead
    BY <1>9, NoNewReader DEF Elsewhere
  <2>2. entry' # NoEntry /\ entry'.val = "old" => entry'.left + since' <= TTL
    BY <1>9 DEF Elsewhere, StaleInv, OldIsRead
  <2> QED
    BY <1>9, <2>1, <2>2 DEF Elsewhere, StaleInv
<1>10. CASE L2Tick
  <2>1. OldIsRead' <=> OldIsRead
    BY <1>10 DEF L2Tick, OldIsRead
  <2>2. ASSUME entry' # NoEntry, entry'.val = "old" PROVE entry'.left + since' <= TTL
    <3>1. /\ entry # NoEntry /\ entry.val = "old" /\ entry.left \in 1..TTL
          /\ entry'.left = entry.left - 1
      BY <1>10, <2>2 DEF L2Tick, L2TypeOK, Entries
    <3>2. entry.left + since <= TTL /\ since \in 0..TTL
      BY <3>1 DEF StaleInv, L2TypeOK
    <3> QED
      BY <1>10, <3>1, <3>2 DEF L2Tick, UpTo
  <2> QED
    BY <1>10, <2>1, <2>2 DEF L2Tick, StaleInv
<1> QED
  BY <1>1, <1>3, <1>5, <1>7, <1>8, <1>9, <1>10 DEF L2Next, Advance

\* The entry of a row that has changed is gone from Redis once the TTL has
\* passed since the last reader of the old row was done (StaleWithinTTL),
\* whatever the breaker drops and however many calls there are.
THEOREM StaleEntriesEnd == L2Spec => []StaleWithinTTL
<1>1. L2TypeOK /\ StaleInv => StaleWithinTTL
  BY L2Assumption DEF L2TypeOK, StaleInv, StaleWithinTTL, Entries, Rows
<1> QED
  BY <1>1, L2Initial, L2TypeInductive, StaleInductive, PTL DEF L2Spec
=============================================================================
