---------------------------- MODULE RateLimiter ----------------------------
(***************************************************************************)
(* Token buckets (infrastructure/ratelimit/token_bucket.go) in the maps of  *)
(* http/middleware/public_license_rate_limiter.go and rate_limit.go.  Time  *)
(* passes in ticks, Scale of them a second; a token is Scale units, so that *)
(* a bucket of rate Rps gains Rps units a tick.                             *)
(***************************************************************************)
EXTENDS Naturals, Sequences, FiniteSets

CONSTANTS
    Requests,
    Keys,        \* bucket keys: path, license key or IP; or tenant
    Wanted,      \* Wanted[r]: the keys whose buckets r has to pass, in order
    Managed,     \* keys that Invalidate is called for: tenants
    Rps, Burst,  \* limits of a key
    Scale,
    IdleEvict,   \* 5 minutes, in ticks
    MaxBuckets,  \* maxBuckets; the map of the public limiter has no bound
    MaxNow,      \* bound on the clock
    None

\* A bucket is named after the request that creates it and its key.
Names == Requests \X Keys

ASSUME RateAssumption ==
    /\ Wanted \in [Requests -> Seq(Keys)]
    /\ \A r \in Requests : \A i, j \in 1 .. Len(Wanted[r]) : Wanted[r][i] = Wanted[r][j] => i = j
    /\ Managed \subseteq Keys
    /\ Rps \in [Keys -> Nat] /\ Burst \in [Keys -> Nat]
    /\ Scale \in Nat \ {0} /\ IdleEvict \in Nat
    /\ None \notin Names

\* An idle bucket of k is full before it is evicted: so it is with the limits
\* of the public limiter (5 minutes against 60 tokens at 30 a second, 10 at 5,
\* 400 at 200), and not with every limit that a tenant may be given.
FullWhenIdle(k) == Burst[k] * Scale <= Rps[k] * IdleEvict

VARIABLES
    now,
    heap,     \* heap[b]: a bucket, of which no request knows before it is made
    buckets,  \* the map
    doomed,   \* what cleanupLoop has found idle and is about to delete
    rest,     \* rest[r]: keys that r has still to pass
    held,     \* held[r]: the bucket that getOrCreate returned to r
    pc,
    log,      \* log[k]: when the bucket filed under k let requests pass
    passes    \* passes[k]: when any bucket of k did

vars == <<now, heap, buckets, doomed, rest, held, pc, log, passes>>

\* lastFill and lastSeen are set together; filed is no field of the code and
\* tells whether the bucket is in the map and not about to be deleted.
Bucket == [tokens : Nat, lastFill : Nat, filed : BOOLEAN]

TypeOK ==
    /\ now \in Nat
    /\ heap \in [Names -> Bucket]
    /\ buckets \in [Keys -> Names \cup {None}]
    /\ doomed \in SUBSET Keys
    /\ rest \in [Requests -> Seq(Keys)]
    /\ held \in [Requests -> Names \cup {None}]
    /\ pc \in [Requests -> {"lookup", "create", "allow", "passed", "limited"}]
    /\ log \in [Keys -> Seq(Nat)]
    /\ passes \in [Keys -> Seq(Nat)]
    /\ \A b \in Names : heap[b].tokens <= Burst[b[2]] * Scale /\ heap[b].lastFill <= now

NewBucket(k, filed) == [tokens |-> Burst[k] * Scale, lastFill |-> now, filed |-> filed]

Init ==
    /\ now = 0
    /\ heap = [b \in Names |-> NewBucket(b[2], FALSE)]
    /\ buckets = [k \in Keys |-> None]
    /\ doomed = {}
    /\ rest = Wanted
    /\ held = [r \in Requests |-> None]
    /\ pc = [r \in Requests |-> IF Wanted[r] = <<>> THEN "passed" ELSE "lookup"]
    /\ log = [k \in Keys |-> <<>>]
    /\ passes = [k \in Keys |-> <<>>]

-----------------------------------------------------------------------------
\* cleanupLoop holds the lock of the map from its look at LastSeen to the
\* deletion.
Unlocked == doomed = {}

\* getOrCreate, under the read lock.
Lookup(r) ==
    /\ pc[r] = "lookup"
    /\ Unlocked
    /\ held' = [held EXCEPT ![r] = buckets[Head(rest[r])]]
    /\ pc' = [pc EXCEPT ![r] = IF buckets[Head(rest[r])] = None THEN "create" ELSE "allow"]
    /\ UNCHANGED <<now, heap, buckets, doomed, rest, log, passes>>

Full == Cardinality({k \in Keys : buckets[k] # None}) >= MaxBuckets

\* getOrCreate, under the write lock: another request may have filed a bucket
\* in between; with a full map the new bucket is for this request only.
Create(r) ==
    LET k == Head(rest[r])
    IN  /\ pc[r] = "create"
        /\ Unlocked
        /\ \/ /\ buckets[k] # None
              /\ held' = [held EXCEPT ![r] = buckets[k]]
              /\ UNCHANGED <<heap, buckets>>
           \/ /\ buckets[k] = None
              /\ heap' = [heap EXCEPT ![<<r, k>>] = NewBucket(k, ~Full)]
              /\ buckets' = IF Full THEN buckets ELSE [buckets EXCEPT ![k] = <<r, k>>]
              /\ held' = [held EXCEPT ![r] = <<r, k>>]
        /\ pc' = [pc EXCEPT ![r] = "allow"]
        /\ UNCHANGED <<now, doomed, rest, log, passes>>

\* The tokens of a bucket, brought up to date.
Refilled(b, k) ==
    LET t == b.tokens + Rps[k] * (now - b.lastFill)
    IN  IF t > Burst[k] * Scale THEN Burst[k] * Scale ELSE t

\* Slip: the last token is kept back.
Enough_LastKept(t) == t > Scale

Enough(t) == t >= Scale

\* Allow, then the next bucket or the handler.
Allow(r) ==
    LET b == held[r]
        k == b[2]
        t == Refilled(heap[b], k)
    IN  /\ pc[r] = "allow"
        /\ held' = [held EXCEPT ![r] = None]
        /\ \/ /\ Enough(t)
              /\ heap' = [heap EXCEPT ![b].tokens = t - Scale, ![b].lastFill = now]
              /\ rest' = [rest EXCEPT ![r] = Tail(@)]
              /\ pc' = [pc EXCEPT ![r] = IF Tail(rest[r]) = <<>> THEN "passed" ELSE "lookup"]
              /\ log' = IF heap[b].filed THEN [log EXCEPT ![k] = Append(@, now)] ELSE log
              /\ passes' = [passes EXCEPT ![k] = Append(@, now)]
           \/ /\ ~Enough(t)
              /\ heap' = [heap EXCEPT ![b].tokens = t, ![b].lastFill = now]
              /\ pc' = [pc EXCEPT ![r] = "limited"]
              /\ UNCHANGED <<rest, log, passes>>
        /\ UNCHANGED <<now, buckets, doomed>>

\* The bucket in the map no longer counts as filed.
Unfile(k) ==
    /\ buckets[k] # None
    /\ heap' = [heap EXCEPT ![buckets[k]].filed = FALSE]

\* Slip: buckets are evicted whenever the ticker fires.
Idle_Always(k) == TRUE

Idle(k) == now - heap[buckets[k]].lastFill > IdleEvict

\* cleanupLoop looks at LastSeen of one entry, under the lock of the bucket ...
\* The next bucket of the key will be full; where the old one need not be, its
\* account begins anew.
FindIdle(k) ==
    /\ Unlocked
    /\ Unfile(k)
    /\ Idle(k)
    /\ doomed' = {k}
    /\ log' = IF FullWhenIdle(k) THEN log ELSE [log EXCEPT ![k] = <<>>]
    /\ UNCHANGED <<now, buckets, rest, held, pc, passes>>

\* ... and deletes the entry; a request that holds the bucket may have passed
\* in between, as it may afterwards.
Evict(k) ==
    /\ k \in doomed
    /\ buckets' = [buckets EXCEPT ![k] = None]
    /\ doomed' = doomed \ {k}
    /\ UNCHANGED <<now, heap, rest, held, pc, log, passes>>

\* RateLimiter.Invalidate, after an administrator changed the tenant: the next
\* bucket is a new one, and so is its account.
Invalidate(k) ==
    /\ Unlocked
    /\ Unfile(k)
    /\ buckets' = [buckets EXCEPT ![k] = None]
    /\ log' = [log EXCEPT ![k] = <<>>]
    /\ UNCHANGED <<now, doomed, rest, held, pc, passes>>

Tick ==
    /\ now < MaxNow
    /\ now' = now + 1
    /\ UNCHANGED <<heap, buckets, doomed, rest, held, pc, log, passes>>

Next ==
    \/ \E r \in Requests : Lookup(r) \/ Create(r) \/ Allow(r)
    \/ \E k \in Keys : FindIdle(k) \/ Evict(k)
    \/ \E k \in Managed : Invalidate(k)
    \/ Tick

Spec == Init /\ [][Next]_vars

-----------------------------------------------------------------------------
\* A stretch of n passes that lasts d ticks fits the limits of k.
Fits(k, n, d) == n * Scale <= Burst[k] * Scale + Rps[k] * d

\* However requests meet, and whenever buckets are found idle, deleted and made
\* again, the filed buckets of a key let pass at most its burst and what was
\* refilled meanwhile, in every stretch of time.  A bucket that cleanupLoop has
\* found idle is no longer filed: a request that holds it may pass besides,
\* before the deletion or after it.
WithinRate ==
    \A k \in Keys : \A i, j \in 1 .. Len(log[k]) :
        i <= j => Fits(k, (j - i) + 1, log[k][j] - log[k][i])

\* A request is refused only where its passage would exceed the limit in some
\* stretch that ends now: refill and eviction keep nothing back.
RefusedForCause ==
    [][\A r \in Requests : (pc[r] = "allow" /\ pc'[r] = "limited" /\ heap[held[r]].filed) =>
          LET k == held[r][2]
              n == Len(log[k])
          IN  \/ ~Fits(k, 1, 0)
              \/ \E i \in 1 .. n : ~Fits(k, (n - i) + 2, now - log[k][i])]_vars

\* Requests that hold a filed bucket of the same key hold the same one.
OneBucketPerKey ==
    \A b \in Names : heap[b].filed => buckets[b[2]] = b

-----------------------------------------------------------------------------
(* What the documentation says and the code does not do.                   *)

\* "Per-tenant rate limiting (token bucket)", "Per-license key bucket": the
\* limit holds for a key, whatever bucket its requests are served from.
PerKeyLimit ==
    \A k \in Keys : \A i, j \in 1 .. Len(passes[k]) :
        i <= j => Fits(k, (j - i) + 1, passes[k][j] - passes[k][i])
=============================================================================
