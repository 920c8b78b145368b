--------------------------- MODULE LicenseService ---------------------------
(***************************************************************************)
(* The license operations of the service, composed over the cache          *)
(* (LicenseStore) and the database (LicenseDB): the data-plane requests    *)
(* activate, deactivate, usage and validate and the control-plane requests *)
(* create, update and revoke, running concurrently on several instances,   *)
(* any of which may crash and restart.                                     *)
(*                                                                         *)
(* A request is a process.  Its steps are the calls that touch shared      *)
(* state: one cache call, one SQL statement, one lock operation.  pc says  *)
(* which call comes next:                                                  *)
(*                                                                         *)
(*   activate    resolve [find fill] lock tx count (insert) invalidate     *)
(*               reply                                                     *)
(*   deactivate  resolve [find fill] lock release invalidate               *)
(*   usage       resolve [find fill] lock, where the total is updated      *)
(*   revoke      reread cacheSet                                           *)
(*   create, update   cacheSet                                             *)
(***************************************************************************)
EXTENDS LicenseStore, LicenseDB

CONSTANTS
    IdemKeys,         \* values of the Idempotency-Key header
    NoIdem,           \* the header is absent
    Shards,           \* mutexes of an ActivationLock
    Shard,            \* the hash of ActivationLock.shard, from license IDs
    Workload,         \* possible assignments of parameters to requests
    InitDB,           \* possible contents of the licenses table at the start
    SchemaComplete,   \* whether licenses has the columns revoked_at,
                      \* revoked_reason, usage_used and usage_limit, which
                      \* the code uses and no migration creates
    TenantAuthWired,  \* whether the route runs the TenantAuth middleware
    FaultySteps,      \* the steps whose statement may fail or time out
    AllowEviction,    \* whether cache entries may expire or be evicted
    MaxInFlight,      \* bound: requests being processed at a time
    MaxCrashes,       \* bound: crashes of instances
    MaxNow            \* bound: the clock

Ops == {"activate", "deactivate", "usage", "validate", "create", "update", "revoke"}

ArgsType == [op     : Ops,
             inst   : Instances,
             key    : Keys,
             client : Clients,
             idem   : IdemKeys \cup {NoIdem},
             terms  : TermsType]        \* the body of create and update

ASSUME ServiceAssumption ==
    /\ NoIdem \notin IdemKeys
    /\ Shard \in [Keys \cup {NoID} -> Shards]
    /\ Workload \subseteq [Requests -> ArgsType]
    /\ InitDB \subseteq [Keys -> TermsType \cup {NoRow}]
    /\ {SchemaComplete, TenantAuthWired} \subseteq BOOLEAN
    /\ FaultySteps \subseteq {"find", "lock", "tx", "count", "insert", "release",
                             "reread", "write"}
    /\ AllowEviction \in BOOLEAN
    /\ {MaxInFlight, MaxCrashes, MaxNow} \subseteq Nat

VARIABLES
    args,     \* args[r]: the parameters of request r, fixed from the start
    pc,       \* pc[r]: the next call of r
    view,     \* view[r]: the *domain.License that r holds
    txn,      \* txn[r]: seats_total as read by SELECT ... FOR UPDATE
    resp,     \* resp[r]: the answer of r
    mutex,    \* mutex[i][s]: the request holding shard s of the lock of i
    idem,     \* idem[i][x]: the response in the IdempotencyCache of i
    now,      \* the clock
    crashes   \* crashes so far

reqVars == <<args, pc, view, txn, resp>>
vars == <<storeVars, dbVars, reqVars, mutex, idem, now, crashes>>

Steps == {"idle", "resolve", "find", "fill", "lock", "tx", "count", "insert",
          "release", "invalidate", "reply", "reread", "cacheSet", "done", "dead"}

Kinds == {"none", "ok", "valid", "license_not_found", "license_revoked",
          "license_expired", "seats_limit_exceeded", "bad_request",
          "internal_error"}

RespType == [kind : Kinds, id : Requests \cup {NoRequest}]
NoResp == [kind |-> "none", id |-> NoRequest]

ReqTypeOK ==
    /\ args \in [Requests -> ArgsType]
    /\ pc \in [Requests -> Steps]
    /\ view \in [Requests -> LicenseType \cup {NoEntry}]
    /\ txn \in [Requests -> Int]
    /\ resp \in [Requests -> RespType]

LocalTypeOK ==
    /\ mutex \in [Instances -> [Shards -> Requests \cup {NoRequest}]]
    /\ idem \in [Instances -> [IdemKeys -> RespType]]
    /\ now \in Nat
    /\ crashes \in Nat

\* Types of the variables: every request, lock and cache slot holds a value
\* the code could hold there; L2 has no negative entries.
TypeOK == StoreTypeOK /\ DBTypeOK /\ ReqTypeOK /\ LocalTypeOK

-----------------------------------------------------------------------------
InFlight == {r \in Requests : pc[r] \notin {"idle", "done", "dead"}}
\* Nothing is going on: no request is processed, no invalidation is under way.
Quiet == InFlight = {} /\ inbox = {}

CanStart(r, op) ==
    /\ pc[r] = "idle"
    /\ args[r].op = op
    /\ Cardinality(InFlight) < MaxInFlight

Goto(r, step) == pc' = [pc EXCEPT ![r] = step]

\* The handler returns: the answer is sent and the request's locals are gone.
Answer(r, kind, id) ==
    /\ Goto(r, "done")
    /\ resp' = [resp EXCEPT ![r] = [kind |-> kind, id |-> id]]
    /\ view' = [view EXCEPT ![r] = NoEntry]
    /\ txn' = [txn EXCEPT ![r] = 0]
    /\ UNCHANGED args

\* The request continues holding license lic.
Hold(r, lic, step) ==
    /\ Goto(r, step)
    /\ view' = [view EXCEPT ![r] = lic]
    /\ UNCHANGED <<args, txn, resp>>

Continue(r, step) ==
    /\ Goto(r, step)
    /\ UNCHANGED <<args, view, txn, resp>>

\* locker.Lock and locker.Unlock: the shard of the ID of the license that
\* the request holds.
LockSlot(r) == Shard[view[r].id]
MutexFree(r) == mutex[args[r].inst][LockSlot(r)] = NoRequest
Lock(r) == mutex' = [mutex EXCEPT ![args[r].inst][LockSlot(r)] = r]

\* Slip: no deferred unlock.
Unlock_Forgotten(r) == UNCHANGED mutex

Unlock(r) == mutex' = [mutex EXCEPT ![args[r].inst][LockSlot(r)] = NoRequest]

\* activate and deactivate take the tenant from the request context, which
\* is empty unless TenantAuth ran; no row and no cache entry belongs to the
\* empty tenant.  usage takes it from the cached license.
TenantKnown(r) == TenantAuthWired \/ args[r].op = "usage"

-----------------------------------------------------------------------------
(* Data plane: the HTTP entry points.                                      *)

\* handlers.Activate finds the Idempotency-Key in its cache and replays.
Replay(r) ==
    /\ CanStart(r, "activate")
    /\ args[r].idem # NoIdem
    /\ idem[args[r].inst][args[r].idem] # NoResp
    /\ Answer(r, "ok", idem[args[r].inst][args[r].idem].id)
    /\ UNCHANGED <<storeVars, dbVars, mutex, idem, now, crashes>>

BeginActivate(r) ==
    /\ CanStart(r, "activate")
    /\ args[r].idem # NoIdem => idem[args[r].inst][args[r].idem] = NoResp
    /\ Continue(r, "resolve")
    /\ UNCHANGED <<storeVars, dbVars, mutex, idem, now, crashes>>

BeginDeactivate(r) ==
    /\ CanStart(r, "deactivate")
    /\ Continue(r, "resolve")
    /\ UNCHANGED <<storeVars, dbVars, mutex, idem, now, crashes>>

\* Usage starts with the key-only index and gives up when it misses.
BeginUsage(r) ==
    /\ CanStart(r, "usage")
    /\ StoreGetByGlobalKey(args[r].inst, args[r].key)
    /\ IF IsHit(GlobalLookup(args[r].inst, args[r].key))
       THEN Continue(r, "resolve")
       ELSE Answer(r, "license_not_found", NoRequest)
    /\ UNCHANGED <<dbVars, mutex, idem, now, crashes>>

\* What a validation answers about a cache entry.
Verdict(entry) ==
    IF ~IsHit(entry) THEN "license_not_found"
    ELSE IF IsRevoked(entry) THEN "license_revoked"
    ELSE IF IsExpired(entry, now) THEN "license_expired"
    ELSE "valid"

\* The public Validate handler: one look at the key-only index.
Validate(r) ==
    /\ CanStart(r, "validate")
    /\ StoreGetByGlobalKey(args[r].inst, args[r].key)
    /\ Answer(r, Verdict(GlobalLookup(args[r].inst, args[r].key)), NoRequest)
    /\ UNCHANGED <<dbVars, mutex, idem, now, crashes>>

-----------------------------------------------------------------------------
(* resolveLicense: the cache, else the database and a cache fill.          *)

\* Slip: a miss in the cache is final.
ResolveFromCache_MissIsFinal(r) ==
    LET entry == StoreLookup(args[r].inst, args[r].key)
    IN  /\ pc[r] = "resolve"
        /\ StoreGet(args[r].inst, args[r].key)
        /\ IF IsHit(entry) THEN Hold(r, entry, "lock")
                           ELSE Answer(r, "license_not_found", NoRequest)
        /\ UNCHANGED <<dbVars, mutex, idem, now, crashes>>

ResolveFromCache(r) ==
    LET i == args[r].inst
        k == args[r].key
        entry == IF TenantKnown(r) THEN StoreLookup(i, k) ELSE NegEntry
    IN  /\ pc[r] = "resolve"
        /\ IF TenantKnown(r) THEN StoreGet(i, k) ELSE UNCHANGED storeVars
        /\ IF IsHit(entry) THEN Hold(r, entry, "lock") ELSE Continue(r, "find")
        /\ UNCHANGED <<dbVars, mutex, idem, now, crashes>>

FindByKey(r) ==
    /\ pc[r] = "find"
    /\ IF TenantKnown(r) /\ RowExists(args[r].key)
       THEN Hold(r, RowLicense(args[r].key), "fill")
       ELSE Answer(r, "license_not_found", NoRequest)
    /\ UNCHANGED <<storeVars, dbVars, mutex, idem, now, crashes>>

FillCache(r) ==
    /\ pc[r] = "fill"
    /\ StoreSet(args[r].inst, args[r].key, view[r])
    /\ Continue(r, "lock")
    /\ UNCHANGED <<dbVars, mutex, idem, now, crashes>>

\* The checks of Activate and RecordUsage on the license that was resolved;
\* Deactivate has none.
Refusal(r) ==
    IF args[r].op = "deactivate" THEN "none"
    ELSE IF IsRevoked(view[r]) THEN "license_revoked"
    ELSE IF IsExpired(view[r], now) THEN "license_expired"
    ELSE IF args[r].op = "activate" /\ SeatsExhausted(view[r])
         THEN "seats_limit_exceeded"
    ELSE "none"

Refuse(r) ==
    /\ pc[r] = "lock"
    /\ Refusal(r) # "none"
    /\ Answer(r, Refusal(r), NoRequest)
    /\ UNCHANGED <<storeVars, dbVars, mutex, idem, now, crashes>>

AcquireMutex(r) ==
    /\ pc[r] = "lock"
    /\ args[r].op \in {"activate", "deactivate"}
    /\ Refusal(r) = "none"
    /\ MutexFree(r)
    /\ Lock(r)
    /\ Continue(r, IF args[r].op = "activate" THEN "tx" ELSE "release")
    /\ UNCHANGED <<storeVars, dbVars, idem, now, crashes>>

-----------------------------------------------------------------------------
(* ActivateWithLock: one transaction on the license row.                   *)

\* The error of the status and expiry checks on the locked row.
RowRefusal(k) ==
    IF ~RowExists(k) THEN "license_not_found"
    ELSE IF db[k].status # "active" THEN "license_revoked"
    ELSE IF IsExpired(RowLicense(k), now) THEN "license_expired"
    ELSE "none"

\* SELECT ... FOR UPDATE waits until no other transaction holds the row.
SelectForUpdate(r) ==
    LET k == args[r].key
    IN  /\ pc[r] = "tx"
        /\ RowFree(k)
        /\ IF RowRefusal(k) = "none"
           THEN /\ LockRow(k, r)
                /\ txn' = [txn EXCEPT ![r] = db[k].seats]
                /\ Goto(r, "count")
                /\ UNCHANGED <<args, view, resp, mutex>>
           ELSE /\ Answer(r, RowRefusal(k), NoRequest)
                /\ Unlock(r)
                /\ UNCHANGED rowLock
        /\ UNCHANGED <<storeVars, db, acts, blankRid, usage, idem, now, crashes>>

\* The usage query: the active count and the client's own active row.  With
\* such a row the transaction commits and its ID is the answer.
CountSeats(r) ==
    LET k == args[r].key
        c == args[r].client
    IN  /\ pc[r] = "count"
        /\ \/ \E a \in ActiveOf(k, c) :
                /\ UnlockRow(k)
                /\ resp' = [resp EXCEPT ![r] = [kind |-> "ok", id |-> a.id]]
                /\ Goto(r, "invalidate")
                /\ UNCHANGED <<args, view, txn, mutex>>
           \/ /\ ActiveOf(k, c) = {}
              /\ SeatLimitReached(txn[r], k)
              /\ UnlockRow(k)
              /\ Unlock(r)
              /\ Answer(r, "seats_limit_exceeded", NoRequest)
           \/ /\ ActiveOf(k, c) = {}
              /\ ~SeatLimitReached(txn[r], k)
              /\ Continue(r, "insert")
              /\ UNCHANGED <<rowLock, mutex>>
        /\ UNCHANGED <<storeVars, db, acts, blankRid, usage, idem, now, crashes>>

\* INSERT and COMMIT.  A unique violation aborts the PostgreSQL transaction,
\* so the query for the existing row fails too and the request errs.
InsertAndCommit(r) ==
    LET k == args[r].key
        c == args[r].client
    IN  /\ pc[r] = "insert"
        /\ UnlockRow(k)
        /\ IF UniqueViolation(k, c)
           THEN /\ Answer(r, "internal_error", NoRequest)
                /\ Unlock(r)
                /\ UNCHANGED acts
           ELSE /\ InsertActivation(r, k, c)
                /\ resp' = [resp EXCEPT ![r] = [kind |-> "ok", id |-> r]]
                /\ Goto(r, "invalidate")
                /\ UNCHANGED <<args, view, txn, mutex>>
        /\ UNCHANGED <<storeVars, db, blankRid, usage, idem, now, crashes>>

\* ReleaseByClient: one UPDATE that does not touch the license row.
ReleaseSeat(r) ==
    LET k == args[r].key
        c == args[r].client
    IN  /\ pc[r] = "release"
        /\ IF RowExists(k) /\ ActiveOf(k, c) # {}
           THEN /\ ReleaseActivation(k, c)
                /\ resp' = [resp EXCEPT ![r] = [kind |-> "ok", id |-> NoRequest]]
                /\ Goto(r, "invalidate")
                /\ UNCHANGED <<args, view, txn, mutex>>
           ELSE /\ Answer(r, "license_not_found", NoRequest)
                /\ Unlock(r)
                /\ UNCHANGED acts
        /\ UNCHANGED <<storeVars, db, blankRid, rowLock, usage, idem, now, crashes>>

\* store.Invalidate, the audit entry, and the deferred unlock.
InvalidateCache(r) ==
    /\ pc[r] = "invalidate"
    /\ StoreInvalidate(args[r].inst, args[r].key)
    /\ Unlock(r)
    /\ IF args[r].op = "activate"
       THEN Continue(r, "reply")
       ELSE Answer(r, "ok", NoRequest)
    /\ UNCHANGED <<dbVars, idem, now, crashes>>

\* The rest of handlers.Activate: the license metadata come from the
\* key-only index, and the response is kept under the Idempotency-Key.
ReplyActivate(r) ==
    LET i == args[r].inst
        x == args[r].idem
    IN  /\ pc[r] = "reply"
        /\ StoreGetByGlobalKey(i, args[r].key)
        /\ IF x # NoIdem THEN idem' = [idem EXCEPT ![i][x] = resp[r]]
                         ELSE UNCHANGED idem
        /\ Answer(r, "ok", resp[r].id)
        /\ UNCHANGED <<dbVars, mutex, now, crashes>>

\* RecordUsage: UPDATE ... WHERE id = license.ID and the usage record, in
\* one transaction.  An empty ID matches no row, which scans as an error.
RecordUsage(r) ==
    LET k == args[r].key
    IN  /\ pc[r] = "lock"
        /\ args[r].op = "usage"
        /\ Refusal(r) = "none"
        /\ IF SchemaComplete /\ view[r].id = k /\ RowExists(k)
           THEN /\ RowFree(k)
                /\ usage' = [usage EXCEPT ![k] = @ + 1]
                /\ Answer(r, "ok", NoRequest)
           ELSE /\ UNCHANGED usage
                /\ Answer(r, "internal_error", NoRequest)
        /\ UNCHANGED <<storeVars, db, acts, blankRid, rowLock, mutex, idem, now, crashes>>

-----------------------------------------------------------------------------
(* Control plane: adminService on top of licenseRepo.                      *)

\* CreateLicense: INSERT, refused by the unique key; the object then cached
\* carries the new ID.
CreateLicense(r) ==
    LET k == args[r].key
        terms == args[r].terms
    IN  /\ CanStart(r, "create")
        /\ IF ValidateHardRules(terms) /\ ~RowExists(k)
           THEN /\ db' = [db EXCEPT ![k] = terms]
                /\ Hold(r, [id |-> k, terms |-> terms], "cacheSet")
           ELSE /\ UNCHANGED db
                /\ Answer(r, "bad_request", NoRequest)
        /\ UNCHANGED <<storeVars, acts, blankRid, rowLock, usage, mutex, idem, now, crashes>>

\* UpdateLicense: UPDATE by tenant and key, whether or not there is such a
\* row; the object then cached is the one built from the request, without ID.
UpdateLicense(r) ==
    LET k == args[r].key
        terms == args[r].terms
    IN  /\ CanStart(r, "update")
        /\ IF ValidateHardRules(terms) /\ ~RevocationIDTaken(k)
           THEN /\ RowFree(k)
                /\ UpdateRow(k, terms)
                /\ Hold(r, [id |-> NoID, terms |-> terms], "cacheSet")
           ELSE /\ UNCHANGED <<db, blankRid>>
                /\ Answer(r, "bad_request", NoRequest)
        /\ UNCHANGED <<storeVars, acts, rowLock, usage, mutex, idem, now, crashes>>

\* RevokeLicense: UPDATE status, then read the row back, then cache it.
RevokeLicense(r) ==
    /\ CanStart(r, "revoke")
    /\ IF SchemaComplete
       THEN /\ RowFree(args[r].key)
            /\ RevokeRow(args[r].key)
            /\ Continue(r, "reread")
       ELSE /\ UNCHANGED db
            /\ Answer(r, "internal_error", NoRequest)
    /\ UNCHANGED <<storeVars, acts, blankRid, rowLock, usage, mutex, idem, now, crashes>>

RereadRevoked(r) ==
    /\ pc[r] = "reread"
    /\ IF RowExists(args[r].key)
       THEN Hold(r, RowLicense(args[r].key), "cacheSet")
       ELSE Answer(r, "internal_error", NoRequest)
    /\ UNCHANGED <<storeVars, dbVars, mutex, idem, now, crashes>>

CacheSet(r) ==
    /\ pc[r] = "cacheSet"
    /\ StoreSet(args[r].inst, args[r].key, view[r])
    /\ Answer(r, "ok", NoRequest)
    /\ UNCHANGED <<dbVars, mutex, idem, now, crashes>>

-----------------------------------------------------------------------------
(* The environment: faults, crashes, cache maintenance and time.           *)

\* A statement fails, or the 8 second write timeout strikes: the transaction
\* rolls back, a deferred unlock runs, the client sees internal_error.  At
\* "lock" the statement is the UPDATE of usage.
StatementFails(r) ==
    LET k == args[r].key
    IN  /\ pc[r] \in FaultySteps
        /\ pc[r] = "lock" => args[r].op = "usage" /\ Refusal(r) = "none"
        /\ Answer(r, "internal_error", NoRequest)
        /\ IF pc[r] \in {"find", "lock", "reread"} THEN UNCHANGED mutex ELSE Unlock(r)
        /\ IF rowLock[k] = r THEN UnlockRow(k) ELSE UNCHANGED rowLock
        /\ UNCHANGED <<storeVars, db, acts, blankRid, usage, idem, now, crashes>>

\* The COMMIT takes effect but its acknowledgement is lost to the timeout:
\* the seat is taken, nothing is invalidated, the client sees internal_error.
CommitUnacknowledged(r) ==
    LET k == args[r].key
        c == args[r].client
    IN  /\ pc[r] = "insert"
        /\ "insert" \in FaultySteps
        /\ ~UniqueViolation(k, c)
        /\ InsertActivation(r, k, c)
        /\ UnlockRow(k)
        /\ Unlock(r)
        /\ Answer(r, "internal_error", NoRequest)
        /\ UNCHANGED <<storeVars, db, blankRid, usage, idem, now, crashes>>

\* The same of the UPDATE of ReleaseByClient.
ReleaseUnacknowledged(r) ==
    LET k == args[r].key
        c == args[r].client
    IN  /\ pc[r] = "release"
        /\ "release" \in FaultySteps
        /\ RowExists(k) /\ ActiveOf(k, c) # {}
        /\ ReleaseActivation(k, c)
        /\ Unlock(r)
        /\ Answer(r, "internal_error", NoRequest)
        /\ UNCHANGED <<storeVars, db, blankRid, rowLock, usage, idem, now, crashes>>

\* The same of the transaction of RecordUsage.
UsageUnacknowledged(r) ==
    LET k == args[r].key
    IN  /\ pc[r] = "lock"
        /\ "lock" \in FaultySteps
        /\ args[r].op = "usage"
        /\ Refusal(r) = "none"
        /\ SchemaComplete /\ view[r].id = k /\ RowExists(k) /\ RowFree(k)
        /\ usage' = [usage EXCEPT ![k] = @ + 1]
        /\ Answer(r, "internal_error", NoRequest)
        /\ UNCHANGED <<storeVars, db, acts, blankRid, rowLock, mutex, idem, now, crashes>>

\* The write of a control-plane operation fails, or takes effect and loses its
\* acknowledgement: either way the operation ends and the caches stay as they
\* are.
WriteFails(r) ==
    LET k == args[r].key
        terms == args[r].terms
    IN  /\ "write" \in FaultySteps
        /\ \/ /\ \E op \in {"create", "update", "revoke"} : CanStart(r, op)
              /\ UNCHANGED <<db, blankRid>>
           \/ /\ CanStart(r, "create")
              /\ ValidateHardRules(terms) /\ ~RowExists(k)
              /\ db' = [db EXCEPT ![k] = terms]
              /\ UNCHANGED blankRid
           \/ /\ CanStart(r, "update")
              /\ ValidateHardRules(terms) /\ ~RevocationIDTaken(k) /\ RowFree(k)
              /\ UpdateRow(k, terms)
           \/ /\ CanStart(r, "revoke")
              /\ SchemaComplete /\ RowFree(k)
              /\ RevokeRow(k)
              /\ UNCHANGED blankRid
        /\ Answer(r, "internal_error", NoRequest)
        /\ UNCHANGED <<storeVars, acts, rowLock, usage, mutex, idem, now, crashes>>

\* The licenses that WarmUp caches.
WarmKeys == {k \in Keys : RowExists(k) /\ db[k].status = "active"}

\* An instance dies with its requests, locks and caches, its transactions
\* roll back, and it comes back warm.
CrashAndRestart(i) ==
    LET lost == {r \in InFlight : args[r].inst = i}
    IN  /\ crashes < MaxCrashes
        /\ crashes' = crashes + 1
        /\ pc' = [r \in Requests |-> IF r \in lost THEN "dead" ELSE pc[r]]
        /\ view' = [r \in Requests |-> IF r \in lost THEN NoEntry ELSE view[r]]
        /\ txn' = [r \in Requests |-> IF r \in lost THEN 0 ELSE txn[r]]
        /\ mutex' = [mutex EXCEPT ![i] = [s \in Shards |-> NoRequest]]
        /\ idem' = [idem EXCEPT ![i] = [x \in IdemKeys |-> NoResp]]
        /\ rowLock' = [k \in Keys |-> IF rowLock[k] \in lost THEN NoRequest
                                                             ELSE rowLock[k]]
        /\ StoreRestart(i, [k \in WarmKeys |-> RowLicense(k)])
        /\ UNCHANGED <<args, resp, db, acts, blankRid, usage, now>>

\* A cached response is evicted or its 24 hours are over.
IdemExpire(i, x) ==
    /\ idem[i][x] # NoResp
    /\ idem' = [idem EXCEPT ![i][x] = NoResp]
    /\ UNCHANGED <<storeVars, dbVars, reqVars, mutex, now, crashes>>

CacheMaintenance ==
    /\ \/ \E i \in Instances, k \in Keys : DeliverInvalidation(i, k)
       \/ AllowEviction /\ \E i \in Instances, k \in Keys : L1Evict(i, k)
       \/ AllowEviction /\ \E k \in Keys : L2Expire(k)
    /\ UNCHANGED <<dbVars, reqVars, mutex, idem, now, crashes>>

Tick ==
    /\ now < MaxNow
    /\ now' = now + 1
    /\ UNCHANGED <<storeVars, dbVars, reqVars, mutex, idem, crashes>>

-----------------------------------------------------------------------------
\* What the instances cached at their start: the active licenses.
WarmImage == [k \in Keys |-> IF k \in WarmKeys THEN RowLicense(k) ELSE NoEntry]

Init ==
    /\ db \in InitDB
    /\ l1 = [i \in Instances |-> WarmImage]
    /\ gk = [i \in Instances |-> WarmImage]
    /\ l2 = WarmImage
    /\ inbox = {}
    /\ acts = {}
    /\ blankRid = {}
    /\ rowLock = [k \in Keys |-> NoRequest]
    /\ usage = [k \in Keys |-> 0]
    /\ args \in Workload
    /\ pc = [r \in Requests |-> "idle"]
    /\ view = [r \in Requests |-> NoEntry]
    /\ txn = [r \in Requests |-> 0]
    /\ resp = [r \in Requests |-> NoResp]
    /\ mutex = [i \in Instances |-> [s \in Shards |-> NoRequest]]
    /\ idem = [i \in Instances |-> [x \in IdemKeys |-> NoResp]]
    /\ now = 0
    /\ crashes = 0

\* The steps a request takes once it has started, and the first ones.
Proceed(r) ==
    \/ ResolveFromCache(r) \/ FindByKey(r) \/ FillCache(r) \/ Refuse(r)
    \/ AcquireMutex(r) \/ SelectForUpdate(r) \/ CountSeats(r)
    \/ InsertAndCommit(r) \/ ReleaseSeat(r) \/ InvalidateCache(r)
    \/ ReplyActivate(r) \/ RecordUsage(r) \/ RereadRevoked(r) \/ CacheSet(r)

Start(r) ==
    \/ Replay(r) \/ BeginActivate(r) \/ BeginDeactivate(r) \/ BeginUsage(r)
    \/ Validate(r) \/ CreateLicense(r) \/ UpdateLicense(r) \/ RevokeLicense(r)

Next ==
    \/ \E r \in Requests : Start(r) \/ Proceed(r)
    \/ \E r \in Requests : StatementFails(r) \/ CommitUnacknowledged(r)
    \/ \E r \in Requests : \/ ReleaseUnacknowledged(r) \/ UsageUnacknowledged(r)
                          \/ WriteFails(r)
    \/ \E i \in Instances : CrashAndRestart(i)
    \/ \E i \in Instances, x \in IdemKeys : IdemExpire(i, x)
    \/ CacheMaintenance
    \/ Tick

Spec == Init /\ [][Next]_vars

-----------------------------------------------------------------------------
(* Properties                                                              *)

\* Seats, the database side.  When an activation transaction is about to
\* insert, no active row of the same license and client exists: the row lock
\* taken by SELECT ... FOR UPDATE already excludes the race that the unique
\* index and its recovery branch in ActivateWithLock are there for.
UniqueIndexNeverFires ==
    \A r \in Requests :
        pc[r] = "insert" => ~UniqueViolation(args[r].key, args[r].client)

InTransaction(r) == pc[r] \in {"count", "insert"}

\* A transaction that has selected its license row holds it, so the row is
\* still active and still has the seats_total that was read.
HoldsItsRow(r) ==
    InTransaction(r) =>
        /\ rowLock[args[r].key] = r
        /\ RowExists(args[r].key)
        /\ db[args[r].key].status = "active"
        /\ txn[r] = db[args[r].key].seats

\* From the count to the insert the client stays unseated and a seat stays
\* free: everybody else can only release.
MaySeat(r) ==
    pc[r] = "insert" =>
        /\ ActiveOf(args[r].key, args[r].client) = {}
        /\ ~SeatLimitReached(txn[r], args[r].key)

\* The steps after the insert.
Settled == {"invalidate", "reply", "done", "dead"}

OneRowPerClient ==
    \A a, b \in acts :
        a.active /\ b.active /\ a.key = b.key /\ a.client = b.client => a = b

\* The argument behind the seat properties: HoldsItsRow and MaySeat of every
\* request; every activation row belongs to a request that has passed its
\* insert; and a client has at most one active row of a license.
SeatInv ==
    /\ \A r \in Requests : HoldsItsRow(r) /\ MaySeat(r)
    /\ \A a \in acts : pc[a.id] \in Settled
    /\ OneRowPerClient
    /\ IsFiniteSet(acts)

NewSeat(k) == ActiveRows(k)' \ ActiveRows(k) # {}

\* A step that seats a client leaves the license within the seats_total of
\* its row at that moment, however many instances activate, release and
\* reconfigure the license concurrently and whatever their caches say.
SeatGrantedWithinLimit ==
    [][\A k \in Keys : NewSeat(k) =>
          \/ db'[k].seats = Unlimited
          \/ Cardinality(ActiveRows(k)') <= db'[k].seats]_vars

\* A seat is only ever granted on a license whose row exists and is active at
\* that moment: a revocation cannot slip in between the status check and the
\* commit of ActivateWithLock.
SeatGrantedOnActiveLicense ==
    [][\A k \in Keys : NewSeat(k) => RowExists(k)' /\ db'[k].status = "active"]_vars

\* The activation_id of a successful activation names a row that was inserted
\* for the very license and client of the request, whether the seat is new,
\* found again, or replayed for an Idempotency-Key.
AnswerNamesOwnRow ==
    \A r \in Requests :
        args[r].op = "activate" /\ resp[r].kind = "ok" =>
            \E a \in acts : /\ a.id = resp[r].id
                            /\ a.key = args[r].key
                            /\ a.client = args[r].client

\* resolveLicense and ActivateWithLock, for a request that knows its tenant,
\* end in license_not_found only when the licenses table has no such license,
\* a negative, an expired or an evicted cache entry notwithstanding.
KnownLicenseIsFound ==
    [][\A r \in Requests :
          /\ TenantKnown(r)
          /\ pc[r] \in {"resolve", "find", "tx"}
          /\ resp'[r] # resp[r]
          /\ resp'[r].kind = "license_not_found"
          => ~RowExists(args[r].key)]_vars

\* activate answers license_not_found only when the licenses table has no such
\* license.
ActivationFindsStored ==
    [][\A r \in Requests :
          /\ args[r].op = "activate"
          /\ resp'[r] # resp[r]
          /\ resp'[r].kind = "license_not_found"
          => ~RowExists(args[r].key)]_vars

Agrees(entry, k) == IsHit(entry) => RowExists(k) /\ entry.terms = db[k]

\* While nothing is going on, what the public data plane reads on an
\* instance about a license is what its row says, or nothing.
PublicIndexCoherent ==
    Quiet => \A i \in Instances, k \in Keys : Agrees(gk[i][k], k)

\* The same of the tenant-scoped entries of both cache levels, until an
\* instance crashes between its database write and its cache write.
StoreCoherent ==
    Quiet /\ crashes = 0 =>
        \A k \in Keys : /\ Agrees(l2[k], k)
                        /\ \A i \in Instances : Agrees(l1[i][k], k)

\* validate answers license_not_found only for a license that the licenses
\* table does not have: an invalidated entry is fetched again.
InvalidatedIsRefetched ==
    [][\A r \in Requests :
          /\ args[r].op = "validate"
          /\ resp'[r] # resp[r]
          /\ resp'[r].kind = "license_not_found"
          => ~RowExists(args[r].key)]_vars

\* validate answers valid only for a license that the licenses table has.
ValidIsStored ==
    [][\A r \in Requests :
          /\ resp'[r] # resp[r]
          /\ resp'[r].kind = "valid"
          => RowExists(args[r].key)]_vars

\* The full license object is what the cache holds, so usage of a known
\* license is recorded or refused for a reason, never an internal error.
UsageNeverErrs ==
    \A r \in Requests : args[r].op = "usage" => resp[r].kind # "internal_error"

\* The control-plane operations on a stored license take effect: a revocation
\* never errs, and an update with consistent terms is not refused.
ControlPlaneSucceeds ==
    \A r \in Requests :
        /\ args[r].op = "revoke" => resp[r].kind # "internal_error"
        /\ args[r].op = "update" /\ ValidateHardRules(args[r].terms)
              => resp[r].kind # "bad_request"

\* A revoked license stays revoked.
RevokedIsTerminal ==
    [][\A k \in Keys : RowExists(k) /\ db[k].status = "revoked"
                        => db'[k].status = "revoked"]_vars

-----------------------------------------------------------------------------
(* The seat ledger that the service implements.                            *)

Ledger == INSTANCE SeatLedger WITH
    Licenses <- Keys,
    seated   <- [k \in Keys |-> {a.client : a \in ActiveRows(k)}],
    limit    <- [k \in Keys |-> IF RowExists(k) THEN db[k].seats ELSE 0],
    open     <- [k \in Keys |-> RowExists(k) /\ db[k].status = "active"]

\* Seen through its tables, the service is a seat ledger: every commit of an
\* activation claims one seat of an open license below its limit, every
\* release gives one seat back, and nothing else moves a client.
ImplementsSeatLedger == Ledger!LedgerSpec

-----------------------------------------------------------------------------
(* Liveness.  The Go scheduler runs every request that can run, and a      *)
(* request blocked on a sync.Mutex (in starvation mode) or on a row lock   *)
(* is served in order of arrival: strong fairness of its next step.        *)

Fairness == \A r \in Requests : SF_vars(Proceed(r))

FairSpec == Spec /\ Fairness

\* Every request that was taken up is answered, or its instance crashed: no
\* lock stays locked and no two requests wait for each other.
EveryRequestAnswered ==
    \A r \in Requests : pc[r] # "idle" ~> pc[r] \in {"done", "dead"}
=============================================================================
