---------------------------- MODULE TenantStore ----------------------------
(***************************************************************************)
(* The tenant cache (internal/infrastructure/cache/tenant_store.go) of     *)
(* every instance, as the guards of the API see it: the entries under      *)
(* cacheKey("by_api_key", k).                                              *)
(*                                                                         *)
(* Left out, because no answer of a guard depends on it:                   *)
(*  - the entries under cacheKey(tenant, k), which only validationService  *)
(*    reads;                                                               *)
(*  - negative entries: a miss is refused like a negative entry, and Set   *)
(*    overwrites both;                                                     *)
(*  - what Set writes to Redis.  It is never read back as a tenant: without*)
(*    a TTL (the default) the payload expires as it is written, and with   *)
(*    one it decodes as an empty license, which l2_redis.go tries first,   *)
(*    and the type assertion of GetByAPIKey refuses it.                    *)
(***************************************************************************)
EXTENDS Naturals

CONSTANTS
    Tenants,
    ApiKeys,     \* hashes of API keys
    NoKey,       \* the empty old_api_key_hash
    Networks,    \* values of ip_allowlist
    Anywhere,    \* no allowlist (NULL)
    Instances,
    NoEntry      \* no cache entry, or a negative one

Statuses == {"active", "suspended", "deleted"}

TenantType ==
    [id : Tenants, key : ApiKeys, old : ApiKeys \cup {NoKey}, oldUntil : Nat,
     status : Statuses, nets : Networks, system : BOOLEAN]

ASSUME TenantAssumption ==
    /\ NoKey \notin ApiKeys
    /\ NoEntry \notin TenantType
    /\ Anywhere \in Networks

VARIABLES
    byKey,    \* byKey[i][k]: the entry of key k in the LRU of i
    notices   \* <<i, k>>: the entry of k published on cache:invalidate, unseen by i

storeVars == <<byKey, notices>>

StoreTypeOK ==
    /\ byKey \in [Instances -> [ApiKeys -> TenantType \cup {NoEntry}]]
    /\ notices \in SUBSET (Instances \X ApiKeys)

StoreInit ==
    /\ byKey = [i \in Instances |-> [k \in ApiKeys |-> NoEntry]]
    /\ notices = {}

\* Tenant.AcceptsKey
AcceptsKey(t, k, now) == t.key = k \/ (t.old = k /\ now < t.oldUntil)

\* Tenant.IsSuspended
IsSuspended(t) == t.status \in {"suspended", "deleted"}

-----------------------------------------------------------------------------
\* GetByAPIKey succeeds.
Found(i, k, now) == byKey[i][k] # NoEntry /\ AcceptsKey(byKey[i][k], k, now)

\* Slip: the entry goes to the current key, whichever key it is set for.
StoreSet_CurrentKey(i, k, t) ==
    /\ byKey' = [byKey EXCEPT ![i][t.key] = t]
    /\ UNCHANGED notices

\* Slip: keys are told apart by too little.
StoreSet_AnyKey(i, k, t) ==
    /\ byKey' = [byKey EXCEPT ![i] = [x \in ApiKeys |-> t]]
    /\ UNCHANGED notices

\* Set tells no other instance.
StoreSet(i, k, t) ==
    /\ byKey' = [byKey EXCEPT ![i][k] = t]
    /\ UNCHANGED notices

\* Slip: the other instances are not told.
StoreInvalidate_Local(i, k) ==
    /\ byKey' = [byKey EXCEPT ![i][k] = NoEntry]
    /\ UNCHANGED notices

\* Invalidate: here at once, and a message to every instance.
StoreInvalidate(i, k) ==
    /\ byKey' = [byKey EXCEPT ![i][k] = NoEntry]
    /\ notices' = notices \cup (Instances \X {k})

\* InvalidateByTenantID removes, here and by message, the entries under the
\* prefix of the tenant; a by_api_key entry is never among them.
StoreInvalidateByTenantID(i, t) == UNCHANGED storeVars

\* The handler of SubscribeInvalidation.
DeliverNotice(n) ==
    /\ n \in notices
    /\ notices' = notices \ {n}
    /\ byKey' = [byKey EXCEPT ![n[1]][n[2]] = NoEntry]

\* The LRU evicts the entry, or its TTL runs out.
StoreEvict(i, k) ==
    /\ byKey[i][k] # NoEntry
    /\ byKey' = [byKey EXCEPT ![i][k] = NoEntry]
    /\ UNCHANGED notices

\* A new process: an empty cache, and the messages to its predecessor are gone.
StoreRestart(i) ==
    /\ byKey' = [byKey EXCEPT ![i] = [k \in ApiKeys |-> NoEntry]]
    /\ notices' = {n \in notices : n[1] # i}
=============================================================================
