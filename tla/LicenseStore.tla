---------------------------- MODULE LicenseStore ----------------------------
(***************************************************************************)
(* The two-level license cache (internal/infrastructure/cache).            *)
(*                                                                         *)
(* Every instance of the service has an in-process LRU (L1) with two       *)
(* entries per license: one under the tenant-scoped key and one, "gk:"+key,*)
(* under the key alone, which is all the public data plane reads.  All     *)
(* instances share Redis (L2), which holds the tenant-scoped entry only    *)
(* and carries the invalidation messages.                                  *)
(*                                                                         *)
(* The operators below are the methods of LicenseStore, as constraints on  *)
(* the cache variables; the callers in LicenseService use them in their    *)
(* steps.  An entry may disappear from L1 or L2 at any time: the TTL runs  *)
(* out or the LRU evicts it.                                               *)
(***************************************************************************)
EXTENDS License

CONSTANTS
    Instances,   \* running processes of the service
    NoEntry,     \* no cache entry
    NegEntry     \* CacheEntry{Negative: true}

ASSUME EntryAssumption ==
    /\ NoEntry # NegEntry
    /\ {NoEntry, NegEntry} \cap LicenseType = {}

VARIABLES
    l1,      \* l1[i][k]: entry under cacheKey(tenant, k) in the LRU of i
    gk,      \* gk[i][k]: entry under "gk:"+k in the LRU of i
    l2,      \* l2[k]: entry in Redis
    inbox    \* pairs <<i, k>>: k published on cache:invalidate, i not told yet

storeVars == <<l1, gk, l2, inbox>>

EntryType == LicenseType \cup {NoEntry, NegEntry}

StoreTypeOK ==
    /\ l1 \in [Instances -> [Keys -> EntryType]]
    /\ gk \in [Instances -> [Keys -> EntryType]]
    /\ l2 \in [Keys -> LicenseType \cup {NoEntry}]
    /\ inbox \in SUBSET (Instances \X Keys)

IsHit(entry) == entry \notin {NoEntry, NegEntry}

-----------------------------------------------------------------------------
\* What Get answers: the L1 entry, else the L2 entry, else not found.
StoreLookup(i, k) ==
    IF l1[i][k] # NoEntry THEN l1[i][k]
    ELSE IF l2[k] # NoEntry THEN l2[k]
    ELSE NegEntry

\* Get leaves in L1 what it answered: a hit stays, an L2 hit is backfilled,
\* a full miss is cached negatively (the LRU is far below 90% of its size).
StoreGet(i, k) ==
    /\ l1' = [l1 EXCEPT ![i][k] = StoreLookup(i, k)]
    /\ UNCHANGED <<gk, l2, inbox>>

\* GetByGlobalKey consults the L1 index only and caches a miss negatively.
GlobalLookup(i, k) == IF gk[i][k] = NoEntry THEN NegEntry ELSE gk[i][k]

StoreGetByGlobalKey(i, k) ==
    /\ gk' = [gk EXCEPT ![i][k] = GlobalLookup(i, k)]
    /\ UNCHANGED <<l1, l2, inbox>>

\* Slip: the key-only index is not refreshed.
StoreSet_NoIndex(i, k, lic) ==
    /\ l1' = [l1 EXCEPT ![i][k] = lic]
    /\ l2' = [l2 EXCEPT ![k] = lic]
    /\ UNCHANGED <<gk, inbox>>

\* Slip: the write does not go through to L2.
StoreSet_NoL2(i, k, lic) ==
    /\ l1' = [l1 EXCEPT ![i][k] = lic]
    /\ gk' = [gk EXCEPT ![i][k] = lic]
    /\ UNCHANGED <<l2, inbox>>

\* Set writes the local L1 twice and L2 once; it publishes nothing.
StoreSet(i, k, lic) ==
    /\ l1' = [l1 EXCEPT ![i][k] = lic]
    /\ gk' = [gk EXCEPT ![i][k] = lic]
    /\ l2' = [l2 EXCEPT ![k] = lic]
    /\ UNCHANGED inbox

\* Invalidate removes both local entries and the L2 entry and publishes the
\* tenant-scoped key; every subscriber hears it, the publisher too.
StoreInvalidate(i, k) ==
    /\ l1' = [l1 EXCEPT ![i][k] = NoEntry]
    /\ gk' = [gk EXCEPT ![i][k] = NoEntry]
    /\ l2' = [l2 EXCEPT ![k] = NoEntry]
    /\ inbox' = inbox \cup (Instances \X {k})

\* The handler registered by SubscribeInvalidation.  The payload is the
\* tenant-scoped key, so the "gk:" entry of the receiver stays.
DeliverInvalidation(i, k) ==
    /\ <<i, k>> \in inbox
    /\ inbox' = inbox \ {<<i, k>>}
    /\ l1' = [l1 EXCEPT ![i][k] = NoEntry]
    /\ UNCHANGED <<gk, l2>>

\* TTL expiry or LRU eviction of one entry.
L1Evict(i, k) ==
    /\ \/ /\ l1[i][k] # NoEntry
          /\ l1' = [l1 EXCEPT ![i][k] = NoEntry]
          /\ UNCHANGED gk
       \/ /\ gk[i][k] # NoEntry
          /\ gk' = [gk EXCEPT ![i][k] = NoEntry]
          /\ UNCHANGED l1
    /\ UNCHANGED <<l2, inbox>>

L2Expire(k) ==
    /\ l2[k] # NoEntry
    /\ l2' = [l2 EXCEPT ![k] = NoEntry]
    /\ UNCHANGED <<l1, gk, inbox>>

\* A process restarts with an empty L1 and no pending message, and WarmUp
\* caches the licenses that the database says are active; an L2 entry of a
\* license that is not active any more is left alone.
StoreRestart(i, warm) ==
    LET refill == [k \in Keys |-> IF k \in DOMAIN warm THEN warm[k] ELSE NoEntry]
    IN  /\ l1' = [l1 EXCEPT ![i] = refill]
        /\ gk' = [gk EXCEPT ![i] = refill]
        /\ l2' = [k \in Keys |-> IF k \in DOMAIN warm THEN warm[k] ELSE l2[k]]
        /\ inbox' = {m \in inbox : m[1] # i}
=============================================================================
