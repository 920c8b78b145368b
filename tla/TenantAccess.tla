---------------------------- MODULE TenantAccess ----------------------------
(***************************************************************************)
(* Tenants and their API keys: the control-plane operations of             *)
(* app/admin_service.go on table tenants and the tenant caches, the event  *)
(* subscriptions and the warm-up of server.go, and the guards that admit a *)
(* request by its key.  An operation runs on one instance, call by call:   *)
(*                                                                         *)
(*   create                         db set                                 *)
(*   suspend                        check db licenses reread drop dropKey  *)
(*   delete                         check db drop                          *)
(*   reinstate rotate settings      db drop                                *)
(*   profile                        db reread set                          *)
(*   refresh (tenant:created,       reread set.., or drop when updated     *)
(*     tenant:updated)              cannot read the row                    *)
(*   warmup (New, after a restart)  reread set..                           *)
(***************************************************************************)
EXTENDS TenantStore

CONSTANTS
    Slots,         \* operations that may be in progress at a time
    Kinds,         \* the operations of the run
    FaultySteps,   \* <<kind, step>>: the call may fail
    Graces,        \* grace periods of a rotation
    NoTenant,
    AllowEviction, \* whether entries disappear by themselves
    AllowLoss,     \* whether messages are lost
    MaxOps,        \* bound on operations
    MaxNow         \* bound on time

\* Operations that write no row, and all.
Rereads == {"refresh", "warmup"}
AllKinds == {"create", "suspend", "delete", "reinstate", "rotate", "settings",
             "profile"} \cup Rereads

ASSUME AccessAssumption ==
    /\ Kinds \subseteq AllKinds
    /\ Graces \subseteq Nat
    /\ FaultySteps \subseteq AllKinds \X {"check", "db", "licenses", "reread"}
    /\ NoTenant \notin Tenants \cup TenantType
    /\ {AllowEviction, AllowLoss} \subseteq BOOLEAN
    /\ MaxOps \in Nat
    /\ MaxNow \in Nat

VARIABLES
    rows,    \* rows[t]: the row of tenant t
    owner,   \* owner[k]: the tenant that key k was generated for
    op,      \* op[s]: the operation in slot s
    ops,     \* operations started
    shut,    \* keys that suspensions have closed
    exact,   \* instances restarted since which no operation that writes rows was under
             \* way, unless an entry was evicted or the warm-up failed
    deaf,    \* instances that missed a message
    now

vars == <<storeVars, rows, owner, op, ops, shut, exact, deaf, now>>
world == <<rows, owner, shut, deaf, now>>

Idle == [kind |-> "none"]

OpType ==
    {Idle} \cup
    [kind : AllKinds, i : Instances, t : Tenants,
     step : {"check", "db", "licenses", "reread", "drop", "dropKey", "set"},
     todo : SUBSET (ApiKeys \X TenantType)]   \* entries to be set or dropped

TypeOK ==
    /\ StoreTypeOK
    /\ rows \in [Tenants -> TenantType \cup {NoTenant}]
    /\ owner \in [ApiKeys -> Tenants \cup {NoTenant}]
    /\ op \in [Slots -> OpType]
    /\ ops \in 0 .. MaxOps
    /\ shut \in SUBSET ApiKeys
    /\ exact \in SUBSET Instances
    /\ deaf \in SUBSET Instances
    /\ now \in 0 .. MaxNow

Init ==
    /\ StoreInit
    /\ rows = [t \in Tenants |-> NoTenant]
    /\ owner = [k \in ApiKeys |-> NoTenant]
    /\ op = [s \in Slots |-> Idle]
    /\ ops = 0
    /\ shut = {}
    /\ exact = Instances
    /\ deaf = {}
    /\ now = 0

Exists(t) == rows[t] # NoTenant
Busy(s) == op[s] # Idle
Writing == \E s \in Slots : Busy(s) /\ op[s].kind \notin Rereads
Warming(i) == \E s \in Slots : Busy(s) /\ op[s].kind = "warmup" /\ op[s].i = i

-----------------------------------------------------------------------------
FirstStep(kind) ==
    CASE kind \in {"suspend", "delete"} -> "check"
      [] kind \in Rereads -> "reread"
      [] OTHER -> "db"

\* A request of the control plane, an event, or a restart of the process.
Start(s, kind, i, t) ==
    /\ ~Busy(s) /\ ~Warming(i)
    /\ ops < MaxOps
    /\ ops' = ops + 1
    /\ kind = "create" => ~Exists(t)
    /\ op' = [op EXCEPT ![s] = [kind |-> kind, i |-> i, t |-> t,
                                step |-> FirstStep(kind), todo |-> {}]]
    /\ IF kind = "warmup"
       THEN /\ \A r \in Slots : Busy(r) => op[r].i # i
            /\ StoreRestart(i)
            /\ deaf' = deaf \ {i}
       ELSE UNCHANGED <<storeVars, deaf>>
    /\ exact' = IF kind \notin Rereads \/ Writing THEN {}
                ELSE IF kind = "warmup" THEN exact \cup {i} ELSE exact
    /\ UNCHANGED <<rows, owner, shut, now>>

At(s, step) == Busy(s) /\ op[s].step = step

GoTo(s, step) == op' = [op EXCEPT ![s].step = step]
End(s) == op' = [op EXCEPT ![s] = Idle]

MayFail(s) == <<op[s].kind, op[s].step>> \in FaultySteps

-----------------------------------------------------------------------------
\* isSystemTenant(FindByID): the request ends at a system tenant, an unknown
\* one and a failing query.
CheckSystem(s) ==
    /\ At(s, "check")
    /\ \/ Exists(op[s].t) /\ ~rows[op[s].t].system /\ GoTo(s, "db")
       \/ ~Exists(op[s].t) /\ End(s)
       \/ Exists(op[s].t) /\ rows[op[s].t].system /\ End(s)
    /\ UNCHANGED <<storeVars, world, ops, exact>>

NewTenant(t, k) ==
    [id |-> t, key |-> k, old |-> NoKey, oldUntil |-> 0, status |-> "active",
     nets |-> Anywhere, system |-> FALSE]

\* An UPDATE of a tenant that does not exist changes nothing and succeeds.
UpdateRow(t, row) == rows' = IF Exists(t) THEN [rows EXCEPT ![t] = row] ELSE rows

\* tenantRepo.Create; the key and the tenant's ID are fresh.
CreateRow(s) ==
    /\ op[s].kind = "create"
    /\ ~Exists(op[s].t)
    /\ \E k \in ApiKeys :
          /\ owner[k] = NoTenant
          /\ owner' = [owner EXCEPT ![k] = op[s].t]
          /\ rows' = [rows EXCEPT ![op[s].t] = NewTenant(op[s].t, k)]
          /\ op' = [op EXCEPT ![s].step = "set",
                                ![s].todo = {<<k, NewTenant(op[s].t, k)>>}]
    /\ UNCHANGED shut

\* tenantRepo.UpdateStatus
UpdateStatus(s) ==
    /\ \/ /\ op[s].kind = "suspend"
          /\ UpdateRow(op[s].t, [rows[op[s].t] EXCEPT !.status = "suspended"])
          /\ GoTo(s, "licenses")
          /\ UNCHANGED shut
       \/ /\ op[s].kind = "delete"
          /\ UpdateRow(op[s].t, [rows[op[s].t] EXCEPT !.status = "deleted"])
          /\ GoTo(s, "drop")
          /\ UNCHANGED shut
       \/ /\ op[s].kind = "reinstate"
          /\ UpdateRow(op[s].t, [rows[op[s].t] EXCEPT !.status = "active"])
          /\ GoTo(s, "drop")
          /\ shut' = {k \in shut : owner[k] # op[s].t}
    /\ UNCHANGED owner

\* tenantRepo.RotateAPIKey
RotateAPIKey(s) ==
    /\ op[s].kind = "rotate"
    /\ \E k \in ApiKeys, g \in Graces :
          /\ owner[k] = NoTenant
          /\ owner' = IF Exists(op[s].t) THEN [owner EXCEPT ![k] = op[s].t] ELSE owner
          /\ UpdateRow(op[s].t, [rows[op[s].t] EXCEPT !.old = rows[op[s].t].key,
                                                      !.oldUntil = now + g, !.key = k])
          /\ shut' = IF Exists(op[s].t) /\ rows[op[s].t].key \in shut
                     THEN shut \cup {k} ELSE shut
    /\ GoTo(s, "drop")

\* tenantRepo.UpdateLimits and UpdateIPAllowlist
UpdateSettings(s) ==
    /\ op[s].kind = "settings"
    /\ \E n \in Networks : UpdateRow(op[s].t, [rows[op[s].t] EXCEPT !.nets = n])
    /\ GoTo(s, "drop")
    /\ UNCHANGED <<owner, shut>>

\* tenantRepo.UpdateProfile replaces the metadata.
UpdateProfile(s) ==
    /\ op[s].kind = "profile"
    /\ \E b \in BOOLEAN : UpdateRow(op[s].t, [rows[op[s].t] EXCEPT !.system = b])
    /\ GoTo(s, "reread")
    /\ UNCHANGED <<owner, shut>>

WriteRow(s) ==
    /\ At(s, "db")
    /\ CreateRow(s) \/ UpdateStatus(s) \/ RotateAPIKey(s) \/ UpdateSettings(s) \/ UpdateProfile(s)
    /\ UNCHANGED <<storeVars, ops, exact, deaf, now>>

\* licCache.InvalidateTenant
DropLicenses(s) ==
    /\ At(s, "licenses")
    /\ GoTo(s, "reread")
    /\ UNCHANGED <<storeVars, world, ops, exact>>

Current(t) == {<<rows[t].key, rows[t]>>}

Both(t) == Current(t) \cup (IF rows[t].old = NoKey THEN {} ELSE {<<rows[t].old, rows[t]>>})

\* What the operation does with the rows it has read: an event and the
\* warm-up set both keys of a tenant, and the warm-up, which reads the whole
\* table, leaves out suspended tenants.
ToDo(s) ==
    CASE op[s].kind = "warmup" ->
           UNION {Both(t) : t \in {u \in Tenants : Exists(u) /\ ~IsSuspended(rows[u])}}
      [] op[s].kind = "refresh" -> Both(op[s].t)
      [] OTHER -> Current(op[s].t)

\* FindByID, FindAll
Reread(s) ==
    /\ At(s, "reread")
    /\ \/ /\ op[s].kind = "warmup" \/ Exists(op[s].t)
          /\ op' = [op EXCEPT ![s].step = IF op[s].kind = "suspend" THEN "drop" ELSE "set",
                              ![s].todo = ToDo(s)]
       \/ /\ op[s].kind = "refresh" /\ ~Exists(op[s].t)
          /\ GoTo(s, "drop") \/ End(s)
       \/ /\ op[s].kind = "profile" /\ ~Exists(op[s].t)
          /\ End(s)
    /\ UNCHANGED <<storeVars, world, ops, exact>>

\* InvalidateByTenantID
DropTenant(s) ==
    /\ At(s, "drop")
    /\ StoreInvalidateByTenantID(op[s].i, op[s].t)
    /\ IF op[s].kind = "suspend" THEN GoTo(s, "dropKey") ELSE End(s)
    /\ UNCHANGED <<world, ops, exact>>

\* Some operation holds a copy of the row of k's tenant that is not suspended.
Outdated(k) ==
    \E r \in Slots : Busy(r) /\ \E e \in op[r].todo : e[1] = k /\ ~IsSuspended(e[2])

\* Invalidate(t.APIKey), the last call of a suspension.  It closes the key,
\* unless the tenant is reinstated by now or an outdated copy is to come.
DropKey(s) ==
    /\ At(s, "dropKey")
    /\ \E e \in op[s].todo :
          /\ StoreInvalidate(op[s].i, e[1])
          /\ shut' = IF IsSuspended(rows[e[2].id]) /\ ~Outdated(e[1])
                     THEN shut \cup {e[1]} ELSE shut
    /\ End(s)
    /\ UNCHANGED <<rows, owner, deaf, now, ops, exact>>

\* tenCache.Set, entry after entry.
SetEntry(s) ==
    /\ At(s, "set")
    /\ \E e \in op[s].todo :
          /\ StoreSet(op[s].i, e[1], e[2])
          /\ op' = [op EXCEPT ![s].todo = @ \ {e}]
    /\ UNCHANGED <<world, ops, exact>>

SetDone(s) ==
    /\ At(s, "set")
    /\ op[s].todo = {}
    /\ End(s)
    /\ UNCHANGED <<storeVars, world, ops, exact>>

\* A call fails and ends the operation: with an error, except that a
\* suspension that cannot read the row back reports success, having closed no
\* key.  Of the events, tenant:updated invalidates a tenant it cannot read.
Fail(s) ==
    /\ Busy(s)
    /\ MayFail(s)
    /\ \/ End(s)
       \/ op[s].kind = "refresh" /\ GoTo(s, "drop")
    /\ exact' = IF op[s].kind = "warmup" THEN exact \ {op[s].i} ELSE exact
    /\ UNCHANGED <<storeVars, world, ops>>

-----------------------------------------------------------------------------
(* Messages, eviction and time.                                            *)

Deliver(n) ==
    /\ DeliverNotice(n)
    /\ UNCHANGED <<world, op, ops, exact>>

\* Redis does not keep messages for a subscriber that is reconnecting.
Lose(n) ==
    /\ n \in notices
    /\ AllowLoss
    /\ notices' = notices \ {n}
    /\ deaf' = deaf \cup {n[1]}
    /\ UNCHANGED <<byKey, rows, owner, op, ops, shut, exact, now>>

Evict(i, k) ==
    /\ AllowEviction
    /\ StoreEvict(i, k)
    /\ exact' = exact \ {i}
    /\ UNCHANGED <<world, op, ops>>

Tick ==
    /\ now < MaxNow
    /\ now' = now + 1
    /\ UNCHANGED <<storeVars, rows, owner, op, ops, shut, exact, deaf>>

OpStep(s) ==
    \/ CheckSystem(s) \/ WriteRow(s) \/ DropLicenses(s) \/ Reread(s) \/ DropTenant(s)
    \/ DropKey(s) \/ SetEntry(s) \/ SetDone(s) \/ Fail(s)

Next ==
    \/ \E s \in Slots, kind \in Kinds, i \in Instances, t \in Tenants : Start(s, kind, i, t)
    \/ \E s \in Slots : OpStep(s)
    \/ \E i \in Instances, k \in ApiKeys : Evict(i, k)
    \/ \E n \in notices : Deliver(n) \/ Lose(n)
    \/ Tick

Spec == Init /\ [][Next]_vars

-----------------------------------------------------------------------------
\* TenantKeyGuard and TenantAuth admit a request with key k.  (The network of
\* the request, which the guard compares with the entry's, is not part of
\* what a key is good for.)
Admits(i, k) == Found(i, k, now) /\ byKey[i][k].status = "active"

GoodKey(k) ==
    /\ owner[k] # NoTenant
    /\ AcceptsKey(rows[owner[k]], k, now)
    /\ rows[owner[k]].status = "active"

Quiet == (\A s \in Slots : ~Busy(s)) /\ notices = {}

\* A key that a suspension has closed stays closed until the tenant is
\* reinstated: an instance that missed no message and has none to come for this
\* key refuses it, and so it does every key the tenant is given meanwhile,
\* whatever is rotated, updated, refreshed, restarted or warmed up, before, after
\* or while.  (What a suspension does not close: a key rotated away before it;
\* any key, when it cannot read the row back; a key of which an older copy is
\* about to be set.  SuspendedRefused says what the documentation promises.)
SuspensionHolds ==
    \A k \in shut, i \in Instances \ deaf : <<i, k>> \notin notices => ~Admits(i, k)

\* After a warm-up and until an operation that may change a tenant begins, an
\* instance admits exactly the keys that are good now: the current key of every
\* active tenant, and the old one until its grace period ends, also while time
\* passes, events refresh its entries and other instances are restarted.
WarmIsExact ==
    \A i \in exact, k \in ApiKeys : ~Warming(i) => (Admits(i, k) <=> GoodKey(k))

\* A key never opens another tenant than the one it was generated for: what
\* Set files under a key, at creation, from an event or in the warm-up, is a
\* tenant that has or had this key.
KeyOpensOwnTenant ==
    \A i \in Instances, k \in ApiKeys :
        byKey[i][k] # NoEntry => byKey[i][k].id = owner[k]

\* While a tenant is marked as the system's, no operation suspends or deletes
\* it: between isSystemTenant and UpdateStatus nothing may set the mark.
SystemProtected ==
    [][\A t \in Tenants :
          Exists(t) /\ rows[t].system /\ IsSuspended(rows'[t])
              => rows'[t].status = rows[t].status]_vars

-----------------------------------------------------------------------------
(* What the documentation says and the code does not do.                   *)

\* "During rotation, both the old and new key are valid."
GoodKeysAdmitted ==
    Quiet => \A k \in ApiKeys : GoodKey(k) => \E i \in Instances : Admits(i, k)

\* "After the grace window closes, the old key is retired from the cache and
\* database."
OldKeyRetired ==
    Quiet => \A k \in ApiKeys : owner[k] # NoTenant /\ ~AcceptsKey(rows[owner[k]], k, now)
                => \A i \in Instances : ~Admits(i, k)

\* "Rejects with 401/403 if invalid or suspended": no key of a suspended tenant
\* is admitted.
SuspendedRefused ==
    Quiet => \A t \in Tenants, k \in ApiKeys :
                Exists(t) /\ rows[t].status = "suspended" /\ owner[k] = t
                    => \A i \in Instances : ~Admits(i, k)

\* "Any write through the control plane immediately updates or invalidates
\* the relevant cache entries.": a deleted tenant is not admitted.
DeletedRefused ==
    Quiet => \A t \in Tenants : Exists(t) /\ rows[t].status = "deleted"
                => \A i \in Instances : ~Admits(i, rows[t].key)

\* The same of an allowlist: the guard applies the one in the table.
AllowlistApplied ==
    Quiet => \A t \in Tenants, i \in Instances : Exists(t) /\ Admits(i, rows[t].key)
                => byKey[i][rows[t].key].nets = rows[t].nets
=============================================================================
