---------------------------- MODULE PlanCatalog ----------------------------
(***************************************************************************)
(* Plans, their caches, and the features that licenses take from them: the *)
(* plan and license operations of app/admin_service.go on tables plans and *)
(* licenses, cache/plan_store.go, the warm-up of server.go, and what a     *)
(* validation answers.  An operation runs on one instance, call by call:   *)
(*                                                                         *)
(*   createPlan updatePlan          check upsert put                       *)
(*   getPlan                        get find put                           *)
(*   deletePlan setPlanActive       write drop                             *)
(*   restorePlan                    write find put                         *)
(*   createLicense updateLicense    store get find put file                *)
(*   inlineLicense                  check upsert put store get ..          *)
(*   refill (a miss, a revocation)  read refile                            *)
(*   restart (New)                  read refile, and list put per tenant   *)
(*                                                                         *)
(* Left out, because no answer depends on it: negative plan entries (every *)
(* caller of PlanStore.Get goes on to the table), and what PlanStore.Set   *)
(* writes to Redis (like a tenant's, it is never read back as a plan).  The*)
(* license cache is the key-only index, the one validations read.          *)
(***************************************************************************)
EXTENDS Naturals, FiniteSets

CONSTANTS
    Tenants,
    NoTenant,
    Plans,         \* IDs of plans
    Keys,          \* license keys
    Features,
    Products,
    NoProduct,
    Contents,      \* what a request may say of a plan
    Terms,         \* what a request may say of a license
    Instances,
    NoInstance,
    NoEntry,       \* no cache entry
    NoRow,         \* no row, or no object
    Slots,         \* operations that may be in progress at a time
    Kinds,         \* the operations of the run
    FaultySteps,   \* steps whose query may fail
    AllowLoss,     \* whether messages are lost
    MaxOps,        \* bound on operations
    MaxNow         \* bound on time

PlanKinds == {"createPlan", "updatePlan", "getPlan", "deletePlan", "setPlanActive", "restorePlan"}
LicenseKinds == {"createLicense", "updateLicense", "inlineLicense", "refill"}
AllKinds == PlanKinds \cup LicenseKinds \cup {"restart"}

ContentType == [features : SUBSET Features, product : Products \cup {NoProduct}, active : BOOLEAN]

PlanType == [tenant : Tenants, content : ContentType, deleted : BOOLEAN]

TermsType ==
    [type : {"plan", "product"}, product : Products \cup {NoProduct},
     own : SUBSET Features,                                  \* License.Features
     add : SUBSET Features, remove : SUBSET Features,        \* Overrides
     trial : SUBSET Features, trialEnds : Nat]               \* Trial; {}: not enabled

LicenseType == [tenant : Tenants, plan : Plans, terms : TermsType]

CachedType ==
    [row : LicenseType, final : SUBSET Features, product : Products \cup {NoProduct}]

ASSUME CatalogAssumption ==
    /\ NoTenant \notin Tenants
    /\ NoProduct \notin Products
    /\ NoInstance \notin Instances
    /\ NoEntry \notin ContentType \cup CachedType
    /\ NoRow \notin PlanType \cup LicenseType \cup ContentType
    /\ Contents \subseteq ContentType
    /\ Terms \subseteq TermsType
    /\ Kinds \subseteq AllKinds
    /\ FaultySteps \subseteq {"check", "upsert", "find", "write", "store", "read", "list"}
    /\ AllowLoss \in BOOLEAN
    /\ MaxOps \in Nat
    /\ MaxNow \in Nat

VARIABLES
    plans,      \* plans[p]: the row of plan p
    licenses,   \* licenses[k]: the row of license k
    planCache,  \* planCache[i][t][p]: the entry of cacheKey(t, "plan:"+p) in the LRU of i
    licCache,   \* licCache[i][k]: the *domain.License under "gk:"+k in the LRU of i
    notices,    \* <<i, t, p>>: an invalidation that i has not seen
    op,         \* op[s]: the operation in slot s
    ops,        \* operations started
    now,
    hist,       \* hist[p]: every content that row p has had
    writer,     \* writer[p]: the instance whose operation last changed row p and its cache
    usurped,    \* plans whose ID was used again by a createPlan
    calm,       \* no two operations have overlapped
    deaf        \* instances that missed a message

tables == <<plans, licenses, hist, usurped>>
caches == <<planCache, licCache, notices>>
vars == <<tables, caches, op, ops, now, writer, calm, deaf>>

Idle == [kind |-> "none"]

Steps == {"check", "upsert", "put", "get", "find", "write", "drop", "store", "file",
          "read", "refile", "list"}

OpType ==
    {Idle} \cup
    [kind : AllKinds, i : Instances, t : Tenants \cup {NoTenant}, p : Plans, k : Keys,
     step : Steps,
     held : SUBSET (Plans \X ContentType),    \* the *domain.Plan it holds, or a list
     lics : SUBSET (Keys \X LicenseType),     \* the *domain.License it holds, or a list
     todo : SUBSET Tenants]                   \* tenants left to warm up

\* Every row, entry and held object is of the kind the code keeps there; in
\* particular an operation that goes on without a plan never files one.
TypeOK ==
    /\ plans \in [Plans -> PlanType \cup {NoRow}]
    /\ licenses \in [Keys -> LicenseType \cup {NoRow}]
    /\ planCache \in [Instances -> [Tenants -> [Plans -> ContentType \cup {NoEntry}]]]
    /\ licCache \in [Instances -> [Keys -> CachedType \cup {NoEntry}]]
    /\ notices \in SUBSET (Instances \X Tenants \X Plans)
    /\ op \in [Slots -> OpType]
    /\ ops \in 0 .. MaxOps
    /\ now \in 0 .. MaxNow
    /\ hist \in [Plans -> SUBSET ContentType]
    /\ writer \in [Plans -> Instances \cup {NoInstance}]
    /\ usurped \in SUBSET Plans
    /\ calm \in BOOLEAN
    /\ deaf \in SUBSET Instances

NoPlans == [p \in Plans |-> NoEntry]
NoLicenses == [k \in Keys |-> NoEntry]

Init ==
    /\ plans = [p \in Plans |-> NoRow]
    /\ licenses = [k \in Keys |-> NoRow]
    /\ planCache = [i \in Instances |-> [t \in Tenants |-> NoPlans]]
    /\ licCache = [i \in Instances |-> NoLicenses]
    /\ notices = {}
    /\ op = [s \in Slots |-> Idle]
    /\ ops = 0
    /\ now = 0
    /\ hist = [p \in Plans |-> {}]
    /\ writer = [p \in Plans |-> NoInstance]
    /\ usurped = {}
    /\ calm = TRUE
    /\ deaf = {}

Busy(s) == op[s] # Idle
At(s, step) == Busy(s) /\ op[s].step = step
Restarting(i) == \E s \in Slots : Busy(s) /\ op[s].kind = "restart" /\ op[s].i = i

\* A plan is there for its tenant, unless it is deleted.
Live(t, p) == plans[p] # NoRow /\ plans[p].tenant = t /\ ~plans[p].deleted

-----------------------------------------------------------------------------
(* Features.                                                               *)

\* ValidateHardRules, for the fields that features depend on.
ValidTerms(l) ==
    /\ l.type = "plan" => l.own = {} /\ l.product = NoProduct
    /\ l.type = "product" => l.own # {} /\ l.product # NoProduct /\ l.trial = {}
    /\ l.own # {} => l.add = {} /\ l.remove = {}

\* Slip: removals come before additions.
ResolveFinalFeatures_AddLast(l, planFeatures, at) ==
    LET base == IF l.type = "plan" THEN planFeatures ELSE l.own
        current == IF l.trial # {} /\ at < l.trialEnds THEN l.trial ELSE base
    IN  IF l.own # {} THEN l.own ELSE (current \ l.remove) \cup l.add

ResolveFinalFeatures(l, planFeatures, at) ==
    LET base == IF l.type = "plan" THEN planFeatures ELSE l.own
        current == IF l.trial # {} /\ at < l.trialEnds THEN l.trial ELSE base
    IN  IF l.own # {} THEN l.own ELSE (current \cup l.add) \ l.remove

\* Slip: the product of the plan is forgotten.
Resolved_NoProduct(row, plan) ==
    [row |-> row, product |-> row.terms.product,
     final |-> IF row.terms.type = "plan" /\ plan = NoRow THEN {}
               ELSE ResolveFinalFeatures(row.terms, IF plan = NoRow THEN {} ELSE plan.features, now)]

\* What CreateLicense and UpdateLicense cache.  Without a plan object a plan
\* license is not resolved at all.
Resolved(row, plan) ==
    IF row.terms.type = "plan" /\ plan = NoRow
    THEN [row |-> row, final |-> {}, product |-> row.terms.product]
    ELSE [row |-> row,
          final |-> ResolveFinalFeatures(row.terms, IF plan = NoRow THEN {} ELSE plan.features, now),
          product |-> IF row.terms.type = "plan" /\ plan.product # NoProduct
                      THEN plan.product ELSE row.terms.product]

\* A license as the repository reads it: final features are not stored.
AsRead(row) == [row |-> row, final |-> {}, product |-> row.terms.product]

\* The features that a validation answers.
Answered(entry) == IF entry.final = {} THEN entry.row.terms.own ELSE entry.final

-----------------------------------------------------------------------------
(* The steps of an operation.                                              *)

FirstStep(kind) ==
    CASE kind \in {"createPlan", "updatePlan", "inlineLicense"} -> "check"
      [] kind = "getPlan" -> "get"
      [] kind \in {"deletePlan", "setPlanActive", "restorePlan"} -> "write"
      [] kind \in {"createLicense", "updateLicense"} -> "store"
      [] OTHER -> "read"

\* What idgen.NewID returns is nobody's ID, in the table or in a request.
Unused(p) == plans[p] = NoRow /\ \A r \in Slots : Busy(r) => op[r].p # p

\* A request, a miss in the license cache, or a restart of the process, whose
\* caches and unseen messages are gone.
Start(s, kind, i, t, p, k) ==
    /\ ~Busy(s) /\ ~Restarting(i)
    /\ ops < MaxOps
    /\ ops' = ops + 1
    /\ t = NoTenant <=> kind \in {"refill", "restart"}
    /\ kind = "inlineLicense" => Unused(p)
    /\ \A r \in Slots : Busy(r) /\ op[r].kind = "inlineLicense" => op[r].p # p
    /\ op' = [op EXCEPT ![s] = [kind |-> kind, i |-> i, t |-> t, p |-> p, k |-> k,
                                step |-> FirstStep(kind), held |-> {}, lics |-> {},
                                todo |-> IF kind = "restart" THEN Tenants ELSE {}]]
    /\ calm' = (calm /\ \A r \in Slots : ~Busy(r))
    /\ IF kind = "restart"
       THEN /\ \A r \in Slots : Busy(r) => op[r].i # i
            /\ planCache' = [planCache EXCEPT ![i] = [u \in Tenants |-> NoPlans]]
            /\ licCache' = [licCache EXCEPT ![i] = NoLicenses]
            /\ notices' = {n \in notices : n[1] # i}
            /\ deaf' = deaf \ {i}
       ELSE UNCHANGED <<caches, deaf>>
    /\ UNCHANGED <<tables, now, writer>>

GoTo(s, step) == op' = [op EXCEPT ![s].step = step]
End(s) == op' = [op EXCEPT ![s] = Idle]

\* The operation goes on with these plans.
Hold(s, held, step) == op' = [op EXCEPT ![s].held = held, ![s].step = step]

\* planRepo.FindByID
FindByID(t, p) == IF Live(t, p) THEN {<<p, plans[p].content>>} ELSE {}

MayFail(s) == op[s].step \in FaultySteps

\* A write has taken effect and its answer gets lost: the request ends with an
\* error, and the caches stay as they are.
AnswerLost(s) == MayFail(s) /\ End(s)

\* "plan_already_exists" and "plan_not_found".  A query that fails is an
\* answer for both: to a creation it says that the plan is new.
Check(s) ==
    /\ At(s, "check")
    /\ LET creates == op[s].kind # "updatePlan"
           exists == FindByID(op[s].t, op[s].p) # {}
       IN  \/ exists # creates /\ GoTo(s, "upsert")
           \/ exists = creates /\ End(s)
           \/ MayFail(s) /\ IF creates THEN GoTo(s, "upsert") ELSE End(s)
    /\ UNCHANGED <<tables, caches, ops, now, writer, calm, deaf>>

SetRow(p, row) ==
    /\ plans' = [plans EXCEPT ![p] = row]
    /\ hist' = [hist EXCEPT ![p] = @ \cup {row.content}]
    /\ writer' = [writer EXCEPT ![p] = NoInstance]

\* ON CONFLICT (id) keeps the tenant and deleted_at.
Upserted(t, p, c) ==
    IF plans[p] = NoRow THEN [tenant |-> t, content |-> c, deleted |-> FALSE]
                        ELSE [plans[p] EXCEPT !.content = c]

\* planRepo.Upsert.  An inline plan is active.
Upsert(s) ==
    /\ At(s, "upsert")
    /\ \E c \in Contents :
          /\ op[s].kind = "inlineLicense" => c.active
          /\ SetRow(op[s].p, Upserted(op[s].t, op[s].p, c))
          /\ Hold(s, {<<op[s].p, c>>}, "put") \/ AnswerLost(s)
    /\ usurped' = IF op[s].kind = "createPlan" /\ plans[op[s].p] # NoRow
                  THEN usurped \cup {op[s].p} ELSE usurped
    /\ UNCHANGED <<licenses, caches, ops, now, calm, deaf>>

\* planRepo.Delete, SetActive and Restore; without a row to change the
\* request fails.
Write(s) ==
    LET p == op[s].p
        live == Live(op[s].t, p)
        gone == plans[p] # NoRow /\ plans[p].tenant = op[s].t /\ plans[p].deleted
    IN  /\ At(s, "write")
        /\ \/ /\ op[s].kind = "deletePlan" /\ live
              /\ SetRow(p, [plans[p] EXCEPT !.deleted = TRUE])
              /\ GoTo(s, "drop") \/ AnswerLost(s)
           \/ /\ op[s].kind = "setPlanActive" /\ live
              /\ \E b \in BOOLEAN : SetRow(p, [plans[p] EXCEPT !.content.active = b])
              /\ GoTo(s, "drop") \/ AnswerLost(s)
           \/ /\ op[s].kind = "restorePlan" /\ gone
              /\ SetRow(p, [plans[p] EXCEPT !.deleted = FALSE])
              /\ GoTo(s, "find") \/ AnswerLost(s)
           \/ /\ IF op[s].kind = "restorePlan" THEN ~gone ELSE ~live
              /\ End(s)
              /\ UNCHANGED <<plans, hist, writer>>
        /\ UNCHANGED <<licenses, usurped, caches, ops, now, calm, deaf>>

\* PlanStore.Get
Get(s) ==
    LET entry == planCache[op[s].i][op[s].t][op[s].p]
    IN  /\ At(s, "get")
        /\ \/ entry = NoEntry /\ GoTo(s, "find")
           \/ /\ entry # NoEntry
              /\ IF op[s].kind = "getPlan" THEN End(s) ELSE Hold(s, {<<op[s].p, entry>>}, "file")
        /\ UNCHANGED <<tables, caches, ops, now, writer, calm, deaf>>

\* FindByID after a miss or a restoration: getPlan and restorePlan report a
\* plan that cannot be read, a license does without.
Find(s) ==
    /\ At(s, "find")
    /\ \/ /\ FindByID(op[s].t, op[s].p) # {}
          /\ Hold(s, FindByID(op[s].t, op[s].p), "put")
       \/ /\ FindByID(op[s].t, op[s].p) = {} \/ MayFail(s)
          /\ IF op[s].kind \in PlanKinds THEN End(s) ELSE GoTo(s, "file")
    /\ UNCHANGED <<tables, caches, ops, now, writer, calm, deaf>>

\* The entry of plan p among held, if there is one.
Filed(held, entries) ==
    [p \in Plans |-> IF \E h \in held : h[1] = p
                     THEN (CHOOSE h \in held : h[1] = p)[2] ELSE entries[p]]

Wrote(s) ==
    writer' = IF op[s].kind \in {"createPlan", "updatePlan", "deletePlan", "setPlanActive",
                                 "restorePlan"}
                 \/ (op[s].kind = "inlineLicense" /\ op[s].lics = {})
              THEN [writer EXCEPT ![op[s].p] = op[s].i] ELSE writer

\* PlanStore.Set tells no other instance.
Put(s) ==
    /\ At(s, "put")
    /\ planCache' = [planCache EXCEPT ![op[s].i][op[s].t] = Filed(op[s].held, @)]
    /\ \/ op[s].kind \in PlanKinds /\ End(s)
       \/ op[s].kind = "inlineLicense" /\ op[s].lics = {} /\ GoTo(s, "store")
       \/ op[s].kind \in LicenseKinds /\ op[s].lics # {} /\ GoTo(s, "file")
       \/ op[s].kind = "restart" /\ GoTo(s, "list")
    /\ Wrote(s)
    /\ UNCHANGED <<tables, licCache, notices, ops, now, calm, deaf>>

\* Slip: the other instances are not told.
Drop_Local(s) ==
    /\ At(s, "drop")
    /\ planCache' = [planCache EXCEPT ![op[s].i][op[s].t][op[s].p] = NoEntry]
    /\ End(s)
    /\ Wrote(s)
    /\ UNCHANGED <<tables, licCache, notices, ops, now, calm, deaf>>

\* Slip: this instance waits for the message like the others.
Drop_ByMessage(s) ==
    /\ At(s, "drop")
    /\ notices' = notices \cup (Instances \X {op[s].t} \X {op[s].p})
    /\ End(s)
    /\ Wrote(s)
    /\ UNCHANGED <<tables, planCache, licCache, ops, now, calm, deaf>>

\* PlanStore.Invalidate: here at once, and a message to every instance.
Drop(s) ==
    /\ At(s, "drop")
    /\ planCache' = [planCache EXCEPT ![op[s].i][op[s].t][op[s].p] = NoEntry]
    /\ notices' = notices \cup (Instances \X {op[s].t} \X {op[s].p})
    /\ End(s)
    /\ Wrote(s)
    /\ UNCHANGED <<tables, licCache, ops, now, calm, deaf>>

\* licenseRepo.Create and Update; plan_id references a row, deleted or not,
\* of any tenant, and an UPDATE that matches no row succeeds.
Store(s) ==
    LET k == op[s].k
        p == op[s].p
        mine == licenses[k] # NoRow /\ licenses[k].tenant = op[s].t
        updates == op[s].kind = "updateLicense"
        changes == IF updates THEN mine ELSE licenses[k] = NoRow
    IN  /\ At(s, "store")
        /\ \E l \in {x \in Terms : ValidTerms(x)} :
              /\ op[s].kind = "inlineLicense" => l.type = "plan"
              /\ LET row == [tenant |-> op[s].t, plan |-> p, terms |-> l]
                     refers == l.type = "plan" => plans[p] # NoRow
                 IN  \/ /\ changes /\ refers
                        /\ licenses' = [licenses EXCEPT ![k] = row]
                     \/ /\ updates /\ ~mine
                        /\ UNCHANGED licenses
              /\ \/ op' = [op EXCEPT ![s].lics = {<<k, [tenant |-> op[s].t, plan |-> p, terms |-> l]>>},
                                     ![s].held = {},
                                     ![s].step = IF l.type = "plan" THEN "get" ELSE "file"]
                 \/ AnswerLost(s)
        /\ UNCHANGED <<plans, hist, usurped, caches, ops, now, writer, calm, deaf>>

\* The statement is refused, by a constraint or a fault.
StoreFails(s) ==
    /\ At(s, "store")
    /\ \/ MayFail(s)
       \/ op[s].kind # "updateLicense" /\ licenses[op[s].k] # NoRow
       \/ plans[op[s].p] = NoRow
    /\ End(s)
    /\ UNCHANGED <<tables, caches, ops, now, writer, calm, deaf>>

\* The plan object that the operation has found.
ThePlan(s) == IF op[s].held = {} THEN NoRow ELSE (CHOOSE h \in op[s].held : TRUE)[2]

\* licCache.Set with the license of the request.
File(s) ==
    /\ At(s, "file")
    /\ \E l \in op[s].lics :
          licCache' = [licCache EXCEPT ![op[s].i][l[1]] = Resolved(l[2], ThePlan(s))]
    /\ End(s)
    /\ UNCHANGED <<tables, planCache, notices, ops, now, writer, calm, deaf>>

\* FindByKey, or the query of WarmUp.
Read(s) ==
    LET wanted == IF op[s].kind = "restart" THEN Keys ELSE {op[s].k}
        found == {k \in wanted : licenses[k] # NoRow}
    IN  /\ At(s, "read")
        /\ op' = [op EXCEPT ![s].lics = {<<k, licenses[k]>> : k \in found}, ![s].step = "refile"]
        /\ UNCHANGED <<tables, caches, ops, now, writer, calm, deaf>>

\* licCache.Set with the licenses as read.
Refile(s) ==
    /\ At(s, "refile")
    /\ licCache' = [licCache EXCEPT ![op[s].i] =
                       [k \in Keys |-> IF \E l \in op[s].lics : l[1] = k
                                       THEN AsRead((CHOOSE l \in op[s].lics : l[1] = k)[2])
                                       ELSE @[k]]]
    /\ IF op[s].kind = "restart" THEN GoTo(s, "list") ELSE End(s)
    /\ UNCHANGED <<tables, planCache, notices, ops, now, writer, calm, deaf>>

\* ListByTenant, tenant after tenant.
List(s) ==
    /\ At(s, "list")
    /\ \/ \E t \in op[s].todo, ok \in BOOLEAN :
             /\ ok \/ MayFail(s)
             /\ op' = [op EXCEPT ![s].t = t, ![s].todo = @ \ {t},
                                 ![s].held = IF ok THEN UNION {FindByID(t, p) : p \in Plans} ELSE {},
                                 ![s].step = IF ok THEN "put" ELSE "list"]
       \/ op[s].todo = {} /\ End(s)
    /\ UNCHANGED <<tables, caches, ops, now, writer, calm, deaf>>

\* Another query fails: the request ends with an error, and New goes on
\* with the tenants, or without them when it cannot read their table.
Fail(s) ==
    /\ Busy(s) /\ MayFail(s)
    /\ \/ op[s].step \in {"upsert", "write"} /\ End(s)
       \/ op[s].step = "read" /\ IF op[s].kind = "restart" THEN GoTo(s, "list") ELSE End(s)
       \/ op[s].step = "list" /\ op[s].todo = Tenants /\ End(s)
    /\ UNCHANGED <<tables, caches, ops, now, writer, calm, deaf>>

-----------------------------------------------------------------------------
(* Messages, eviction and time.                                            *)

\* The handler of SubscribeInvalidation.
Deliver(n) ==
    /\ notices' = notices \ {n}
    /\ planCache' = [planCache EXCEPT ![n[1]][n[2]][n[3]] = NoEntry]
    /\ UNCHANGED <<tables, licCache, op, ops, now, writer, calm, deaf>>

\* Redis does not keep messages for a subscriber that is reconnecting.
Lose(n) ==
    /\ AllowLoss
    /\ notices' = notices \ {n}
    /\ deaf' = deaf \cup {n[1]}
    /\ UNCHANGED <<tables, planCache, licCache, op, ops, now, writer, calm>>

\* The LRU evicts an entry, or its TTL runs out.
EvictPlan(i, t, p) ==
    /\ planCache[i][t][p] # NoEntry
    /\ planCache' = [planCache EXCEPT ![i][t][p] = NoEntry]
    /\ UNCHANGED <<tables, licCache, notices, op, ops, now, writer, calm, deaf>>

Tick ==
    /\ now < MaxNow
    /\ now' = now + 1
    /\ UNCHANGED <<tables, caches, op, ops, writer, calm, deaf>>

OpStep(s) ==
    \/ Check(s) \/ Upsert(s) \/ Write(s) \/ Get(s) \/ Find(s) \/ Put(s) \/ Drop(s)
    \/ Store(s) \/ StoreFails(s) \/ File(s) \/ Read(s) \/ Refile(s) \/ List(s) \/ Fail(s)

Next ==
    \/ \E s \in Slots, kind \in Kinds, i \in Instances, t \in Tenants \cup {NoTenant},
          p \in Plans, k \in Keys : Start(s, kind, i, t, p, k)
    \/ \E s \in Slots : OpStep(s)
    \/ \E n \in notices : Deliver(n) \/ Lose(n)
    \/ \E i \in Instances, t \in Tenants, p \in Plans : EvictPlan(i, t, p)
    \/ Tick

Spec == Init /\ [][Next]_vars

-----------------------------------------------------------------------------
Quiet == (\A s \in Slots : ~Busy(s)) /\ notices = {}

\* The features of a license under the documented order: the plan's or the
\* license's own, in their place those of a trial while it lasts, then the
\* overrides.
Documented(l, planFeatures, onTrial) ==
    {f \in Features :
        \/ f \in l.own
        \/ /\ l.own = {}
           /\ f \notin l.remove
           /\ \/ f \in l.add
              \/ onTrial /\ f \in l.trial
              \/ ~onTrial /\ f \in planFeatures}

OnTrial(l, at) == l.trial # {} /\ at < l.trialEnds

\* Whatever overlaps, fails, gets lost or is stale, a validation never answers
\* features that nobody granted: they are the license's own ones (none, for a
\* plan license read back from the table), or what its terms make of a content
\* that the row of its own plan has really had, with its trial on or off.
FeaturesWereGranted ==
    \A i \in Instances, k \in Keys :
        licCache[i][k] # NoEntry =>
            LET row == licCache[i][k].row
                planContents == IF row.terms.type = "plan" THEN hist[row.plan] ELSE {}
            IN  \/ Answered(licCache[i][k]) = row.terms.own
                \/ \E c \in planContents, b \in {OnTrial(row.terms, 0), FALSE} :
                      Answered(licCache[i][k]) = Documented(row.terms, c.features, b)

\* The instance that served the last change of a plan answers the plan as it is
\* in the table, or has to look there, as long as operations do not overlap
\* and nobody creates a plan under an ID that is taken: also after queries that
\* fail, lost messages, evictions and restarts.
WriterIsCurrent ==
    \A p \in Plans, t \in Tenants :
        Quiet /\ calm /\ p \notin usurped /\ writer[p] # NoInstance =>
            \/ planCache[writer[p]][t][p] = NoEntry
            \/ Live(t, p) /\ planCache[writer[p]][t][p] = plans[p].content

\* Under the same conditions a deleted plan is gone from every instance that
\* hears the messages, and stays away until it is restored.
DeleteHolds ==
    \A p \in Plans, t \in Tenants, i \in Instances \ deaf :
        Quiet /\ calm /\ p \notin usurped /\ writer[p] # NoInstance
              /\ plans[p] # NoRow /\ plans[p].deleted
            => planCache[i][t][p] = NoEntry

\* As long as operations do not overlap, the instance that served the last
\* change of a plan caches a license of this plan, if it can read the plan, with
\* the features that the documented order gives it now and the plan's product.
ResolvedAsDocumented ==
    [][\A s \in Slots :
          /\ At(s, "file") /\ ~Busy(s)' /\ calm /\ op[s].held # {}
          /\ \A l \in op[s].lics : l[2].terms.type = "plan"
          /\ op[s].p \notin usurped /\ writer[op[s].p] = op[s].i
          /\ Live(op[s].t, op[s].p)
          => LET c == plans[op[s].p].content
                 e == licCache'[op[s].i][op[s].k]
             IN  /\ e.final = Documented(e.row.terms, c.features, OnTrial(e.row.terms, now))
                 /\ e.product = c.product]_vars

-----------------------------------------------------------------------------
(* What the documentation says and the code does not do.                   *)

\* "final resolved features are used for validation": a validation answers the
\* features that the documented order gives.
FeaturesResolved ==
    Quiet => \A i \in Instances, k \in Keys :
        licCache[i][k] # NoEntry /\ licenses[k] # NoRow /\ plans[licenses[k].plan] # NoRow =>
            LET l == licenses[k].terms
            IN  Answered(licCache[i][k]) =
                    Documented(l, plans[licenses[k].plan].content.features, OnTrial(l, now))

\* "Multi-tenant with strict isolation": what is done for one tenant does not
\* change the plans of another one.
PlansAreTheTenants ==
    [][\A p \in Plans :
          plans[p] # NoRow /\ plans'[p] # plans[p]
              => \E s \in Slots : Busy(s) /\ op[s].p = p /\ op[s].t = plans[p].tenant]_vars

\* "control-plane list/get/find operations exclude rows where deleted_at IS NOT
\* NULL": GetPlan does not answer a deleted plan.
DeletedExcluded ==
    Quiet => \A p \in Plans, t \in Tenants, i \in Instances :
        plans[p] # NoRow /\ plans[p].deleted => planCache[i][t][p] = NoEntry
=============================================================================
