---------------------------- MODULE GrantProofs ----------------------------
(***************************************************************************)
(* What a license grants.  First the plans and the features that licenses  *)
(* take from them (PlanCatalog), for any number of tenants, plans, keys,   *)
(* instances and operations under way: the types, that no validation       *)
(* answers features that nobody granted, and what the caches hold as long  *)
(* as operations do not overlap.  Then what the payloads of signed         *)
(* licenses carry (SignedLicense), for any number of requests, clients,    *)
(* activations and cached objects.                                         *)
(*                                                                         *)
(* The argument about plans has two inductive invariants.  Catalog holds   *)
(* whatever overlaps: every operation is at a step of its kind, and what   *)
(* it holds, what the caches hold and what the table holds is a content    *)
(* that the row has had and, unless the ID was used again, the tenant's.   *)
(* Calm holds until two operations overlap: the one operation under way    *)
(* puts and files what is in the table, so the writer's caches are exact   *)
(* and a deleted plan is cached only where a message is under way.         *)
(***************************************************************************)
EXTENDS PlanCatalog, SignedLicense, TLAPS

-----------------------------------------------------------------------------
(* The slots of the operations on plans and licenses.                      *)

HeldType == SUBSET (Plans \X ContentType)
LicsType == SUBSET (Keys \X LicenseType)
Running ==
    [kind : AllKinds, i : Instances, t : Tenants \cup {NoTenant}, p : Plans, k : Keys,
     step : Steps, held : HeldType, lics : LicsType, todo : SUBSET Tenants]

\* An operation that runs is told from an empty slot by its kind.
LEMMA RunningIsNotIdle ==
    /\ OpType = {Idle} \cup Running
    /\ \A o \in Running : o # Idle
  BY DEF OpType, Running, Idle, AllKinds, PlanKinds, LicenseKinds, HeldType, LicsType

\* One slot changes.
Moves(s, q) == op'[s] = q /\ op' \in [Slots -> OpType] /\ \A r \in Slots \ {s} : op'[r] = op[r]

\* A slot gets a new record, and nothing else of op changes.
LEMMA OpMoves ==
    ASSUME op \in [Slots -> OpType], NEW s \in Slots, NEW q \in {Idle} \cup Running,
           op' = [op EXCEPT ![s] = q]
    PROVE  Moves(s, q)
  BY RunningIsNotIdle DEF Moves

\* A busy slot holds the record of an operation.
LEMMA OpRuns ==
    ASSUME op \in [Slots -> OpType], NEW s \in Slots, Busy(s)
    PROVE  op[s] \in Running
  BY RunningIsNotIdle DEF Busy

\* What the steps make of the record of their operation.

LEMMA Ends ==
    ASSUME op \in [Slots -> OpType], NEW s \in Slots, End(s)
    PROVE  Moves(s, Idle)
  BY OpMoves DEF End

\* The operation goes on, with the same request.
SameRequest(q, o) ==
    /\ q \in Running
    /\ q.kind = o.kind /\ q.i = o.i /\ q.p = o.p /\ q.k = o.k

\* GoTo: the next step, with everything else as it is.
LEMMA Goes ==
    ASSUME op \in [Slots -> OpType], NEW s \in Slots, Busy(s), NEW st \in Steps, GoTo(s, st)
    PROVE  \E q \in Running :
              /\ Moves(s, q) /\ SameRequest(q, op[s]) /\ q.t = op[s].t
              /\ q.step = st /\ q.held = op[s].held /\ q.lics = op[s].lics /\ q.todo = op[s].todo
<1> DEFINE q == [op[s] EXCEPT !.step = st]
<1>1. op[s] \in Running
  BY OpRuns
<1>2. /\ SameRequest(q, op[s]) /\ q.t = op[s].t
      /\ q.step = st /\ q.held = op[s].held /\ q.lics = op[s].lics /\ q.todo = op[s].todo
  BY <1>1 DEF Running, SameRequest
<1>3. op' = [op EXCEPT ![s] = q]
  BY DEF GoTo
<1>4. q \in Running
  BY <1>2 DEF SameRequest
<1> HIDE DEF q
<1> QED BY <1>2, <1>3, <1>4, OpMoves

\* Hold: the next step, with other plans in hand.
LEMMA Holds ==
    ASSUME op \in [Slots -> OpType], NEW s \in Slots, Busy(s), NEW st \in Steps,
           NEW held \in HeldType, Hold(s, held, st)
    PROVE  \E q \in Running :
              /\ Moves(s, q) /\ SameRequest(q, op[s]) /\ q.t = op[s].t
              /\ q.step = st /\ q.held = held /\ q.lics = op[s].lics /\ q.todo = op[s].todo
<1> DEFINE q == [op[s] EXCEPT !.held = held, !.step = st]
<1>1. op[s] \in Running
  BY OpRuns
<1>2. /\ SameRequest(q, op[s]) /\ q.t = op[s].t
      /\ q.step = st /\ q.held = held /\ q.lics = op[s].lics /\ q.todo = op[s].todo
  BY <1>1 DEF Running, SameRequest
<1>3. op' = [op EXCEPT ![s] = q]
  BY DEF Hold
<1>4. q \in Running
  BY <1>2 DEF SameRequest
<1> HIDE DEF q
<1> QED BY <1>2, <1>3, <1>4, OpMoves

\* The other steps that change the record.
Stored(s, lics, st) == op' = [op EXCEPT ![s].lics = lics, ![s].held = {}, ![s].step = st]
ReadIn(s, lics, st) == op' = [op EXCEPT ![s].lics = lics, ![s].step = st]
Listed(s, t, held, st) ==
    op' = [op EXCEPT ![s].t = t, ![s].todo = @ \ {t}, ![s].held = held, ![s].step = st]

\* Store: the license is in hand, and no plan yet.
LEMMA Stores ==
    ASSUME op \in [Slots -> OpType], NEW s \in Slots, Busy(s), NEW st \in Steps,
           NEW lics \in LicsType, Stored(s, lics, st)
    PROVE  \E q \in Running :
              /\ Moves(s, q) /\ SameRequest(q, op[s]) /\ q.t = op[s].t
              /\ q.step = st /\ q.held = {} /\ q.lics = lics
<1> DEFINE q == [op[s] EXCEPT !.lics = lics, !.held = {}, !.step = st]
<1>1. op[s] \in Running
  BY OpRuns
<1>2. /\ SameRequest(q, op[s]) /\ q.t = op[s].t
      /\ q.step = st /\ q.held = {} /\ q.lics = lics
  BY <1>1 DEF Running, SameRequest, HeldType
<1>3. op' = [op EXCEPT ![s] = q]
  BY DEF Stored
<1>4. q \in Running
  BY <1>2 DEF SameRequest
<1> HIDE DEF q
<1> QED BY <1>2, <1>3, <1>4, OpMoves

\* Read: the licenses are in hand.
LEMMA Reads ==
    ASSUME op \in [Slots -> OpType], NEW s \in Slots, Busy(s), NEW st \in Steps,
           NEW lics \in LicsType, ReadIn(s, lics, st)
    PROVE  \E q \in Running :
              /\ Moves(s, q) /\ SameRequest(q, op[s]) /\ q.t = op[s].t
              /\ q.step = st /\ q.held = op[s].held /\ q.lics = lics
<1> DEFINE q == [op[s] EXCEPT !.lics = lics, !.step = st]
<1>1. op[s] \in Running
  BY OpRuns
<1>2. /\ SameRequest(q, op[s]) /\ q.t = op[s].t
      /\ q.step = st /\ q.held = op[s].held /\ q.lics = lics
  BY <1>1 DEF Running, SameRequest
<1>3. op' = [op EXCEPT ![s] = q]
  BY DEF ReadIn
<1>4. q \in Running
  BY <1>2 DEF SameRequest
<1> HIDE DEF q
<1> QED BY <1>2, <1>3, <1>4, OpMoves

\* List: the plans of the next tenant are in hand.
LEMMA Lists ==
    ASSUME op \in [Slots -> OpType], NEW s \in Slots, Busy(s), NEW st \in Steps,
           NEW t \in Tenants, NEW held \in HeldType, Listed(s, t, held, st)
    PROVE  \E q \in Running :
              /\ Moves(s, q) /\ SameRequest(q, op[s]) /\ q.t = t
              /\ q.step = st /\ q.held = held /\ q.lics = op[s].lics
<1> DEFINE q == [op[s] EXCEPT !.t = t, !.todo = op[s].todo \ {t}, !.held = held, !.step = st]
<1>1. op[s] \in Running
  BY OpRuns
<1>2. /\ SameRequest(q, op[s]) /\ q.t = t
      /\ q.step = st /\ q.held = held /\ q.lics = op[s].lics
  BY <1>1 DEF Running, SameRequest
<1>3. op' = [op EXCEPT ![s] = q]
  BY DEF Listed
<1>4. q \in Running
  BY <1>2 DEF SameRequest
<1> HIDE DEF q
<1> QED BY <1>2, <1>3, <1>4, OpMoves

-----------------------------------------------------------------------------
(* Data.                                                                   *)

\* planRepo.FindByID answers the live plan of the tenant, as it is.
LEMMA FoundTypes ==
    ASSUME TypeOK, NEW t, NEW p \in Plans
    PROVE  /\ FindByID(t, p) \in HeldType
           /\ \A h \in FindByID(t, p) : h[1] = p /\ Live(t, p) /\ h[2] = plans[p].content
           /\ Live(t, p) => plans[p] \in PlanType /\ FindByID(t, p) # {}
<1>1. Live(t, p) => plans[p] \in PlanType
  BY DEF TypeOK, Live
<1>2. Live(t, p) => plans[p].content \in ContentType
  BY <1>1 DEF PlanType
<1> QED BY <1>1, <1>2 DEF FindByID, HeldType

\* What CreateLicense and UpdateLicense cache, with or without a plan.
LEMMA ResolvedTypes ==
    ASSUME TypeOK, NEW row \in LicenseType, NEW plan \in ContentType \cup {NoRow}
    PROVE  Resolved(row, plan) \in CachedType
<1>1. /\ row.terms.own \in SUBSET Features /\ row.terms.add \in SUBSET Features
      /\ row.terms.trial \in SUBSET Features /\ row.terms.product \in Products \cup {NoProduct}
  BY DEF LicenseType, TermsType
<1>2. plan # NoRow => plan.features \in SUBSET Features /\ plan.product \in Products \cup {NoProduct}
  BY DEF ContentType
<1>3. ResolveFinalFeatures(row.terms, IF plan = NoRow THEN {} ELSE plan.features, now)
         \in SUBSET Features
  BY <1>1, <1>2 DEF ResolveFinalFeatures
<1>4. CASE row.terms.type = "plan" /\ plan = NoRow
  BY <1>1, <1>4 DEF Resolved, CachedType
<1>5. CASE ~(row.terms.type = "plan" /\ plan = NoRow)
  BY <1>1, <1>2, <1>3, <1>5 DEF Resolved, CachedType
<1> QED BY <1>4, <1>5

\* What is cached of a row.
LEMMA AsReadTypes ==
    ASSUME NEW row \in LicenseType
    PROVE  AsRead(row) \in CachedType
  BY DEF AsRead, CachedType, LicenseType, TermsType

\* A list of plans over the entries of a tenant.
LEMMA FiledPlans ==
    ASSUME NEW held \in HeldType, NEW entries \in [Plans -> ContentType \cup {NoEntry}]
    PROVE  /\ Filed(held, entries) \in [Plans -> ContentType \cup {NoEntry}]
           /\ \A p \in Plans :
                 \/ \E h \in held : h[1] = p /\ Filed(held, entries)[p] = h[2]
                 \/ (\A h \in held : h[1] # p) /\ Filed(held, entries)[p] = entries[p]
<1>1. ASSUME NEW p \in Plans
      PROVE  \/ \E h \in held : h[1] = p /\ Filed(held, entries)[p] = h[2]
             \/ (\A h \in held : h[1] # p) /\ Filed(held, entries)[p] = entries[p]
  <2>1. CASE \E h \in held : h[1] = p
    <3> DEFINE g == CHOOSE h \in held : h[1] = p
    <3>1. g \in held /\ g[1] = p
      BY <2>1
    <3>2. Filed(held, entries)[p] = g[2]
      BY <2>1 DEF Filed
    <3> QED BY <3>1, <3>2
  <2>2. CASE \A h \in held : h[1] # p
    BY <2>2 DEF Filed
  <2> QED BY <2>1, <2>2
<1>2. \A h \in held : h[2] \in ContentType
  BY DEF HeldType
<1>3. \A p \in Plans : Filed(held, entries)[p] \in ContentType \cup {NoEntry}
  BY <1>1, <1>2
<1>4. Filed(held, entries) = [p \in Plans |-> Filed(held, entries)[p]]
  BY DEF Filed
<1> HIDE DEF Filed
<1> QED BY <1>1, <1>3, <1>4

\* The plan caches after a PlanStore.Set and after an invalidation.
CachesOK == planCache \in [Instances -> [Tenants -> [Plans -> ContentType \cup {NoEntry}]]]

PutIn(i, t, held) ==
    /\ CachesOK'
    /\ \A j \in Instances, u \in Tenants, p \in Plans :
          \/ /\ j = i /\ u = t
             /\ \E h \in held : h[1] = p /\ planCache'[j][u][p] = h[2]
          \/ /\ j = i /\ u = t => \A h \in held : h[1] # p
             /\ planCache'[j][u][p] = planCache[j][u][p]

DroppedFrom(i, t, p) ==
    /\ CachesOK'
    /\ \A j \in Instances, u \in Tenants, q \in Plans :
          planCache'[j][u][q] = IF j = i /\ u = t /\ q = p THEN NoEntry ELSE planCache[j][u][q]

\* PlanStore.Set changes the entries of one tenant at one instance ...
LEMMA EntriesPut ==
    ASSUME CachesOK,
           NEW i \in Instances, NEW t \in Tenants, NEW held \in HeldType,
           planCache' = [planCache EXCEPT ![i][t] = Filed(held, @)]
    PROVE  PutIn(i, t, held)
<1> DEFINE new == Filed(held, planCache[i][t])
<1>1. /\ new \in [Plans -> ContentType \cup {NoEntry}]
      /\ \A p \in Plans :
            \/ \E h \in held : h[1] = p /\ new[p] = h[2]
            \/ (\A h \in held : h[1] # p) /\ new[p] = planCache[i][t][p]
  BY FiledPlans DEF CachesOK
<1>2. planCache' = [planCache EXCEPT ![i] = [planCache[i] EXCEPT ![t] = new]]
  OBVIOUS
<1> HIDE DEF new
<1>3. \A j \in Instances, u \in Tenants :
         planCache'[j][u] = IF j = i /\ u = t THEN new ELSE planCache[j][u]
  BY <1>2 DEF CachesOK
<1>4. CachesOK'
  BY <1>1, <1>2 DEF CachesOK
<1> QED BY <1>1, <1>3, <1>4 DEF PutIn

\* ... and an invalidation or an eviction one entry.
LEMMA EntryDropped ==
    ASSUME CachesOK,
           NEW i \in Instances, NEW t \in Tenants, NEW p \in Plans,
           planCache' = [planCache EXCEPT ![i][t][p] = NoEntry]
    PROVE  DroppedFrom(i, t, p)
  BY DEF CachesOK, DroppedFrom

-----------------------------------------------------------------------------
(* Types, and where an operation can be.                                   *)

StepsOf(kind) ==
    CASE kind \in {"createPlan", "updatePlan"} -> {"check", "upsert", "put"}
      [] kind = "getPlan" -> {"get", "find", "put"}
      [] kind \in {"deletePlan", "setPlanActive"} -> {"write", "drop"}
      [] kind = "restorePlan" -> {"write", "find", "put"}
      [] kind \in {"createLicense", "updateLicense"} -> {"store", "get", "find", "put", "file"}
      [] kind = "inlineLicense" ->
             {"check", "upsert", "store", "get", "find", "put", "file"}
      [] kind = "refill" -> {"read", "refile"}
      [] kind = "restart" -> {"read", "refile", "list", "put"}

Filing == {"createLicense", "updateLicense", "inlineLicense"}

\* An operation is at a step of its kind and, unless it warms up, works for a
\* tenant and holds at most its own plan and its own license, whose terms have
\* passed the hard rules; it puts what it holds.
Shape(o) ==
    /\ o.step \in StepsOf(o.kind)
    /\ o.kind \notin {"refill", "restart"} \/ o.step = "put" => o.t \in Tenants
    /\ o.kind # "restart" => \A h \in o.held : h[1] = o.p
    /\ o.kind # "restart" /\ o.step = "put" => o.held # {}
    /\ o.step \in {"check", "write", "get", "find"} => o.held = {}
    /\ o.kind \in Filing =>
          \A l \in o.lics : l[1] = o.k /\ l[2].plan = o.p /\ ValidTerms(l[2].terms)

Shaped == \A s \in Slots : Busy(s) => Shape(op[s])

\* The shape of the operations only depends on the one that moves.
LEMMA ShapedMoves ==
    ASSUME Shaped, NEW s \in Slots, NEW q, Moves(s, q), q = Idle \/ Shape(q)
    PROVE  Shaped'
  BY DEF Shaped, Moves, Busy

\* The first step of every kind of operation.
LEMMA ShapeStarts ==
    ASSUME NEW kind \in Kinds, NEW i \in Instances, NEW t \in Tenants \cup {NoTenant},
           NEW p \in Plans, NEW k \in Keys, t = NoTenant <=> kind \in {"refill", "restart"}
    PROVE  LET o == [kind |-> kind, i |-> i, t |-> t, p |-> p, k |-> k,
                     step |-> FirstStep(kind), held |-> {}, lics |-> {},
                     todo |-> IF kind = "restart" THEN Tenants ELSE {}]
           IN  /\ o \in Running /\ Shape(o)
               /\ o.step \in {"check", "get", "write", "store", "read"}
<1> DEFINE o == [kind |-> kind, i |-> i, t |-> t, p |-> p, k |-> k,
                 step |-> FirstStep(kind), held |-> {}, lics |-> {},
                 todo |-> IF kind = "restart" THEN Tenants ELSE {}]
<1>1. kind \in AllKinds
  BY CatalogAssumption
<1>2. /\ FirstStep(kind) \in StepsOf(kind) /\ FirstStep(kind) \in Steps
      /\ FirstStep(kind) \in {"check", "get", "write", "store", "read"}
  BY <1>1 DEF FirstStep, StepsOf, AllKinds, PlanKinds, LicenseKinds, Steps
<1>3. o \in Running
  BY <1>1, <1>2 DEF Running, HeldType, LicsType
<1>4. Shape(o)
  BY <1>2 DEF Shape
<1> QED BY <1>2, <1>3, <1>4

\* The row of p is the tenant's: rows are never removed and keep their tenant.
Owns(t, p) == plans[p] # NoRow /\ plans[p].tenant = t

\* What an operation holds is a content that the row of the plan has had and,
\* unless its ID was used again, the plan of its tenant; what it has checked
\* about the tenant still holds, and the ID of an inline plan is nobody else's.
Granted(o) ==
    /\ \A h \in o.held : h[2] \in hist[h[1]] /\ (h[1] \notin usurped => Owns(o.t, h[1]))
    /\ o.kind = "updatePlan" /\ o.step = "upsert" => Owns(o.t, o.p)
    /\ o.step = "drop" => Owns(o.t, o.p)
    /\ o.kind = "inlineLicense" /\ o.step \in {"check", "upsert"} => plans[o.p] = NoRow

\* The same of the rows and of the entries of the caches.
RowsGranted == \A p \in Plans : plans[p] # NoRow => plans[p].content \in hist[p]
EntriesGranted ==
    \A i \in Instances, t \in Tenants, p \in Plans : planCache[i][t][p] # NoEntry =>
        planCache[i][t][p] \in hist[p] /\ (p \notin usurped => Owns(t, p))

\* p is live and has this content.
IsNow(t, p, c) == Live(t, p) /\ plans[p].content = c

\* What an operation that is alone has checked or is about to put is so in the
\* table, and so is what it files with a license where the plan was written.
Current(o) ==
    /\ o.kind = "updatePlan" /\ o.step = "upsert" => Live(o.t, o.p)
    /\ o.step = "put" => \A h \in o.held : h[1] \notin usurped => IsNow(o.t, h[1], h[2])
    /\ o.step = "file" /\ o.p \notin usurped /\ writer[o.p] = o.i =>
          \A h \in o.held : IsNow(o.t, o.p, h[2])

WriterExact ==
    calm => \A p \in Plans \ usurped : writer[p] # NoInstance =>
        \A t \in Tenants : planCache[writer[p]][t][p] # NoEntry =>
            IsNow(t, p, planCache[writer[p]][t][p])

Queries(s) == Check(s) \/ Get(s) \/ Find(s) \/ StoreFails(s) \/ Read(s) \/ List(s) \/ Fail(s)

\* What holds of an operation after a step that reads.
Fine(q, o) ==
    /\ q \in Running /\ Shape(q) /\ SameRequest(q, o)
    /\ RowsGranted /\ EntriesGranted /\ Granted(o) => Granted(q)
    /\ calm /\ WriterExact => Current(q)

Continues(s) == \E q : Moves(s, q) /\ (q = Idle \/ Fine(q, op[s]))

\* What the type invariant and Shaped say of a busy slot.
LEMMA ShapeOf ==
    ASSUME TypeOK, Shaped, NEW s \in Slots, Busy(s)
    PROVE  /\ op[s] \in Running /\ Shape(op[s])
           /\ op[s].kind \in AllKinds /\ op[s].i \in Instances /\ op[s].p \in Plans
           /\ op[s].k \in Keys /\ op[s].held \in HeldType /\ op[s].lics \in LicsType
           /\ op[s].todo \in SUBSET Tenants /\ op[s].step \in Steps
           /\ op[s].t \in Tenants \cup {NoTenant}
<1>1. op[s] \in Running
  BY OpRuns DEF TypeOK
<1> QED BY <1>1 DEF Running, Shaped

\* A step that reads changes nothing but its operation, which stays in shape
\* and holds what is granted and, if it is alone, what is current.
LEMMA Querying ==
    ASSUME TypeOK, Shaped, NEW s \in Slots, Queries(s)
    PROVE  /\ Busy(s) /\ UNCHANGED <<tables, caches, ops, now, writer, calm, deaf>>
           /\ Continues(s)
<1>1. Busy(s) /\ UNCHANGED <<tables, caches, ops, now, writer, calm, deaf>>
  BY DEF Queries, Check, Get, Find, StoreFails, Read, List, Fail, At
<1>2. op \in [Slots -> OpType]
  BY DEF TypeOK
<1>3. /\ op[s] \in Running /\ Shape(op[s])
      /\ op[s].kind \in AllKinds /\ op[s].i \in Instances /\ op[s].p \in Plans
      /\ op[s].k \in Keys /\ op[s].held \in HeldType /\ op[s].lics \in LicsType
      /\ op[s].todo \in SUBSET Tenants
  BY <1>1, ShapeOf
<1> SUFFICES Continues(s)
  BY <1>1
<1>4. ASSUME End(s) PROVE Continues(s)
  BY <1>2, <1>4, Ends DEF Continues
<1>5. CASE Check(s)
  <2>1. op[s].step = "check"
    BY <1>5 DEF Check, At
  <2>2. CASE GoTo(s, "upsert") /\ (op[s].kind = "updatePlan" => FindByID(op[s].t, op[s].p) # {})
    <3>1. PICK q \in Running :
              /\ Moves(s, q) /\ SameRequest(q, op[s]) /\ q.t = op[s].t
              /\ q.step = "upsert" /\ q.held = op[s].held /\ q.lics = op[s].lics
      BY <1>1, <1>2, <2>2, Goes DEF Steps
    <3>2. op[s].kind = "updatePlan" => Live(op[s].t, op[s].p)
      BY <2>2 DEF FindByID
    <3>3. q.held = {} /\ op[s].kind \in {"createPlan", "updatePlan", "inlineLicense"}
      BY <1>3, <2>1, <3>1 DEF Shape, StepsOf, AllKinds, PlanKinds, LicenseKinds
    <3>4. Shape(q)
      BY <1>3, <3>1, <3>3 DEF Shape, StepsOf, SameRequest
    <3>5. Granted(op[s]) => Granted(q)
      BY <2>1, <3>1, <3>2, <3>3 DEF Granted, Live, Owns, SameRequest
    <3>6. Current(q)
      BY <3>1, <3>2 DEF Current, SameRequest
    <3> QED BY <3>1, <3>4, <3>5, <3>6 DEF Fine, Continues
  <2> QED BY <1>4, <1>5, <2>2 DEF Check
<1>6. CASE Get(s)
  <2> DEFINE entry == planCache[op[s].i][op[s].t][op[s].p]
  <2>1. op[s].step = "get" /\ op[s].held = {}
    BY <1>3, <1>6 DEF Get, At, Shape
  <2>2. op[s].kind \in Filing \cup {"getPlan"} /\ op[s].t \in Tenants
    BY <1>3, <2>1 DEF Shape, StepsOf, AllKinds, PlanKinds, LicenseKinds, Filing
  <2>3. CASE GoTo(s, "find")
    <3>1. PICK q \in Running :
              /\ Moves(s, q) /\ SameRequest(q, op[s]) /\ q.t = op[s].t
              /\ q.step = "find" /\ q.held = op[s].held /\ q.lics = op[s].lics
      BY <1>1, <1>2, <2>3, Goes DEF Steps
    <3>2. Shape(q)
      BY <1>3, <2>1, <2>2, <3>1 DEF Shape, StepsOf, SameRequest, Filing
    <3>3. Granted(q) /\ Current(q)
      BY <2>1, <3>1 DEF Granted, Current
    <3> QED BY <3>1, <3>2, <3>3 DEF Fine, Continues
  <2>4. CASE entry # NoEntry /\ op[s].kind # "getPlan" /\ Hold(s, {<<op[s].p, entry>>}, "file")
    <3>0. entry \in ContentType
      BY <1>3, <2>2, <2>4 DEF TypeOK
    <3> HIDE DEF entry
    <3>1. PICK q \in Running :
              /\ Moves(s, q) /\ SameRequest(q, op[s]) /\ q.t = op[s].t
              /\ q.step = "file" /\ q.held = {<<op[s].p, entry>>} /\ q.lics = op[s].lics
      <4>1. {<<op[s].p, entry>>} \in HeldType
        BY <1>3, <3>0 DEF HeldType
      <4> QED BY <1>1, <1>2, <2>4, <4>1, Holds DEF Steps
    <3>2. Shape(q)
      BY <1>3, <2>2, <2>4, <3>1 DEF Shape, StepsOf, SameRequest, Filing
    <3>3. EntriesGranted => Granted(q)
      <4>1. EntriesGranted => /\ entry \in hist[op[s].p]
                              /\ op[s].p \notin usurped => Owns(op[s].t, op[s].p)
        BY <1>3, <2>2, <2>4 DEF EntriesGranted, entry
      <4> QED BY <3>1, <4>1 DEF Granted
    <3>4. calm /\ WriterExact => Current(q)
      <4>1. SUFFICES ASSUME calm, WriterExact, op[s].p \notin usurped, writer[op[s].p] = op[s].i
                     PROVE  IsNow(op[s].t, op[s].p, entry)
        BY <3>1 DEF Current, SameRequest
      <4>2. writer[op[s].p] # NoInstance
        BY <1>3, <4>1, CatalogAssumption
      <4> QED BY <1>3, <2>2, <2>4, <4>1, <4>2 DEF WriterExact, entry
    <3> QED BY <3>1, <3>2, <3>3, <3>4 DEF Fine, Continues
  <2> QED BY <1>4, <1>6, <2>3, <2>4 DEF Get
<1>7. CASE Find(s)
  <2> DEFINE found == FindByID(op[s].t, op[s].p)
  <2>1. op[s].step = "find" /\ op[s].held = {}
    BY <1>3, <1>7 DEF Find, At, Shape
  <2>2. op[s].kind \in Filing \cup {"getPlan", "restorePlan"} /\ op[s].t \in Tenants
    BY <1>3, <2>1 DEF Shape, StepsOf, AllKinds, PlanKinds, LicenseKinds, Filing
  <2>3. CASE found # {} /\ Hold(s, found, "put")
    <3>1. /\ found \in HeldType
          /\ \A h \in found : h[1] = op[s].p /\ IsNow(op[s].t, op[s].p, h[2])
      BY <1>3, FoundTypes DEF IsNow
    <3> HIDE DEF found
    <3>2. PICK q \in Running :
              /\ Moves(s, q) /\ SameRequest(q, op[s]) /\ q.t = op[s].t
              /\ q.step = "put" /\ q.held = found /\ q.lics = op[s].lics
      BY <1>1, <1>2, <2>3, <3>1, Holds DEF Steps
    <3>3. Shape(q)
      BY <1>3, <2>2, <2>3, <3>1, <3>2 DEF Shape, StepsOf, SameRequest, Filing
    <3>4. RowsGranted => Granted(q)
      BY <1>3, <3>1, <3>2 DEF Granted, RowsGranted, SameRequest, IsNow, Live, Owns
    <3>5. Current(q)
      BY <3>1, <3>2 DEF Current, SameRequest
    <3> QED BY <3>2, <3>3, <3>4, <3>5 DEF Fine, Continues
  <2>4. CASE op[s].kind \notin PlanKinds /\ GoTo(s, "file")
    <3>1. PICK q \in Running :
              /\ Moves(s, q) /\ SameRequest(q, op[s]) /\ q.t = op[s].t
              /\ q.step = "file" /\ q.held = op[s].held /\ q.lics = op[s].lics
      BY <1>1, <1>2, <2>4, Goes DEF Steps
    <3>2. Shape(q)
      BY <1>3, <2>1, <2>2, <2>4, <3>1 DEF Shape, StepsOf, SameRequest, Filing, PlanKinds
    <3>3. Granted(q) /\ Current(q)
      BY <2>1, <3>1 DEF Granted, Current
    <3> QED BY <3>1, <3>2, <3>3 DEF Fine, Continues
  <2> QED BY <1>4, <1>7, <2>3, <2>4 DEF Find
<1>8. CASE StoreFails(s)
  BY <1>4, <1>8 DEF StoreFails
<1>9. CASE Read(s)
  <2> DEFINE wanted == IF op[s].kind = "restart" THEN Keys ELSE {op[s].k}
             lics == {<<k, licenses[k]>> : k \in {x \in wanted : licenses[x] # NoRow}}
  <2>1. op[s].step = "read" /\ ReadIn(s, lics, "refile")
    BY <1>9 DEF Read, At, ReadIn
  <2>2. lics \in LicsType
    BY <1>3 DEF TypeOK, LicsType
  <2> HIDE DEF lics
  <2>3. PICK q \in Running :
            /\ Moves(s, q) /\ SameRequest(q, op[s]) /\ q.t = op[s].t
            /\ q.step = "refile" /\ q.held = op[s].held /\ q.lics = lics
    BY <1>1, <1>2, <2>1, <2>2, Reads DEF Steps
  <2>4. op[s].kind \in {"refill", "restart"}
    BY <1>3, <2>1 DEF Shape, StepsOf, AllKinds, PlanKinds, LicenseKinds
  <2>5. Shape(q)
    BY <1>3, <2>3, <2>4 DEF Shape, StepsOf, SameRequest, Filing
  <2>6. (Granted(op[s]) => Granted(q)) /\ Current(q)
    BY <2>3, <2>4 DEF Granted, Current, SameRequest
  <2> QED BY <2>3, <2>5, <2>6 DEF Fine, Continues
<1>10. CASE List(s)
  <2>1. op[s].step = "list"
    BY <1>10 DEF List, At
  <2>2. op[s].kind = "restart"
    BY <1>3, <2>1 DEF Shape, StepsOf, AllKinds, PlanKinds, LicenseKinds
  <2>3. ASSUME NEW t \in op[s].todo, NEW ok \in BOOLEAN,
               op' = [op EXCEPT ![s].t = t, ![s].todo = @ \ {t},
                                ![s].held = IF ok THEN UNION {FindByID(t, p) : p \in Plans} ELSE {},
                                ![s].step = IF ok THEN "put" ELSE "list"]
        PROVE  Continues(s)
    <3> DEFINE held == IF ok THEN UNION {FindByID(t, p) : p \in Plans} ELSE {}
               st == IF ok THEN "put" ELSE "list"
    <3>1. t \in Tenants
      BY <1>3
    <3>2. \A h \in held : /\ h \in Plans \X ContentType
                          /\ IsNow(t, h[1], h[2])
      <4>1. ASSUME NEW h \in held
            PROVE  /\ h \in Plans \X ContentType
                   /\ IsNow(t, h[1], h[2])
        <5>1. PICK p \in Plans : h \in FindByID(t, p)
          OBVIOUS
        <5> QED BY <5>1, FoundTypes DEF HeldType, IsNow
      <4> QED BY <4>1
    <3>3. held \in HeldType
      BY <3>2 DEF HeldType
    <3>4. st \in Steps /\ st \in {"put", "list"}
      BY DEF Steps
    <3>5. Listed(s, t, held, st)
      BY <2>3 DEF Listed
    <3> HIDE DEF held, st
    <3>6. PICK q \in Running :
              /\ Moves(s, q) /\ SameRequest(q, op[s]) /\ q.t = t
              /\ q.step = st /\ q.held = held /\ q.lics = op[s].lics
      BY <1>1, <1>2, <3>1, <3>3, <3>4, <3>5, Lists
    <3>7. Shape(q)
      BY <2>2, <3>1, <3>4, <3>6 DEF Shape, StepsOf, SameRequest, Filing
    <3>8. RowsGranted => Granted(q)
      BY <2>2, <3>2, <3>4, <3>6 DEF Granted, RowsGranted, SameRequest, IsNow, Live, Owns
    <3>9. Current(q)
      BY <2>2, <3>2, <3>4, <3>6 DEF Current, SameRequest
    <3> QED BY <3>6, <3>7, <3>8, <3>9 DEF Fine, Continues
  <2> QED BY <1>4, <1>10, <2>3 DEF List
<1>11. CASE Fail(s)
  <2>1. CASE op[s].step = "read" /\ op[s].kind = "restart" /\ GoTo(s, "list")
    <3>1. PICK q \in Running :
              /\ Moves(s, q) /\ SameRequest(q, op[s]) /\ q.t = op[s].t
              /\ q.step = "list" /\ q.held = op[s].held /\ q.lics = op[s].lics
      BY <1>1, <1>2, <2>1, Goes DEF Steps
    <3>2. Shape(q)
      BY <1>3, <2>1, <3>1 DEF Shape, StepsOf, SameRequest, Filing
    <3>3. (Granted(op[s]) => Granted(q)) /\ Current(q)
      BY <2>1, <3>1 DEF Granted, Current, SameRequest
    <3> QED BY <3>1, <3>2, <3>3 DEF Fine, Continues
  <2> QED BY <1>4, <1>11, <2>1 DEF Fail
<1> QED BY <1>1, <1>5, <1>6, <1>7, <1>8, <1>9, <1>10, <1>11 DEF Queries

-----------------------------------------------------------------------------
(* The steps that write.                                                   *)

\* The row of p becomes row.
LEMMA RowsSet ==
    ASSUME TypeOK, NEW p \in Plans, NEW row \in PlanType, SetRow(p, row)
    PROVE  /\ plans' \in [Plans -> PlanType \cup {NoRow}] /\ plans'[p] = row /\ row # NoRow
           /\ hist' \in [Plans -> SUBSET ContentType] /\ hist'[p] = hist[p] \cup {row.content}
           /\ writer' \in [Plans -> Instances \cup {NoInstance}] /\ writer'[p] = NoInstance
           /\ \A x \in Plans \ {p} :
                 plans'[x] = plans[x] /\ hist'[x] = hist[x] /\ writer'[x] = writer[x]
<1>1. row.content \in ContentType /\ row # NoRow
  BY CatalogAssumption DEF PlanType
<1> QED BY <1>1 DEF SetRow, TypeOK

\* The operation goes on after its row is written.
Resumes(s, row, q) ==
    /\ q \in Running /\ Shape(q) /\ SameRequest(q, op[s]) /\ q.t = op[s].t
    /\ \A h \in q.held : h = <<op[s].p, row.content>>
    /\ \/ op[s].step = "upsert" /\ q.step = "put"
       \/ op[s].step = "write" /\ q.step \in {"drop", "find"}

\* What Upsert and Write put into the table, and what the operation goes on
\* with, or ends when the answer is lost.
RowWritten(s, row, q) ==
    LET p == op[s].p
    IN  /\ SetRow(p, row) /\ row \in PlanType
        /\ plans[p] # NoRow => row.tenant = plans[p].tenant
        /\ plans[p] = NoRow => row.tenant = op[s].t /\ ~row.deleted
        /\ \/ /\ op[s].step = "upsert"
              /\ plans[p] # NoRow => row.deleted = plans[p].deleted
              /\ usurped' = IF op[s].kind = "createPlan" /\ plans[p] # NoRow
                            THEN usurped \cup {p} ELSE usurped
           \/ op[s].step = "write" /\ Owns(op[s].t, p) /\ usurped' = usurped
        /\ q = Idle \/ Resumes(s, row, q)

\* planRepo.Upsert of createPlan, updatePlan and an inline plan.
LEMMA Upserting ==
    ASSUME TypeOK, Shaped, NEW s \in Slots, Upsert(s)
    PROVE  /\ Busy(s) /\ UNCHANGED <<licenses, caches, ops, now, calm, deaf>>
           /\ \E row, q : Moves(s, q) /\ RowWritten(s, row, q)
<1>1. Busy(s) /\ op[s].step = "upsert" /\ UNCHANGED <<licenses, caches, ops, now, calm, deaf>>
  BY DEF Upsert, At
<1>2. /\ op[s] \in Running /\ Shape(op[s]) /\ op[s].kind \in AllKinds
      /\ op[s].p \in Plans /\ op[s].held \in HeldType
  BY <1>1, ShapeOf
<1>3. op[s].kind \in {"createPlan", "updatePlan", "inlineLicense"} /\ op[s].t \in Tenants
  BY <1>1, <1>2 DEF Shape, StepsOf, AllKinds, PlanKinds, LicenseKinds
<1>4. PICK c \in Contents : /\ SetRow(op[s].p, Upserted(op[s].t, op[s].p, c))
                            /\ Hold(s, {<<op[s].p, c>>}, "put") \/ End(s)
  BY DEF Upsert, AnswerLost
<1> DEFINE row == Upserted(op[s].t, op[s].p, c)
<1>5. c \in ContentType /\ {<<op[s].p, c>>} \in HeldType
  BY <1>2, CatalogAssumption DEF HeldType
<1>6. /\ row \in PlanType /\ row.content = c
      /\ plans[op[s].p] # NoRow =>
            row.tenant = plans[op[s].p].tenant /\ row.deleted = plans[op[s].p].deleted
      /\ plans[op[s].p] = NoRow => row.tenant = op[s].t /\ ~row.deleted
  <2>1. CASE plans[op[s].p] = NoRow
    BY <1>3, <1>5, <2>1 DEF Upserted, PlanType
  <2>2. CASE plans[op[s].p] # NoRow
    <3>1. plans[op[s].p] \in PlanType
      BY <1>2, <2>2 DEF TypeOK
    <3> QED BY <1>5, <2>2, <3>1 DEF Upserted, PlanType
  <2> QED BY <2>1, <2>2
<1>7. usurped' = IF op[s].kind = "createPlan" /\ plans[op[s].p] # NoRow
                 THEN usurped \cup {op[s].p} ELSE usurped
  BY DEF Upsert
<1>8. SetRow(op[s].p, row)
  BY <1>4
<1>9. \E q : Moves(s, q) /\ (q = Idle \/ Resumes(s, row, q))
  <2>1. CASE Hold(s, {<<op[s].p, c>>}, "put")
    <3>1. PICK q \in Running :
              /\ Moves(s, q) /\ SameRequest(q, op[s]) /\ q.t = op[s].t
              /\ q.step = "put" /\ q.held = {<<op[s].p, c>>} /\ q.lics = op[s].lics
      BY <1>1, <1>5, <2>1, Holds DEF Steps, TypeOK
    <3>2. Shape(q)
      BY <1>2, <1>3, <3>1 DEF Shape, StepsOf, SameRequest, Filing
    <3> HIDE DEF row
    <3>3. Resumes(s, row, q)
      BY <1>1, <1>6, <3>1, <3>2 DEF Resumes
    <3> QED BY <3>1, <3>3
  <2>2. CASE End(s)
    BY <1>1, <2>2, Ends DEF TypeOK
  <2> QED BY <1>4, <2>1, <2>2
<1> HIDE DEF row
<1>10. PICK q : Moves(s, q) /\ (q = Idle \/ Resumes(s, row, q))
  BY <1>9
<1>11. RowWritten(s, row, q)
  BY <1>1, <1>6, <1>7, <1>8, <1>10 DEF RowWritten
<1> QED BY <1>1, <1>10, <1>11

\* planRepo.Delete, SetActive and Restore.
LEMMA RowWriting ==
    ASSUME TypeOK, Shaped, NEW s \in Slots, Write(s)
    PROVE  /\ Busy(s) /\ UNCHANGED <<licenses, caches, ops, now, calm, deaf>>
           /\ \/ Moves(s, Idle) /\ UNCHANGED <<plans, hist, writer, usurped>>
              \/ \E row, q : Moves(s, q) /\ RowWritten(s, row, q)
<1>1. Busy(s) /\ op[s].step = "write" /\ UNCHANGED <<licenses, usurped, caches, ops, now, calm, deaf>>
  BY DEF Write, At
<1>2. /\ op[s] \in Running /\ Shape(op[s]) /\ op[s].kind \in AllKinds
      /\ op[s].p \in Plans /\ op[s].held = {}
  BY <1>1, ShapeOf DEF Shape
<1>3. op[s].t \in Tenants
  BY <1>1, <1>2 DEF Shape, StepsOf, AllKinds, PlanKinds, LicenseKinds
<1> DEFINE p == op[s].p
<1>4. ASSUME Owns(op[s].t, p), NEW row \in PlanType, SetRow(p, row), row.tenant = plans[p].tenant,
             NEW st \in {"drop", "find"}, GoTo(s, st) \/ AnswerLost(s),
             st \in StepsOf(op[s].kind)
      PROVE  \E x, q : Moves(s, q) /\ RowWritten(s, x, q)
  <2>1. \E q : Moves(s, q) /\ (q = Idle \/ Resumes(s, row, q))
    <3>1. CASE GoTo(s, st)
      <4>1. PICK q \in Running :
                /\ Moves(s, q) /\ SameRequest(q, op[s]) /\ q.t = op[s].t
                /\ q.step = st /\ q.held = op[s].held /\ q.lics = op[s].lics
        BY <1>1, <3>1, Goes DEF Steps, TypeOK
      <4>2. Shape(q)
        BY <1>2, <1>3, <1>4, <4>1 DEF Shape, SameRequest, Filing
      <4>3. Resumes(s, row, q)
        BY <1>1, <1>2, <4>1, <4>2 DEF Resumes
      <4> QED BY <4>1, <4>3
    <3>2. CASE AnswerLost(s)
      BY <1>1, <3>2, Ends DEF TypeOK, AnswerLost
    <3> QED BY <1>4, <3>1, <3>2
  <2>2. PICK q : Moves(s, q) /\ (q = Idle \/ Resumes(s, row, q))
    BY <2>1
  <2>3. RowWritten(s, row, q)
    BY <1>1, <1>4, <2>2 DEF RowWritten, Owns
  <2> QED BY <2>2, <2>3
<1>5. ASSUME Live(op[s].t, p) \/ (plans[p] # NoRow /\ plans[p].tenant = op[s].t)
      PROVE  /\ Owns(op[s].t, p) /\ plans[p] \in PlanType
             /\ \A b \in BOOLEAN : /\ [plans[p] EXCEPT !.deleted = b] \in PlanType
                                   /\ [plans[p] EXCEPT !.deleted = b].tenant = plans[p].tenant
             /\ \A b \in BOOLEAN : /\ [plans[p] EXCEPT !.content.active = b] \in PlanType
                                   /\ [plans[p] EXCEPT !.content.active = b].tenant = plans[p].tenant
  <2>1. Owns(op[s].t, p) /\ plans[p] \in PlanType
    BY <1>2, <1>5 DEF Owns, Live, TypeOK
  <2> QED BY <2>1 DEF PlanType, ContentType
<1>6. CASE op[s].kind = "deletePlan" /\ Live(op[s].t, p)
           /\ SetRow(p, [plans[p] EXCEPT !.deleted = TRUE])
           /\ (GoTo(s, "drop") \/ AnswerLost(s))
  BY <1>1, <1>4, <1>5, <1>6 DEF StepsOf
<1>7. CASE op[s].kind = "setPlanActive" /\ Live(op[s].t, p)
           /\ (\E b \in BOOLEAN : SetRow(p, [plans[p] EXCEPT !.content.active = b]))
           /\ (GoTo(s, "drop") \/ AnswerLost(s))
  BY <1>1, <1>4, <1>5, <1>7 DEF StepsOf
<1>8. CASE op[s].kind = "restorePlan" /\ plans[p] # NoRow /\ plans[p].tenant = op[s].t
           /\ SetRow(p, [plans[p] EXCEPT !.deleted = FALSE])
           /\ (GoTo(s, "find") \/ AnswerLost(s))
  BY <1>1, <1>4, <1>5, <1>8 DEF StepsOf
<1>9. CASE End(s) /\ UNCHANGED <<plans, hist, writer>>
  BY <1>1, <1>9, Ends DEF TypeOK
<1> QED BY <1>6, <1>7, <1>8, <1>9 DEF Write

\* PlanStore.Set.
LEMMA Putting ==
    ASSUME TypeOK, Shaped, NEW s \in Slots, Put(s)
    PROVE  /\ Busy(s) /\ op[s].step = "put" /\ op[s].t \in Tenants
           /\ UNCHANGED <<tables, licCache, notices, ops, now, calm, deaf>>
           /\ planCache' = [planCache EXCEPT ![op[s].i][op[s].t] = Filed(op[s].held, @)]
           /\ \/ writer' = writer
              \/ op[s].kind # "restart" /\ writer' = [writer EXCEPT ![op[s].p] = op[s].i]
           /\ \E q : /\ Moves(s, q)
                     /\ \/ q = Idle
                        \/ /\ q \in Running /\ Shape(q) /\ SameRequest(q, op[s])
                           /\ q.t = op[s].t /\ q.held = op[s].held
                           /\ q.step \in {"store", "file", "list"}
<1>1. /\ Busy(s) /\ op[s].step = "put"
      /\ UNCHANGED <<tables, licCache, notices, ops, now, calm, deaf>>
      /\ planCache' = [planCache EXCEPT ![op[s].i][op[s].t] = Filed(op[s].held, @)]
      /\ \/ writer' = writer
         \/ op[s].kind # "restart" /\ writer' = [writer EXCEPT ![op[s].p] = op[s].i]
  BY DEF Put, At, Wrote
<1>2. /\ op[s] \in Running /\ Shape(op[s]) /\ op[s].kind \in AllKinds /\ op[s].t \in Tenants
  BY <1>1, ShapeOf DEF Shape
<1> DEFINE Next1 == \E q : /\ Moves(s, q)
                           /\ \/ q = Idle
                              \/ /\ q \in Running /\ Shape(q) /\ SameRequest(q, op[s])
                                 /\ q.t = op[s].t /\ q.held = op[s].held
                                 /\ q.step \in {"store", "file", "list"}
<1>3. ASSUME NEW st \in {"store", "file", "list"}, GoTo(s, st), st \in StepsOf(op[s].kind)
      PROVE  Next1
  <2>0. st \in Steps
    BY <1>3 DEF Steps
  <2>1. PICK q \in Running :
            /\ Moves(s, q) /\ SameRequest(q, op[s]) /\ q.t = op[s].t
            /\ q.step = st /\ q.held = op[s].held /\ q.lics = op[s].lics
    BY <1>1, <1>3, <2>0, Goes DEF TypeOK
  <2>2. Shape(q)
    BY <1>2, <1>3, <2>1 DEF Shape, SameRequest, Filing
  <2> QED BY <2>1, <2>2
<1>4. ASSUME End(s) PROVE Next1
  BY <1>4, Ends DEF TypeOK
<1> HIDE DEF Next1
<1>5. CASE op[s].kind = "inlineLicense" /\ op[s].lics = {} /\ GoTo(s, "store")
  BY <1>1, <1>2, <1>3, <1>5 DEF StepsOf, Next1
<1>6. CASE op[s].kind \in LicenseKinds /\ op[s].lics # {} /\ GoTo(s, "file")
  <2>1. "file" \in StepsOf(op[s].kind)
    BY <1>1, <1>2, <1>6 DEF Shape, StepsOf, LicenseKinds
  <2> QED BY <1>1, <1>2, <1>3, <1>6, <2>1 DEF Next1
<1>7. CASE op[s].kind = "restart" /\ GoTo(s, "list")
  BY <1>1, <1>2, <1>3, <1>7 DEF StepsOf, Next1
<1>8. CASE End(s)
  BY <1>1, <1>2, <1>4, <1>8 DEF Next1
<1> QED BY <1>5, <1>6, <1>7, <1>8 DEF Put

\* PlanStore.Invalidate.
LEMMA Dropping ==
    ASSUME TypeOK, Shaped, NEW s \in Slots, Drop(s)
    PROVE  /\ Busy(s) /\ op[s].step = "drop" /\ op[s].t \in Tenants
           /\ UNCHANGED <<tables, licCache, ops, now, calm, deaf>> /\ Moves(s, Idle)
           /\ planCache' = [planCache EXCEPT ![op[s].i][op[s].t][op[s].p] = NoEntry]
           /\ notices' = notices \cup (Instances \X {op[s].t} \X {op[s].p})
           /\ writer' = [writer EXCEPT ![op[s].p] = op[s].i]
<1>1. Busy(s) /\ op[s].step = "drop" /\ End(s)
  BY DEF Drop, At
<1>2. Shape(op[s]) /\ op[s].kind \in AllKinds
  BY <1>1, ShapeOf
<1>3. op[s].kind \in {"deletePlan", "setPlanActive"} /\ op[s].t \in Tenants
  BY <1>1, <1>2 DEF Shape, StepsOf, AllKinds, PlanKinds, LicenseKinds
<1>4. Moves(s, Idle)
  BY <1>1, Ends DEF TypeOK
<1> QED BY <1>1, <1>3, <1>4 DEF Drop, Wrote

\* The operation goes on after the license is stored.
LooksUp(s, q) ==
    /\ q \in Running /\ Shape(q) /\ SameRequest(q, op[s])
    /\ q.held = {} /\ q.step \in {"get", "file"}

\* licenseRepo.Create and Update.
LEMMA Storing ==
    ASSUME TypeOK, Shaped, NEW s \in Slots, Store(s)
    PROVE  /\ Busy(s) /\ UNCHANGED <<plans, hist, usurped, caches, ops, now, writer, calm, deaf>>
           /\ licenses' \in [Keys -> LicenseType \cup {NoRow}]
           /\ \E q : Moves(s, q) /\ (q = Idle \/ LooksUp(s, q))
<1>1. /\ Busy(s) /\ op[s].step = "store"
      /\ UNCHANGED <<plans, hist, usurped, caches, ops, now, writer, calm, deaf>>
  BY DEF Store, At
<1>2. /\ op[s] \in Running /\ Shape(op[s]) /\ op[s].kind \in AllKinds
      /\ op[s].p \in Plans /\ op[s].k \in Keys
  BY <1>1, ShapeOf
<1>3. op[s].kind \in Filing /\ op[s].t \in Tenants
  BY <1>1, <1>2 DEF Shape, StepsOf, AllKinds, PlanKinds, LicenseKinds, Filing
<1>4. PICK l \in {x \in Terms : ValidTerms(x)} :
          LET row == [tenant |-> op[s].t, plan |-> op[s].p, terms |-> l]
          IN  /\ licenses' = [licenses EXCEPT ![op[s].k] = row] \/ licenses' = licenses
              /\ \/ Stored(s, {<<op[s].k, row>>}, IF l.type = "plan" THEN "get" ELSE "file")
                 \/ End(s)
  BY DEF Store, Stored, AnswerLost
<1> DEFINE row == [tenant |-> op[s].t, plan |-> op[s].p, terms |-> l]
           st == IF l.type = "plan" THEN "get" ELSE "file"
<1>5. row \in LicenseType /\ row.plan = op[s].p /\ ValidTerms(row.terms)
  BY <1>2, <1>3, <1>4, CatalogAssumption DEF LicenseType
<1>6. /\ licenses' = [licenses EXCEPT ![op[s].k] = row] \/ licenses' = licenses
      /\ Stored(s, {<<op[s].k, row>>}, st) \/ End(s)
  BY <1>4
<1>7. st \in {"get", "file"} /\ st \in Steps
  BY DEF Steps
<1> HIDE DEF row, st
<1>8. {<<op[s].k, row>>} \in LicsType
  BY <1>2, <1>5 DEF LicsType
<1>9. ASSUME Stored(s, {<<op[s].k, row>>}, st)
      PROVE  \E q : Moves(s, q) /\ LooksUp(s, q)
  <2>1. op \in [Slots -> OpType]
    BY DEF TypeOK
  <2>2. PICK q \in Running :
            /\ Moves(s, q) /\ SameRequest(q, op[s]) /\ q.t = op[s].t
            /\ q.step = st /\ q.held = {} /\ q.lics = {<<op[s].k, row>>}
    BY <1>1, <1>7, <1>8, <1>9, <2>1, Stores
  <2>3. q.step \in StepsOf(q.kind)
    BY <1>3, <1>7, <2>2 DEF StepsOf, SameRequest, Filing
  <2>4. Shape(q)
    BY <1>3, <1>5, <1>7, <2>2, <2>3 DEF Shape, SameRequest, Filing
  <2> QED BY <1>7, <2>2, <2>4 DEF LooksUp
<1>10. ASSUME End(s) PROVE Moves(s, Idle)
  BY <1>1, <1>10, Ends DEF TypeOK
<1>11. licenses' \in [Keys -> LicenseType \cup {NoRow}]
  BY <1>2, <1>5, <1>6 DEF TypeOK
<1> QED BY <1>1, <1>6, <1>9, <1>10, <1>11

\* The plan that an operation holds, if it holds one.
LEMMA ThePlanIsHeld ==
    ASSUME NEW s \in Slots, op[s].held \in HeldType
    PROVE  \/ ThePlan(s) = NoRow /\ op[s].held = {}
           \/ \E h \in op[s].held : ThePlan(s) = h[2] /\ h[2] \in ContentType
<1>1. CASE op[s].held # {}
  <2> DEFINE g == CHOOSE h \in op[s].held : TRUE
  <2>1. g \in op[s].held
    BY <1>1
  <2>2. ThePlan(s) = g[2]
    BY <1>1 DEF ThePlan
  <2> QED BY <2>1, <2>2 DEF HeldType
<1> QED BY <1>1 DEF ThePlan

\* licCache.Set with the license of the request.
LEMMA Filings ==
    ASSUME TypeOK, Shaped, NEW s \in Slots, File(s)
    PROVE  /\ Busy(s) /\ op[s].step = "file" /\ op[s].kind \in Filing /\ op[s].t \in Tenants
           /\ UNCHANGED <<tables, planCache, notices, ops, now, writer, calm, deaf>>
           /\ Moves(s, Idle)
           /\ licCache' \in [Instances -> [Keys -> CachedType \cup {NoEntry}]]
           /\ \E l \in op[s].lics :
                 /\ l[1] = op[s].k /\ l[2].plan = op[s].p /\ ValidTerms(l[2].terms)
                 /\ l[2] \in LicenseType
                 /\ licCache'[op[s].i][op[s].k] = Resolved(l[2], ThePlan(s))
           /\ \A j \in Instances, k \in Keys :
                 j # op[s].i \/ k # op[s].k => licCache'[j][k] = licCache[j][k]
<1>1. /\ Busy(s) /\ op[s].step = "file" /\ End(s)
      /\ UNCHANGED <<tables, planCache, notices, ops, now, writer, calm, deaf>>
  BY DEF File, At
<1>2. /\ Shape(op[s]) /\ op[s].kind \in AllKinds /\ op[s].i \in Instances /\ op[s].k \in Keys
      /\ op[s].held \in HeldType /\ op[s].lics \in LicsType
  BY <1>1, ShapeOf
<1>3. op[s].kind \in Filing /\ op[s].t \in Tenants
  BY <1>1, <1>2 DEF Shape, StepsOf, AllKinds, PlanKinds, LicenseKinds, Filing
<1>4. PICK l \in op[s].lics :
          licCache' = [licCache EXCEPT ![op[s].i][l[1]] = Resolved(l[2], ThePlan(s))]
  BY DEF File
<1>5. /\ l[1] = op[s].k /\ l[2].plan = op[s].p /\ ValidTerms(l[2].terms)
      /\ l[2] \in LicenseType
  BY <1>2, <1>3 DEF Shape, LicsType
<1>6. ThePlan(s) \in ContentType \cup {NoRow}
  BY <1>2, ThePlanIsHeld
<1>7. Resolved(l[2], ThePlan(s)) \in CachedType
  BY <1>5, <1>6, ResolvedTypes
<1>8. Moves(s, Idle)
  BY <1>1, Ends DEF TypeOK
<1>9. /\ licCache' \in [Instances -> [Keys -> CachedType \cup {NoEntry}]]
      /\ licCache'[op[s].i][op[s].k] = Resolved(l[2], ThePlan(s))
      /\ \A j \in Instances, k \in Keys :
            j # op[s].i \/ k # op[s].k => licCache'[j][k] = licCache[j][k]
  BY <1>2, <1>4, <1>5, <1>7 DEF TypeOK
<1> QED BY <1>1, <1>3, <1>5, <1>8, <1>9

\* licCache.Set with the licenses as read.
LEMMA Refiling ==
    ASSUME TypeOK, Shaped, NEW s \in Slots, Refile(s)
    PROVE  /\ Busy(s) /\ UNCHANGED <<tables, planCache, notices, ops, now, writer, calm, deaf>>
           /\ licCache' \in [Instances -> [Keys -> CachedType \cup {NoEntry}]]
           /\ \A j \in Instances, k \in Keys :
                 \/ licCache'[j][k] = licCache[j][k]
                 \/ \E row \in LicenseType : licCache'[j][k] = AsRead(row)
           /\ \E q : /\ Moves(s, q)
                     /\ \/ q = Idle
                        \/ /\ q \in Running /\ Shape(q) /\ SameRequest(q, op[s])
                           /\ q.t = op[s].t /\ q.held = op[s].held /\ q.step = "list"
<1>1. /\ Busy(s) /\ op[s].step = "refile"
      /\ UNCHANGED <<tables, planCache, notices, ops, now, writer, calm, deaf>>
  BY DEF Refile, At
<1>2. /\ op[s] \in Running /\ Shape(op[s]) /\ op[s].i \in Instances /\ op[s].lics \in LicsType
  BY <1>1, ShapeOf
<1> DEFINE Read1(k) == \E l \in op[s].lics : l[1] = k
           Row(k) == (CHOOSE l \in op[s].lics : l[1] = k)[2]
           new == [k \in Keys |-> IF Read1(k) THEN AsRead(Row(k)) ELSE licCache[op[s].i][k]]
<1>3. \A k \in Keys : Read1(k) => Row(k) \in LicenseType
  <2>1. ASSUME NEW k \in Keys, Read1(k) PROVE Row(k) \in LicenseType
    <3> DEFINE g == CHOOSE l \in op[s].lics : l[1] = k
    <3>1. g \in op[s].lics
      BY <2>1
    <3> QED BY <1>2, <3>1 DEF LicsType
  <2> QED BY <2>1
<1>4. licCache' = [licCache EXCEPT ![op[s].i] = new]
  BY DEF Refile
<1> HIDE DEF Row, Read1
<1>5. \A k \in Keys : \/ new[k] = licCache[op[s].i][k]
                      \/ \E row \in LicenseType : new[k] = AsRead(row)
  BY <1>3
<1>6. new = [k \in Keys |-> new[k]]
  OBVIOUS
<1> HIDE DEF new
<1>7. new \in [Keys -> CachedType \cup {NoEntry}]
  <2>1. \A k \in Keys : licCache[op[s].i][k] \in CachedType \cup {NoEntry}
    BY <1>2 DEF TypeOK
  <2>2. \A k \in Keys : new[k] \in CachedType \cup {NoEntry}
    BY <1>5, <2>1, AsReadTypes
  <2> QED BY <1>6, <2>2
<1>8. /\ licCache' \in [Instances -> [Keys -> CachedType \cup {NoEntry}]]
      /\ \A j \in Instances, k \in Keys :
            \/ licCache'[j][k] = licCache[j][k]
            \/ \E row \in LicenseType : licCache'[j][k] = AsRead(row)
  BY <1>2, <1>4, <1>5, <1>7 DEF TypeOK
<1>9. CASE op[s].kind = "restart" /\ GoTo(s, "list")
  <2>1. PICK q \in Running :
            /\ Moves(s, q) /\ SameRequest(q, op[s]) /\ q.t = op[s].t
            /\ q.step = "list" /\ q.held = op[s].held /\ q.lics = op[s].lics
    BY <1>1, <1>9, Goes DEF Steps, TypeOK
  <2>2. Shape(q)
    BY <1>9, <2>1 DEF Shape, StepsOf, SameRequest, Filing
  <2> QED BY <1>1, <1>8, <2>1, <2>2
<1>10. CASE End(s)
  BY <1>1, <1>8, <1>10, Ends DEF TypeOK
<1> QED BY <1>9, <1>10 DEF Refile

-----------------------------------------------------------------------------
(* What is granted stays granted.                                          *)

\* The ID of an inline plan is in no other request.
InlineApart ==
    \A s, r \in Slots : s # r /\ Busy(s) /\ Busy(r) /\ op[s].kind = "inlineLicense" =>
        op[r].p # op[s].p

AllGranted == \A s \in Slots : Busy(s) => Granted(op[s])

\* The tables only grow: rows stay and keep their tenant.
Grows ==
    /\ \A p \in Plans : hist[p] \subseteq hist'[p]
    /\ usurped \subseteq usurped'
    /\ \A p \in Plans : plans[p] # NoRow =>
          plans'[p] # NoRow /\ plans'[p].tenant = plans[p].tenant

\* What an operation holds stays granted as the tables grow ...
LEMMA GrantedStays ==
    ASSUME NEW o \in Running, Granted(o), Grows,
           o.kind = "inlineLicense" /\ o.step \in {"check", "upsert"} => plans'[o.p] = plans[o.p]
    PROVE  Granted(o)'
<1>1. o.p \in Plans /\ \A h \in o.held : h[1] \in Plans
  BY DEF Running, HeldType
<1> QED BY <1>1 DEF Granted, Grows, Owns

\* ... and so do entries, unless they go.
LEMMA EntriesStay ==
    ASSUME EntriesGranted, Grows,
           \A i \in Instances, t \in Tenants, p \in Plans :
              planCache'[i][t][p] \in {planCache[i][t][p], NoEntry}
    PROVE  EntriesGranted'
  BY DEF EntriesGranted, Grows, Owns

\* The slots after a step of s that leaves the rows of other plans alone.
LEMMA SlotsStay ==
    ASSUME TypeOK, InlineApart, AllGranted, Grows, NEW s \in Slots, Busy(s), NEW q, Moves(s, q),
           q = Idle \/ (SameRequest(q, op[s]) /\ Granted(q)'),
           \A x \in Plans : x # op[s].p => plans'[x] = plans[x]
    PROVE  InlineApart' /\ AllGranted'
<1>1. ASSUME NEW r \in Slots, r # s, Busy(r)
      PROVE  Granted(op[r])'
  <2> DEFINE o == op[r]
  <2>1. o \in Running /\ o.p \in Plans
    BY <1>1, OpRuns DEF TypeOK, Running
  <2>2. o.kind = "inlineLicense" => plans'[o.p] = plans[o.p]
    BY <1>1, <2>1 DEF InlineApart
  <2>3. Granted(op[r])
    BY <1>1 DEF AllGranted
  <2>4. PICK x : x = op[r]
    OBVIOUS
  <2>5. Granted(x)'
    BY <2>1, <2>2, <2>3, <2>4, GrantedStays
  <2>6. x = op'[r]
    BY <1>1, <2>4 DEF Moves
  <2> QED BY <2>5, <2>6
<1>2. ASSUME q # Idle PROVE Granted(op[s])'
  BY <1>2 DEF Moves
<1>3. AllGranted'
  BY <1>1, <1>2 DEF AllGranted, Busy, Moves
<1>4. InlineApart'
  BY DEF InlineApart, Busy, Moves, SameRequest
<1> QED BY <1>3, <1>4

\* What the type invariant says of the state without the slots.
WorldOK ==
    /\ plans \in [Plans -> PlanType \cup {NoRow}]
    /\ licenses \in [Keys -> LicenseType \cup {NoRow}]
    /\ planCache \in [Instances -> [Tenants -> [Plans -> ContentType \cup {NoEntry}]]]
    /\ licCache \in [Instances -> [Keys -> CachedType \cup {NoEntry}]]
    /\ notices \in SUBSET (Instances \X Tenants \X Plans)
    /\ ops \in 0 .. MaxOps
    /\ now \in 0 .. MaxNow
    /\ hist \in [Plans -> SUBSET ContentType]
    /\ writer \in [Plans -> Instances \cup {NoInstance}]
    /\ usurped \in SUBSET Plans
    /\ calm \in BOOLEAN
    /\ deaf \in SUBSET Instances

\* What a step of an operation does to the tables, the plan caches and its slot.
Granting(s, q) ==
    /\ Moves(s, q) /\ WorldOK' /\ Grows /\ RowsGranted' /\ EntriesGranted'
    /\ q = Idle \/ (q \in Running /\ Shape(q) /\ SameRequest(q, op[s]) /\ Granted(q)')
    /\ \A x \in Plans : x # op[s].p => plans'[x] = plans[x]

Catalog == TypeOK /\ Shaped /\ InlineApart /\ AllGranted /\ RowsGranted /\ EntriesGranted

\* The invariant after such a step.
LEMMA CatalogAfterAStep ==
    ASSUME Catalog, NEW s \in Slots, Busy(s), NEW q, Granting(s, q)
    PROVE  Catalog'
<1>1. op' \in [Slots -> OpType] /\ WorldOK'
  BY DEF Granting, Moves
<1>2. TypeOK'
  BY <1>1 DEF TypeOK, WorldOK
<1>3. Shaped'
  BY ShapedMoves DEF Granting, Catalog
<1>4. InlineApart' /\ AllGranted'
  BY SlotsStay DEF Granting, Catalog
<1> QED BY <1>2, <1>3, <1>4 DEF Catalog, Granting

\* Nothing of the tables and of the plan caches changes.
LEMMA TablesSame ==
    ASSUME RowsGranted, EntriesGranted, plans' = plans, hist' = hist, usurped' = usurped,
           planCache' = planCache
    PROVE  Grows /\ RowsGranted' /\ EntriesGranted'
  BY DEF Grows, RowsGranted, EntriesGranted, Owns

\* Steps that read.
LEMMA GrantsInQueries ==
    ASSUME Catalog, NEW s \in Slots, Queries(s)
    PROVE  \E q : Granting(s, q)
<1>1. /\ Busy(s) /\ UNCHANGED <<tables, caches, ops, now, writer, calm, deaf>>
      /\ Continues(s)
  BY Querying DEF Catalog
<1>2. PICK q : Moves(s, q) /\ (q = Idle \/ Fine(q, op[s]))
  BY <1>1 DEF Continues
<1>3. Grows /\ RowsGranted' /\ EntriesGranted'
  BY <1>1, TablesSame DEF Catalog, tables, caches
<1>4. WorldOK'
  BY <1>1 DEF Catalog, TypeOK, WorldOK, tables, caches
<1>5. q # Idle => Granted(q)'
  <2>1. q # Idle => Granted(q)
    BY <1>1, <1>2 DEF Fine, Catalog, AllGranted
  <2> QED BY <1>1, <2>1 DEF Granted, Owns, tables
<1>6. \A x \in Plans : x # op[s].p => plans'[x] = plans[x]
  BY <1>1 DEF tables
<1>7. q = Idle \/ (q \in Running /\ Shape(q) /\ SameRequest(q, op[s]) /\ Granted(q)')
  BY <1>2, <1>5 DEF Fine
<1> QED BY <1>2, <1>3, <1>4, <1>6, <1>7 DEF Granting

\* Upsert and Write: the new content of the row enters its history, and only a
\* createPlan under a taken ID can leave the row with another tenant.
LEMMA GrantsInRows ==
    ASSUME Catalog, NEW s \in Slots, Busy(s), NEW row, NEW q, Moves(s, q), RowWritten(s, row, q),
           UNCHANGED <<licenses, caches, ops, now, calm, deaf>>
    PROVE  Granting(s, q)
<1>0. PICK p : p = op[s].p
  OBVIOUS
<1>1. /\ TypeOK /\ Granted(op[s]) /\ p \in Plans /\ Shape(op[s]) /\ op[s].kind \in AllKinds
  BY <1>0, ShapeOf DEF Catalog, AllGranted
<1>2. /\ plans' \in [Plans -> PlanType \cup {NoRow}] /\ plans'[p] = row /\ row # NoRow
      /\ hist' \in [Plans -> SUBSET ContentType] /\ hist'[p] = hist[p] \cup {row.content}
      /\ writer' \in [Plans -> Instances \cup {NoInstance}] /\ writer'[p] = NoInstance
      /\ \A x \in Plans \ {p} :
            plans'[x] = plans[x] /\ hist'[x] = hist[x] /\ writer'[x] = writer[x]
  BY <1>0, <1>1, RowsSet DEF RowWritten
<1>3. usurped \subseteq usurped' /\ usurped' \in SUBSET Plans
  BY <1>0, <1>1 DEF RowWritten, TypeOK
<1>4. WorldOK'
  BY <1>1, <1>2, <1>3 DEF WorldOK, TypeOK, caches
<1>5. Grows
  BY <1>0, <1>2, <1>3 DEF Grows, RowWritten
<1>6. RowsGranted'
  BY <1>1, <1>2 DEF RowsGranted, Catalog
<1>7. EntriesGranted'
  BY <1>5, EntriesStay DEF Catalog, caches
<1>8. ASSUME q # Idle PROVE Granted(q)'
  <2>0. Resumes(s, row, q)
    BY <1>8 DEF RowWritten
  <2>1. \A h \in q.held : h[1] = p /\ h[2] \in hist'[p]
    BY <1>0, <1>2, <2>0 DEF Resumes
  <2>2. q.held # {} /\ q.step = "put" /\ p \notin usurped' => Owns(q.t, p)'
    <3>1. SUFFICES ASSUME q.step = "put", p \notin usurped' PROVE row.tenant = op[s].t
      BY <1>0, <1>2, <2>0 DEF Resumes, Owns
    <3>2. CASE plans[p] = NoRow
      BY <1>0, <3>2 DEF RowWritten
    <3>3. CASE plans[p] # NoRow
      <4>1. op[s].kind # "createPlan" /\ op[s].step = "upsert"
        BY <1>0, <2>0, <3>1, <3>3 DEF RowWritten, Resumes
      <4>2. op[s].kind \in {"updatePlan", "inlineLicense"}
        BY <1>1, <4>1 DEF Shape, StepsOf, AllKinds, PlanKinds, LicenseKinds
      <4>3. op[s].kind = "updatePlan" /\ Owns(op[s].t, p)
        BY <1>0, <1>1, <3>3, <4>1, <4>2 DEF Granted
      <4> QED BY <1>0, <3>3, <4>3 DEF RowWritten, Owns
    <3> QED BY <3>2, <3>3
  <2>3. q.step # "put" => Owns(q.t, p)'
    BY <1>0, <1>2, <2>0 DEF RowWritten, Resumes, Owns
  <2>4. q.p = p /\ q.step \in {"put", "drop", "find"}
    BY <1>0, <2>0 DEF Resumes, SameRequest
  <2> QED BY <2>1, <2>2, <2>3, <2>4 DEF Granted, Owns
<1>9. q = Idle \/ (q \in Running /\ Shape(q) /\ SameRequest(q, op[s]) /\ Granted(q)')
  BY <1>8 DEF RowWritten, Resumes
<1> QED BY <1>0, <1>2, <1>4, <1>5, <1>6, <1>7, <1>9 DEF Granting

\* Put: what is held becomes the entry.
LEMMA GrantsInPut ==
    ASSUME Catalog, NEW s \in Slots, Put(s)
    PROVE  \E q : Granting(s, q)
<1>1. /\ Busy(s) /\ op[s].step = "put" /\ op[s].t \in Tenants
      /\ UNCHANGED <<tables, licCache, notices, ops, now, calm, deaf>>
      /\ planCache' = [planCache EXCEPT ![op[s].i][op[s].t] = Filed(op[s].held, @)]
      /\ \/ writer' = writer
         \/ op[s].kind # "restart" /\ writer' = [writer EXCEPT ![op[s].p] = op[s].i]
      /\ \E q : /\ Moves(s, q)
                /\ \/ q = Idle
                   \/ /\ q \in Running /\ Shape(q) /\ SameRequest(q, op[s])
                      /\ q.t = op[s].t /\ q.held = op[s].held
                      /\ q.step \in {"store", "file", "list"}
  BY Putting DEF Catalog
<1>2. PICK q : /\ Moves(s, q)
               /\ \/ q = Idle
                  \/ /\ q \in Running /\ Shape(q) /\ SameRequest(q, op[s])
                     /\ q.t = op[s].t /\ q.held = op[s].held
                     /\ q.step \in {"store", "file", "list"}
  BY <1>1
<1>3. /\ TypeOK /\ Granted(op[s]) /\ op[s].p \in Plans /\ op[s].i \in Instances
      /\ op[s].held \in HeldType
  BY <1>1, ShapeOf DEF Catalog, AllGranted
<1>4. PutIn(op[s].i, op[s].t, op[s].held)
  <2>1. CachesOK
    BY <1>3 DEF TypeOK, CachesOK
  <2> QED BY <1>1, <1>3, <2>1, EntriesPut
<1>5. writer' \in [Plans -> Instances \cup {NoInstance}]
  BY <1>1, <1>3 DEF TypeOK
<1>6. WorldOK'
  BY <1>1, <1>3, <1>4, <1>5 DEF WorldOK, TypeOK, tables, PutIn, CachesOK
<1>7. Grows /\ RowsGranted'
  BY <1>1 DEF Grows, RowsGranted, Catalog, tables
<1>8. EntriesGranted'
  <2>1. SUFFICES ASSUME NEW j \in Instances, NEW u \in Tenants, NEW p \in Plans,
                        planCache'[j][u][p] # NoEntry
                 PROVE  /\ planCache'[j][u][p] \in hist[p]
                        /\ p \notin usurped => Owns(u, p)
    <3>1. UNCHANGED <<plans, hist, usurped>>
      BY <1>1 DEF tables
    <3> QED BY <3>1 DEF EntriesGranted, Owns
  <2> QED BY <1>3, <1>4, <2>1 DEF Granted, Catalog, EntriesGranted, PutIn
<1>9. q # Idle => Granted(q)'
  BY <1>1, <1>2, <1>3 DEF Granted, Owns, tables
<1>10. \A x \in Plans : x # op[s].p => plans'[x] = plans[x]
  BY <1>1 DEF tables
<1> QED BY <1>2, <1>6, <1>7, <1>8, <1>9, <1>10 DEF Granting

\* Drop: an entry goes.
LEMMA GrantsInDrop ==
    ASSUME Catalog, NEW s \in Slots, Drop(s)
    PROVE  \E q : Granting(s, q)
<1>1. /\ Busy(s) /\ op[s].step = "drop" /\ op[s].t \in Tenants
      /\ UNCHANGED <<tables, licCache, ops, now, calm, deaf>> /\ Moves(s, Idle)
      /\ planCache' = [planCache EXCEPT ![op[s].i][op[s].t][op[s].p] = NoEntry]
      /\ notices' = notices \cup (Instances \X {op[s].t} \X {op[s].p})
      /\ writer' = [writer EXCEPT ![op[s].p] = op[s].i]
  BY Dropping DEF Catalog
<1>2. TypeOK /\ op[s].p \in Plans /\ op[s].i \in Instances
  BY <1>1, ShapeOf DEF Catalog
<1>3. DroppedFrom(op[s].i, op[s].t, op[s].p)
  <2>1. CachesOK
    BY <1>2 DEF TypeOK, CachesOK
  <2> QED BY <1>1, <1>2, <2>1, EntryDropped
<1>4. /\ writer' \in [Plans -> Instances \cup {NoInstance}]
      /\ notices' \in SUBSET (Instances \X Tenants \X Plans)
  BY <1>1, <1>2 DEF TypeOK
<1>5. WorldOK'
  BY <1>1, <1>2, <1>3, <1>4 DEF WorldOK, TypeOK, tables, DroppedFrom, CachesOK
<1>6. Grows /\ RowsGranted'
  BY <1>1 DEF Grows, RowsGranted, Catalog, tables
<1>7. EntriesGranted'
  BY <1>3, <1>6, EntriesStay DEF Catalog, DroppedFrom
<1>8. \A x \in Plans : x # op[s].p => plans'[x] = plans[x]
  BY <1>1 DEF tables
<1> QED BY <1>1, <1>5, <1>6, <1>7, <1>8 DEF Granting

\* Store, File and Refile: no plan and no plan cache changes, and the operation
\* holds the plan it held, or none.
LEMMA GrantsOfLicenses ==
    ASSUME Catalog, NEW s \in Slots, Busy(s), WorldOK',
           UNCHANGED <<plans, hist, usurped, planCache>>,
           NEW q, Moves(s, q),
           \/ q = Idle
           \/ /\ q \in Running /\ Shape(q) /\ SameRequest(q, op[s])
              /\ q.held = {} \/ (q.held = op[s].held /\ q.t = op[s].t)
              /\ q.step \in {"get", "file", "list"}
    PROVE  Granting(s, q)
<1>1. Granted(op[s])
  BY DEF Catalog, AllGranted
<1>2. Grows /\ RowsGranted' /\ EntriesGranted'
  BY TablesSame DEF Catalog
<1>3. q # Idle => Granted(q)'
  BY <1>1 DEF Granted, Owns
<1> QED BY <1>2, <1>3 DEF Granting

LEMMA GrantsInStore ==
    ASSUME Catalog, NEW s \in Slots, Store(s)
    PROVE  \E q : Granting(s, q)
<1>1. /\ Busy(s) /\ UNCHANGED <<plans, hist, usurped, caches, ops, now, writer, calm, deaf>>
      /\ licenses' \in [Keys -> LicenseType \cup {NoRow}]
      /\ \E q : Moves(s, q) /\ (q = Idle \/ LooksUp(s, q))
  BY Storing DEF Catalog
<1>2. WorldOK' /\ UNCHANGED <<plans, hist, usurped, planCache>>
  BY <1>1 DEF WorldOK, Catalog, TypeOK, caches
<1> QED BY <1>1, <1>2, GrantsOfLicenses DEF LooksUp

LEMMA GrantsInFile ==
    ASSUME Catalog, NEW s \in Slots, File(s)
    PROVE  Granting(s, Idle)
<1>1. /\ Busy(s) /\ Moves(s, Idle)
      /\ UNCHANGED <<tables, planCache, notices, ops, now, writer, calm, deaf>>
      /\ licCache' \in [Instances -> [Keys -> CachedType \cup {NoEntry}]]
  BY Filings DEF Catalog
<1>2. WorldOK' /\ UNCHANGED <<plans, hist, usurped, planCache>>
  BY <1>1 DEF WorldOK, Catalog, TypeOK, tables
<1> QED BY <1>1, <1>2, GrantsOfLicenses

LEMMA GrantsInRefile ==
    ASSUME Catalog, NEW s \in Slots, Refile(s)
    PROVE  \E q : Granting(s, q)
<1>1. /\ Busy(s) /\ UNCHANGED <<tables, planCache, notices, ops, now, writer, calm, deaf>>
      /\ licCache' \in [Instances -> [Keys -> CachedType \cup {NoEntry}]]
      /\ \E q : /\ Moves(s, q)
                /\ \/ q = Idle
                   \/ /\ q \in Running /\ Shape(q) /\ SameRequest(q, op[s])
                      /\ q.t = op[s].t /\ q.held = op[s].held /\ q.step = "list"
  BY Refiling DEF Catalog
<1>2. WorldOK' /\ UNCHANGED <<plans, hist, usurped, planCache>>
  BY <1>1 DEF WorldOK, Catalog, TypeOK, tables
<1> QED BY <1>1, <1>2, GrantsOfLicenses

\* Every step of an operation.
LEMMA GrantsInSteps ==
    ASSUME Catalog, NEW s \in Slots, OpStep(s)
    PROVE  Busy(s) /\ \E q : Granting(s, q)
<1>1. \E q : Granting(s, q)
  <2>1. CASE Queries(s)
    BY <2>1, GrantsInQueries
  <2>2. CASE Upsert(s)
    <3>1. /\ Busy(s) /\ UNCHANGED <<licenses, caches, ops, now, calm, deaf>>
          /\ \E row, q : Moves(s, q) /\ RowWritten(s, row, q)
      BY <2>2, Upserting DEF Catalog
    <3> QED BY <3>1, GrantsInRows
  <2>3. CASE Write(s)
    <3>1. /\ Busy(s) /\ UNCHANGED <<licenses, caches, ops, now, calm, deaf>>
          /\ \/ Moves(s, Idle) /\ UNCHANGED <<plans, hist, writer, usurped>>
             \/ \E row, q : Moves(s, q) /\ RowWritten(s, row, q)
      BY <2>3, RowWriting DEF Catalog
    <3>2. CASE Moves(s, Idle) /\ UNCHANGED <<plans, hist, writer, usurped>>
      <4>1. WorldOK' /\ planCache' = planCache
        BY <3>1, <3>2 DEF WorldOK, Catalog, TypeOK, caches
      <4> QED BY <3>1, <3>2, <4>1, GrantsOfLicenses
    <3> QED BY <3>1, <3>2, GrantsInRows
  <2>4. CASE Put(s)
    BY <2>4, GrantsInPut
  <2>5. CASE Drop(s)
    BY <2>5, GrantsInDrop
  <2>6. CASE Store(s)
    BY <2>6, GrantsInStore
  <2>7. CASE File(s)
    BY <2>7, GrantsInFile
  <2>8. CASE Refile(s)
    BY <2>8, GrantsInRefile
  <2> QED BY <2>1, <2>2, <2>3, <2>4, <2>5, <2>6, <2>7, <2>8 DEF OpStep, Queries
<1>2. Busy(s)
  BY DEF OpStep, Check, Upsert, Write, Get, Find, Put, Drop, Store, StoreFails, File, Read,
         Refile, List, Fail, At
<1> QED BY <1>1, <1>2

\* A new operation holds nothing; an inline plan has a fresh ID.
LEMMA GrantsAtStart ==
    ASSUME Catalog, NEW s \in Slots, NEW kind \in Kinds, NEW i \in Instances,
           NEW t \in Tenants \cup {NoTenant}, NEW p \in Plans, NEW k \in Keys,
           Start(s, kind, i, t, p, k)
    PROVE  Catalog'
<1> DEFINE o == [kind |-> kind, i |-> i, t |-> t, p |-> p, k |-> k,
                 step |-> FirstStep(kind), held |-> {}, lics |-> {},
                 todo |-> IF kind = "restart" THEN Tenants ELSE {}]
<1>1. /\ o \in Running /\ Shape(o) /\ o.step \in {"check", "get", "write", "store", "read"}
      /\ o.kind = kind /\ o.p = p /\ o.held = {}
  BY ShapeStarts DEF Start
<1>2. /\ ~Busy(s) /\ op' = [op EXCEPT ![s] = o] /\ UNCHANGED <<tables, now, writer>>
      /\ kind = "inlineLicense" => Unused(p)
      /\ \A r \in Slots : Busy(r) /\ op[r].kind = "inlineLicense" => op[r].p # p
  BY DEF Start
<1> HIDE DEF o
<1>3. Moves(s, o)
  BY <1>1, <1>2, OpMoves DEF Catalog, TypeOK
<1>4. /\ planCache' \in [Instances -> [Tenants -> [Plans -> ContentType \cup {NoEntry}]]]
      /\ licCache' \in [Instances -> [Keys -> CachedType \cup {NoEntry}]]
      /\ notices' \in SUBSET (Instances \X Tenants \X Plans)
      /\ deaf' \in SUBSET Instances
      /\ \A j \in Instances, u \in Tenants, x \in Plans :
            planCache'[j][u][x] \in {planCache[j][u][x], NoEntry}
  <2>1. CASE kind = "restart"
    <3>1. /\ planCache' = [planCache EXCEPT ![i] = [u \in Tenants |-> NoPlans]]
          /\ licCache' = [licCache EXCEPT ![i] = NoLicenses]
          /\ notices' = {n \in notices : n[1] # i}
          /\ deaf' = deaf \ {i}
      BY <2>1 DEF Start
    <3>2. NoPlans \in [Plans -> ContentType \cup {NoEntry}] /\ \A x \in Plans : NoPlans[x] = NoEntry
      BY DEF NoPlans
    <3>3. NoLicenses \in [Keys -> CachedType \cup {NoEntry}]
      BY DEF NoLicenses
    <3> QED BY <3>1, <3>2, <3>3 DEF Catalog, TypeOK
  <2>2. CASE kind # "restart"
    BY <2>2 DEF Start, Catalog, TypeOK, caches
  <2> QED BY <2>1, <2>2
<1>5. ops' \in 0 .. MaxOps /\ calm' \in BOOLEAN
  BY CatalogAssumption DEF Start, Catalog, TypeOK
<1>6. TypeOK'
  BY <1>2, <1>3, <1>4, <1>5 DEF Catalog, TypeOK, tables, Moves
<1>7. Grows /\ RowsGranted'
  BY <1>2 DEF Grows, RowsGranted, Catalog, tables
<1>8. EntriesGranted'
  BY <1>4, <1>7, EntriesStay DEF Catalog
<1>9. Shaped'
  BY <1>1, <1>3, ShapedMoves DEF Catalog
<1>10. InlineApart'
  BY <1>1, <1>2, <1>3 DEF InlineApart, Catalog, Busy, Moves, Unused
<1>11. ASSUME NEW r \in Slots, op'[r] # Idle PROVE Granted(op[r])'
  <2>1. CASE r = s
    <3>1. op'[s] = o
      BY <1>3 DEF Moves
    <3>2. kind = "inlineLicense" => plans'[p] = NoRow
      BY <1>2 DEF Unused, tables
    <3> QED BY <1>1, <2>1, <3>1, <3>2 DEF Granted
  <2>2. CASE r # s
    <3>1. op'[r] = op[r]
      BY <1>3, <2>2 DEF Moves
    <3>2. Granted(op[r])
      BY <1>11, <3>1 DEF Catalog, AllGranted, Busy
    <3> QED BY <1>2, <3>1, <3>2 DEF Granted, Owns, tables
  <2> QED BY <2>1, <2>2
<1>12. AllGranted'
  BY <1>11 DEF AllGranted, Busy
<1> QED BY <1>6, <1>7, <1>8, <1>9, <1>10, <1>12 DEF Catalog

\* Deliver, Lose, EvictPlan and Tick.
Background ==
    \/ \E n \in notices : Deliver(n) \/ Lose(n)
    \/ \E i \in Instances, t \in Tenants, p \in Plans : EvictPlan(i, t, p)
    \/ Tick

\* These only remove entries.
LEMMA InTheBackground ==
    ASSUME TypeOK, Background
    PROVE  /\ WorldOK' /\ UNCHANGED <<tables, licCache, op, ops, writer, calm>>
           /\ \A j \in Instances, u \in Tenants, x \in Plans :
                 planCache'[j][u][x] \in {planCache[j][u][x], NoEntry}
<1> DEFINE Less == \A j \in Instances, u \in Tenants, x \in Plans :
                      planCache'[j][u][x] \in {planCache[j][u][x], NoEntry}
<1>0. CachesOK
  BY DEF TypeOK, CachesOK
<1>1. ASSUME NEW n \in notices, Deliver(n)
      PROVE  WorldOK' /\ UNCHANGED <<tables, licCache, op, ops, writer, calm>> /\ Less
  <2>1. n[1] \in Instances /\ n[2] \in Tenants /\ n[3] \in Plans
    BY DEF TypeOK
  <2>2. DroppedFrom(n[1], n[2], n[3])
    BY <1>0, <1>1, <2>1, EntryDropped DEF Deliver
  <2> QED BY <1>1, <2>2 DEF DroppedFrom, CachesOK, Deliver, WorldOK, TypeOK, tables
<1>2. ASSUME NEW n \in notices, Lose(n)
      PROVE  WorldOK' /\ UNCHANGED <<tables, licCache, op, ops, writer, calm>> /\ Less
  BY <1>2 DEF Lose, WorldOK, TypeOK, tables
<1>3. ASSUME NEW i \in Instances, NEW t \in Tenants, NEW p \in Plans, EvictPlan(i, t, p)
      PROVE  WorldOK' /\ UNCHANGED <<tables, licCache, op, ops, writer, calm>> /\ Less
  <2>1. DroppedFrom(i, t, p)
    BY <1>0, <1>3, EntryDropped DEF EvictPlan
  <2> QED BY <1>3, <2>1 DEF DroppedFrom, CachesOK, EvictPlan, WorldOK, TypeOK, tables
<1>4. CASE Tick
  BY <1>4, CatalogAssumption DEF Tick, WorldOK, TypeOK, tables, caches
<1> QED BY <1>1, <1>2, <1>3, <1>4 DEF Background

LEMMA GrantsInTheBackground ==
    ASSUME Catalog, Background
    PROVE  Catalog'
<1>1. /\ WorldOK' /\ UNCHANGED <<tables, licCache, op, ops, writer, calm>>
      /\ \A j \in Instances, u \in Tenants, x \in Plans :
            planCache'[j][u][x] \in {planCache[j][u][x], NoEntry}
  BY InTheBackground DEF Catalog
<1>2. TypeOK'
  BY <1>1 DEF TypeOK, WorldOK, Catalog
<1>3. Grows /\ RowsGranted'
  BY <1>1 DEF Grows, RowsGranted, Catalog, tables
<1>4. EntriesGranted'
  BY <1>1, <1>3, EntriesStay DEF Catalog
<1>5. Shaped' /\ InlineApart' /\ AllGranted'
  BY <1>1 DEF Shaped, InlineApart, AllGranted, Granted, Owns, Busy, Catalog, tables
<1> QED BY <1>2, <1>3, <1>4, <1>5 DEF Catalog

LEMMA CatalogAtInit == Init => Catalog
<1> SUFFICES ASSUME Init PROVE Catalog
  OBVIOUS
<1>1. TypeOK
  BY RunningIsNotIdle, CatalogAssumption DEF Init, TypeOK, NoPlans, NoLicenses
<1>2. \A s \in Slots : ~Busy(s)
  BY DEF Init, Busy
<1>3. RowsGranted /\ EntriesGranted
  BY DEF Init, RowsGranted, EntriesGranted, NoPlans
<1> QED BY <1>1, <1>2, <1>3 DEF Catalog, Shaped, InlineApart, AllGranted

\* The step relation, by what it does to the slots.
LEMMA NextCases ==
    ASSUME [Next]_vars
    PROVE  \/ \E s \in Slots, kind \in Kinds, i \in Instances, t \in Tenants \cup {NoTenant},
                 p \in Plans, k \in Keys : Start(s, kind, i, t, p, k)
           \/ \E s \in Slots : OpStep(s)
           \/ Background
           \/ UNCHANGED vars
  BY DEF Next, Background

LEMMA CatalogInStutter ==
    ASSUME Catalog, UNCHANGED vars
    PROVE  Catalog'
  BY DEF Catalog, TypeOK, Shaped, InlineApart, AllGranted, Granted, RowsGranted, EntriesGranted,
         Owns, Busy, vars, tables, caches

LEMMA CatalogStep ==
    ASSUME Catalog, [Next]_vars
    PROVE  Catalog'
<1>1. ASSUME NEW s \in Slots, OpStep(s) PROVE Catalog'
  BY <1>1, GrantsInSteps, CatalogAfterAStep
<1> QED BY <1>1, NextCases, GrantsAtStart, GrantsInTheBackground, CatalogInStutter

\* Rows, cache entries and the objects that operations hold are always what the
\* code keeps there: no interleaving, failed query or lost message makes an
\* operation put or file anything else.
THEOREM PlanTypeCorrect == Spec => []TypeOK
<1>1. Init => Catalog
  BY CatalogAtInit
<1>2. Catalog /\ [Next]_vars => Catalog'
  BY CatalogStep
<1>3. Catalog => TypeOK
  BY DEF Catalog
<1> QED BY <1>1, <1>2, <1>3, PTL DEF Spec

\* An instance never caches, for a tenant, a plan that is not this tenant's: the
\* entry is a content that the row has had, and the row is the tenant's unless
\* its ID was used again by a createPlan.
THEOREM CachedPlansAreGranted == Spec => []EntriesGranted
<1>1. Catalog /\ [Next]_vars => Catalog'
  BY CatalogStep
<1>2. Catalog => EntriesGranted
  BY DEF Catalog
<1> QED BY <1>1, <1>2, CatalogAtInit, PTL DEF Spec

-----------------------------------------------------------------------------
(* Features.                                                               *)

\* A plan license has the features of the documented order.
LEMMA DocumentedFeatures ==
    ASSUME NEW l \in TermsType, NEW features \in SUBSET Features, NEW at \in Nat,
           l.type = "plan", l.own = {}
    PROVE  ResolveFinalFeatures(l, features, at) = Documented(l, features, OnTrial(l, at))
<1>1. /\ l.add \in SUBSET Features /\ l.remove \in SUBSET Features /\ l.trial \in SUBSET Features
  BY DEF TermsType
<1>2. ResolveFinalFeatures(l, features, at) =
          ((IF OnTrial(l, at) THEN l.trial ELSE features) \cup l.add) \ l.remove
  BY DEF ResolveFinalFeatures, OnTrial
<1>3. CASE OnTrial(l, at)
  BY <1>1, <1>2, <1>3 DEF Documented
<1>4. CASE ~OnTrial(l, at)
  BY <1>1, <1>2, <1>4 DEF Documented
<1> QED BY <1>3, <1>4

\* FeaturesWereGranted, of one entry.
EntryGranted(e) ==
    LET row == e.row
        planContents == IF row.terms.type = "plan" THEN hist[row.plan] ELSE {}
    IN  \/ Answered(e) = row.terms.own
        \/ \E c \in planContents, b \in {OnTrial(row.terms, 0), FALSE} :
              Answered(e) = Documented(row.terms, c.features, b)

LEMMA GrantedEntries ==
    FeaturesWereGranted <=>
        \A i \in Instances, k \in Keys : licCache[i][k] # NoEntry => EntryGranted(licCache[i][k])
  BY DEF FeaturesWereGranted, EntryGranted

\* A granted answer stays granted: histories only grow.
LEMMA EntryGrantedStays ==
    ASSUME NEW e \in CachedType, EntryGranted(e), Grows
    PROVE  EntryGranted(e)'
<1>1. e.row.plan \in Plans
  BY DEF CachedType, LicenseType
<1>2. hist[e.row.plan] \subseteq hist'[e.row.plan]
  BY <1>1 DEF Grows
<1> QED BY <1>2 DEF EntryGranted

\* A row as read answers the features of its own.
LEMMA AsReadGranted ==
    ASSUME NEW row \in LicenseType, NEW e, e = AsRead(row)
    PROVE  EntryGranted(e)'
<1>1. Answered(e) = e.row.terms.own
  BY DEF Answered, AsRead
<1> QED BY <1>1 DEF EntryGranted, Answered

\* A resolved license answers its own features, or the documented ones over the
\* plan it was resolved with.
LEMMA ResolvedGranted ==
    ASSUME TypeOK, NEW row \in LicenseType, ValidTerms(row.terms),
           NEW plan \in ContentType \cup {NoRow},
           plan # NoRow => plan \in hist[row.plan],
           NEW e, e = Resolved(row, plan)
    PROVE  EntryGranted(e)
<1>1. row.terms \in TermsType
  BY DEF LicenseType
<1>2. row.terms.type \in {"plan", "product"} /\ row.terms.trialEnds \in Nat /\ now \in Nat
  BY <1>1 DEF TermsType, TypeOK
<1>3. e.row = row
  BY DEF Resolved
<1>4. CASE row.terms.type = "plan" /\ plan = NoRow
  <2>1. e.final = {}
    BY <1>4 DEF Resolved
  <2> QED BY <1>3, <2>1 DEF EntryGranted, Answered
<1>5. CASE row.terms.type = "product"
  <2>1. row.terms.own # {}
    BY <1>5 DEF ValidTerms
  <2>2. e.final = row.terms.own
    BY <1>5, <2>1 DEF Resolved, ResolveFinalFeatures
  <2> QED BY <1>3, <2>1, <2>2 DEF EntryGranted, Answered
<1>6. CASE row.terms.type = "plan" /\ plan # NoRow
  <2>1. row.terms.own = {} /\ plan.features \in SUBSET Features
    BY <1>6 DEF ValidTerms, ContentType
  <2>2. e.final = ResolveFinalFeatures(row.terms, plan.features, now)
    BY <1>6 DEF Resolved
  <2>3. e.final = Documented(row.terms, plan.features, OnTrial(row.terms, now))
    BY <1>1, <1>2, <1>6, <2>1, <2>2, DocumentedFeatures
  <2>4. Answered(e) = Documented(row.terms, plan.features, OnTrial(row.terms, now))
    BY <1>3, <2>1, <2>3 DEF Answered
  <2>5. OnTrial(row.terms, now) \in {OnTrial(row.terms, 0), FALSE}
    <3>1. OnTrial(row.terms, now) \in BOOLEAN
      BY DEF OnTrial
    <3>2. OnTrial(row.terms, now) => OnTrial(row.terms, 0)
      BY <1>2 DEF OnTrial
    <3>3. OnTrial(row.terms, 0) \in BOOLEAN
      BY DEF OnTrial
    <3> QED BY <3>1, <3>2, <3>3
  <2>6. plan \in hist[e.row.plan]
    BY <1>3, <1>6
  <2> QED BY <1>3, <1>6, <2>4, <2>5, <2>6 DEF EntryGranted
<1> QED BY <1>2, <1>4, <1>5, <1>6

\* Entries that stay or go do no harm.
LEMMA FeaturesStay ==
    ASSUME TypeOK, FeaturesWereGranted, Grows,
           \A i \in Instances, k \in Keys :
              \/ licCache'[i][k] \in {licCache[i][k], NoEntry}
              \/ EntryGranted(licCache[i][k])'
    PROVE  FeaturesWereGranted'
<1>1. SUFFICES ASSUME NEW i \in Instances, NEW k \in Keys, licCache'[i][k] # NoEntry
               PROVE  EntryGranted(licCache[i][k])'
  BY DEF FeaturesWereGranted, EntryGranted
<1>2. CASE licCache'[i][k] = licCache[i][k]
  <2>1. PICK e : e = licCache[i][k]
    OBVIOUS
  <2>2. e \in CachedType
    BY <1>1, <1>2, <2>1 DEF TypeOK
  <2>3. EntryGranted(e)
    BY <1>1, <1>2, <2>1, GrantedEntries
  <2>4. EntryGranted(e)'
    BY <2>2, <2>3, EntryGrantedStays
  <2>5. e = licCache'[i][k]
    BY <1>2, <2>1
  <2> QED BY <2>4, <2>5
<1> QED BY <1>1, <1>2

\* The entries of the license caches that a step of an operation leaves.
LEMMA FeaturesInSteps ==
    ASSUME Catalog, FeaturesWereGranted, NEW s \in Slots, OpStep(s)
    PROVE  FeaturesWereGranted'
<1>1. CASE File(s)
  <2>1. /\ Busy(s) /\ op[s].step = "file" /\ op[s].kind \in Filing
        /\ UNCHANGED tables
        /\ \E l \in op[s].lics :
              /\ l[1] = op[s].k /\ l[2].plan = op[s].p /\ ValidTerms(l[2].terms)
              /\ l[2] \in LicenseType
              /\ licCache'[op[s].i][op[s].k] = Resolved(l[2], ThePlan(s))
        /\ \A j \in Instances, k \in Keys :
              j # op[s].i \/ k # op[s].k => licCache'[j][k] = licCache[j][k]
    BY <1>1, Filings DEF Catalog
  <2>2. PICK l \in op[s].lics :
            /\ l[1] = op[s].k /\ l[2].plan = op[s].p /\ ValidTerms(l[2].terms)
            /\ l[2] \in LicenseType
            /\ licCache'[op[s].i][op[s].k] = Resolved(l[2], ThePlan(s))
    BY <2>1
  <2>3. /\ op[s].held \in HeldType /\ Granted(op[s]) /\ Shape(op[s])
    BY <2>1, ShapeOf DEF Catalog, AllGranted
  <2>4. PICK plan : plan = ThePlan(s)
    OBVIOUS
  <2>5. /\ plan \in ContentType \cup {NoRow}
        /\ plan # NoRow => plan \in hist[l[2].plan]
    <3>1. \A h \in op[s].held : h[1] = op[s].p /\ h[2] \in hist[h[1]]
      BY <2>1, <2>3 DEF Shape, Granted, Filing
    <3> QED BY <2>2, <2>3, <2>4, <3>1, ThePlanIsHeld
  <2>6. PICK e : e = Resolved(l[2], plan)
    OBVIOUS
  <2>7. EntryGranted(e)
    BY <2>2, <2>5, <2>6, ResolvedGranted DEF Catalog
  <2>8. EntryGranted(e)'
    BY <2>1, <2>7 DEF EntryGranted, tables
  <2>9. Grows
    BY <2>1 DEF Grows, tables
  <2>10. e = licCache'[op[s].i][op[s].k]
    BY <2>2, <2>4, <2>6
  <2>11. ASSUME NEW i \in Instances, NEW k \in Keys
         PROVE  licCache'[i][k] \in {licCache[i][k], NoEntry} \/ EntryGranted(licCache[i][k])'
    <3>1. CASE i = op[s].i /\ k = op[s].k
      BY <2>8, <2>10, <3>1
    <3> QED BY <2>1, <3>1
  <2> QED BY <2>9, <2>11, FeaturesStay DEF Catalog
<1>2. CASE Refile(s)
  <2>1. /\ UNCHANGED tables
        /\ \A j \in Instances, k \in Keys :
              \/ licCache'[j][k] = licCache[j][k]
              \/ \E row \in LicenseType : licCache'[j][k] = AsRead(row)
    BY <1>2, Refiling DEF Catalog
  <2>2. Grows
    BY <2>1 DEF Grows, tables
  <2>3. ASSUME NEW i \in Instances, NEW k \in Keys
        PROVE  licCache'[i][k] \in {licCache[i][k], NoEntry} \/ EntryGranted(licCache[i][k])'
    <3>1. CASE \E row \in LicenseType : licCache'[i][k] = AsRead(row)
      <4>1. PICK row \in LicenseType : licCache'[i][k] = AsRead(row)
        BY <3>1
      <4>2. PICK e : e = AsRead(row)
        OBVIOUS
      <4>3. EntryGranted(e)'
        BY <4>2, AsReadGranted
      <4>4. e = licCache'[i][k]
        BY <4>1, <4>2
      <4> QED BY <4>3, <4>4
    <3> QED BY <2>1, <3>1
  <2> QED BY <2>2, <2>3, FeaturesStay DEF Catalog
<1>3. CASE ~File(s) /\ ~Refile(s)
  <2>1. licCache' = licCache
    BY <1>3 DEF OpStep, Check, Upsert, Write, Get, Find, Put, Drop, Store, StoreFails, Read,
                List, Fail, caches
  <2>2. Grows
    BY GrantsInSteps DEF Granting
  <2> QED BY <2>1, <2>2, FeaturesStay DEF Catalog
<1> QED BY <1>1, <1>2, <1>3

\* Only File and Refile put something into a license cache.
LEMMA FeaturesInNext ==
    ASSUME Catalog, FeaturesWereGranted, [Next]_vars
    PROVE  FeaturesWereGranted'
<1>1. ASSUME NEW s \in Slots, NEW kind \in Kinds, NEW i \in Instances,
             NEW t \in Tenants \cup {NoTenant}, NEW p \in Plans, NEW k \in Keys,
             Start(s, kind, i, t, p, k)
      PROVE  FeaturesWereGranted'
  <2>1. Grows
    BY <1>1 DEF Start, Grows, tables
  <2>2. \A j \in Instances, x \in Keys : licCache'[j][x] \in {licCache[j][x], NoEntry}
    <3>1. licCache' = licCache \/ licCache' = [licCache EXCEPT ![i] = NoLicenses]
      BY <1>1 DEF Start, caches
    <3>2. licCache \in [Instances -> [Keys -> CachedType \cup {NoEntry}]]
      BY DEF Catalog, TypeOK
    <3>3. \A x \in Keys : NoLicenses[x] = NoEntry
      BY DEF NoLicenses
    <3> QED BY <3>1, <3>2, <3>3
  <2> QED BY <2>1, <2>2, FeaturesStay DEF Catalog
<1>2. CASE Background
  <2>1. UNCHANGED <<tables, licCache>>
    BY <1>2, InTheBackground DEF Catalog
  <2>2. Grows
    BY <2>1 DEF Grows, tables
  <2> QED BY <2>1, <2>2, FeaturesStay DEF Catalog
<1>3. CASE UNCHANGED vars
  <2>1. Grows /\ licCache' = licCache
    BY <1>3 DEF Grows, vars, tables, caches
  <2> QED BY <2>1, FeaturesStay DEF Catalog
<1> QED BY <1>1, <1>2, <1>3, NextCases, FeaturesInSteps

\* Whatever overlaps, fails, is lost or is stale: the features that a validation
\* answers from a license cache are the license's own, or what its terms make
\* of a content that the row of its plan has really had, with its trial on or
\* off, and for any number of tenants, plans, licenses, instances and requests.
THEOREM FeaturesGranted == Spec => []FeaturesWereGranted
<1>1. Init => Catalog /\ FeaturesWereGranted
  <2>1. Init => FeaturesWereGranted
    BY DEF Init, FeaturesWereGranted, NoLicenses
  <2> QED BY <2>1, CatalogAtInit
<1>2. Catalog /\ FeaturesWereGranted /\ [Next]_vars => (Catalog /\ FeaturesWereGranted)'
  BY CatalogStep, FeaturesInNext
<1> QED BY <1>1, <1>2, PTL DEF Spec

-----------------------------------------------------------------------------
(* What is so as long as operations do not overlap.                        *)

Alone == calm => \A s, r \in Slots : Busy(s) /\ Busy(r) => s = r
AllCurrent == calm => \A s \in Slots : Busy(s) => Current(op[s])

\* A deleted plan is still cached only where an invalidation is on its way, or
\* where one was lost.
DeletedDropped ==
    calm => \A p \in Plans \ usurped :
        writer[p] # NoInstance /\ plans[p] # NoRow /\ plans[p].deleted =>
            \A i \in Instances \ deaf, t \in Tenants :
                planCache[i][t][p] # NoEntry => <<i, t, p>> \in notices

Calm == Alone /\ AllCurrent /\ WriterExact /\ DeletedDropped

\* What a step of an operation that is alone leaves.
Calming(s, q) ==
    /\ Moves(s, q) /\ calm' = calm
    /\ calm /\ q # Idle => Current(q)'
    /\ WriterExact' /\ DeletedDropped'

\* Nobody else is under way, so this slot is all there is to look at.
LEMMA CalmAfterAStep ==
    ASSUME Calm, NEW s \in Slots, Busy(s), NEW q, Calming(s, q)
    PROVE  Calm'
<1>1. op'[s] = q /\ calm' = calm /\ \A r \in Slots \ {s} : op'[r] = op[r]
  BY DEF Calming, Moves
<1>2. Alone'
  BY <1>1 DEF Calm, Alone, Busy
<1>3. AllCurrent'
  <2>1. SUFFICES ASSUME calm, NEW r \in Slots, op'[r] # Idle PROVE Current(op[r])'
    BY <1>1 DEF AllCurrent, Busy
  <2>2. r = s
    BY <1>1, <2>1 DEF Calm, Alone, Busy
  <2>3. Current(q)'
    BY <1>1, <2>1, <2>2 DEF Calming
  <2> QED BY <1>1, <2>2, <2>3
<1> QED BY <1>2, <1>3 DEF Calm, Calming

\* Nothing happens to the plans and their caches.
LEMMA PlansSame ==
    ASSUME Calm, NEW s \in Slots, NEW q, Moves(s, q), calm /\ q # Idle => Current(q),
           UNCHANGED <<plans, usurped, planCache, notices, writer, calm, deaf>>
    PROVE  Calming(s, q)
<1>1. Current(q) => Current(q)'
  BY DEF Current, IsNow, Live
<1>2. WriterExact' /\ DeletedDropped'
  BY DEF Calm, WriterExact, DeletedDropped, IsNow, Live
<1> QED BY <1>1, <1>2 DEF Calming

\* Upsert and Write: until the operation has put or dropped the plan, it has no
\* writer; what it goes on with is the new row.
LEMMA CalmRows ==
    ASSUME Catalog, Calm, NEW s \in Slots, Busy(s), NEW row, NEW q, Moves(s, q),
           RowWritten(s, row, q), UNCHANGED <<licenses, caches, ops, now, calm, deaf>>
    PROVE  Calming(s, q)
<1>0. PICK p : p = op[s].p
  OBVIOUS
<1>1. /\ TypeOK /\ p \in Plans /\ Granting(s, q) /\ Shape(op[s]) /\ Granted(op[s])
      /\ op[s].kind \in AllKinds
  BY <1>0, ShapeOf, GrantsInRows DEF Catalog, AllGranted
<1>2. /\ plans'[p] = row /\ row # NoRow /\ writer'[p] = NoInstance
      /\ \A x \in Plans \ {p} : plans'[x] = plans[x] /\ writer'[x] = writer[x]
  BY <1>0, <1>1, RowsSet DEF RowWritten
<1>3. usurped \subseteq usurped'
  BY <1>1 DEF Granting, Grows
<1>4. UNCHANGED <<planCache, notices, calm, deaf>>
  BY DEF caches
<1>5. WriterExact'
  <2>1. SUFFICES ASSUME calm, NEW x \in Plans \ usurped', writer'[x] # NoInstance,
                        NEW t \in Tenants, planCache[writer'[x]][t][x] # NoEntry
                 PROVE  IsNow(t, x, planCache[writer'[x]][t][x]) /\ plans'[x] = plans[x]
    BY <1>4 DEF WriterExact, IsNow, Live
  <2>2. x # p /\ writer'[x] = writer[x] /\ plans'[x] = plans[x] /\ x \notin usurped
    BY <1>2, <1>3, <2>1
  <2> QED BY <2>1, <2>2 DEF Calm, WriterExact
<1>6. DeletedDropped'
  BY <1>2, <1>3, <1>4 DEF Calm, DeletedDropped
<1>7. ASSUME calm, q # Idle PROVE Current(q)'
  <2>0. Resumes(s, row, q)
    BY <1>7 DEF RowWritten
  <2>1. q.step \in {"put", "drop", "find"} /\ \A h \in q.held : h = <<p, row.content>>
    BY <1>0, <2>0 DEF Resumes
  <2>2. ASSUME q.step = "put", p \notin usurped' PROVE row.tenant = q.t /\ ~row.deleted
    <3>1. op[s].step = "upsert" /\ q.t = op[s].t
      BY <2>0, <2>2 DEF Resumes
    <3>2. CASE plans[p] = NoRow
      BY <1>0, <3>1, <3>2 DEF RowWritten
    <3>3. CASE plans[p] # NoRow
      <4>1. op[s].kind # "createPlan"
        BY <1>0, <2>2, <3>1, <3>3 DEF RowWritten
      <4>2. op[s].kind \in {"updatePlan", "inlineLicense"}
        BY <1>1, <3>1, <4>1 DEF Shape, StepsOf, AllKinds, PlanKinds, LicenseKinds
      <4>3. op[s].kind = "updatePlan"
        BY <1>0, <1>1, <3>1, <3>3, <4>2 DEF Granted
      <4>4. Live(op[s].t, p)
        BY <1>0, <1>7, <3>1, <4>3 DEF Calm, AllCurrent, Current
      <4> QED BY <1>0, <3>1, <3>3, <4>4 DEF RowWritten, Live
    <3> QED BY <3>2, <3>3
  <2> QED BY <1>2, <2>1, <2>2 DEF Current, IsNow, Live
<1> QED BY <1>4, <1>5, <1>6, <1>7 DEF Calming

\* Put: the operation holds what is in the table, and no other tenant has an
\* entry of this plan.
LEMMA CalmPut ==
    ASSUME Catalog, Calm, NEW s \in Slots, Put(s)
    PROVE  \E q : Calming(s, q)
<1>1. /\ Busy(s) /\ op[s].step = "put" /\ op[s].t \in Tenants
      /\ UNCHANGED <<tables, licCache, notices, ops, now, calm, deaf>>
      /\ planCache' = [planCache EXCEPT ![op[s].i][op[s].t] = Filed(op[s].held, @)]
      /\ \/ writer' = writer
         \/ op[s].kind # "restart" /\ writer' = [writer EXCEPT ![op[s].p] = op[s].i]
      /\ \E q : /\ Moves(s, q)
                /\ \/ q = Idle
                   \/ /\ q \in Running /\ Shape(q) /\ SameRequest(q, op[s])
                      /\ q.t = op[s].t /\ q.held = op[s].held
                      /\ q.step \in {"store", "file", "list"}
  BY Putting DEF Catalog
<1>2. PICK q : /\ Moves(s, q)
               /\ \/ q = Idle
                  \/ /\ q \in Running /\ Shape(q) /\ SameRequest(q, op[s])
                     /\ q.t = op[s].t /\ q.held = op[s].held
                     /\ q.step \in {"store", "file", "list"}
  BY <1>1
<1>3. /\ TypeOK /\ op[s].p \in Plans /\ op[s].i \in Instances /\ op[s].held \in HeldType
      /\ Shape(op[s]) /\ op[s].kind \in AllKinds
  BY <1>1, ShapeOf DEF Catalog
<1>4. PutIn(op[s].i, op[s].t, op[s].held)
  <2>1. CachesOK
    BY <1>3 DEF TypeOK, CachesOK
  <2> QED BY <1>1, <1>3, <2>1, EntriesPut
<1>5. ASSUME calm, NEW h \in op[s].held, h[1] \notin usurped PROVE IsNow(op[s].t, h[1], h[2])
  BY <1>1, <1>5 DEF Calm, AllCurrent, Current
\* An entry that was there before, of a plan whose writer changes.
<1>6. ASSUME NEW x \in Plans, writer'[x] # writer[x]
      PROVE  /\ x = op[s].p /\ writer'[x] = op[s].i
             /\ \E h \in op[s].held : h[1] = x
  <2>1. op[s].kind # "restart" /\ x = op[s].p /\ writer'[x] = op[s].i
    BY <1>1, <1>3, <1>6 DEF TypeOK
  <2> QED BY <1>1, <1>3, <2>1 DEF Shape
<1>7. UNCHANGED <<plans, usurped, notices, calm, deaf>>
  BY <1>1 DEF tables
<1>8. writer' \in [Plans -> Instances \cup {NoInstance}]
  BY <1>1, <1>3 DEF TypeOK
<1>9. WriterExact'
  <2>1. SUFFICES ASSUME calm, NEW x \in Plans \ usurped, writer'[x] # NoInstance,
                        NEW u \in Tenants, planCache'[writer'[x]][u][x] # NoEntry
                 PROVE  IsNow(u, x, planCache'[writer'[x]][u][x])
    BY <1>7 DEF WriterExact, IsNow, Live
  <2>2. writer'[x] \in Instances
    BY <1>8, <2>1
  <2>3. PICK w \in Instances : w = writer'[x]
    BY <2>2
  <2>4. CASE \E h \in op[s].held : h[1] = x /\ planCache'[w][u][x] = h[2] /\ u = op[s].t
    BY <1>5, <2>1, <2>3, <2>4
  <2>5. CASE /\ w = op[s].i /\ u = op[s].t => \A h \in op[s].held : h[1] # x
             /\ planCache'[w][u][x] = planCache[w][u][x]
    <3>1. CASE writer'[x] = writer[x]
      BY <2>1, <2>3, <2>5, <3>1 DEF Calm, WriterExact
    <3>2. CASE writer'[x] # writer[x]
      <4>1. PICK h \in op[s].held : h[1] = x /\ w = op[s].i
        BY <1>6, <2>3, <3>2
      <4>2. u # op[s].t
        BY <2>5, <4>1
      <4>3. Owns(u, x)
        BY <2>1, <2>3, <2>5 DEF Catalog, EntriesGranted
      <4>4. IsNow(op[s].t, x, h[2])
        BY <1>5, <2>1, <4>1
      <4> QED BY <4>2, <4>3, <4>4 DEF IsNow, Live, Owns
    <3> QED BY <3>1, <3>2
  <2> QED BY <1>4, <2>4, <2>5 DEF PutIn
<1>10. DeletedDropped'
  <2>1. SUFFICES ASSUME calm, NEW x \in Plans \ usurped, writer'[x] # NoInstance,
                        plans[x] # NoRow, plans[x].deleted,
                        NEW j \in Instances \ deaf, NEW u \in Tenants,
                        planCache'[j][u][x] # NoEntry
                 PROVE  <<j, u, x>> \in notices
    BY <1>7 DEF DeletedDropped
  <2>2. \A h \in op[s].held : h[1] # x
    BY <1>5, <2>1 DEF IsNow, Live
  <2>3. writer'[x] = writer[x] /\ planCache'[j][u][x] = planCache[j][u][x]
    BY <1>4, <1>6, <2>1, <2>2 DEF PutIn
  <2> QED BY <2>1, <2>3 DEF Calm, DeletedDropped
<1>11. ASSUME calm, q # Idle PROVE Current(q)'
  <2>1. /\ q.held = op[s].held /\ q.t = op[s].t /\ q.p = op[s].p
        /\ q.step \in {"store", "file", "list"} /\ Shape(q) /\ q.kind = op[s].kind
    BY <1>2, <1>11 DEF SameRequest
  <2>2. q.step = "file" => \A h \in q.held : h[1] = q.p
    BY <1>3, <2>1 DEF Shape, StepsOf
  <2>3. q.step = "file" /\ q.p \notin usurped => \A h \in q.held : IsNow(q.t, q.p, h[2])
    BY <1>5, <1>11, <2>1, <2>2
  <2> QED BY <1>7, <2>1, <2>3 DEF Current, IsNow, Live
<1> QED BY <1>2, <1>7, <1>9, <1>10, <1>11 DEF Calming

\* Drop: the entry goes here at once, and a message to every instance.
LEMMA CalmDrop ==
    ASSUME Catalog, Calm, NEW s \in Slots, Drop(s)
    PROVE  \E q : Calming(s, q)
<1>1. /\ Busy(s) /\ op[s].step = "drop" /\ op[s].t \in Tenants
      /\ UNCHANGED <<tables, licCache, ops, now, calm, deaf>> /\ Moves(s, Idle)
      /\ planCache' = [planCache EXCEPT ![op[s].i][op[s].t][op[s].p] = NoEntry]
      /\ notices' = notices \cup (Instances \X {op[s].t} \X {op[s].p})
      /\ writer' = [writer EXCEPT ![op[s].p] = op[s].i]
  BY Dropping DEF Catalog
<1>2. /\ TypeOK /\ op[s].p \in Plans /\ op[s].i \in Instances /\ Owns(op[s].t, op[s].p)
  BY <1>1, ShapeOf DEF Catalog, AllGranted, Granted
<1>3. DroppedFrom(op[s].i, op[s].t, op[s].p)
  <2>1. CachesOK
    BY <1>2 DEF TypeOK, CachesOK
  <2> QED BY <1>1, <1>2, <2>1, EntryDropped
<1>4. UNCHANGED <<plans, usurped, calm, deaf>>
  BY <1>1 DEF tables
<1>5. writer'[op[s].p] = op[s].i /\ \A x \in Plans \ {op[s].p} : writer'[x] = writer[x]
  BY <1>1, <1>2 DEF TypeOK
<1>6. writer' \in [Plans -> Instances \cup {NoInstance}]
  BY <1>1, <1>2 DEF TypeOK
<1>7. ASSUME NEW j \in Instances, NEW u \in Tenants, NEW x \in Plans, planCache'[j][u][x] # NoEntry
      PROVE  /\ planCache'[j][u][x] = planCache[j][u][x]
             /\ x = op[s].p /\ x \notin usurped => u = op[s].t /\ j # op[s].i
  <2>1. planCache'[j][u][x] = planCache[j][u][x] /\ ~(j = op[s].i /\ u = op[s].t /\ x = op[s].p)
    BY <1>3, <1>7 DEF DroppedFrom
  <2>2. x \notin usurped => Owns(u, x)
    BY <1>7, <2>1 DEF Catalog, EntriesGranted
  <2> QED BY <1>2, <2>1, <2>2 DEF Owns
<1>8. WriterExact'
  <2>1. SUFFICES ASSUME calm, NEW x \in Plans \ usurped, writer'[x] # NoInstance,
                        NEW u \in Tenants, planCache'[writer'[x]][u][x] # NoEntry
                 PROVE  IsNow(u, x, planCache'[writer'[x]][u][x])
    BY <1>4 DEF WriterExact, IsNow, Live
  <2>2. PICK w \in Instances : w = writer'[x]
    BY <1>6, <2>1
  <2>3. x # op[s].p
    BY <1>5, <1>7, <2>1, <2>2
  <2>4. writer[x] = w /\ planCache'[w][u][x] = planCache[w][u][x]
    BY <1>5, <1>7, <2>1, <2>2, <2>3
  <2> QED BY <2>1, <2>2, <2>4 DEF Calm, WriterExact
<1>9. DeletedDropped'
  <2>1. SUFFICES ASSUME calm, NEW x \in Plans \ usurped, writer'[x] # NoInstance,
                        plans[x] # NoRow, plans[x].deleted,
                        NEW j \in Instances \ deaf, NEW u \in Tenants,
                        planCache'[j][u][x] # NoEntry
                 PROVE  <<j, u, x>> \in notices'
    BY <1>4 DEF DeletedDropped
  <2>2. /\ notices \subseteq notices'
        /\ \A y \in Instances : <<y, op[s].t, op[s].p>> \in notices'
    BY <1>1
  <2>3. planCache[j][u][x] # NoEntry /\ (x = op[s].p => u = op[s].t)
    BY <1>7, <2>1
  <2>4. CASE x = op[s].p
    BY <2>1, <2>2, <2>3, <2>4
  <2>5. CASE x # op[s].p
    <3>1. writer[x] # NoInstance
      BY <1>5, <2>1, <2>5
    <3> QED BY <2>1, <2>2, <2>3, <3>1 DEF Calm, DeletedDropped
  <2> QED BY <2>4, <2>5
<1> QED BY <1>1, <1>4, <1>8, <1>9 DEF Calming

LEMMA CalmSteps ==
    ASSUME Catalog, Calm, NEW s \in Slots, OpStep(s)
    PROVE  Calm'
<1>1. Busy(s)
  BY GrantsInSteps
<1>2. \E q : Calming(s, q)
  <2>1. CASE Queries(s)
    <3>1. /\ UNCHANGED <<tables, caches, ops, now, writer, calm, deaf>> /\ Continues(s)
      BY <2>1, Querying DEF Catalog
    <3>2. PICK q : Moves(s, q) /\ (q = Idle \/ Fine(q, op[s]))
      BY <3>1 DEF Continues
    <3>3. calm /\ q # Idle => Current(q)
      BY <3>2 DEF Fine, Calm
    <3> QED BY <3>1, <3>2, <3>3, PlansSame DEF tables, caches
  <2>2. CASE Upsert(s)
    <3>1. /\ UNCHANGED <<licenses, caches, ops, now, calm, deaf>>
          /\ \E row, q : Moves(s, q) /\ RowWritten(s, row, q)
      BY <2>2, Upserting DEF Catalog
    <3> QED BY <1>1, <3>1, CalmRows
  <2>3. CASE Write(s)
    <3>1. /\ UNCHANGED <<licenses, caches, ops, now, calm, deaf>>
          /\ \/ Moves(s, Idle) /\ UNCHANGED <<plans, hist, writer, usurped>>
             \/ \E row, q : Moves(s, q) /\ RowWritten(s, row, q)
      BY <2>3, RowWriting DEF Catalog
    <3>2. CASE Moves(s, Idle) /\ UNCHANGED <<plans, hist, writer, usurped>>
      BY <3>1, <3>2, PlansSame DEF caches
    <3> QED BY <1>1, <3>1, <3>2, CalmRows
  <2>4. CASE Put(s)
    BY <2>4, CalmPut
  <2>5. CASE Drop(s)
    BY <2>5, CalmDrop
  <2>6. CASE Store(s)
    <3>1. UNCHANGED <<plans, hist, usurped, caches, ops, now, writer, calm, deaf>>
      BY <2>6, Storing DEF Catalog
    <3>2. PICK q : Moves(s, q) /\ (q = Idle \/ LooksUp(s, q))
      BY <2>6, Storing DEF Catalog
    <3>3. q # Idle => Current(q)
      BY <3>2 DEF Current, LooksUp
    <3> QED BY <3>1, <3>2, <3>3, PlansSame DEF caches
  <2>7. CASE File(s)
    <3>1. UNCHANGED <<tables, planCache, notices, writer, calm, deaf>> /\ Moves(s, Idle)
      BY <2>7, Filings DEF Catalog
    <3> QED BY <3>1, PlansSame DEF tables
  <2>8. CASE Refile(s)
    <3>1. UNCHANGED <<tables, planCache, notices, writer, calm, deaf>>
      BY <2>8, Refiling DEF Catalog
    <3>2. PICK q : Moves(s, q) /\ (q = Idle \/ q.step = "list")
      BY <2>8, Refiling DEF Catalog
    <3>3. q # Idle => Current(q)
      BY <3>2 DEF Current
    <3> QED BY <3>1, <3>2, <3>3, PlansSame DEF tables
  <2> QED BY <2>1, <2>2, <2>3, <2>4, <2>5, <2>6, <2>7, <2>8 DEF OpStep, Queries
<1> QED BY <1>1, <1>2, CalmAfterAStep

\* A request begins alone or ends the calm; a restart empties the caches of its
\* instance.
LEMMA CalmStart ==
    ASSUME Catalog, Calm, NEW s \in Slots, NEW kind \in Kinds, NEW i \in Instances,
           NEW t \in Tenants \cup {NoTenant}, NEW p \in Plans, NEW k \in Keys,
           Start(s, kind, i, t, p, k)
    PROVE  Calm'
<1> DEFINE o == [kind |-> kind, i |-> i, t |-> t, p |-> p, k |-> k,
                 step |-> FirstStep(kind), held |-> {}, lics |-> {},
                 todo |-> IF kind = "restart" THEN Tenants ELSE {}]
<1>1. o \in Running /\ o.step \in {"check", "get", "write", "store", "read"}
  BY ShapeStarts DEF Start
<1>2. /\ op' = [op EXCEPT ![s] = o] /\ UNCHANGED <<tables, now, writer>>
      /\ calm' => calm /\ \A r \in Slots : ~Busy(r)
  BY DEF Start
<1> HIDE DEF o
<1>3. op'[s] = o /\ \A r \in Slots \ {s} : op'[r] = op[r]
  BY <1>2 DEF Catalog, TypeOK
<1>4. Alone'
  BY <1>2, <1>3 DEF Alone, Busy
<1>5. AllCurrent'
  <2>1. SUFFICES ASSUME calm', NEW r \in Slots, op'[r] # Idle PROVE Current(op[r])'
    BY DEF AllCurrent, Busy
  <2>2. op'[r] = o
    BY <1>2, <1>3, <2>1 DEF Busy
  <2> QED BY <1>1, <2>2 DEF Current
<1>6. \A j \in Instances, u \in Tenants, x \in Plans : planCache'[j][u][x] # NoEntry =>
         /\ planCache'[j][u][x] = planCache[j][u][x]
         /\ j \notin deaf' => j \notin deaf
         /\ <<j, u, x>> \in notices => <<j, u, x>> \in notices'
  <2>1. CASE kind = "restart"
    <3>1. /\ planCache' = [planCache EXCEPT ![i] = [u \in Tenants |-> NoPlans]]
          /\ notices' = {n \in notices : n[1] # i}
          /\ deaf' = deaf \ {i}
      BY <2>1 DEF Start
    <3>2. \A x \in Plans : NoPlans[x] = NoEntry
      BY DEF NoPlans
    <3>3. CachesOK
      BY DEF Catalog, TypeOK, CachesOK
    <3>4. \A u \in Tenants, x \in Plans : planCache'[i][u][x] = NoEntry
      BY <3>1, <3>2, <3>3 DEF CachesOK
    <3>5. \A j \in Instances \ {i} : planCache'[j] = planCache[j]
      BY <3>1, <3>3 DEF CachesOK
    <3> QED BY <3>1, <3>4, <3>5
  <2>2. CASE kind # "restart"
    BY <2>2 DEF Start, caches
  <2> QED BY <2>1, <2>2
<1>7. WriterExact'
  <2>1. SUFFICES ASSUME calm, NEW x \in Plans \ usurped, writer[x] # NoInstance,
                        NEW u \in Tenants, planCache'[writer[x]][u][x] # NoEntry
                 PROVE  IsNow(u, x, planCache'[writer[x]][u][x])
    BY <1>2 DEF WriterExact, IsNow, Live, tables
  <2>2. writer[x] \in Instances
    BY <2>1 DEF Catalog, TypeOK
  <2>3. planCache'[writer[x]][u][x] = planCache[writer[x]][u][x]
    BY <1>6, <2>1, <2>2
  <2> QED BY <2>1, <2>3 DEF Calm, WriterExact
<1>8. DeletedDropped'
  <2>1. SUFFICES ASSUME calm, NEW x \in Plans \ usurped, writer[x] # NoInstance,
                        plans[x] # NoRow, plans[x].deleted,
                        NEW j \in Instances \ deaf', NEW u \in Tenants,
                        planCache'[j][u][x] # NoEntry
                 PROVE  <<j, u, x>> \in notices'
    BY <1>2 DEF DeletedDropped, tables
  <2> QED BY <1>6, <2>1 DEF Calm, DeletedDropped
<1> QED BY <1>4, <1>5, <1>7, <1>8 DEF Calm

\* An entry goes with the message that is delivered; an instance that misses one
\* is deaf.
LEMMA CalmBackground ==
    ASSUME Catalog, Calm, Background
    PROVE  Calm'
<1>1. /\ UNCHANGED <<tables, op, writer, calm>>
      /\ \A j \in Instances, u \in Tenants, x \in Plans :
            planCache'[j][u][x] \in {planCache[j][u][x], NoEntry}
  BY InTheBackground DEF Catalog
<1>2. Alone' /\ AllCurrent'
  BY <1>1 DEF Calm, Alone, AllCurrent, Current, IsNow, Live, Busy, tables
<1>3. WriterExact'
  <2>1. SUFFICES ASSUME calm, NEW x \in Plans \ usurped, writer[x] # NoInstance,
                        NEW u \in Tenants, planCache'[writer[x]][u][x] # NoEntry
                 PROVE  IsNow(u, x, planCache'[writer[x]][u][x])
    BY <1>1 DEF WriterExact, IsNow, Live, tables
  <2>2. writer[x] \in Instances
    BY <2>1 DEF Catalog, TypeOK
  <2>3. planCache'[writer[x]][u][x] = planCache[writer[x]][u][x]
    BY <1>1, <2>1, <2>2
  <2> QED BY <2>1, <2>3 DEF Calm, WriterExact
<1>4. ASSUME NEW j \in Instances, NEW u \in Tenants, NEW x \in Plans,
             planCache'[j][u][x] # NoEntry, j \notin deaf'
      PROVE  j \notin deaf /\ (<<j, u, x>> \in notices => <<j, u, x>> \in notices')
  <2>1. ASSUME NEW n \in notices, Deliver(n)
        PROVE  j \notin deaf /\ (<<j, u, x>> \in notices => <<j, u, x>> \in notices')
    <3>1. CachesOK /\ n[1] \in Instances /\ n[2] \in Tenants /\ n[3] \in Plans
      BY DEF Catalog, TypeOK, CachesOK
    <3>2. DroppedFrom(n[1], n[2], n[3])
      BY <2>1, <3>1, EntryDropped DEF Deliver
    <3>3. ~(j = n[1] /\ u = n[2] /\ x = n[3])
      BY <1>4, <3>2 DEF DroppedFrom
    <3>4. <<j, u, x>> # n
      BY <3>3
    <3> QED BY <1>4, <2>1, <3>4 DEF Deliver
  <2>2. ASSUME NEW n \in notices, Lose(n)
        PROVE  j \notin deaf /\ (<<j, u, x>> \in notices => <<j, u, x>> \in notices')
    BY <1>4, <2>2 DEF Lose
  <2>3. ASSUME NEW i \in Instances, NEW t \in Tenants, NEW p \in Plans, EvictPlan(i, t, p)
        PROVE  j \notin deaf /\ (<<j, u, x>> \in notices => <<j, u, x>> \in notices')
    BY <1>4, <2>3 DEF EvictPlan
  <2>4. CASE Tick
    BY <1>4, <2>4 DEF Tick, caches
  <2> QED BY <2>1, <2>2, <2>3, <2>4 DEF Background
<1>5. DeletedDropped'
  <2>1. SUFFICES ASSUME calm, NEW x \in Plans \ usurped, writer[x] # NoInstance,
                        plans[x] # NoRow, plans[x].deleted,
                        NEW j \in Instances \ deaf', NEW u \in Tenants,
                        planCache'[j][u][x] # NoEntry
                 PROVE  <<j, u, x>> \in notices'
    BY <1>1 DEF DeletedDropped, tables
  <2>2. planCache[j][u][x] # NoEntry
    BY <1>1, <2>1
  <2> QED BY <1>4, <2>1, <2>2 DEF Calm, DeletedDropped
<1> QED BY <1>2, <1>3, <1>5 DEF Calm

LEMMA CalmAtInit == Init => Calm
  BY DEF Init, Calm, Alone, AllCurrent, WriterExact, DeletedDropped, Busy

LEMMA CalmNext ==
    ASSUME Catalog, Calm, [Next]_vars
    PROVE  Calm'
<1>1. CASE UNCHANGED vars
  BY <1>1 DEF Calm, Alone, AllCurrent, Current, WriterExact, DeletedDropped, IsNow, Live, Busy,
              vars, tables, caches
<1> QED BY <1>1, NextCases, CalmSteps, CalmStart, CalmBackground

LEMMA CalmAlways == Spec => [](Catalog /\ Calm)
<1>1. Init => Catalog /\ Calm
  BY CatalogAtInit, CalmAtInit
<1>2. Catalog /\ Calm /\ [Next]_vars => (Catalog /\ Calm)'
  BY CatalogStep, CalmNext
<1> QED BY <1>1, <1>2, PTL DEF Spec

\* As long as operations do not overlap, the instance that served the last
\* change of a plan answers, for every tenant, the plan as it is in the table,
\* or has no entry and looks there: also after queries that fail, lost
\* messages, evictions and restarts.
THEOREM WritersAreCurrent == Spec => []WriterIsCurrent
<1>1. Calm => WriterIsCurrent
  BY DEF Calm, WriterExact, WriterIsCurrent, IsNow
<1> QED BY <1>1, CalmAlways, PTL

\* Under the same conditions PlanStore.Invalidate removes a deleted plan from
\* every instance that hears the messages, and nothing brings it back: no
\* later read, warm-up or license operation caches it before it is restored.
THEOREM DeletesHold == Spec => []DeleteHolds
<1>1. Calm => DeleteHolds
  BY DEF Calm, DeletedDropped, DeleteHolds, Quiet
<1> QED BY <1>1, CalmAlways, PTL

\* The step that ends an operation at "file" is its File.
LEMMA EndsAtFile ==
    ASSUME Catalog, [Next]_vars, NEW s \in Slots, At(s, "file"), ~Busy(s)'
    PROVE  File(s)
<1>1. op'[s] # op[s] /\ op[s].step = "file" /\ Busy(s)
  BY DEF At, Busy
<1>2. CASE OpStep(s)
  <2>1. op[s].kind # "restart" /\ op[s].kind \in AllKinds /\ Shape(op[s])
    BY <1>1, ShapeOf DEF Catalog, Shape, StepsOf
  <2> QED BY <1>1, <1>2 DEF OpStep, Check, Upsert, Write, Get, Find, Put, Drop, Store, StoreFails,
                            Read, Refile, List, Fail, At
<1>3. ASSUME NEW r \in Slots, r # s, OpStep(r) PROVE FALSE
  BY <1>1, <1>3, GrantsInSteps DEF Granting, Moves
<1>4. ASSUME NEW r \in Slots, NEW kind \in Kinds, NEW i \in Instances,
             NEW t \in Tenants \cup {NoTenant}, NEW p \in Plans, NEW k \in Keys,
             Start(r, kind, i, t, p, k)
      PROVE  FALSE
  <2>1. r # s
    BY <1>1, <1>4 DEF Start
  <2> QED BY <1>1, <1>4, <2>1 DEF Start, Catalog, TypeOK
<1>5. CASE Background
  BY <1>1, <1>5, InTheBackground DEF Catalog
<1>6. CASE UNCHANGED vars
  BY <1>1, <1>6 DEF vars
<1> QED BY <1>2, <1>3, <1>4, <1>5, <1>6, NextCases

\* As long as operations do not overlap, an instance that served the last change
\* of a plan and now caches a license of it, with the plan read from its cache
\* or from the table, files the features of the documented order (plan, trial,
\* overrides) over the plan's present content, and the plan's product.
THEOREM FeaturesAsDocumented == Spec => ResolvedAsDocumented
<1>1. ASSUME Catalog, Calm, [Next]_vars, NEW s \in Slots,
             At(s, "file"), ~Busy(s)', calm, op[s].held # {},
             \A l \in op[s].lics : l[2].terms.type = "plan",
             op[s].p \notin usurped, writer[op[s].p] = op[s].i, Live(op[s].t, op[s].p)
      PROVE  LET c == plans[op[s].p].content
                 e == licCache'[op[s].i][op[s].k]
             IN  /\ e.final = Documented(e.row.terms, c.features, OnTrial(e.row.terms, now))
                 /\ e.product = c.product
  <2>1. File(s)
    BY <1>1, EndsAtFile
  <2>2. Busy(s) /\ op[s].step = "file"
    BY <1>1 DEF At
  <2>3. PICK l \in op[s].lics :
            /\ l[1] = op[s].k /\ l[2].plan = op[s].p /\ ValidTerms(l[2].terms)
            /\ l[2] \in LicenseType
            /\ licCache'[op[s].i][op[s].k] = Resolved(l[2], ThePlan(s))
    BY <1>1, <2>1, Filings DEF Catalog
  <2>4. op[s].held \in HeldType
    BY <1>1, <2>2, ShapeOf DEF Catalog
  <2>5. PICK h \in op[s].held : ThePlan(s) = h[2] /\ h[2] \in ContentType
    BY <1>1, <2>4, ThePlanIsHeld
  <2>6. h[2] = plans[op[s].p].content
    BY <1>1, <2>2, <2>5 DEF Calm, AllCurrent, Current, IsNow
  <2>7. PICK c : c = plans[op[s].p].content
    OBVIOUS
  <2>8. c \in ContentType /\ c # NoRow /\ c.features \in SUBSET Features
    BY <2>5, <2>6, <2>7, CatalogAssumption DEF ContentType
  <2>9. PICK row \in LicenseType : row = l[2]
    BY <2>3
  <2>10. /\ row.terms \in TermsType /\ row.terms.type = "plan"
         /\ row.terms.own = {} /\ row.terms.product = NoProduct
    BY <1>1, <2>3, <2>9 DEF LicenseType, ValidTerms
  <2>11. PICK e : e = Resolved(row, c)
    OBVIOUS
  <2>12. e = licCache'[op[s].i][op[s].k]
    BY <2>3, <2>5, <2>6, <2>7, <2>9, <2>11
  <2>13. /\ e.row = row /\ e.product = c.product
         /\ e.final = ResolveFinalFeatures(row.terms, c.features, now)
    BY <2>8, <2>10, <2>11 DEF Resolved
  <2>14. now \in Nat
    BY <1>1 DEF Catalog, TypeOK
  <2>15. e.final = Documented(row.terms, c.features, OnTrial(row.terms, now))
    BY <2>8, <2>10, <2>13, <2>14, DocumentedFeatures
  <2> QED BY <2>7, <2>12, <2>13, <2>15
<1>2. Catalog /\ Calm /\ [Next]_vars =>
         [\A s \in Slots :
             /\ At(s, "file") /\ ~Busy(s)' /\ calm /\ op[s].held # {}
             /\ \A l \in op[s].lics : l[2].terms.type = "plan"
             /\ op[s].p \notin usurped /\ writer[op[s].p] = op[s].i
             /\ Live(op[s].t, op[s].p)
             => LET c == plans[op[s].p].content
                    e == licCache'[op[s].i][op[s].k]
                IN  /\ e.final = Documented(e.row.terms, c.features, OnTrial(e.row.terms, now))
                    /\ e.product = c.product]_vars
  BY <1>1
<1> QED BY <1>2, CalmAlways, PTL DEF ResolvedAsDocumented, Spec

-----------------------------------------------------------------------------
(* Signed licenses.                                                        *)

\* From its lookup on, a request holds an object.
Holding == {"find", "writeAct", "writeClient", "signAct", "signClient", "signed"}

\* A request has an object from its lookup on, one that has been cached; it
\* queries for a client, and writes only what it has found.
Located ==
    \A r \in Requests :
        /\ pc[r] \in Holding => req[r].obj \in Objects
        /\ pc[r] \in {"idle", "lookup"} => req[r].obj = NoObject /\ req[r].found = NoAct
        /\ pc[r] = "find" => req[r].client \in Clients /\ req[r].found = NoAct
        /\ pc[r] \in Writing => req[r].found # NoAct

\* What a request has written is still there unless another one wrote there.
WrittenStays ==
    \A r \in Requests : req[r].found # NoAct /\ r \notin touched =>
        /\ pc[r] \in {"writeClient", "signAct"} => heap[req[r].obj].act = req[r].found
        /\ pc[r] \in Signing => heap[req[r].obj].client = req[r].client
        /\ pc[r] = "signClient" => req[r].act = req[r].found

\* An activation is active for the client it was made for.  What has been
\* answered as released, what is owed an answer, and what an object is said to
\* be clear of, is released and stays so.
ReleasedForGood ==
    /\ \A c \in Clients : active[c] # NoAct => owner[active[c]] = c
    /\ over \subseteq Released
    /\ \A m \in owed : m.release => m.act \in Released
    /\ \A o \in Objects : gone[o] \subseteq Released

\* The entry is younger than every release that has been answered here.
EntryIsFresh ==
    /\ gk <= cached
    /\ gk # NoObject => over \subseteq gone[gk]
    /\ \A o \in Objects : o > cached => heap[o].act = NoAct

\* No object holds an activation released before it was cached, and none of
\* the requests that have it does; what was over when a request came was
\* released before its object was cached.
ObjectsAreClean ==
    /\ \A o \in Objects : heap[o].act \notin gone[o]
    /\ \A r \in Requests :
          /\ barred[r] \subseteq over
          /\ req[r].obj <= cached
          /\ pc[r] \in Holding => barred[r] \subseteq gone[req[r].obj]
          /\ pc[r] \in Writing => req[r].found \notin gone[req[r].obj]
          /\ pc[r] = "signClient" => req[r].act \notin gone[req[r].obj]
          /\ pc[r] = "signed" => payload[r].act \notin gone[req[r].obj]

CleanInv == ReleasedForGood /\ EntryIsFresh /\ ObjectsAreClean

-----------------------------------------------------------------------------
LEMMA Numbers ==
    /\ Objects \subseteq Nat /\ ActIDs \subseteq Nat
    /\ NoObject \notin Objects /\ NoAct \notin ActIDs
    /\ \A n \in 0..MaxCached : n < MaxCached => n + 1 \in Objects /\ n + 1 \in 0..MaxCached
  BY SignedAssumption DEF Objects, ActIDs, NoObject, NoAct

LEMMA LocatedInitial == SignedInit => SignedTypeOK /\ Located
<1> SUFFICES ASSUME SignedInit PROVE SignedTypeOK /\ Located
  OBVIOUS
<1> USE SignedAssumption, Numbers
<1>1. Located
  BY DEF SignedInit, Located, Holding, Writing
<1>2. req \in [Requests -> RequestType]
  BY DEF SignedInit, RequestType, AnyAct
<1>3. heap \in [Objects -> Binding] /\ payload \in [Requests -> Binding]
  BY DEF SignedInit, Unbound, Binding, AnyAct, AnyClient
<1>4. SignedTypeOK
  BY <1>2, <1>3 DEF SignedInit, SignedTypeOK, AnyAct, AnyClient, SignedSteps
<1> QED BY <1>1, <1>4

\* What a step of a request leaves alone keeps its type.
LEMMA LocatedInductive ==
    SignedTypeOK /\ Located /\ [SignedNext]_signedVars => SignedTypeOK' /\ Located'
<1> SUFFICES ASSUME SignedTypeOK, Located, [SignedNext]_signedVars PROVE SignedTypeOK' /\ Located'
  OBVIOUS
<1> USE SignedAssumption, Numbers
<1>1. CASE UNCHANGED signedVars
  BY <1>1 DEF SignedTypeOK, Located, signedVars
<1>2. ASSUME NEW c \in Clients, NEW here \in BOOLEAN, Activate(c, here) \/ Release(c, here)
      PROVE  SignedTypeOK' /\ Located'
  <2>1. UNCHANGED <<over, gk, cached, gone, pc, req, payload, touched, barred, heap>>
    BY <1>2 DEF Activate, Release, cacheVars, reqVars
  <2>2. active' \in [Clients -> AnyAct] /\ owner' \in [ActIDs -> AnyClient]
    BY <1>2 DEF SignedTypeOK, Activate, Release, AnyAct, AnyClient
  <2>3. owed' \in SUBSET [act : ActIDs, release : BOOLEAN]
    <3>1. CASE Activate(c, here)
      <4>1. PICK a \in ActIDs :
                owed' = owed \cup IF here THEN {[act |-> a, release |-> FALSE]} ELSE {}
        BY <3>1 DEF Activate
      <4>2. [act |-> a, release |-> FALSE] \in [act : ActIDs, release : BOOLEAN]
        OBVIOUS
      <4>3. owed' \subseteq owed \cup {[act |-> a, release |-> FALSE]}
        BY <4>1
      <4> QED BY <4>2, <4>3, Zenon DEF SignedTypeOK
    <3>2. CASE Release(c, here)
      <4>1. active[c] \in ActIDs
        BY <3>2 DEF SignedTypeOK, Release, AnyAct
      <4>2. owed' = owed \cup IF here THEN {[act |-> active[c], release |-> TRUE]} ELSE {}
        BY <3>2 DEF Release
      <4>3. [act |-> active[c], release |-> TRUE] \in [act : ActIDs, release : BOOLEAN]
        BY <4>1
      <4>4. owed' \subseteq owed \cup {[act |-> active[c], release |-> TRUE]}
        BY <4>2
      <4> QED BY <4>3, <4>4, Zenon DEF SignedTypeOK
    <3> QED BY <1>2, <3>1, <3>2
  <2> QED BY <2>1, <2>2, <2>3 DEF SignedTypeOK, Located
<1>3. ASSUME NEW m \in owed, Invalidate(m) PROVE SignedTypeOK' /\ Located'
  BY <1>3 DEF SignedTypeOK, Located, Invalidate, reqVars
<1>4. CASE Cache \/ Evict
  <2>1. UNCHANGED <<active, owner, owed, over, pc, req, payload, touched, barred, heap>>
    BY <1>4 DEF Cache, Evict, Place, actVars, reqVars
  <2>2. gk' \in Objects \cup {NoObject} /\ cached' \in 0..MaxCached
    BY <1>4 DEF SignedTypeOK, Cache, Evict, Place
  <2>3. gone' \in [Objects -> SUBSET ActIDs]
    BY <1>4 DEF SignedTypeOK, Cache, Evict, Place, Released
  <2> QED BY <2>1, <2>2, <2>3 DEF SignedTypeOK, Located
<1>5. CASE MapFault
  <2>1. pc' \in [Requests -> SignedSteps] /\ \A r \in Requests : pc'[r] \in {pc[r], "lost"}
    BY <1>5 DEF MapFault, SignedTypeOK, SignedSteps
  <2>2. SignedTypeOK'
    BY <1>5, <2>1 DEF MapFault, SignedTypeOK
  <2> QED
    BY <1>5, <2>1, <2>2 DEF MapFault, Located, Holding, Writing
<1>6. ASSUME NEW r \in Requests, Arrive(r) PROVE SignedTypeOK' /\ Located'
  <2>1. SignedTypeOK'
    BY <1>6 DEF Arrive, SignedTypeOK, Goto, SignedSteps, actVars, cacheVars
  <2> QED
    BY <1>6, <2>1 DEF Arrive, SignedTypeOK, Located, Goto, Holding, Writing
<1>7. ASSUME NEW r \in Requests, Lookup(r) PROVE SignedTypeOK' /\ Located'
  <2>1. UNCHANGED <<active, owner, owed, over, gk, cached, gone, payload, touched, barred, heap>>
    BY <1>7 DEF Lookup, actVars, cacheVars
  <2>2. req' \in [Requests -> RequestType] /\ pc' \in [Requests -> SignedSteps]
    BY <1>7 DEF Lookup, SignedTypeOK, RequestType, Goto, SignedSteps
  <2>3. SignedTypeOK'
    BY <2>1, <2>2 DEF SignedTypeOK
  <2> QED
    BY <1>7, <2>3 DEF Lookup, SignedTypeOK, Located, Goto, Holding, Writing, RequestType, AnyClient
<1>8. ASSUME NEW r \in Requests, GetActiveByClient(r) PROVE SignedTypeOK' /\ Located'
  <2>1. UNCHANGED <<active, owner, owed, over, gk, cached, gone, payload, touched, barred, heap>>
    BY <1>8 DEF GetActiveByClient, actVars, cacheVars
  <2>2. req[r].client \in Clients /\ req[r].obj \in Objects
    BY <1>8 DEF GetActiveByClient, Located, Holding
  <2>3. PICK a \in {active[req[r].client], NoAct} :
            /\ req' = [req EXCEPT ![r].found = a]
            /\ Goto(r, IF a = NoAct THEN "signAct" ELSE "writeAct")
    BY <1>8 DEF GetActiveByClient
  <2>4. a \in AnyAct
    BY <2>2 DEF SignedTypeOK, AnyAct
  <2>5. req' \in [Requests -> RequestType] /\ pc' \in [Requests -> SignedSteps]
    <3>1. [req[r] EXCEPT !.found = a] \in RequestType
      BY <2>4 DEF SignedTypeOK, RequestType
    <3>2. req' = [req EXCEPT ![r] = [req[r] EXCEPT !.found = a]]
      BY <2>3
    <3>3. req' \in [Requests -> RequestType]
      BY <3>1, <3>2 DEF SignedTypeOK
    <3>4. pc' \in [Requests -> SignedSteps]
      BY <2>3 DEF SignedTypeOK, Goto, SignedSteps
    <3> QED BY <3>3, <3>4
  <2>6. SignedTypeOK'
    BY <2>1, <2>5 DEF SignedTypeOK
  <2> QED
    BY <2>2, <2>3, <2>6 DEF SignedTypeOK, Located, Goto, Holding, Writing, RequestType
<1>9. ASSUME NEW r \in Requests, WriteActivationID(r) \/ WriteClientID(r)
      PROVE  SignedTypeOK' /\ Located'
  <2>1. UNCHANGED <<active, owner, owed, over, gk, cached, gone, req, payload, barred>>
    BY <1>9 DEF WriteActivationID, WriteClientID, actVars, cacheVars
  <2>2. req[r].obj \in Objects
    BY <1>9 DEF WriteActivationID, WriteClientID, Located, Holding
  <2>3. heap' \in [Objects -> Binding]
    <3>1. heap[req[r].obj] \in Binding /\ req[r] \in RequestType
      BY <2>2 DEF SignedTypeOK
    <3>2. /\ [heap[req[r].obj] EXCEPT !.act = req[r].found] \in Binding
          /\ [heap[req[r].obj] EXCEPT !.client = req[r].client] \in Binding
      BY <3>1 DEF Binding, RequestType
    <3>3. \/ heap' = [heap EXCEPT ![req[r].obj] = [heap[req[r].obj] EXCEPT !.act = req[r].found]]
          \/ heap' = [heap EXCEPT ![req[r].obj] = [heap[req[r].obj] EXCEPT !.client = req[r].client]]
      BY <1>9 DEF WriteActivationID, WriteClientID
    <3> QED BY <3>2, <3>3 DEF SignedTypeOK
  <2>4. pc' \in [Requests -> SignedSteps] /\ touched' \in SUBSET Requests
    BY <1>9 DEF WriteActivationID, WriteClientID, SignedTypeOK, Goto, SignedSteps, Sharers
  <2>5. SignedTypeOK'
    BY <2>1, <2>3, <2>4 DEF SignedTypeOK
  <2> QED
    BY <1>9, <2>1, <2>2, <2>5
    DEF WriteActivationID, WriteClientID, SignedTypeOK, Located, Goto, Holding, Writing
<1>10. ASSUME NEW r \in Requests, SignActivationID(r) \/ SignClientID(r)
      PROVE  SignedTypeOK' /\ Located'
  <2>1. UNCHANGED <<active, owner, owed, over, gk, cached, gone, touched, barred, heap>>
    BY <1>10 DEF SignActivationID, SignClientID, actVars, cacheVars
  <2>2. req[r].obj \in Objects
    BY <1>10 DEF SignActivationID, SignClientID, Located, Holding
  <2>3. req' \in [Requests -> RequestType] /\ payload' \in [Requests -> Binding]
    <3>1. heap[req[r].obj] \in Binding /\ req[r] \in RequestType
      BY <2>2 DEF SignedTypeOK
    <3>2. /\ [req[r] EXCEPT !.act = heap[req[r].obj].act] \in RequestType
          /\ [act |-> req[r].act, client |-> heap[req[r].obj].client] \in Binding
      BY <3>1 DEF Binding, RequestType
    <3>3. CASE SignActivationID(r)
      <4>1. req' = [req EXCEPT ![r] = [req[r] EXCEPT !.act = heap[req[r].obj].act]]
        BY <3>3 DEF SignActivationID
      <4> QED BY <3>2, <3>3, <4>1 DEF SignActivationID, SignedTypeOK
    <3>4. CASE SignClientID(r)
      BY <3>2, <3>4 DEF SignClientID, SignedTypeOK
    <3> QED BY <1>10, <3>3, <3>4
  <2>4. pc' \in [Requests -> SignedSteps]
    BY <1>10 DEF SignActivationID, SignClientID, SignedTypeOK, Goto, SignedSteps
  <2>5. SignedTypeOK'
    BY <2>1, <2>3, <2>4 DEF SignedTypeOK
  <2>6. CASE SignActivationID(r)
    BY <2>1, <2>2, <2>5, <2>6
    DEF SignActivationID, SignedTypeOK, Located, Goto, Holding, Writing, RequestType
  <2>7. CASE SignClientID(r)
    BY <2>1, <2>2, <2>5, <2>7 DEF SignClientID, SignedTypeOK, Located, Goto, Holding, Writing
  <2> QED BY <1>10, <2>6, <2>7
<1> QED
  BY <1>1, <1>2, <1>3, <1>4, <1>5, <1>6, <1>7, <1>8, <1>9, <1>10 DEF SignedNext, Handle

\* Variables hold values of their types (SignedTypeOK): no request ever reads the
\* metadata of an object that was not cached.
THEOREM SignedTypeCorrect == SignedSpec => []SignedTypeOK
  BY LocatedInitial, LocatedInductive, PTL DEF SignedSpec
-----------------------------------------------------------------------------
LEMMA WrittenInitial == SignedInit => WrittenStays /\ BoundToRequester
  BY DEF SignedInit, WrittenStays, BoundToRequester, Signing

\* A request that writes after another one to the same object marks that one
\* as touched, which ends what is claimed of it.
LEMMA WrittenInductive ==
    SignedTypeOK /\ Located /\ WrittenStays /\ BoundToRequester /\ [SignedNext]_signedVars
        => WrittenStays' /\ BoundToRequester'
<1> SUFFICES ASSUME SignedTypeOK, Located, WrittenStays, BoundToRequester, [SignedNext]_signedVars
             PROVE  WrittenStays' /\ BoundToRequester'
  OBVIOUS
<1> USE SignedAssumption, Numbers
\* Steps that leave the requests and the objects alone.
<1>1. ASSUME UNCHANGED <<heap, req, payload, touched>>,
             \A r \in Requests : pc'[r] \in {pc[r], "lost", "lookup"}
      PROVE  WrittenStays' /\ BoundToRequester'
  BY <1>1 DEF WrittenStays, BoundToRequester, Signing
<1>2. ASSUME NEW c \in Clients, NEW here \in BOOLEAN, Activate(c, here) \/ Release(c, here)
      PROVE  WrittenStays' /\ BoundToRequester'
  BY <1>1, <1>2 DEF Activate, Release, reqVars
<1>3. ASSUME NEW m \in owed, Invalidate(m) PROVE WrittenStays' /\ BoundToRequester'
  BY <1>1, <1>3 DEF Invalidate, reqVars
<1>4. CASE Cache \/ Evict \/ UNCHANGED signedVars
  BY <1>1, <1>4 DEF Cache, Evict, Place, reqVars, signedVars
<1>5. CASE MapFault
  BY <1>1, <1>5 DEF MapFault
<1>6. ASSUME NEW r \in Requests, Arrive(r) PROVE WrittenStays' /\ BoundToRequester'
  BY <1>1, <1>6 DEF Arrive, Goto, SignedTypeOK
<1>7. ASSUME NEW r \in Requests, Lookup(r) PROVE WrittenStays' /\ BoundToRequester'
  <2>1. req[r].found = NoAct
    BY <1>7 DEF Located, Lookup
  <2>2. req'[r].found = NoAct /\ \A s \in Requests \ {r} : req'[s] = req[s] /\ pc'[s] = pc[s]
    BY <1>7, <2>1 DEF Lookup, SignedTypeOK, RequestType, Goto
  <2> QED
    BY <1>7, <2>2 DEF Lookup, WrittenStays, BoundToRequester
<1>8. ASSUME NEW r \in Requests, GetActiveByClient(r) PROVE WrittenStays' /\ BoundToRequester'
  <2>1. /\ req'[r].found = NoAct \/ pc'[r] = "writeAct"
        /\ \A s \in Requests \ {r} : req'[s] = req[s] /\ pc'[s] = pc[s]
    BY <1>8 DEF GetActiveByClient, SignedTypeOK, RequestType, Goto
  <2> QED
    BY <1>8, <2>1 DEF GetActiveByClient, WrittenStays, BoundToRequester, Signing
<1>9. ASSUME NEW r \in Requests, WriteActivationID(r) \/ WriteClientID(r)
      PROVE  WrittenStays' /\ BoundToRequester'
  <2>1. UNCHANGED <<req, payload>> /\ touched' = touched \cup Sharers(r)
    BY <1>9 DEF WriteActivationID, WriteClientID
  <2>2. req[r].obj \in Objects
    BY <1>9 DEF WriteActivationID, WriteClientID, Located, Holding
  <2>3. pc'[r] \in {"writeClient", "signAct"} /\ \A s \in Requests \ {r} : pc'[s] = pc[s]
    BY <1>9 DEF WriteActivationID, WriteClientID, SignedTypeOK, Goto
  <2>4. \A o \in Objects \ {req[r].obj} : heap'[o] = heap[o]
    BY <1>9, <2>2 DEF WriteActivationID, WriteClientID, SignedTypeOK
  <2>5. BoundToRequester'
    BY <2>1, <2>3 DEF BoundToRequester
  <2>6. ASSUME NEW s \in Requests, s # r, req[s].found # NoAct, s \notin touched',
               pc[s] \in {"writeClient"} \cup Signing
        PROVE  heap'[req[s].obj] = heap[req[s].obj]
    <3>1. req[s].obj # req[r].obj
      BY <2>1, <2>6 DEF Sharers
    <3>2. req[s].obj \in Objects
      BY <2>6 DEF Located, Holding, Signing
    <3> QED BY <2>4, <3>1, <3>2
  <2>7. ASSUME req[r].found # NoAct, r \notin touched'
        PROVE  /\ heap'[req[r].obj].act = req[r].found
               /\ pc'[r] \in Signing => heap'[req[r].obj].client = req[r].client
    <3>1. heap[req[r].obj] \in Binding
      BY <2>2 DEF SignedTypeOK
    <3>2. CASE WriteActivationID(r)
      BY <2>2, <3>1, <3>2 DEF WriteActivationID, SignedTypeOK, Binding, Goto, Signing
    <3>3. CASE WriteClientID(r)
      <4>1. heap[req[r].obj].act = req[r].found
        BY <2>1, <2>7, <3>3 DEF WrittenStays, WriteClientID
      <4> QED
        BY <2>2, <3>1, <3>3, <4>1 DEF WriteClientID, SignedTypeOK, Binding
    <3> QED BY <1>9, <3>2, <3>3
  <2>8. WrittenStays'
    <3> SUFFICES ASSUME NEW s \in Requests, req[s].found # NoAct, s \notin touched'
                 PROVE  /\ pc'[s] \in {"writeClient", "signAct"} =>
                               heap'[req[s].obj].act = req[s].found
                        /\ pc'[s] \in Signing => heap'[req[s].obj].client = req[s].client
                        /\ pc'[s] = "signClient" => req[s].act = req[s].found
      BY <2>1 DEF WrittenStays
    <3>1. CASE s = r
      BY <2>3, <2>7, <3>1
    <3>2. CASE s # r
      <4>1. pc'[s] = pc[s] /\ s \notin touched
        BY <2>1, <2>3, <3>2
      <4>2. pc[s] \in {"writeClient"} \cup Signing => heap'[req[s].obj] = heap[req[s].obj]
        BY <2>6, <3>2
      <4> QED BY <4>1, <4>2 DEF WrittenStays, Signing
    <3> QED BY <3>1, <3>2
  <2> QED BY <2>5, <2>8
<1>10. ASSUME NEW r \in Requests, SignActivationID(r) PROVE WrittenStays' /\ BoundToRequester'
  <2>1. /\ req'[r] = [req[r] EXCEPT !.act = heap[req[r].obj].act] /\ pc'[r] = "signClient"
        /\ \A s \in Requests \ {r} : req'[s] = req[s] /\ pc'[s] = pc[s]
    BY <1>10 DEF SignActivationID, SignedTypeOK, Goto
  <2>2. /\ req'[r].act = heap[req[r].obj].act /\ req'[r].obj = req[r].obj
        /\ req'[r].client = req[r].client /\ req'[r].found = req[r].found
    BY <2>1 DEF SignedTypeOK, RequestType
  <2>3. UNCHANGED <<heap, touched, payload>> /\ pc[r] = "signAct"
    BY <1>10 DEF SignActivationID
  <2>4. BoundToRequester'
    BY <2>1, <2>3 DEF BoundToRequester
  <2>5. ASSUME req[r].found # NoAct, r \notin touched
        PROVE  heap[req[r].obj].act = req[r].found /\ heap[req[r].obj].client = req[r].client
    BY <2>3, <2>5 DEF WrittenStays, Signing
  <2>6. WrittenStays'
    <3> SUFFICES ASSUME NEW s \in Requests, req'[s].found # NoAct, s \notin touched
                 PROVE  /\ pc'[s] \in {"writeClient", "signAct"} =>
                               heap[req'[s].obj].act = req'[s].found
                        /\ pc'[s] \in Signing => heap[req'[s].obj].client = req'[s].client
                        /\ pc'[s] = "signClient" => req'[s].act = req'[s].found
      BY <2>3 DEF WrittenStays
    <3>1. CASE s = r
      BY <2>1, <2>2, <2>5, <3>1
    <3>2. CASE s # r
      <4>1. req'[s] = req[s] /\ pc'[s] = pc[s]
        BY <2>1, <3>2
      <4> QED BY <4>1 DEF WrittenStays
    <3> QED BY <3>1, <3>2
  <2> QED BY <2>4, <2>6
<1>11. ASSUME NEW r \in Requests, SignClientID(r) PROVE WrittenStays' /\ BoundToRequester'
  <2>1. /\ payload'[r].act = req[r].act /\ payload'[r].client = heap[req[r].obj].client
        /\ pc'[r] = "signed" /\ pc[r] = "signClient"
        /\ \A s \in Requests \ {r} : payload'[s] = payload[s] /\ pc'[s] = pc[s]
    BY <1>11 DEF SignClientID, SignedTypeOK, Goto
  <2>2. UNCHANGED <<heap, touched, req>>
    BY <1>11 DEF SignClientID
  <2> QED BY <2>1, <2>2 DEF WrittenStays, BoundToRequester, Signing
<1> QED
  BY <1>2, <1>3, <1>4, <1>5, <1>6, <1>7, <1>8, <1>9, <1>10, <1>11 DEF SignedNext, Handle

\* A payload is bound to the activation and the client of its own request
\* unless another request wrote to the object after it (BoundToRequester):
\* sharing the object is the only way to a foreign binding.
THEOREM PayloadsAreOwn == SignedSpec => []BoundToRequester
<1>1. SignedInit => SignedTypeOK /\ Located /\ WrittenStays /\ BoundToRequester
  BY LocatedInitial, WrittenInitial
<1>2. SignedTypeOK /\ Located /\ WrittenStays /\ BoundToRequester /\ [SignedNext]_signedVars
          => (SignedTypeOK /\ Located /\ WrittenStays /\ BoundToRequester)'
  BY LocatedInductive, WrittenInductive
<1> QED BY <1>1, <1>2, PTL DEF SignedSpec
-----------------------------------------------------------------------------
LEMMA CleanInitial == SignedInit => CleanInv
<1> SUFFICES ASSUME SignedInit PROVE CleanInv
  OBVIOUS
<1> USE SignedAssumption, Numbers
<1>1. ReleasedForGood
  BY DEF SignedInit, ReleasedForGood
<1>2. EntryIsFresh
  BY DEF SignedInit, EntryIsFresh, Unbound, NoObject, NoAct
<1>3. ObjectsAreClean
  BY DEF SignedInit, ObjectsAreClean, Holding, Writing, NoObject
<1> QED
  BY <1>1, <1>2, <1>3 DEF CleanInv

\* The activations: what is released is not made active again, and a release
\* that commits makes it so.
LEMMA ReleasedInductive ==
    ASSUME SignedTypeOK, ReleasedForGood, [SignedNext]_signedVars
    PROVE  ReleasedForGood' /\ Released \subseteq Released'
<1> USE SignedAssumption, Numbers
<1>1. ASSUME NEW c \in Clients, NEW here \in BOOLEAN, Activate(c, here)
      PROVE  ReleasedForGood' /\ Released \subseteq Released'
  <2>1. PICK a \in ActIDs : /\ owner[a] = NoClient
                            /\ active' = [active EXCEPT ![c] = a]
                            /\ owner' = [owner EXCEPT ![a] = c]
                            /\ owed' \subseteq owed \cup {[act |-> a, release |-> FALSE]}
    BY <1>1 DEF Activate
  <2>2. a \notin Released /\ \A d \in Clients : active[d] # a
    BY <2>1 DEF Released, ReleasedForGood
  <2>3. Released \subseteq Released'
    BY <2>1, <2>2 DEF Released, SignedTypeOK
  <2>4. \A d \in Clients : active'[d] # NoAct => owner'[active'[d]] = d
    BY <2>1, <2>2 DEF ReleasedForGood, SignedTypeOK
  <2>5. UNCHANGED <<over, gone>>
    BY <1>1 DEF Activate, cacheVars
  <2> QED BY <2>1, <2>3, <2>4, <2>5 DEF ReleasedForGood
<1>2. ASSUME NEW c \in Clients, NEW here \in BOOLEAN, Release(c, here)
      PROVE  ReleasedForGood' /\ Released \subseteq Released'
  <2>1. /\ active[c] # NoAct /\ active' = [active EXCEPT ![c] = NoAct]
        /\ owed' \subseteq owed \cup {[act |-> active[c], release |-> TRUE]}
        /\ UNCHANGED <<owner, over, gone>>
    BY <1>2 DEF Release, cacheVars
  <2>2. active[c] \in ActIDs
    BY <2>1 DEF SignedTypeOK, AnyAct
  <2>3. Released \subseteq Released'
    BY <2>1 DEF Released, SignedTypeOK
  <2>4. active[c] \in Released'
    <3>1. owner[active[c]] = c
      BY <2>1 DEF ReleasedForGood
    <3>2. \A d \in Clients : active'[d] # active[c]
      BY <2>1, <2>2, <3>1 DEF ReleasedForGood, SignedTypeOK
    <3> QED BY <2>1, <2>2, <3>1, <3>2 DEF Released
  <2>5. \A d \in Clients : active'[d] # NoAct => owner'[active'[d]] = d
    BY <2>1 DEF ReleasedForGood, SignedTypeOK
  <2> QED BY <2>1, <2>3, <2>4, <2>5 DEF ReleasedForGood
<1>3. ASSUME UNCHANGED <<active, owner>>, over' \subseteq Released, owed' \subseteq owed,
             \A o \in Objects : gone'[o] \subseteq Released
      PROVE  ReleasedForGood' /\ Released \subseteq Released'
  <2>1. Released' = Released
    BY <1>3 DEF Released
  <2> QED BY <1>3, <2>1 DEF ReleasedForGood
<1>4. ASSUME NEW m \in owed, Invalidate(m) PROVE ReleasedForGood' /\ Released \subseteq Released'
  BY <1>3, <1>4 DEF Invalidate, ReleasedForGood
<1>5. CASE Cache
  BY <1>3, <1>5 DEF Cache, Place, actVars, ReleasedForGood, SignedTypeOK
<1>6. CASE Evict \/ MapFault \/ UNCHANGED signedVars
  BY <1>3, <1>6 DEF Evict, MapFault, actVars, signedVars, ReleasedForGood
<1>7. ASSUME NEW r \in Requests, Arrive(r) \/ Handle(r)
      PROVE  ReleasedForGood' /\ Released \subseteq Released'
  <2>1. UNCHANGED <<active, owner, over, owed, gone>>
    BY <1>7 DEF Arrive, Handle, Lookup, GetActiveByClient, WriteActivationID, WriteClientID,
       SignActivationID, SignClientID, actVars, cacheVars
  <2> QED BY <1>3, <2>1 DEF ReleasedForGood
<1> QED
  BY <1>1, <1>2, <1>4, <1>5, <1>6, <1>7 DEF SignedNext

\* The entry: only a new object can have been cached before an answer, and an
\* answer drops the entry first.
LEMMA EntryInductive ==
    ASSUME SignedTypeOK, Located, CleanInv, [SignedNext]_signedVars
    PROVE  EntryIsFresh'
<1> USE SignedAssumption, Numbers DEF CleanInv
<1>1. ASSUME UNCHANGED <<cached, gone>>, gk' = NoObject \/ (gk' = gk /\ over' = over),
             \A o \in Objects : o > cached => heap'[o].act = heap[o].act
      PROVE  EntryIsFresh'
  <2>1. gk' <= cached'
    BY <1>1 DEF EntryIsFresh, SignedTypeOK, NoObject
  <2>2. \A o \in Objects : o > cached' => heap'[o].act = NoAct
    BY <1>1 DEF EntryIsFresh
  <2> QED BY <1>1, <2>1, <2>2 DEF EntryIsFresh
<1>2. ASSUME NEW c \in Clients, NEW here \in BOOLEAN, Activate(c, here) \/ Release(c, here)
      PROVE  EntryIsFresh'
  BY <1>1, <1>2 DEF Activate, Release, cacheVars
<1>3. ASSUME NEW m \in owed, Invalidate(m) PROVE EntryIsFresh'
  BY <1>3 DEF Invalidate, EntryIsFresh, SignedTypeOK, NoObject
<1>4. CASE Cache
  <2>1. /\ cached' = cached + 1 /\ gk' = cached + 1 /\ cached + 1 \in Objects
        /\ gone' = [gone EXCEPT ![cached + 1] = Released]
        /\ UNCHANGED <<over, heap>>
    BY <1>4 DEF Cache, Place, actVars, SignedTypeOK
  <2>2. over' \subseteq gone'[gk']
    BY <2>1 DEF ReleasedForGood, SignedTypeOK
  <2> QED BY <2>1, <2>2 DEF EntryIsFresh, SignedTypeOK
<1>5. CASE Evict \/ UNCHANGED signedVars
  BY <1>1, <1>5 DEF Evict, actVars, signedVars
<1>6. CASE MapFault
  BY <1>1, <1>6 DEF MapFault
<1>7. ASSUME NEW r \in Requests, WriteActivationID(r) \/ WriteClientID(r) PROVE EntryIsFresh'
  <2>1. req[r].obj \in Objects /\ req[r].obj <= cached
    BY <1>7 DEF WriteActivationID, WriteClientID, Located, Holding, ObjectsAreClean
  <2>2. \A o \in Objects : o > cached => heap'[o] = heap[o]
    BY <1>7, <2>1 DEF WriteActivationID, WriteClientID, SignedTypeOK
  <2> QED
    BY <1>1, <1>7, <2>2 DEF WriteActivationID, WriteClientID, actVars, cacheVars
<1>8. ASSUME NEW r \in Requests,
             \/ Arrive(r) \/ Lookup(r) \/ GetActiveByClient(r)
             \/ SignActivationID(r) \/ SignClientID(r)
      PROVE  EntryIsFresh'
  BY <1>1, <1>8 DEF Arrive, Lookup, GetActiveByClient, SignActivationID, SignClientID,
     actVars, cacheVars
<1> QED
  BY <1>2, <1>3, <1>4, <1>5, <1>6, <1>7, <1>8 DEF SignedNext, Handle
\* The objects and the requests that have them.
LEMMA ObjectsInductive ==
    ASSUME SignedTypeOK, Located, CleanInv, [SignedNext]_signedVars
    PROVE  ObjectsAreClean'
<1> USE SignedAssumption, Numbers DEF CleanInv
\* Steps that touch neither the objects nor, but to lose them, the requests.
<1>1. ASSUME UNCHANGED <<heap, gone, cached, req, payload, barred>>, over \subseteq over',
             \A r \in Requests : pc'[r] \in {pc[r], "lost"}
      PROVE  ObjectsAreClean'
  BY <1>1 DEF ObjectsAreClean, Holding, Writing
<1>2. ASSUME NEW c \in Clients, NEW here \in BOOLEAN, Activate(c, here) \/ Release(c, here)
      PROVE  ObjectsAreClean'
  BY <1>1, <1>2 DEF Activate, Release, cacheVars, reqVars
<1>3. ASSUME NEW m \in owed, Invalidate(m) PROVE ObjectsAreClean'
  BY <1>1, <1>3 DEF Invalidate, reqVars
<1>4. CASE Cache
  <2>1. /\ cached' = cached + 1 /\ cached + 1 \in Objects
        /\ gone' = [gone EXCEPT ![cached + 1] = Released]
        /\ UNCHANGED <<over, heap, pc, req, payload, barred>>
    BY <1>4 DEF Cache, Place, actVars, reqVars, SignedTypeOK
  <2>2. heap[cached + 1].act = NoAct
    BY <2>1 DEF EntryIsFresh, SignedTypeOK
  <2>3. \A o \in Objects : heap'[o].act \notin gone'[o]
    BY <2>1, <2>2 DEF ObjectsAreClean, SignedTypeOK, Released
  <2>4. \A r \in Requests : req[r].obj \in Nat
    <3>1. \A r \in Requests : req[r].obj \in Objects \cup {NoObject}
      BY DEF SignedTypeOK, RequestType
    <3>2. NoObject \in Nat
      BY DEF NoObject
    <3> QED BY <3>1, <3>2
  <2>5. \A r \in Requests : req[r].obj <= cached /\ req[r].obj # cached + 1
    BY <2>4 DEF ObjectsAreClean, SignedTypeOK
  <2>6. \A r \in Requests : pc[r] \in Holding => gone'[req[r].obj] = gone[req[r].obj]
    BY <2>1, <2>5 DEF Located, SignedTypeOK
  <2>7. \A r \in Requests : req[r].obj <= cached + 1
    BY <2>4, <2>5 DEF SignedTypeOK
  <2> QED
    BY <2>1, <2>3, <2>6, <2>7 DEF ObjectsAreClean, Holding, Writing
<1>5. CASE Evict \/ UNCHANGED signedVars
  BY <1>1, <1>5 DEF Evict, actVars, reqVars, signedVars
<1>6. CASE MapFault
  BY <1>1, <1>6 DEF MapFault
<1>7. ASSUME NEW r \in Requests, Arrive(r) PROVE ObjectsAreClean'
  <2>1. /\ barred'[r] = over /\ pc'[r] = "lookup"
        /\ \A s \in Requests \ {r} : barred'[s] = barred[s] /\ pc'[s] = pc[s]
    BY <1>7 DEF Arrive, SignedTypeOK, Goto
  <2>2. UNCHANGED <<heap, gone, cached, req, payload, over>>
    BY <1>7 DEF Arrive, actVars, cacheVars
  <2> QED BY <2>1, <2>2 DEF ObjectsAreClean, Holding, Writing
<1>8. ASSUME NEW r \in Requests, Lookup(r) PROVE ObjectsAreClean'
  <2>1. /\ req'[r].obj = gk /\ pc'[r] \in {"refused", "find", "signAct"}
        /\ pc'[r] # "refused" => gk # NoObject
        /\ \A s \in Requests \ {r} : req'[s] = req[s] /\ pc'[s] = pc[s]
    BY <1>8 DEF Lookup, SignedTypeOK, RequestType, Goto
  <2>2. UNCHANGED <<heap, gone, cached, over, barred, payload>>
    BY <1>8 DEF Lookup, actVars, cacheVars
  <2>3. gk <= cached /\ (gk # NoObject => barred[r] \subseteq gone[gk])
    BY DEF EntryIsFresh, ObjectsAreClean
  <2> QED BY <2>1, <2>2, <2>3 DEF ObjectsAreClean, Holding, Writing
<1>9. ASSUME NEW r \in Requests, GetActiveByClient(r) PROVE ObjectsAreClean'
  <2>1. req[r].client \in Clients /\ req[r].obj \in Objects /\ pc[r] = "find"
    BY <1>9 DEF GetActiveByClient, Located, Holding
  <2>2. /\ req'[r].obj = req[r].obj /\ pc'[r] \in {"signAct", "writeAct"}
        /\ pc'[r] = "writeAct" =>
              req'[r].found = active[req[r].client] /\ req'[r].found # NoAct
        /\ \A s \in Requests \ {r} : req'[s] = req[s] /\ pc'[s] = pc[s]
    BY <1>9 DEF GetActiveByClient, SignedTypeOK, RequestType, Goto
  <2>3. UNCHANGED <<heap, gone, cached, over, barred, payload>>
    BY <1>9 DEF GetActiveByClient, actVars, cacheVars
  \* An active activation is not among those released before.
  <2>4. active[req[r].client] \notin gone[req[r].obj]
    BY <2>1 DEF ReleasedForGood, Released
  <2>5. barred[r] \subseteq gone[req[r].obj] /\ req[r].obj <= cached
    BY <2>1 DEF ObjectsAreClean, Holding
  <2> QED BY <2>2, <2>3, <2>4, <2>5 DEF ObjectsAreClean, Holding, Writing
<1>10. ASSUME NEW r \in Requests, WriteActivationID(r) \/ WriteClientID(r) PROVE ObjectsAreClean'
  <2>1. UNCHANGED <<gone, cached, over, req, barred, payload>>
    BY <1>10 DEF WriteActivationID, WriteClientID, actVars, cacheVars
  <2>2. req[r].obj \in Objects /\ req[r].found \notin gone[req[r].obj]
    BY <1>10 DEF WriteActivationID, WriteClientID, Located, ObjectsAreClean, Holding, Writing
  <2>3. /\ pc[r] \in Writing /\ pc'[r] \in {"writeClient", "signAct"}
        /\ \A s \in Requests \ {r} : pc'[s] = pc[s]
    BY <1>10 DEF WriteActivationID, WriteClientID, SignedTypeOK, Goto, Writing
  <2>4. ASSUME NEW o \in Objects PROVE heap'[o].act \notin gone[o]
    <3>1. heap'[o].act = heap[o].act \/ (o = req[r].obj /\ heap'[o].act = req[r].found)
      <4>1. heap[o] \in Binding /\ heap[req[r].obj] \in Binding
        BY <2>2 DEF SignedTypeOK
      <4>2. CASE WriteActivationID(r)
        BY <4>1, <4>2, <2>2 DEF WriteActivationID, SignedTypeOK, Binding
      <4>3. CASE WriteClientID(r)
        BY <4>1, <4>3, <2>2 DEF WriteClientID, SignedTypeOK, Binding
      <4> QED BY <1>10, <4>2, <4>3
    <3> QED BY <2>2, <3>1 DEF ObjectsAreClean
  <2> QED BY <2>1, <2>3, <2>4 DEF ObjectsAreClean, Holding, Writing
<1>11. ASSUME NEW r \in Requests, SignActivationID(r) PROVE ObjectsAreClean'
  <2>1. req[r].obj \in Objects /\ pc[r] = "signAct" /\ pc'[r] = "signClient"
    BY <1>11 DEF SignActivationID, Located, Holding, SignedTypeOK, Goto
  <2>2. /\ req'[r].obj = req[r].obj /\ req'[r].act = heap[req[r].obj].act
        /\ \A s \in Requests \ {r} : req'[s] = req[s] /\ pc'[s] = pc[s]
    BY <1>11 DEF SignActivationID, SignedTypeOK, RequestType, Goto
  <2>3. UNCHANGED <<heap, gone, cached, over, barred, payload>>
    BY <1>11 DEF SignActivationID, actVars, cacheVars
  <2>4. /\ req'[r].act \notin gone[req[r].obj] /\ req[r].obj <= cached
        /\ barred[r] \subseteq gone[req[r].obj] /\ barred[r] \subseteq over
    BY <2>1, <2>2 DEF ObjectsAreClean, Holding
  <2> QED BY <2>1, <2>2, <2>3, <2>4 DEF ObjectsAreClean, Holding, Writing
<1>12. ASSUME NEW r \in Requests, SignClientID(r) PROVE ObjectsAreClean'
  <2>1. /\ payload'[r].act = req[r].act /\ pc[r] = "signClient" /\ pc'[r] = "signed"
        /\ \A s \in Requests \ {r} : payload'[s] = payload[s] /\ pc'[s] = pc[s]
    BY <1>12 DEF SignClientID, SignedTypeOK, Goto
  <2>2. UNCHANGED <<heap, gone, cached, over, barred, req>>
    BY <1>12 DEF SignClientID, actVars, cacheVars
  <2> QED BY <2>1, <2>2 DEF ObjectsAreClean, Holding, Writing
<1> QED
  BY <1>2, <1>3, <1>4, <1>5, <1>6, <1>7, <1>8, <1>9, <1>10, <1>11, <1>12 DEF SignedNext, Handle

LEMMA CleanAlways == SignedSpec => [](SignedTypeOK /\ Located /\ CleanInv)
<1>1. SignedTypeOK /\ Located /\ CleanInv /\ [SignedNext]_signedVars => CleanInv'
  BY ReleasedInductive, EntryInductive, ObjectsInductive DEF CleanInv
<1> QED
  BY LocatedInitial, CleanInitial, LocatedInductive, <1>1, PTL DEF SignedSpec

\* Whatever a payload carries was active at some time since its object was
\* cached (BindingIsRecent): what other requests left in the metadata goes with
\* the object.
THEOREM BindingsAreRecent == SignedSpec => []BindingIsRecent
<1>1. SignedTypeOK /\ Located /\ CleanInv => BindingIsRecent
  BY DEF CleanInv, ObjectsAreClean, BindingIsRecent
<1> QED BY CleanAlways, <1>1, PTL

\* A deactivation that the instance has answered is the end of the binding for
\* every request that comes later (ReleaseEndsBinding), because the answer
\* follows the invalidation of the entry.
THEOREM ReleasesEndBindings == SignedSpec => []ReleaseEndsBinding
<1>1. SignedTypeOK /\ Located /\ CleanInv => ReleaseEndsBinding
  BY DEF CleanInv, ObjectsAreClean, ReleaseEndsBinding, Holding
<1> QED BY CleanAlways, <1>1, PTL
=============================================================================
