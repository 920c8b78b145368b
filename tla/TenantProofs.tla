---------------------------- MODULE TenantProofs ----------------------------
(***************************************************************************)
(* Proofs about TenantAccess, for any number of tenants, keys and          *)
(* instances and any number of operations.                                 *)
(***************************************************************************)
EXTENDS TenantAccess, TLAPS

Steps == {"check", "db", "licenses", "reread", "drop", "dropKey", "set"}
Items == ApiKeys \X TenantType
Running ==
    [kind : AllKinds, i : Instances, t : Tenants, step : Steps, todo : SUBSET Items]

LEMMA RunningIsNotIdle ==
    /\ OpType = {Idle} \cup Running
    /\ \A o \in Running : o # Idle
  BY DEF OpType, Running, Steps, Items, Idle, AllKinds

\* What an operation may do to its own record.
LEMMA OpMoves ==
    ASSUME op \in [Slots -> OpType], NEW s \in Slots, Busy(s)
    PROVE  /\ op[s] \in Running
           /\ \A st \in Steps : GoTo(s, st) =>
                 /\ op' \in [Slots -> OpType]
                 /\ op'[s] \in Running
                 /\ op'[s].kind = op[s].kind /\ op'[s].i = op[s].i /\ op'[s].t = op[s].t
                 /\ op'[s].step = st /\ op'[s].todo = op[s].todo
                 /\ \A r \in Slots \ {s} : op'[r] = op[r]
           /\ \A st \in Steps, td \in SUBSET Items :
                 op' = [op EXCEPT ![s].step = st, ![s].todo = td] =>
                 /\ op' \in [Slots -> OpType]
                 /\ op'[s] \in Running
                 /\ op'[s].kind = op[s].kind /\ op'[s].i = op[s].i /\ op'[s].t = op[s].t
                 /\ op'[s].step = st /\ op'[s].todo = td
                 /\ \A r \in Slots \ {s} : op'[r] = op[r]
           /\ End(s) =>
                 /\ op' \in [Slots -> OpType]
                 /\ op'[s] = Idle
                 /\ \A r \in Slots \ {s} : op'[r] = op[r]
<1>1. op[s] \in Running
  BY RunningIsNotIdle DEF Busy
<1>2. ASSUME NEW st \in Steps, GoTo(s, st)
      PROVE  /\ op' \in [Slots -> OpType]
             /\ op'[s] \in Running
             /\ op'[s].kind = op[s].kind /\ op'[s].i = op[s].i /\ op'[s].t = op[s].t
             /\ op'[s].step = st /\ op'[s].todo = op[s].todo
             /\ \A r \in Slots \ {s} : op'[r] = op[r]
  <2>1. op' = [op EXCEPT ![s] = [op[s] EXCEPT !.step = st]]
    BY <1>2 DEF GoTo
  <2>2. [op[s] EXCEPT !.step = st] \in Running
    BY <1>1 DEF Running
  <2> QED BY <1>1, <2>1, <2>2, RunningIsNotIdle DEF Running
<1>3. ASSUME NEW st \in Steps, NEW td \in SUBSET Items,
             op' = [op EXCEPT ![s].step = st, ![s].todo = td]
      PROVE  /\ op' \in [Slots -> OpType]
             /\ op'[s] \in Running
             /\ op'[s].kind = op[s].kind /\ op'[s].i = op[s].i /\ op'[s].t = op[s].t
             /\ op'[s].step = st /\ op'[s].todo = td
             /\ \A r \in Slots \ {s} : op'[r] = op[r]
  <2>1. op' = [op EXCEPT ![s] = [op[s] EXCEPT !.step = st, !.todo = td]]
    BY <1>3
  <2>2. [op[s] EXCEPT !.step = st, !.todo = td] \in Running
    BY <1>1 DEF Running
  <2> QED BY <1>1, <2>1, <2>2, RunningIsNotIdle DEF Running
<1>4. ASSUME End(s)
      PROVE  /\ op' \in [Slots -> OpType]
             /\ op'[s] = Idle
             /\ \A r \in Slots \ {s} : op'[r] = op[r]
  BY <1>4, RunningIsNotIdle DEF End
<1> QED BY <1>1, <1>2, <1>3, <1>4

LEMMA OpSets ==
    ASSUME op \in [Slots -> OpType], NEW s \in Slots, Busy(s), NEW e,
           op' = [op EXCEPT ![s].todo = @ \ {e}]
    PROVE  /\ op' \in [Slots -> OpType]
           /\ op'[s] = [op[s] EXCEPT !.todo = op[s].todo \ {e}]
           /\ op'[s] \in Running
           /\ \A r \in Slots \ {s} : op'[r] = op[r]
<1>1. op[s] \in Running
  BY OpMoves
<1>2. [op[s] EXCEPT !.todo = op[s].todo \ {e}] \in Running
  BY <1>1 DEF Running
<1>3. op' = [op EXCEPT ![s] = [op[s] EXCEPT !.todo = op[s].todo \ {e}]]
  OBVIOUS
<1> QED BY <1>2, <1>3, RunningIsNotIdle

-----------------------------------------------------------------------------
(* Types.                                                                  *)

\* What the UPDATE statements do to the table.
LEMMA RowUpdates ==
    ASSUME rows \in [Tenants -> TenantType \cup {NoTenant}], NEW t \in Tenants,
           NEW row, rows[t] \in TenantType => row \in TenantType, UpdateRow(t, row)
    PROVE  /\ rows' \in [Tenants -> TenantType \cup {NoTenant}]
           /\ \A u \in Tenants \ {t} : rows'[u] = rows[u]
           /\ IF Exists(t) THEN rows'[t] = row ELSE rows'[t] = rows[t]
  BY AccessAssumption DEF UpdateRow, Exists

\* Every row is that of a tenant.
LEMMA RowTypes ==
    ASSUME NEW row \in TenantType, NEW t \in Tenants
    PROVE  /\ \A st \in Statuses : [row EXCEPT !.status = st] \in TenantType
           /\ \A n \in Networks : [row EXCEPT !.nets = n] \in TenantType
           /\ \A b \in BOOLEAN : [row EXCEPT !.system = b] \in TenantType
           /\ \A k \in ApiKeys, u \in Nat :
                 [row EXCEPT !.old = row.key, !.oldUntil = u, !.key = k] \in TenantType
           /\ \A k \in ApiKeys : NewTenant(t, k) \in TenantType
  BY TenantAssumption DEF TenantType, NewTenant, Statuses

\* What an operation reads is filed under keys.
LEMMA ToDoTypes ==
    ASSUME TypeOK, NEW s \in Slots, Busy(s), op[s].kind = "warmup" \/ Exists(op[s].t)
    PROVE  ToDo(s) \in SUBSET Items
<1>1. \A t \in Tenants : Exists(t) => rows[t] \in TenantType
  BY DEF TypeOK, Exists
<1>2. \A t \in Tenants : Exists(t) => Both(t) \in SUBSET Items /\ Current(t) \in SUBSET Items
  BY <1>1 DEF Both, Current, Items, TenantType
<1>3. op[s].t \in Tenants
  BY OpMoves DEF TypeOK, Running
<1> QED BY <1>2, <1>3 DEF ToDo

LEMMA TypeStep ==
    ASSUME TypeOK, [Next]_vars
    PROVE  TypeOK'
<1> USE TenantAssumption, AccessAssumption
<1>1. ASSUME NEW s \in Slots, NEW kind \in Kinds, NEW i \in Instances, NEW t \in Tenants,
             Start(s, kind, i, t)
      PROVE  TypeOK'
  <2>1. [kind |-> kind, i |-> i, t |-> t, step |-> FirstStep(kind), todo |-> {}] \in Running
    BY DEF Running, FirstStep, Steps, Items
  <2>2. op' \in [Slots -> OpType]
    BY <1>1, <2>1, RunningIsNotIdle DEF Start, TypeOK
  <2>3. StoreTypeOK' /\ deaf' \in SUBSET Instances
    BY <1>1 DEF Start, TypeOK, StoreTypeOK, StoreRestart, storeVars
  <2>4. exact' \in SUBSET Instances
    BY <1>1 DEF Start, TypeOK
  <2> QED BY <1>1, <2>2, <2>3, <2>4 DEF Start, TypeOK
<1>2. ASSUME NEW s \in Slots, OpStep(s)
      PROVE  TypeOK'
  <2>1. Busy(s)
    BY <1>2 DEF OpStep, CheckSystem, WriteRow, DropLicenses, Reread, DropTenant, DropKey,
         SetEntry, SetDone, Fail, At
  <2>2. op[s] \in Running /\ op[s].t \in Tenants /\ op[s].i \in Instances
        /\ op[s].todo \in SUBSET Items
    BY <2>1, OpMoves DEF TypeOK, Running
  <2>3. CASE CheckSystem(s)
    <3>1. op' \in [Slots -> OpType]
      BY <2>1, <2>3, OpMoves DEF CheckSystem, TypeOK, Steps
    <3> QED BY <2>3, <3>1 DEF CheckSystem, world, storeVars, TypeOK, StoreTypeOK
  <2>4. CASE WriteRow(s)
    <3> DEFINE t == op[s].t
    <3>0. rows[t] \in TenantType \/ ~Exists(t)
      BY <2>2 DEF TypeOK, Exists
    <3>1. /\ rows' \in [Tenants -> TenantType \cup {NoTenant}]
          /\ owner' \in [ApiKeys -> Tenants \cup {NoTenant}]
          /\ shut' \in SUBSET ApiKeys
          /\ op' \in [Slots -> OpType]
      <4>1. CASE CreateRow(s)
        <5>1. PICK k \in ApiKeys :
                 /\ owner' = [owner EXCEPT ![k] = t]
                 /\ rows' = [rows EXCEPT ![t] = NewTenant(t, k)]
                 /\ op' = [op EXCEPT ![s].step = "set", ![s].todo = {<<k, NewTenant(t, k)>>}]
          BY <4>1 DEF CreateRow
        <5>2. NewTenant(t, k) \in TenantType
          BY <2>2 DEF NewTenant, TenantType, Statuses
        <5>3. {<<k, NewTenant(t, k)>>} \in SUBSET Items
          BY <5>2 DEF Items
        <5>4. op' \in [Slots -> OpType]
          BY <2>1, <5>1, <5>3, OpMoves DEF TypeOK, Steps
        <5> QED BY <2>2, <4>1, <5>1, <5>2, <5>4 DEF CreateRow, TypeOK
      <4>2. CASE UpdateStatus(s)
        <5>1. PICK st \in Statuses : UpdateRow(t, [rows[t] EXCEPT !.status = st])
          BY <4>2 DEF UpdateStatus, Statuses
        <5>2. rows' \in [Tenants -> TenantType \cup {NoTenant}]
          BY <2>2, <5>1, RowUpdates, RowTypes DEF TypeOK
        <5>3. op' \in [Slots -> OpType]
          BY <2>1, <4>2, OpMoves DEF UpdateStatus, TypeOK, Steps
        <5> QED BY <4>2, <5>2, <5>3 DEF UpdateStatus, TypeOK
      <4>3. CASE RotateAPIKey(s)
        <5>1. PICK k \in ApiKeys, g \in Graces :
                 /\ owner' = IF Exists(t) THEN [owner EXCEPT ![k] = t] ELSE owner
                 /\ UpdateRow(t, [rows[t] EXCEPT !.old = rows[t].key, !.oldUntil = now + g,
                                                 !.key = k])
          BY <4>3 DEF RotateAPIKey
        <5>2. now + g \in Nat
          BY DEF TypeOK
        <5>3. rows' \in [Tenants -> TenantType \cup {NoTenant}]
          BY <2>2, <5>1, <5>2, RowUpdates, RowTypes DEF TypeOK
        <5>4. op' \in [Slots -> OpType]
          BY <2>1, <4>3, OpMoves DEF RotateAPIKey, TypeOK, Steps
        <5> QED BY <2>2, <4>3, <5>1, <5>3, <5>4 DEF RotateAPIKey, TypeOK
      <4>4. CASE UpdateSettings(s)
        <5>1. PICK n \in Networks : UpdateRow(t, [rows[t] EXCEPT !.nets = n])
          BY <4>4 DEF UpdateSettings
        <5>2. rows' \in [Tenants -> TenantType \cup {NoTenant}]
          BY <2>2, <5>1, RowUpdates, RowTypes DEF TypeOK
        <5>3. op' \in [Slots -> OpType]
          BY <2>1, <4>4, OpMoves DEF UpdateSettings, TypeOK, Steps
        <5> QED BY <4>4, <5>2, <5>3 DEF UpdateSettings, TypeOK
      <4>5. CASE UpdateProfile(s)
        <5>1. PICK b \in BOOLEAN : UpdateRow(t, [rows[t] EXCEPT !.system = b])
          BY <4>5 DEF UpdateProfile
        <5>2. rows' \in [Tenants -> TenantType \cup {NoTenant}]
          BY <2>2, <5>1, RowUpdates, RowTypes DEF TypeOK
        <5>3. op' \in [Slots -> OpType]
          BY <2>1, <4>5, OpMoves DEF UpdateProfile, TypeOK, Steps
        <5> QED BY <4>5, <5>2, <5>3 DEF UpdateProfile, TypeOK
      <4> QED BY <2>4, <4>1, <4>2, <4>3, <4>4, <4>5 DEF WriteRow
    <3> QED BY <2>4, <3>1 DEF WriteRow, storeVars, TypeOK, StoreTypeOK
  <2>5. CASE DropLicenses(s)
    <3>1. op' \in [Slots -> OpType]
      BY <2>1, <2>5, OpMoves DEF DropLicenses, TypeOK, Steps
    <3> QED BY <2>5, <3>1 DEF DropLicenses, world, storeVars, TypeOK, StoreTypeOK
  <2>6. CASE Reread(s)
    <3>1. ASSUME op[s].kind = "warmup" \/ Exists(op[s].t),
                 op' = [op EXCEPT ![s].step = IF op[s].kind = "suspend" THEN "drop" ELSE "set",
                                  ![s].todo = ToDo(s)]
          PROVE  op' \in [Slots -> OpType]
      BY <2>1, <3>1, ToDoTypes, OpMoves, ZenonT(60) DEF TypeOK, Steps
    <3>2. op' \in [Slots -> OpType]
      BY <2>1, <2>6, <3>1, OpMoves DEF Reread, TypeOK, Steps
    <3> QED BY <2>6, <3>2 DEF Reread, world, storeVars, TypeOK, StoreTypeOK
  <2>7. CASE DropTenant(s)
    <3>1. op' \in [Slots -> OpType]
      BY <2>1, <2>7, OpMoves DEF DropTenant, TypeOK, Steps
    <3> QED BY <2>7, <3>1 DEF DropTenant, StoreInvalidateByTenantID, world, storeVars, TypeOK,
              StoreTypeOK
  <2>8. CASE DropKey(s)
    <3>1. PICK e \in op[s].todo : /\ StoreInvalidate(op[s].i, e[1])
                                  /\ shut' = shut \/ shut' = shut \cup {e[1]}
      BY <2>8 DEF DropKey
    <3>2. e[1] \in ApiKeys
      BY <2>2 DEF Items
    <3>3. StoreTypeOK' /\ shut' \in SUBSET ApiKeys
      BY <2>2, <3>1, <3>2 DEF StoreInvalidate, TypeOK, StoreTypeOK
    <3>4. op' \in [Slots -> OpType]
      BY <2>1, <2>8, OpMoves DEF DropKey, TypeOK
    <3> QED BY <2>2, <2>8, <3>3, <3>4 DEF DropKey, TypeOK
  <2>9. CASE SetEntry(s)
    <3>1. PICK e \in op[s].todo : /\ StoreSet(op[s].i, e[1], e[2])
                                  /\ op' = [op EXCEPT ![s].todo = @ \ {e}]
      BY <2>9 DEF SetEntry
    <3>2. e[1] \in ApiKeys /\ e[2] \in TenantType
      BY <2>2 DEF Items
    <3>3. StoreTypeOK'
      BY <2>2, <3>1, <3>2 DEF StoreSet, TypeOK, StoreTypeOK
    <3>4. op' \in [Slots -> OpType]
      BY <2>1, <2>2, <3>1, OpSets DEF TypeOK
    <3> QED BY <2>9, <3>3, <3>4 DEF SetEntry, world, TypeOK
  <2>10. CASE SetDone(s)
    <3>1. op' \in [Slots -> OpType]
      BY <2>1, <2>10, OpMoves DEF SetDone, TypeOK
    <3> QED BY <2>2, <2>10, <3>1 DEF SetDone, world, storeVars, TypeOK, StoreTypeOK
  <2>11. CASE Fail(s)
    <3>1. op' \in [Slots -> OpType]
      BY <2>1, <2>11, OpMoves DEF Fail, TypeOK, Steps
    <3> QED BY <2>2, <2>11, <3>1 DEF Fail, storeVars, world, TypeOK, StoreTypeOK
  <2> QED BY <1>2, <2>3, <2>4, <2>5, <2>6, <2>7, <2>8, <2>9, <2>10, <2>11 DEF OpStep
<1>3. ASSUME NEW i \in Instances, NEW k \in ApiKeys, Evict(i, k)
      PROVE  TypeOK'
  BY <1>3 DEF Evict, StoreEvict, world, TypeOK, StoreTypeOK
<1>4. ASSUME NEW n \in notices, Deliver(n) \/ Lose(n)
      PROVE  TypeOK'
  <2>1. n[1] \in Instances /\ n[2] \in ApiKeys
    BY DEF TypeOK, StoreTypeOK
  <2> QED BY <1>4, <2>1 DEF Deliver, DeliverNotice, Lose, world, TypeOK, StoreTypeOK
<1>5. CASE Tick
  BY <1>5 DEF Tick, storeVars, TypeOK, StoreTypeOK
<1>6. CASE UNCHANGED vars
  BY <1>6 DEF vars, storeVars, TypeOK, StoreTypeOK
<1> QED BY <1>1, <1>2, <1>3, <1>4, <1>5, <1>6 DEF Next

\* Caches, table and operations hold what their types say: in particular no
\* entry is ever filed under the empty old key.
THEOREM TenantTypeCorrect == Spec => []TypeOK
<1>1. Init => TypeOK
  BY TenantAssumption, AccessAssumption
  DEF Init, TypeOK, StoreInit, StoreTypeOK, OpType
<1> QED BY <1>1, TypeStep, PTL DEF Spec

-----------------------------------------------------------------------------
(* Keys and the tenants they belong to.                                    *)

RowsOwned ==
    \A t \in Tenants : Exists(t) =>
        /\ rows[t].id = t
        /\ owner[rows[t].key] = t
        /\ rows[t].old # NoKey => owner[rows[t].old] = t

ItemsOwned ==
    \A s \in Slots : Busy(s) => \A e \in op[s].todo : owner[e[1]] = e[2].id

Owned == RowsOwned /\ ItemsOwned /\ KeyOpensOwnTenant

\* What is written to the table: a new tenant under a fresh key, a fresh key
\* of an existing tenant, another status, other settings, or nothing because
\* there is no such tenant.
Creates(s, k) ==
    /\ op[s].kind = "create"
    /\ owner[k] = NoTenant /\ owner' = [owner EXCEPT ![k] = op[s].t]
    /\ ~Exists(op[s].t) /\ rows'[op[s].t] = NewTenant(op[s].t, k)
    /\ op'[s].step = "set" /\ op'[s].todo = {<<k, NewTenant(op[s].t, k)>>}
    /\ shut' = shut

Rotates(s, k, u) ==
    /\ op[s].kind = "rotate"
    /\ owner[k] = NoTenant /\ owner' = [owner EXCEPT ![k] = op[s].t]
    /\ Exists(op[s].t)
    /\ rows'[op[s].t] = [rows[op[s].t] EXCEPT !.old = rows[op[s].t].key,
                                             !.oldUntil = u, !.key = k]
    /\ op'[s].step = "drop" /\ op'[s].todo = op[s].todo
    /\ shut' = IF rows[op[s].t].key \in shut THEN shut \cup {k} ELSE shut

Restates(s, st) ==
    /\ op[s].kind \in {"suspend", "delete", "reinstate"}
    /\ (st = "active") <=> (op[s].kind = "reinstate")
    /\ owner' = owner
    /\ Exists(op[s].t) /\ rows'[op[s].t] = [rows[op[s].t] EXCEPT !.status = st]
    /\ op'[s].step = IF op[s].kind = "suspend" THEN "licenses" ELSE "drop"
    /\ op'[s].todo = op[s].todo
    /\ shut' = IF op[s].kind = "reinstate" THEN {k \in shut : owner[k] # op[s].t} ELSE shut

Resets(s, n, b) ==
    /\ op[s].kind \in {"settings", "profile"}
    /\ owner' = owner
    /\ Exists(op[s].t)
    /\ rows'[op[s].t] = [rows[op[s].t] EXCEPT !.nets = n, !.system = b]
    /\ op'[s].step \in {"drop", "reread"} /\ op'[s].todo = op[s].todo
    /\ shut' = shut

Misses(s) ==
    /\ op[s].kind \in {"rotate", "suspend", "delete", "reinstate", "settings", "profile"}
    /\ ~Exists(op[s].t) /\ rows' = rows /\ owner' = owner
    /\ op'[s].todo = op[s].todo /\ op'[s].step \in {"licenses", "drop", "reread"}
    /\ shut' \subseteq shut

LEMMA WriteEffects ==
    ASSUME TypeOK, NEW s \in Slots, WriteRow(s)
    PROVE  /\ Busy(s) /\ op[s].t \in Tenants
           /\ UNCHANGED <<byKey, notices>>
           /\ \A u \in Tenants \ {op[s].t} : rows'[u] = rows[u]
           /\ \A r \in Slots \ {s} : op'[r] = op[r]
           /\ op'[s] \in Running /\ op'[s].t = op[s].t /\ op'[s].kind = op[s].kind
           /\ \/ \E k \in ApiKeys : Creates(s, k)
              \/ \E k \in ApiKeys, u \in Nat : Rotates(s, k, u)
              \/ \E st \in Statuses : Restates(s, st)
              \/ \E n \in Networks, b \in BOOLEAN : Resets(s, n, b)
              \/ Misses(s)
<1> USE TenantAssumption, AccessAssumption
<1> DEFINE t == op[s].t
<1>1. Busy(s) /\ UNCHANGED <<byKey, notices>>
  BY DEF WriteRow, At, storeVars
<1>2. op[s] \in Running /\ t \in Tenants
  BY <1>1, OpMoves DEF TypeOK, Running
<1>3. rows[t] \in TenantType \/ ~Exists(t)
  BY <1>2 DEF TypeOK, Exists
<1>4. ASSUME NEW st \in Steps, GoTo(s, st)
      PROVE  /\ \A r \in Slots \ {s} : op'[r] = op[r]
             /\ op'[s] \in Running /\ op'[s].t = op[s].t /\ op'[s].kind = op[s].kind
             /\ op'[s].step = st /\ op'[s].todo = op[s].todo
  BY <1>1, <1>4, OpMoves DEF TypeOK
<1>5. CASE CreateRow(s)
  <2>1. PICK k \in ApiKeys :
           /\ owner[k] = NoTenant
           /\ owner' = [owner EXCEPT ![k] = t]
           /\ rows' = [rows EXCEPT ![t] = NewTenant(t, k)]
           /\ op' = [op EXCEPT ![s].step = "set", ![s].todo = {<<k, NewTenant(t, k)>>}]
    BY <1>5 DEF CreateRow
  <2>2. {<<k, NewTenant(t, k)>>} \in SUBSET Items
    <3>1. NewTenant(t, k) \in TenantType
      BY <1>2 DEF NewTenant, TenantType, Statuses
    <3> QED BY <3>1 DEF Items
  <2>3. /\ \A r \in Slots \ {s} : op'[r] = op[r]
        /\ op'[s] \in Running /\ op'[s].t = op[s].t /\ op'[s].kind = op[s].kind
        /\ op'[s].step = "set" /\ op'[s].todo = {<<k, NewTenant(t, k)>>}
    <3> DEFINE td == {<<k, NewTenant(t, k)>>}
    <3>1. /\ op \in [Slots -> OpType] /\ "set" \in Steps /\ td \in SUBSET Items
          /\ op' = [op EXCEPT ![s].step = "set", ![s].todo = td]
      BY <2>1, <2>2 DEF TypeOK, Steps
    <3> HIDE DEF td
    <3>2. /\ \A r \in Slots \ {s} : op'[r] = op[r]
          /\ op'[s] \in Running /\ op'[s].t = op[s].t /\ op'[s].kind = op[s].kind
          /\ op'[s].step = "set" /\ op'[s].todo = td
      <4>1. op' = [op EXCEPT ![s] = [op[s] EXCEPT !.step = "set", !.todo = td]]
        BY <3>1
      <4>2. [op[s] EXCEPT !.step = "set", !.todo = td] \in Running
        BY <1>2, <3>1 DEF Running
      <4> QED BY <1>2, <3>1, <4>1, <4>2 DEF Running
    <3> QED BY <3>2 DEF td
  <2>4. rows'[t] = NewTenant(t, k) /\ \A u \in Tenants \ {t} : rows'[u] = rows[u]
    BY <1>2, <2>1 DEF TypeOK
  <2>5. Creates(s, k)
    BY <1>5, <2>1, <2>3, <2>4 DEF CreateRow, Creates
  <2> QED BY <1>1, <1>2, <2>3, <2>4, <2>5
<1>6. CASE UpdateStatus(s)
  <2>1. PICK st \in Statuses :
           /\ op[s].kind \in {"suspend", "delete", "reinstate"}
           /\ (st = "active") <=> (op[s].kind = "reinstate")
           /\ UpdateRow(t, [rows[t] EXCEPT !.status = st])
           /\ GoTo(s, IF op[s].kind = "suspend" THEN "licenses" ELSE "drop")
           /\ shut' = IF op[s].kind = "reinstate" THEN {k \in shut : owner[k] # t} ELSE shut
    BY <1>6 DEF UpdateStatus, Statuses
  <2>2. /\ \A u \in Tenants \ {t} : rows'[u] = rows[u]
        /\ Exists(t) => rows'[t] = [rows[t] EXCEPT !.status = st]
        /\ ~Exists(t) => rows' = rows
    BY <1>2, <2>1, RowUpdates, RowTypes, ZenonT(60) DEF TypeOK, UpdateRow
  <2>3. (IF op[s].kind = "suspend" THEN "licenses" ELSE "drop") \in Steps
    BY DEF Steps
  <2>4. /\ \A r \in Slots \ {s} : op'[r] = op[r]
        /\ op'[s] \in Running /\ op'[s].t = op[s].t /\ op'[s].kind = op[s].kind
        /\ op'[s].step = IF op[s].kind = "suspend" THEN "licenses" ELSE "drop"
        /\ op'[s].todo = op[s].todo
    BY <1>4, <2>1, <2>3
  <2>5. IF Exists(t) THEN Restates(s, st) ELSE Misses(s)
    BY <1>6, <2>1, <2>2, <2>4 DEF UpdateStatus, Restates, Misses
  <2> QED BY <1>1, <1>2, <2>2, <2>4, <2>5
<1>7. CASE RotateAPIKey(s)
  <2>1. PICK k \in ApiKeys, g \in Graces :
           /\ owner[k] = NoTenant
           /\ owner' = IF Exists(t) THEN [owner EXCEPT ![k] = t] ELSE owner
           /\ UpdateRow(t, [rows[t] EXCEPT !.old = rows[t].key, !.oldUntil = now + g,
                                           !.key = k])
           /\ shut' = IF Exists(t) /\ rows[t].key \in shut THEN shut \cup {k} ELSE shut
    BY <1>7 DEF RotateAPIKey
  <2>2. now + g \in Nat
    BY DEF TypeOK
  <2>3. /\ \A u \in Tenants \ {t} : rows'[u] = rows[u]
        /\ Exists(t) => rows'[t] = [rows[t] EXCEPT !.old = rows[t].key,
                                                    !.oldUntil = now + g, !.key = k]
    BY <1>2, <2>1, <2>2, RowUpdates, RowTypes DEF TypeOK
  <2>4. ~Exists(t) => rows' = rows
    BY <2>1 DEF UpdateRow
  <2>5. /\ \A r \in Slots \ {s} : op'[r] = op[r]
        /\ op'[s] \in Running /\ op'[s].t = op[s].t /\ op'[s].kind = op[s].kind
        /\ op'[s].step = "drop" /\ op'[s].todo = op[s].todo
    BY <1>4, <1>7 DEF RotateAPIKey, Steps
  <2>6. op[s].kind = "rotate"
    BY <1>7 DEF RotateAPIKey
  <2>7. IF Exists(t) THEN Rotates(s, k, now + g) ELSE Misses(s)
    BY <2>1, <2>3, <2>4, <2>5, <2>6 DEF Rotates, Misses
  <2> QED BY <1>1, <1>2, <2>2, <2>3, <2>5, <2>7
<1>8. ASSUME \E n \in Networks, b \in BOOLEAN :
                UpdateRow(t, [rows[t] EXCEPT !.nets = n, !.system = b]),
             op[s].kind \in {"settings", "profile"}, GoTo(s, "drop") \/ GoTo(s, "reread"),
             owner' = owner, shut' = shut
      PROVE  /\ \A u \in Tenants \ {t} : rows'[u] = rows[u]
             /\ \A r \in Slots \ {s} : op'[r] = op[r]
             /\ op'[s] \in Running /\ op'[s].t = op[s].t /\ op'[s].kind = op[s].kind
             /\ (\E n \in Networks, b \in BOOLEAN : Resets(s, n, b)) \/ Misses(s)
  <2>1. PICK n \in Networks, b \in BOOLEAN :
           UpdateRow(t, [rows[t] EXCEPT !.nets = n, !.system = b])
    BY <1>8
  <2>2. rows[t] \in TenantType => [rows[t] EXCEPT !.nets = n, !.system = b] \in TenantType
    BY DEF TenantType
  <2>3. /\ Exists(t) => rows'[t] = [rows[t] EXCEPT !.nets = n, !.system = b]
        /\ ~Exists(t) => rows' = rows
        /\ \A u \in Tenants \ {t} : rows'[u] = rows[u]
    BY <1>2, <2>1, <2>2, RowUpdates DEF TypeOK, UpdateRow
  <2>4. /\ \A r \in Slots \ {s} : op'[r] = op[r]
        /\ op'[s] \in Running /\ op'[s].t = op[s].t /\ op'[s].kind = op[s].kind
        /\ op'[s].step \in {"drop", "reread"} /\ op'[s].todo = op[s].todo
    BY <1>4, <1>8 DEF Steps
  <2>5. IF Exists(t) THEN Resets(s, n, b) ELSE Misses(s)
    BY <1>8, <2>3, <2>4 DEF Resets, Misses
  <2> QED BY <2>3, <2>4, <2>5
<1>9. CASE UpdateSettings(s)
  <2>1. PICK n \in Networks : UpdateRow(t, [rows[t] EXCEPT !.nets = n])
    BY <1>9 DEF UpdateSettings
  <2>2. Exists(t) => [rows[t] EXCEPT !.nets = n]
                        = [rows[t] EXCEPT !.nets = n, !.system = rows[t].system]
    BY <1>3 DEF TenantType
  <2>3. Exists(t) => rows[t].system \in BOOLEAN
    BY <1>3 DEF TenantType
  <2>4. \E m \in Networks, b \in BOOLEAN :
           UpdateRow(t, [rows[t] EXCEPT !.nets = m, !.system = b])
    BY <2>1, <2>2, <2>3 DEF UpdateRow
  <2> QED BY <1>1, <1>2, <1>8, <1>9, <2>4 DEF UpdateSettings
<1>10. CASE UpdateProfile(s)
  <2>1. PICK b \in BOOLEAN : UpdateRow(t, [rows[t] EXCEPT !.system = b])
    BY <1>10 DEF UpdateProfile
  <2>2. Exists(t) => [rows[t] EXCEPT !.system = b]
                        = [rows[t] EXCEPT !.nets = rows[t].nets, !.system = b]
    BY <1>3 DEF TenantType
  <2>3. Exists(t) => rows[t].nets \in Networks
    BY <1>3 DEF TenantType
  <2>4. \E n \in Networks, c \in BOOLEAN :
           UpdateRow(t, [rows[t] EXCEPT !.nets = n, !.system = c])
    BY <2>1, <2>2, <2>3 DEF UpdateRow
  <2> QED BY <1>1, <1>2, <1>8, <1>10, <2>4 DEF UpdateProfile
<1> QED BY <1>5, <1>6, <1>7, <1>9, <1>10 DEF WriteRow

\* Steps that write no row leave rows and owners alone.
LEMMA OnlyWritesWrite ==
    ASSUME TypeOK, [Next]_vars, ~\E s \in Slots : WriteRow(s)
    PROVE  rows' = rows /\ owner' = owner
  BY DEF Next, OpStep, Start, CheckSystem, DropLicenses, Reread, DropTenant, DropKey, SetEntry,
     SetDone, Fail, Evict, Deliver, Lose, Tick, world, vars

LEMMA OwnerKept ==
    ASSUME TypeOK, [Next]_vars
    PROVE  \A k \in ApiKeys : owner[k] \in Tenants => owner'[k] = owner[k]
<1>1. CASE ~\E s \in Slots : WriteRow(s)
  BY <1>1, OnlyWritesWrite
<1>2. ASSUME NEW s \in Slots, WriteRow(s)
      PROVE  \A k \in ApiKeys : owner[k] \in Tenants => owner'[k] = owner[k]
  <2>1. \/ owner' = owner
        \/ \E k \in ApiKeys : owner[k] = NoTenant /\ owner' = [owner EXCEPT ![k] = op[s].t]
    BY <1>2, WriteEffects DEF Creates, Rotates, Restates, Resets, Misses
  <2>2. owner \in [ApiKeys -> Tenants \cup {NoTenant}] /\ NoTenant \notin Tenants
    BY AccessAssumption DEF TypeOK
  <2> QED BY <2>1, <2>2
<1> QED BY <1>1, <1>2

LEMMA RowsOwnedStep ==
    ASSUME TypeOK, RowsOwned, [Next]_vars
    PROVE  RowsOwned'
<1>1. CASE ~\E s \in Slots : WriteRow(s)
  BY <1>1, OnlyWritesWrite DEF RowsOwned, Exists
<1>2. ASSUME NEW s \in Slots, WriteRow(s), NEW t \in Tenants, Exists(t)'
      PROVE  /\ rows'[t].id = t
             /\ owner'[rows'[t].key] = t
             /\ rows'[t].old # NoKey => owner'[rows'[t].old] = t
  <2>1. ASSUME Exists(t), rows'[t].id = rows[t].id, rows'[t].key = rows[t].key,
               rows'[t].old = rows[t].old
        PROVE  /\ rows'[t].id = t
               /\ owner'[rows'[t].key] = t
               /\ rows'[t].old # NoKey => owner'[rows'[t].old] = t
    <3>1. rows[t] \in TenantType
      BY <2>1 DEF TypeOK, Exists
    <3>2. rows[t].key \in ApiKeys /\ rows[t].old \in ApiKeys \cup {NoKey}
      BY <3>1 DEF TenantType
    <3> QED BY <2>1, <3>2, OwnerKept DEF RowsOwned
  <2>2. CASE t # op[s].t \/ rows'[t] = rows[t]
    <3>1. rows'[t] = rows[t]
      BY <1>2, <2>2, WriteEffects
    <3> QED BY <1>2, <2>1, <3>1 DEF Exists
  <2>3. CASE t = op[s].t /\ rows'[t] # rows[t]
    <3>1. ASSUME NEW k \in ApiKeys, Creates(s, k)
          PROVE  /\ rows'[t].id = t
                 /\ owner'[rows'[t].key] = t
                 /\ rows'[t].old # NoKey => owner'[rows'[t].old] = t
      BY <2>3, <3>1 DEF Creates, NewTenant, TypeOK
    <3>2. ASSUME NEW k \in ApiKeys, NEW u \in Nat, Rotates(s, k, u)
          PROVE  /\ rows'[t].id = t
                 /\ owner'[rows'[t].key] = t
                 /\ rows'[t].old # NoKey => owner'[rows'[t].old] = t
      <4>1. Exists(t) /\ rows[t] \in TenantType
        BY <2>3, <3>2 DEF Rotates, TypeOK, Exists
      <4>2. rows'[t].id = rows[t].id /\ rows'[t].key = k /\ rows'[t].old = rows[t].key
        BY <2>3, <3>2, <4>1 DEF Rotates, TenantType
      <4>3. rows[t].key \in ApiKeys
        BY <4>1 DEF TenantType
      <4>4. owner'[k] = t
        BY <2>3, <3>2 DEF Rotates, TypeOK
      <4> QED BY <4>1, <4>2, <4>3, <4>4, OwnerKept DEF RowsOwned
    <3>3. ASSUME NEW st \in Statuses, Restates(s, st)
          PROVE  /\ Exists(t) /\ rows'[t].id = rows[t].id
                 /\ rows'[t].key = rows[t].key /\ rows'[t].old = rows[t].old
      <4>1. Exists(t) /\ rows[t] \in TenantType
        BY <2>3, <3>3 DEF Restates, TypeOK, Exists
      <4> QED BY <2>3, <3>3, <4>1 DEF Restates, TenantType
    <3>4. ASSUME NEW n \in Networks, NEW b \in BOOLEAN, Resets(s, n, b)
          PROVE  /\ Exists(t) /\ rows'[t].id = rows[t].id
                 /\ rows'[t].key = rows[t].key /\ rows'[t].old = rows[t].old
      <4>1. Exists(t) /\ rows[t] \in TenantType
        BY <2>3, <3>4 DEF Resets, TypeOK, Exists
      <4> QED BY <2>3, <3>4, <4>1 DEF Resets, TenantType
    <3>5. ~Misses(s)
      BY <2>3 DEF Misses
    <3> QED BY <1>2, <2>1, <3>1, <3>2, <3>3, <3>4, <3>5, WriteEffects
  <2> QED BY <2>2, <2>3
<1> QED BY <1>1, <1>2 DEF RowsOwned

LEMMA ToDoOwned ==
    ASSUME TypeOK, RowsOwned, NEW s \in Slots, Busy(s),
           op[s].kind = "warmup" \/ Exists(op[s].t)
    PROVE  \A e \in ToDo(s) : owner[e[1]] = e[2].id
<1>1. \A t \in Tenants : Exists(t) =>
         /\ \A e \in Both(t) : owner[e[1]] = e[2].id
         /\ \A e \in Current(t) : owner[e[1]] = e[2].id
  BY DEF RowsOwned, Both, Current
<1>2. op[s].t \in Tenants
  BY OpMoves DEF TypeOK, Running
<1> QED BY <1>1, <1>2 DEF ToDo

\* An operation's list only shrinks, unless it writes or reads rows.
LEMMA ListsShrink ==
    ASSUME TypeOK, [Next]_vars, NEW s \in Slots, Busy(s)'
    PROVE  \/ op'[s].todo = {}
           \/ Busy(s) /\ op'[s].todo \subseteq op[s].todo
           \/ WriteRow(s)
           \/ /\ Reread(s) /\ Busy(s) /\ op'[s].todo = ToDo(s)
              /\ op[s].kind = "warmup" \/ Exists(op[s].t)
<1> DEFINE Goal == \/ op'[s].todo = {}
                   \/ Busy(s) /\ op'[s].todo \subseteq op[s].todo
                   \/ WriteRow(s)
                   \/ /\ Reread(s) /\ Busy(s) /\ op'[s].todo = ToDo(s)
                      /\ op[s].kind = "warmup" \/ Exists(op[s].t)
<1>0. op \in [Slots -> OpType]
  BY DEF TypeOK
<1>1. CASE op'[s] = op[s]
  BY <1>1 DEF Busy
<1>2. ASSUME NEW r \in Slots, NEW kind \in Kinds, NEW i \in Instances, NEW t \in Tenants,
             Start(r, kind, i, t)
      PROVE  Goal
  BY <1>0, <1>1, <1>2 DEF Start
<1>3. ASSUME NEW r \in Slots, OpStep(r)
      PROVE  Goal
  <2>1. Busy(r)
    BY <1>3 DEF OpStep, CheckSystem, WriteRow, DropLicenses, Reread, DropTenant, DropKey,
         SetEntry, SetDone, Fail, At
  <2>2. CASE \E st \in Steps : GoTo(r, st)
    BY <1>0, <1>1, <2>1, <2>2, OpMoves DEF Busy
  <2>3. CASE End(r)
    BY <1>0, <1>1, <2>1, <2>3, OpMoves DEF Busy
  <2>4. CASE WriteRow(r)
    BY <1>1, <2>4, WriteEffects
  <2>5. CASE Reread(r)
    <3>1. ASSUME op[r].kind = "warmup" \/ Exists(op[r].t),
                 op' = [op EXCEPT ![r].step = IF op[r].kind = "suspend" THEN "drop" ELSE "set",
                                  ![r].todo = ToDo(r)]
          PROVE  Goal
      <4> DEFINE st == IF op[r].kind = "suspend" THEN "drop" ELSE "set"
      <4>1. ToDo(r) \in SUBSET Items /\ st \in Steps /\ op[r] \in Running
        BY <1>0, <2>1, <3>1, ToDoTypes, OpMoves DEF Steps
      <4>2. op' = [op EXCEPT ![r] = [op[r] EXCEPT !.step = st, !.todo = ToDo(r)]]
        BY <3>1
      <4>3. op'[r].todo = ToDo(r) /\ \A q \in Slots \ {r} : op'[q] = op[q]
        BY <1>0, <4>1, <4>2 DEF Running
      <4> QED BY <1>1, <2>1, <2>5, <3>1, <4>3
    <3> QED BY <2>2, <2>3, <2>5, <3>1 DEF Reread, Steps
  <2>6. CASE SetEntry(r)
    <3>1. PICK e \in op[r].todo : op' = [op EXCEPT ![r].todo = @ \ {e}]
      BY <2>6 DEF SetEntry
    <3>2. /\ op'[r] = [op[r] EXCEPT !.todo = op[r].todo \ {e}]
          /\ \A q \in Slots \ {r} : op'[q] = op[q]
      BY <1>0, <2>1, <3>1, OpSets
    <3>3. op[r] \in Running
      BY <1>0, <2>1, OpMoves
    <3>4. op'[r].todo = op[r].todo \ {e}
      BY <3>2, <3>3 DEF Running
    <3> QED BY <1>1, <2>1, <3>2, <3>4
  <2>7. CASE CheckSystem(r) \/ DropLicenses(r) \/ DropTenant(r) \/ DropKey(r) \/ SetDone(r) \/ Fail(r)
    BY <2>2, <2>3, <2>7 DEF CheckSystem, DropLicenses, DropTenant, DropKey, SetDone, Fail, Steps
  <2> QED BY <1>3, <2>4, <2>5, <2>6, <2>7 DEF OpStep
<1>4. CASE op' = op
  BY <1>1, <1>4
<1> QED BY <1>2, <1>3, <1>4 DEF Next, Evict, Deliver, Lose, Tick, vars

LEMMA ItemsOwnedStep ==
    ASSUME TypeOK, RowsOwned, ItemsOwned, [Next]_vars
    PROVE  ItemsOwned'
<1> SUFFICES ASSUME NEW s \in Slots, Busy(s)', NEW e \in op'[s].todo
             PROVE  owner'[e[1]] = e[2].id
  BY DEF ItemsOwned
<1>1. ASSUME NEW d \in Items, owner[d[1]] = d[2].id
      PROVE  owner'[d[1]] = d[2].id
  <2>1. d[1] \in ApiKeys /\ d[2].id \in Tenants
    BY DEF Items, TenantType
  <2> QED BY <1>1, <2>1, OwnerKept
<1>2. CASE Busy(s) /\ op'[s].todo \subseteq op[s].todo
  <2>1. e \in Items
    BY <1>2, OpMoves DEF TypeOK, Running
  <2> QED BY <1>1, <1>2, <2>1 DEF ItemsOwned
<1>3. CASE WriteRow(s)
  <2>1. Busy(s)
    BY <1>3, WriteEffects
  <2>2. ASSUME NEW k \in ApiKeys, Creates(s, k)
        PROVE  owner'[e[1]] = e[2].id
    BY <2>2, SMTT(60) DEF Creates, NewTenant, TypeOK
  <2>3. (\E k \in ApiKeys : Creates(s, k)) \/ op'[s].todo = op[s].todo
    BY <1>3, WriteEffects DEF Rotates, Restates, Resets, Misses
  <2> QED BY <1>2, <2>1, <2>2, <2>3
<1>4. CASE /\ Reread(s) /\ Busy(s) /\ op'[s].todo = ToDo(s)
           /\ op[s].kind = "warmup" \/ Exists(op[s].t)
  <2>1. owner[e[1]] = e[2].id /\ e \in Items
    BY <1>4, ToDoOwned, ToDoTypes
  <2> QED BY <1>1, <2>1
<1> QED BY <1>2, <1>3, <1>4, ListsShrink

\* Entries come from the lists of operations at "set".
SetsEntry(s, e) ==
    /\ At(s, "set") /\ op[s] \in Running
    /\ e[1] \in ApiKeys /\ e[2] \in TenantType
    /\ byKey' = [byKey EXCEPT ![op[s].i][e[1]] = e[2]]
    /\ UNCHANGED <<world, notices, exact>>

LEMMA EntriesComeFromLists ==
    ASSUME TypeOK, [Next]_vars
    PROVE  \/ \A i \in Instances, k \in ApiKeys :
                 byKey'[i][k] = byKey[i][k] \/ byKey'[i][k] = NoEntry
           \/ \E s \in Slots : \E e \in op[s].todo : SetsEntry(s, e)
<1> DEFINE Fades == \A i \in Instances, k \in ApiKeys :
                       byKey'[i][k] = byKey[i][k] \/ byKey'[i][k] = NoEntry
<1>0. byKey \in [Instances -> [ApiKeys -> TenantType \cup {NoEntry}]]
  BY DEF TypeOK, StoreTypeOK
<1>1. ASSUME NEW s \in Slots, NEW kind \in Kinds, NEW i \in Instances, NEW t \in Tenants,
             Start(s, kind, i, t)
      PROVE  Fades
  BY <1>0, <1>1 DEF Start, StoreRestart, storeVars
<1>2. ASSUME NEW s \in Slots, OpStep(s)
      PROVE  Fades \/ \E e \in op[s].todo : SetsEntry(s, e)
  <2>1. Busy(s)
    BY <1>2 DEF OpStep, CheckSystem, WriteRow, DropLicenses, Reread, DropTenant, DropKey,
         SetEntry, SetDone, Fail, At
  <2>2. op[s] \in Running /\ op[s].i \in Instances /\ op[s].todo \in SUBSET Items
    BY <2>1, OpMoves DEF TypeOK, Running
  <2>3. CASE DropKey(s)
    <3>1. PICK e \in op[s].todo : StoreInvalidate(op[s].i, e[1])
      BY <2>3 DEF DropKey
    <3>2. e[1] \in ApiKeys
      BY <2>2 DEF Items
    <3> QED BY <1>0, <2>2, <3>1, <3>2 DEF StoreInvalidate
  <2>4. CASE SetEntry(s)
    <3>1. PICK e \in op[s].todo : StoreSet(op[s].i, e[1], e[2])
      BY <2>4 DEF SetEntry
    <3>2. e[1] \in ApiKeys /\ e[2] \in TenantType
      BY <2>2 DEF Items
    <3>3. SetsEntry(s, e)
      BY <2>2, <2>4, <3>1, <3>2 DEF SetEntry, SetsEntry, StoreSet
    <3> QED BY <3>3
  <2>5. CASE UNCHANGED byKey
    BY <2>5
  <2> QED BY <1>2, <2>3, <2>4, <2>5 DEF OpStep, CheckSystem, WriteRow, DropLicenses, Reread,
            DropTenant, SetDone, Fail, StoreInvalidateByTenantID, storeVars
<1>3. ASSUME NEW i \in Instances, NEW k \in ApiKeys, Evict(i, k)
      PROVE  Fades
  BY <1>0, <1>3 DEF Evict, StoreEvict
<1>4. ASSUME NEW n \in notices, Deliver(n) \/ Lose(n)
      PROVE  Fades
  <2>1. n[1] \in Instances /\ n[2] \in ApiKeys
    BY DEF TypeOK, StoreTypeOK
  <2> QED BY <1>0, <1>4, <2>1 DEF Deliver, DeliverNotice, Lose
<1>5. CASE Tick \/ UNCHANGED vars
  BY <1>5 DEF Tick, vars, storeVars
<1> QED BY <1>1, <1>2, <1>3, <1>4, <1>5 DEF Next

LEMMA EntriesOwnedStep ==
    ASSUME TypeOK, ItemsOwned, KeyOpensOwnTenant, [Next]_vars
    PROVE  KeyOpensOwnTenant'
<1> SUFFICES ASSUME NEW i \in Instances, NEW k \in ApiKeys, byKey'[i][k] # NoEntry
             PROVE  byKey'[i][k].id = owner'[k]
  BY DEF KeyOpensOwnTenant
<1>0. byKey \in [Instances -> [ApiKeys -> TenantType \cup {NoEntry}]]
  BY DEF TypeOK, StoreTypeOK
<1>1. CASE byKey'[i][k] = byKey[i][k]
  <2>1. byKey[i][k].id = owner[k] /\ byKey[i][k] \in TenantType
    BY <1>0, <1>1 DEF KeyOpensOwnTenant
  <2>2. byKey[i][k].id \in Tenants
    BY <2>1 DEF TenantType
  <2> QED BY <1>1, <2>1, <2>2, OwnerKept
<1>2. ASSUME NEW s \in Slots, NEW e \in op[s].todo, SetsEntry(s, e)
      PROVE  byKey'[i][k].id = owner'[k]
  <2>1. owner' = owner /\ op[s].i \in Instances /\ Busy(s)
    BY <1>2 DEF SetsEntry, world, Running, At
  <2>2. owner[e[1]] = e[2].id
    BY <2>1 DEF ItemsOwned
  <2>3. CASE op[s].i = i /\ e[1] = k
    BY <1>0, <1>2, <2>1, <2>2, <2>3 DEF SetsEntry
  <2>4. CASE ~(op[s].i = i /\ e[1] = k)
    BY <1>0, <1>1, <1>2, <2>1, <2>4 DEF SetsEntry
  <2> QED BY <2>3, <2>4
<1> QED BY <1>1, <1>2, EntriesComeFromLists

\* What a cache holds under a key is a tenant this key was generated for, for
\* any number of overlapping operations, failures, restarts and lost messages.
THEOREM KeysOpenTheirTenant == Spec => []KeyOpensOwnTenant
<1>1. Init => Owned
  BY DEF Init, StoreInit, Owned, RowsOwned, ItemsOwned, KeyOpensOwnTenant, Exists, Busy
<1>2. TypeOK /\ Owned /\ [Next]_vars => Owned'
  BY RowsOwnedStep, ItemsOwnedStep, EntriesOwnedStep DEF Owned
<1>3. Owned => KeyOpensOwnTenant
  BY DEF Owned
<1> QED BY <1>1, <1>2, <1>3, TenantTypeCorrect, PTL DEF Spec

-----------------------------------------------------------------------------
(* Suspension.                                                             *)

\* A key belongs to a tenant that exists: no row is ever removed.
OwnersExist == \A k \in ApiKeys : owner[k] # NoTenant => Exists(owner[k])

LEMMA OwnersExistStep ==
    ASSUME TypeOK, OwnersExist, [Next]_vars
    PROVE  OwnersExist'
<1>1. CASE ~\E s \in Slots : WriteRow(s)
  BY <1>1, OnlyWritesWrite DEF OwnersExist, Exists
<1>2. ASSUME NEW s \in Slots, WriteRow(s)
      PROVE  OwnersExist'
  <2>0. /\ owner \in [ApiKeys -> Tenants \cup {NoTenant}] /\ NoTenant \notin Tenants
        /\ NoTenant \notin TenantType /\ rows \in [Tenants -> TenantType \cup {NoTenant}]
    BY AccessAssumption DEF TypeOK
  <2>1. /\ op[s].t \in Tenants /\ \A u \in Tenants \ {op[s].t} : rows'[u] = rows[u]
        /\ rows' \in [Tenants -> TenantType \cup {NoTenant}]
    BY <1>2, WriteEffects, TypeStep DEF TypeOK
  <2>2. CASE \E k \in ApiKeys : Creates(s, k)
    <3>1. PICK k \in ApiKeys : Creates(s, k)
      BY <2>2
    <3>2. NewTenant(op[s].t, k) \in TenantType
      BY <2>1, TenantAssumption DEF NewTenant, TenantType, Statuses
    <3>3. rows'[op[s].t] # NoTenant /\ owner' = [owner EXCEPT ![k] = op[s].t]
      BY <2>0, <3>1, <3>2 DEF Creates, Exists
    <3>4. \A t \in Tenants : Exists(t) => Exists(t)'
      BY <2>0, <2>1, <3>3 DEF Exists
    <3> QED BY <2>0, <2>1, <3>3, <3>4 DEF OwnersExist, Exists
  <2>3. ASSUME Exists(op[s].t), NEW row \in TenantType, rows'[op[s].t] = row,
               owner' = owner \/ \E k \in ApiKeys : owner' = [owner EXCEPT ![k] = op[s].t]
        PROVE  OwnersExist'
    <3>1. \A t \in Tenants : Exists(t) => Exists(t)'
      BY <2>0, <2>1, <2>3 DEF Exists
    <3> QED BY <2>0, <2>1, <2>3, <3>1 DEF OwnersExist
  <2>4. Exists(op[s].t) => rows[op[s].t] \in TenantType
    BY <2>0, <2>1 DEF Exists
  <2>5. CASE \E k \in ApiKeys, u \in Nat : Rotates(s, k, u)
    <3>1. PICK k \in ApiKeys, u \in Nat : Rotates(s, k, u)
      BY <2>5
    <3>2. [rows[op[s].t] EXCEPT !.old = rows[op[s].t].key, !.oldUntil = u, !.key = k] \in TenantType
      BY <2>1, <2>4, <3>1, RowTypes DEF Rotates
    <3> QED BY <2>3, <3>1, <3>2 DEF Rotates
  <2>6. CASE \E st \in Statuses : Restates(s, st)
    BY <2>1, <2>3, <2>4, <2>6, RowTypes DEF Restates
  <2>7. CASE \E n \in Networks, b \in BOOLEAN : Resets(s, n, b)
    <3>1. \A n \in Networks, b \in BOOLEAN : Exists(op[s].t) =>
             [rows[op[s].t] EXCEPT !.nets = n, !.system = b] \in TenantType
      BY <2>4 DEF TenantType
    <3> QED BY <2>1, <2>3, <2>7, <3>1 DEF Resets
  <2>8. CASE Misses(s)
    BY <2>8 DEF Misses, OwnersExist, Exists
  <2> QED BY <1>2, <2>2, <2>5, <2>6, <2>7, <2>8, WriteEffects
<1> QED BY <1>1, <1>2


ShutSuspended ==
    \A k \in shut :
        owner[k] \in Tenants /\ Exists(owner[k]) /\ IsSuspended(rows[owner[k]])

\* An instance that would still admit a closed key has a message to come that
\* drops the entry.
EntriesDropped ==
    \A k \in shut, i \in Instances \ deaf :
        \/ byKey[i][k] = NoEntry
        \/ IsSuspended(byKey[i][k])
        \/ <<i, k>> \in notices

ItemsSuspended ==
    \A s \in Slots : Busy(s) => \A e \in op[s].todo : e[1] \in shut => IsSuspended(e[2])

LockedOut == ShutSuspended /\ EntriesDropped /\ ItemsSuspended

\* The last call of a suspension closes the key of entry e.
Closes(s, e) ==
    /\ StoreInvalidate(op[s].i, e[1])
    /\ IsSuspended(rows[e[2].id]) /\ ~Outdated(e[1])

\* A key is closed by a suspension, or given to a tenant whose key is closed.
LEMMA ShutGrows ==
    ASSUME TypeOK, [Next]_vars, NEW k \in shut', k \notin shut
    PROVE  \/ \E s \in Slots : \E e \in op[s].todo : DropKey(s) /\ Closes(s, e) /\ k = e[1]
           \/ \E s \in Slots, u \in Nat :
                 WriteRow(s) /\ Rotates(s, k, u) /\ rows[op[s].t].key \in shut
<1>1. ASSUME NEW s \in Slots, DropKey(s)
      PROVE  \E e \in op[s].todo : Closes(s, e) /\ k = e[1]
  BY <1>1 DEF DropKey, Closes
<1>2. ASSUME NEW s \in Slots, WriteRow(s)
      PROVE  \E u \in Nat : Rotates(s, k, u) /\ rows[op[s].t].key \in shut
  <2>1. PICK x \in ApiKeys, u \in Nat : Rotates(s, x, u)
    BY <1>2, WriteEffects DEF Creates, Restates, Resets, Misses
  <2>2. x = k /\ rows[op[s].t].key \in shut
    BY <2>1 DEF Rotates
  <2> QED BY <2>1, <2>2
<1>3. \E s \in Slots : DropKey(s) \/ WriteRow(s)
  BY DEF Next, OpStep, Start, CheckSystem, DropLicenses, Reread, DropTenant, SetEntry,
     SetDone, Fail, Evict, Deliver, Lose, Tick, world, vars
<1> QED BY <1>1, <1>2, <1>3

\* A suspended row stays so, unless the tenant is reinstated.
LEMMA StaysSuspended ==
    ASSUME TypeOK, NEW s \in Slots, WriteRow(s), NEW t \in Tenants,
           Exists(t), IsSuspended(rows[t]), op[s].kind = "reinstate" => t # op[s].t
    PROVE  Exists(t)' /\ IsSuspended(rows'[t])
<1>1. CASE t # op[s].t \/ rows'[t] = rows[t]
  BY <1>1, WriteEffects DEF Exists
<1>2. CASE t = op[s].t /\ rows'[t] # rows[t]
  <2>1. rows[t] \in TenantType
    BY DEF TypeOK, Exists
  <2>2. rows'[t] \in TenantType => Exists(t)'
    BY AccessAssumption DEF Exists
  <2>3. ASSUME NEW k \in ApiKeys, NEW u \in Nat, Rotates(s, k, u)
        PROVE  rows'[t] \in TenantType /\ rows'[t].status = rows[t].status
    BY <1>2, <2>1, <2>3 DEF Rotates, TenantType
  <2>4. ASSUME NEW n \in Networks, NEW b \in BOOLEAN, Resets(s, n, b)
        PROVE  rows'[t] \in TenantType /\ rows'[t].status = rows[t].status
    BY <1>2, <2>1, <2>4 DEF Resets, TenantType
  <2>5. ASSUME NEW st \in Statuses, Restates(s, st)
        PROVE  /\ rows'[t] \in TenantType /\ rows'[t].status = st
               /\ st \in {"suspended", "deleted"}
    <3>1. st \in {"suspended", "deleted"}
      BY <1>2, <2>5 DEF Restates, Statuses
    <3> QED BY <1>2, <2>1, <2>5, <3>1 DEF Restates, TenantType
  <2> QED BY <1>2, <2>2, <2>3, <2>4, <2>5, WriteEffects DEF Creates, Misses, IsSuspended
<1> QED BY <1>1, <1>2

LEMMA ShutSuspendedStep ==
    ASSUME TypeOK, Owned, OwnersExist, ShutSuspended, [Next]_vars
    PROVE  ShutSuspended'
<1> SUFFICES ASSUME NEW k \in shut'
             PROVE  /\ owner'[k] \in Tenants /\ Exists(owner[k])' /\ IsSuspended(rows'[owner'[k]])
  BY DEF ShutSuspended
<1>0. shut \in SUBSET ApiKeys /\ owner \in [ApiKeys -> Tenants \cup {NoTenant}]
      /\ NoTenant \notin Tenants
  BY AccessAssumption DEF TypeOK
<1>1. CASE k \in shut
  <2>1. /\ owner'[k] = owner[k] /\ owner[k] \in Tenants
        /\ Exists(owner[k]) /\ IsSuspended(rows[owner[k]])
    BY <1>0, <1>1, OwnerKept DEF ShutSuspended
  <2>2. CASE ~\E s \in Slots : WriteRow(s)
    BY <2>1, <2>2, OnlyWritesWrite DEF Exists
  <2>3. ASSUME NEW s \in Slots, WriteRow(s)
        PROVE  Exists(owner[k])' /\ IsSuspended(rows'[owner[k]])
    <3>1. ASSUME op[s].kind = "reinstate"
          PROVE  owner[k] # op[s].t
      <4>1. CASE Exists(op[s].t)
        <5>1. \E st \in Statuses : Restates(s, st)
          BY <2>3, <3>1, <4>1, WriteEffects DEF Creates, Rotates, Resets, Misses
        <5> QED BY <3>1, <5>1 DEF Restates
      <4>2. CASE ~Exists(op[s].t)
        BY <2>1, <4>2
      <4> QED BY <4>1, <4>2
    <3>2. PICK t \in Tenants : t = owner[k]
      BY <2>1
    <3>3. Exists(t)' /\ IsSuspended(rows'[t])
      BY <2>1, <2>3, <3>1, <3>2, StaysSuspended
    <3> QED BY <2>1, <3>2, <3>3 DEF Exists
  <2> QED BY <2>1, <2>2, <2>3
<1>2. ASSUME NEW s \in Slots, NEW e \in op[s].todo, DropKey(s), Closes(s, e), k = e[1]
      PROVE  /\ owner'[k] \in Tenants /\ Exists(owner[k])' /\ IsSuspended(rows'[owner'[k]])
  <2>1. Busy(s) /\ rows' = rows /\ owner' = owner
    BY <1>2 DEF DropKey, At
  <2>2. e \in Items
    BY <2>1, OpMoves DEF TypeOK, Running
  <2>3. owner[k] = e[2].id /\ e[2].id \in Tenants /\ k \in ApiKeys
    BY <1>2, <2>1, <2>2 DEF Owned, ItemsOwned, Items, TenantType
  <2>4. Exists(owner[k])
    BY <1>0, <2>3 DEF OwnersExist
  <2> QED BY <1>2, <2>1, <2>3, <2>4 DEF Closes, Exists
<1>3. ASSUME NEW s \in Slots, NEW u \in Nat, WriteRow(s), Rotates(s, k, u),
             rows[op[s].t].key \in shut
      PROVE  /\ owner'[k] \in Tenants /\ Exists(owner[k])' /\ IsSuspended(rows'[owner'[k]])
  <2>0. PICK t \in Tenants : t = op[s].t
    BY <1>3, WriteEffects
  <2>1. Exists(t) /\ op[s].kind = "rotate"
    BY <1>3, <2>0 DEF Rotates
  <2>2. owner'[k] = t
    <3>1. k \in ApiKeys
      BY TypeStep DEF TypeOK
    <3> QED BY <1>0, <1>3, <2>0, <3>1 DEF Rotates
  <2>3. IsSuspended(rows[t])
    BY <1>3, <2>0, <2>1 DEF Owned, RowsOwned, ShutSuspended
  <2>4. Exists(t)' /\ IsSuspended(rows'[t])
    BY <1>3, <2>1, <2>3, StaysSuspended
  <2> QED BY <2>1, <2>2, <2>4 DEF Exists
<1> QED BY <1>1, <1>2, <1>3, ShutGrows

LEMMA ItemsSuspendedStep ==
    ASSUME TypeOK, Owned, ShutSuspended, ItemsSuspended, [Next]_vars
    PROVE  ItemsSuspended'
<1> SUFFICES ASSUME NEW s \in Slots, Busy(s)', NEW e \in op'[s].todo, e[1] \in shut'
             PROVE  IsSuspended(e[2])
  BY DEF ItemsSuspended
<1>0. NoTenant \notin Tenants
  BY AccessAssumption
<1>1. CASE e[1] \in shut
  <2>1. CASE Busy(s) /\ op'[s].todo \subseteq op[s].todo
    BY <1>1, <2>1 DEF ItemsSuspended
  <2>2. CASE WriteRow(s)
    <3>1. ASSUME NEW k \in ApiKeys, Creates(s, k)
          PROVE  FALSE
      <4>1. e = <<k, NewTenant(op[s].t, k)>> /\ owner[k] = NoTenant
        BY <3>1 DEF Creates
      <4>2. e[1] = k
        BY <4>1
      <4> QED BY <1>0, <1>1, <4>1, <4>2 DEF ShutSuspended
    <3>2. op'[s].todo = op[s].todo /\ Busy(s)
      BY <2>2, <3>1, WriteEffects DEF Rotates, Restates, Resets, Misses
    <3> QED BY <2>1, <3>2
  <2>3. CASE /\ Reread(s) /\ Busy(s) /\ op'[s].todo = ToDo(s)
             /\ op[s].kind = "warmup" \/ Exists(op[s].t)
    <3>1. PICK t \in Tenants : Exists(t) /\ e[2] = rows[t]
      <4>1. op[s].t \in Tenants
        BY <2>3, OpMoves DEF TypeOK, Running
      <4> QED BY <2>3, <4>1 DEF ToDo, Both, Current
    <3>2. owner[e[1]] = t
      BY <2>3, <3>1, ToDoOwned DEF Owned, RowsOwned
    <3> QED BY <1>1, <3>1, <3>2 DEF ShutSuspended
  <2> QED BY <2>1, <2>2, <2>3, ListsShrink
<1>2. ASSUME NEW r \in Slots, NEW d \in op[r].todo, DropKey(r), Closes(r, d), e[1] = d[1]
      PROVE  IsSuspended(e[2])
  <2>1. Busy(r) /\ End(r)
    BY <1>2 DEF DropKey, At
  <2>2. op'[r] = Idle /\ \A q \in Slots \ {r} : op'[q] = op[q]
    BY <2>1, OpMoves DEF TypeOK
  <2>3. s # r /\ Busy(s) /\ e \in op[s].todo
    BY <2>2 DEF Busy
  <2> QED BY <1>2, <2>3 DEF Closes, Outdated
<1>3. ASSUME NEW r \in Slots, NEW u \in Nat, WriteRow(r), Rotates(r, e[1], u)
      PROVE  FALSE
  <2>1. Busy(s) /\ op'[s].todo = op[s].todo
    BY <1>3, WriteEffects DEF Rotates, Busy
  <2>2. e \in Items
    BY <2>1, OpMoves DEF TypeOK, Running
  <2>3. owner[e[1]] = e[2].id /\ e[2].id \in Tenants
    BY <2>1, <2>2 DEF Owned, ItemsOwned, Items, TenantType
  <2> QED BY <1>0, <1>3, <2>3 DEF Rotates
<1> QED BY <1>1, <1>2, <1>3, ShutGrows

LEMMA EntriesDroppedStep ==
    ASSUME TypeOK, Owned, LockedOut, [Next]_vars
    PROVE  EntriesDropped'
<1>0. /\ byKey \in [Instances -> [ApiKeys -> TenantType \cup {NoEntry}]]
      /\ notices \in SUBSET (Instances \X ApiKeys)
      /\ shut \in SUBSET ApiKeys
  BY DEF TypeOK, StoreTypeOK
<1> SUFFICES ASSUME NEW k \in shut', NEW i \in Instances, i \notin deaf'
             PROVE  byKey'[i][k] = NoEntry \/ IsSuspended(byKey'[i][k]) \/ <<i, k>> \in notices'
  BY DEF EntriesDropped
<1> DEFINE Goal == byKey'[i][k] = NoEntry \/ IsSuspended(byKey'[i][k]) \/ <<i, k>> \in notices'
<1>1. ASSUME NEW s \in Slots, NEW e \in op[s].todo, Closes(s, e), k = e[1]
      PROVE  Goal
  BY <1>1 DEF Closes, StoreInvalidate
<1>2. ASSUME NEW s \in Slots, NEW u \in Nat, WriteRow(s), Rotates(s, k, u)
      PROVE  Goal
  <2>1. owner[k] = NoTenant /\ byKey' = byKey /\ k \in ApiKeys
    BY <1>2, WriteEffects, TypeStep DEF Rotates, TypeOK
  <2>2. byKey[i][k] \in TenantType => byKey[i][k].id \in Tenants
    BY DEF TenantType
  <2> QED BY <1>0, <2>1, <2>2, AccessAssumption DEF Owned, KeyOpensOwnTenant
<1>3. CASE k \in shut
  <2>0. k \in ApiKeys
    BY <1>0, <1>3
  <2>3. \/ i \in deaf
        \/ byKey[i][k] = NoEntry
        \/ IsSuspended(byKey[i][k])
        \/ <<i, k>> \in notices
    BY <1>3 DEF LockedOut, EntriesDropped
  <2>4. ASSUME NEW s \in Slots, NEW kind \in Kinds, NEW j \in Instances, NEW u \in Tenants,
               Start(s, kind, j, u)
        PROVE  Goal
    <3>1. CASE kind = "warmup" /\ i = j
      BY <1>0, <2>0, <2>4, <3>1 DEF Start, StoreRestart
    <3>2. CASE kind = "warmup" /\ i # j
      BY <1>0, <2>0, <2>3, <2>4, <3>2 DEF Start, StoreRestart
    <3>3. CASE kind # "warmup"
      BY <2>3, <2>4, <3>3 DEF Start, storeVars
    <3> QED BY <3>1, <3>2, <3>3
  <2>5. ASSUME NEW s \in Slots, DropKey(s)
        PROVE  Goal
    <3>1. PICK e \in op[s].todo : StoreInvalidate(op[s].i, e[1])
      BY <2>5 DEF DropKey
    <3>2. Busy(s) /\ deaf' = deaf
      BY <2>5 DEF DropKey, At
    <3>3. op[s].i \in Instances /\ e[1] \in ApiKeys
      BY <3>2, OpMoves DEF TypeOK, Running, Items
    <3>4. CASE e[1] = k
      BY <3>1, <3>4 DEF StoreInvalidate
    <3>5. CASE e[1] # k
      <4>1. byKey'[i][k] = byKey[i][k] /\ notices \subseteq notices'
        BY <1>0, <2>0, <3>1, <3>3, <3>5 DEF StoreInvalidate
      <4> QED BY <2>3, <3>2, <4>1
    <3> QED BY <3>4, <3>5
  <2>6. ASSUME NEW s \in Slots, NEW e \in op[s].todo, SetsEntry(s, e)
        PROVE  Goal
    <3>1. Busy(s) /\ op[s].i \in Instances /\ notices' = notices /\ deaf' = deaf
      BY <2>6 DEF SetsEntry, At, Running, world
    <3>2. CASE op[s].i = i /\ e[1] = k
      <4>1. IsSuspended(e[2])
        BY <1>3, <3>1, <3>2 DEF LockedOut, ItemsSuspended
      <4>2. byKey'[i][k] = e[2]
        BY <1>0, <2>0, <2>6, <3>1, <3>2 DEF SetsEntry
      <4> QED BY <4>1, <4>2
    <3>3. CASE ~(op[s].i = i /\ e[1] = k)
      <4>1. byKey'[i][k] = byKey[i][k]
        BY <1>0, <2>0, <2>6, <3>1, <3>3 DEF SetsEntry
      <4> QED BY <2>3, <3>1, <4>1
    <3> QED BY <3>2, <3>3
  <2>7. ASSUME NEW j \in Instances, NEW x \in ApiKeys, Evict(j, x)
        PROVE  Goal
    BY <1>0, <2>0, <2>3, <2>7 DEF Evict, StoreEvict, world
  <2>8. ASSUME NEW n \in notices, Deliver(n)
        PROVE  Goal
    <3>1. n[1] \in Instances /\ n[2] \in ApiKeys /\ n = <<n[1], n[2]>>
      BY <1>0
    <3>2. deaf' = deaf
      BY <2>8 DEF Deliver, world
    <3>3. CASE n[1] = i /\ n[2] = k
      BY <1>0, <2>0, <2>8, <3>1, <3>3 DEF Deliver, DeliverNotice
    <3>4. CASE ~(n[1] = i /\ n[2] = k)
      <4>1. byKey'[i][k] = byKey[i][k]
        BY <1>0, <2>0, <2>8, <3>1, <3>4 DEF Deliver, DeliverNotice
      <4>2. <<i, k>> # n
        BY <3>4
      <4> QED BY <2>3, <2>8, <3>2, <4>1, <4>2 DEF Deliver, DeliverNotice
    <3> QED BY <3>3, <3>4
  <2>9. ASSUME NEW n \in notices, Lose(n)
        PROVE  Goal
    <3>1. n[1] # i
      BY <2>9 DEF Lose
    <3>2. <<i, k>> # n
      BY <3>1
    <3> QED BY <2>3, <2>9, <3>2 DEF Lose
  <2>10. CASE UNCHANGED <<byKey, notices, deaf>>
    BY <2>3, <2>10
  <2>11. ASSUME NEW s \in Slots, OpStep(s)
         PROVE  Goal
    <3>1. CASE SetEntry(s)
      <4>1. Busy(s)
        BY <3>1 DEF SetEntry, At
      <4>2. op[s] \in Running /\ op[s].todo \in SUBSET Items
        BY <4>1, OpMoves DEF TypeOK, Running
      <4>3. PICK e \in op[s].todo : StoreSet(op[s].i, e[1], e[2])
        BY <3>1 DEF SetEntry
      <4>4. e[1] \in ApiKeys /\ e[2] \in TenantType
        BY <4>2 DEF Items
      <4>5. SetsEntry(s, e)
        BY <3>1, <4>2, <4>3, <4>4 DEF SetEntry, SetsEntry, StoreSet
      <4> QED BY <2>6, <4>5
    <3> QED BY <2>5, <2>10, <2>11, <3>1 DEF OpStep, CheckSystem, WriteRow, DropLicenses, Reread,
              DropTenant, StoreInvalidateByTenantID, SetDone, Fail, storeVars, world
  <2> QED BY <2>4, <2>7, <2>8, <2>9, <2>10, <2>11 DEF Next, Tick, storeVars, vars
<1> QED BY <1>1, <1>2, <1>3, ShutGrows

\* A key that a suspension has closed, and every key its tenant is given
\* afterwards, is refused until the tenant is reinstated by every instance that
\* gets its messages: for any number of overlapping operations, failing
\* statements, restarts and warm-ups.  The invariant says where an admitting
\* entry can still be: only where a message is under way; the lists of operations
\* that are about to set entries, and the fresh keys of rotations, are what it has
\* to cover.
THEOREM SuspensionLocksOut == Spec => []SuspensionHolds
<1> DEFINE Inv == Owned /\ OwnersExist /\ LockedOut
<1>1. Init => Inv
  BY DEF Init, StoreInit, Owned, RowsOwned, ItemsOwned, KeyOpensOwnTenant, Exists, Busy,
     OwnersExist, LockedOut, ShutSuspended, EntriesDropped, ItemsSuspended
<1>2. TypeOK /\ Inv /\ [Next]_vars => Inv'
  <2>1. TypeOK /\ Owned /\ [Next]_vars => Owned'
    BY RowsOwnedStep, ItemsOwnedStep, EntriesOwnedStep DEF Owned
  <2>2. TypeOK /\ OwnersExist /\ [Next]_vars => OwnersExist'
    BY OwnersExistStep
  <2>3. TypeOK /\ Inv /\ [Next]_vars => LockedOut'
    BY ShutSuspendedStep, ItemsSuspendedStep, EntriesDroppedStep DEF LockedOut
  <2> QED BY <2>1, <2>2, <2>3
<1>3. Inv => SuspensionHolds
  BY DEF LockedOut, EntriesDropped, SuspensionHolds, Admits, Found, IsSuspended
<1> HIDE DEF Inv
<1> QED BY <1>1, <1>2, <1>3, TenantTypeCorrect, PTL DEF Spec

-----------------------------------------------------------------------------
(* What a warm-up leaves behind.                                           *)

\* What may be filed in a cache: the row of a tenant under one of its keys;
\* and what a warm-up files, which leaves out suspended tenants.
Filed == UNION {Both(t) : t \in {u \in Tenants : Exists(u)}}
Wanted == UNION {Both(t) : t \in {u \in Tenants : Exists(u) /\ ~IsSuspended(rows[u])}}

\* An event or a warm-up reads and sets, and only an event drops.
ReadsOnly ==
    \A s \in Slots : Busy(s) /\ op[s].kind \in Rereads =>
        op[s].step \in {"reread", "set"} \/ (op[s].kind = "refresh" /\ op[s].step = "drop")

\* While an operation that may write is under way, no instance is on the list.
WritersAlone == Writing => exact = {}

\* What an event or a warm-up at an exact instance has read is still in the table.
ListsCurrent ==
    \A s \in Slots : Busy(s) /\ op[s].kind \in Rereads /\ op[s].i \in exact =>
        op[s].todo \subseteq Filed

\* An exact instance holds rows of the table only, and no message that would
\* drop one is on its way to it.
NothingStale ==
    \A i \in exact : \A k \in ApiKeys :
        /\ <<i, k>> \notin notices
        /\ byKey[i][k] # NoEntry => <<k, byKey[i][k]>> \in Filed

\* An exact instance holds everything the warm-up files, or, while it is being
\* warmed up, what is not on the list any more.
NothingMissing ==
    /\ \A i \in exact : ~Warming(i) => \A e \in Wanted : byKey[i][e[1]] # NoEntry
    /\ \A s \in Slots :
          Busy(s) /\ op[s].kind = "warmup" /\ op[s].step = "set" /\ op[s].i \in exact =>
              \A e \in Wanted : e \in op[s].todo \/ byKey[op[s].i][e[1]] # NoEntry

Mirrored == WritersAlone /\ ListsCurrent /\ NothingStale /\ NothingMissing

Warm == OwnersExist /\ ReadsOnly /\ Mirrored

\* Steps of an operation that write no row.
LEMMA Moves ==
    ASSUME TypeOK, NEW s \in Slots, OpStep(s), ~WriteRow(s)
    PROVE  /\ Busy(s) /\ op[s] \in Running /\ op[s].t \in Tenants
           /\ rows' = rows /\ owner' = owner
           /\ \A r \in Slots \ {s} : op'[r] = op[r]
           /\ \/ op'[s] = Idle
              \/ /\ op'[s] \in Running /\ op'[s].kind = op[s].kind /\ op'[s].t = op[s].t /\ op'[s].i = op[s].i
                 /\ \/ CheckSystem(s) /\ op'[s].step = "db" /\ op'[s].todo = op[s].todo
                    \/ DropLicenses(s) /\ op'[s].step = "reread" /\ op'[s].todo = op[s].todo
                    \/ /\ Reread(s) /\ op'[s].todo = ToDo(s)
                       /\ op[s].kind = "warmup" \/ Exists(op[s].t)
                       /\ op'[s].step = IF op[s].kind = "suspend" THEN "drop" ELSE "set"
                    \/ op[s].kind = "refresh" /\ op'[s].step = "drop" /\ op'[s].todo = op[s].todo
                    \/ /\ DropTenant(s) /\ op[s].kind = "suspend"
                       /\ op'[s].step = "dropKey" /\ op'[s].todo = op[s].todo
                    \/ /\ SetEntry(s) /\ op'[s].step = "set" /\ op'[s].todo \subseteq op[s].todo
<1>0. op \in [Slots -> OpType]
  BY DEF TypeOK
<1>1. Busy(s)
  BY DEF OpStep, CheckSystem, DropLicenses, Reread, DropTenant, DropKey, SetEntry, SetDone,
     Fail, At
<1>2. op[s] \in Running /\ op[s].t \in Tenants
  BY <1>0, <1>1, OpMoves DEF Running
<1>3. rows' = rows /\ owner' = owner
  BY DEF OpStep, CheckSystem, DropLicenses, Reread, DropTenant, DropKey, SetEntry, SetDone,
     Fail, world
<1>4. End(s) => op'[s] = Idle /\ \A r \in Slots \ {s} : op'[r] = op[r]
  BY <1>0, <1>1, OpMoves
<1>5. ASSUME NEW st \in Steps, GoTo(s, st)
      PROVE  /\ op'[s] \in Running /\ op'[s].kind = op[s].kind /\ op'[s].t = op[s].t /\ op'[s].i = op[s].i
             /\ op'[s].step = st /\ op'[s].todo = op[s].todo
             /\ \A r \in Slots \ {s} : op'[r] = op[r]
  BY <1>0, <1>1, <1>5, OpMoves
<1>6. CASE CheckSystem(s)
  BY <1>1, <1>2, <1>3, <1>4, <1>5, <1>6 DEF CheckSystem, Steps
<1>7. CASE DropLicenses(s)
  BY <1>1, <1>2, <1>3, <1>5, <1>7 DEF DropLicenses, Steps
<1>8. CASE Reread(s)
  <2>1. ASSUME op[s].kind = "warmup" \/ Exists(op[s].t),
               op' = [op EXCEPT ![s].step = IF op[s].kind = "suspend" THEN "drop" ELSE "set",
                                ![s].todo = ToDo(s)]
        PROVE  /\ op'[s] \in Running /\ op'[s].kind = op[s].kind /\ op'[s].t = op[s].t /\ op'[s].i = op[s].i
               /\ op'[s].step = IF op[s].kind = "suspend" THEN "drop" ELSE "set"
               /\ op'[s].todo = ToDo(s)
               /\ \A r \in Slots \ {s} : op'[r] = op[r]
    <3> DEFINE st == IF op[s].kind = "suspend" THEN "drop" ELSE "set"
    <3>1. ToDo(s) \in SUBSET Items /\ st \in Steps
      BY <1>1, <2>1, ToDoTypes DEF Steps
    <3>2. op' = [op EXCEPT ![s] = [op[s] EXCEPT !.step = st, !.todo = ToDo(s)]]
      BY <2>1
    <3>3. [op[s] EXCEPT !.step = st, !.todo = ToDo(s)] \in Running
      BY <1>2, <3>1 DEF Running
    <3> QED BY <1>0, <1>2, <3>2, <3>3 DEF Running
  <2> QED BY <1>1, <1>2, <1>3, <1>4, <1>5, <1>8, <2>1 DEF Reread, Steps
<1>9. CASE DropTenant(s)
  BY <1>1, <1>2, <1>3, <1>4, <1>5, <1>9 DEF DropTenant, Steps
<1>10. CASE SetEntry(s)
  <2>1. PICK e \in op[s].todo : op' = [op EXCEPT ![s].todo = @ \ {e}]
    BY <1>10 DEF SetEntry
  <2>2. /\ op'[s] = [op[s] EXCEPT !.todo = op[s].todo \ {e}] /\ op'[s] \in Running
        /\ \A r \in Slots \ {s} : op'[r] = op[r]
    BY <1>0, <1>1, <2>1, OpSets
  <2>3. /\ op'[s].kind = op[s].kind /\ op'[s].t = op[s].t /\ op'[s].i = op[s].i
        /\ op'[s].step = op[s].step /\ op'[s].todo = op[s].todo \ {e}
    BY <1>2, <2>2 DEF Running
  <2>4. op[s].step = "set"
    BY <1>10 DEF SetEntry, At
  <2> QED BY <1>1, <1>2, <1>3, <1>10, <2>2, <2>3, <2>4
<1>11. CASE DropKey(s) \/ SetDone(s)
  BY <1>1, <1>2, <1>3, <1>4, <1>11 DEF DropKey, SetDone
<1>12. CASE Fail(s)
  BY <1>1, <1>2, <1>3, <1>4, <1>5, <1>12 DEF Fail, Steps
<1> QED BY <1>6, <1>7, <1>8, <1>9, <1>10, <1>11, <1>12 DEF OpStep

\* An operation ends, or goes on as what it is.
LEMMA OthersWait ==
    ASSUME TypeOK, NEW s \in Slots, OpStep(s)
    PROVE  /\ Busy(s) /\ op[s] \in Running
           /\ \A r \in Slots \ {s} : op'[r] = op[r]
           /\ op'[s] = Idle \/ op'[s].kind = op[s].kind
<1>1. CASE WriteRow(s)
  BY <1>1, WriteEffects, OpMoves DEF TypeOK
<1>2. CASE ~WriteRow(s)
  BY <1>2, Moves
<1> QED BY <1>1, <1>2

LEMMA ReadsOnlyStep ==
    ASSUME TypeOK, ReadsOnly, [Next]_vars
    PROVE  ReadsOnly'
<1>1. ASSUME NEW s \in Slots, NEW kind \in Kinds, NEW i \in Instances, NEW t \in Tenants,
             Start(s, kind, i, t)
      PROVE  ReadsOnly'
  <2>1. /\ op'[s] = [kind |-> kind, i |-> i, t |-> t, step |-> FirstStep(kind), todo |-> {}]
        /\ \A r \in Slots \ {s} : op'[r] = op[r]
    BY <1>1 DEF Start, TypeOK
  <2>2. op'[s].kind = kind /\ (kind \in Rereads => op'[s].step = "reread")
    BY <2>1 DEF FirstStep, Rereads
  <2> QED BY <2>1, <2>2 DEF ReadsOnly, Busy
<1>2. ASSUME NEW s \in Slots, OpStep(s)
      PROVE  ReadsOnly'
  <2>0. Busy(s) /\ \A r \in Slots \ {s} : op'[r] = op[r]
    BY <1>2, OthersWait
  <2>1. CASE WriteRow(s)
    <3>1. op[s].kind \notin Rereads
      BY <2>1 DEF WriteRow, CreateRow, UpdateStatus, RotateAPIKey, UpdateSettings,
         UpdateProfile, Rereads
    <3>2. op'[s].kind = op[s].kind
      BY <2>1, WriteEffects
    <3> QED BY <2>0, <3>1, <3>2 DEF ReadsOnly, Busy
  <2>2. CASE ~WriteRow(s) /\ op'[s] = Idle
    BY <2>0, <2>2 DEF ReadsOnly, Busy
  <2>3. CASE ~WriteRow(s) /\ op'[s] # Idle
    <3>1. op'[s].kind = op[s].kind
      BY <1>2, <2>3, OthersWait
    <3>2. ASSUME op[s].kind \in Rereads
          PROVE  op'[s].step = "set" \/ (op[s].kind = "refresh" /\ op'[s].step = "drop")
      <4>1. op[s].step \notin {"check", "licenses"} /\ op[s].kind # "suspend"
        BY <2>0, <3>2 DEF ReadsOnly, Rereads
      <4>2. ~CheckSystem(s) /\ ~DropLicenses(s)
        BY <4>1 DEF CheckSystem, DropLicenses, At
      <4> QED BY <1>2, <2>3, <4>1, <4>2, Moves
    <3> QED BY <2>0, <3>1, <3>2 DEF ReadsOnly, Busy
  <2> QED BY <2>1, <2>2, <2>3
<1>3. CASE op' = op
  BY <1>3 DEF ReadsOnly, Busy
<1> QED BY <1>1, <1>2, <1>3 DEF Next, Evict, Deliver, Lose, Tick, vars

\* Both sets are read off the table.
LEMMA ReadOffTable == rows' = rows => Filed' = Filed /\ Wanted' = Wanted
  BY DEF Filed, Wanted, Both, Current, Exists

LEMMA FiledTypes ==
    ASSUME TypeOK
    PROVE  /\ Wanted \subseteq Filed
           /\ Filed \subseteq Items
<1>1. \A t \in Tenants : Exists(t) => rows[t] \in TenantType
  BY DEF TypeOK, Exists
<1>2. \A t \in Tenants : Exists(t) => Both(t) \subseteq Items
  BY <1>1 DEF Both, Current, Items, TenantType
<1> QED BY <1>2 DEF Filed, Wanted

\* With no instance on the list there is nothing to disturb.
LEMMA NobodyExact ==
    ASSUME exact' = {}
    PROVE  Mirrored'
  BY DEF Mirrored, WritersAlone, ListsCurrent, NothingStale, NothingMissing

\* An operation that may write.
LEMMA WriterStep ==
    ASSUME WritersAlone, NEW s \in Slots, Busy(s), op[s].kind \notin Rereads, OpStep(s)
    PROVE  Mirrored'
<1>1. exact = {}
  BY DEF WritersAlone, Writing
<1>2. exact' = {}
  BY <1>1 DEF OpStep, CheckSystem, WriteRow, DropLicenses, Reread, DropTenant, DropKey,
     SetEntry, SetDone, Fail
<1> QED BY <1>2, NobodyExact

\* Steps of an event or a warm-up that touch no cache.
LEMMA QuietStep ==
    ASSUME TypeOK, Mirrored, NEW s \in Slots, Busy(s), op[s].kind \in Rereads,
           \A r \in Slots \ {s} : op'[r] = op[r],
           rows' = rows, byKey' = byKey, notices' = notices,
           \/ /\ op'[s] = Idle
              /\ \/ op[s].kind = "warmup" /\ exact' = exact \ {op[s].i}
                 \/ op[s].kind = "refresh" /\ exact' = exact
           \/ /\ op'[s].kind = op[s].kind /\ op'[s].i = op[s].i /\ exact' = exact
              /\ \/ op'[s].step # "set" /\ op'[s].todo \subseteq op[s].todo
                 \/ op'[s].todo = ToDo(s) /\ (op[s].kind = "warmup" \/ Exists(op[s].t))
    PROVE  Mirrored'
<1>0. op[s] \in Running /\ op[s].t \in Tenants /\ exact' \subseteq exact
  BY OpMoves DEF TypeOK, Running
<1>1. Filed' = Filed /\ Wanted' = Wanted
  BY ReadOffTable
<1>2. op[s].kind = "warmup" => ToDo(s) = Wanted
  BY DEF ToDo, Wanted
<1>3. op[s].kind = "warmup" \/ Exists(op[s].t) => ToDo(s) \subseteq Filed
  <2>1. op[s].kind = "refresh" => ToDo(s) = Both(op[s].t)
    BY DEF ToDo
  <2> QED BY <1>0, <1>2, <2>1, FiledTypes DEF Rereads, Filed
<1>4. WritersAlone'
  BY <1>0 DEF Mirrored, WritersAlone, Writing, Busy
<1>5. ListsCurrent'
  BY <1>0, <1>1, <1>3 DEF Mirrored, ListsCurrent, Busy
<1>6. NothingStale'
  BY <1>0, <1>1 DEF Mirrored, NothingStale
<1>7. NothingMissing'
  <2>1. ASSUME NEW i \in exact', Warming(i)
        PROVE  Warming(i)'
    <3>1. PICK r \in Slots : Busy(r) /\ op[r].kind = "warmup" /\ op[r].i = i
      BY <2>1 DEF Warming
    <3>2. CASE r # s
      BY <3>1, <3>2 DEF Warming, Busy
    <3>3. CASE r = s
      <4>1. op'[s].kind = "warmup" /\ op'[s].i = i
        BY <2>1, <3>1, <3>3
      <4>2. op'[s] # Idle
        BY <4>1 DEF Idle
      <4> QED BY <4>1, <4>2 DEF Warming, Busy
    <3> QED BY <3>2, <3>3
  <2>2. (\A i \in exact : ~Warming(i) => \A e \in Wanted : byKey[i][e[1]] # NoEntry)'
    BY <1>0, <1>1, <2>1 DEF Mirrored, NothingMissing
  <2>3. (\A r \in Slots :
          Busy(r) /\ op[r].kind = "warmup" /\ op[r].step = "set" /\ op[r].i \in exact =>
              \A e \in Wanted : e \in op[r].todo \/ byKey[op[r].i][e[1]] # NoEntry)'
    BY <1>0, <1>1, <1>2 DEF Mirrored, NothingMissing, Busy
  <2> QED BY <2>2, <2>3 DEF NothingMissing
<1> QED BY <1>4, <1>5, <1>6, <1>7 DEF Mirrored

\* One entry of the list is set.
LEMMA FillStep ==
    ASSUME TypeOK, Mirrored, NEW s \in Slots, op[s].kind \in Rereads, SetEntry(s)
    PROVE  Mirrored'
<1>0. Busy(s) /\ op[s] \in Running /\ op[s].step = "set"
      /\ byKey \in [Instances -> [ApiKeys -> TenantType \cup {NoEntry}]]
      /\ NoEntry \notin TenantType /\ op[s].i \in Instances /\ exact \subseteq Instances
  BY OpMoves, TenantAssumption DEF TypeOK, StoreTypeOK, Running, SetEntry, At
<1>1. PICK e \in op[s].todo : /\ StoreSet(op[s].i, e[1], e[2])
                              /\ op' = [op EXCEPT ![s].todo = @ \ {e}]
  BY DEF SetEntry
<1>2. Filed' = Filed /\ Wanted' = Wanted /\ exact' = exact /\ notices' = notices
  BY <1>1, ReadOffTable DEF SetEntry, StoreSet, world
<1>3. e \in Items /\ e = <<e[1], e[2]>> /\ e[1] \in ApiKeys /\ e[2] # NoEntry
      /\ (op[s].i \in exact => e \in Filed)
  <2>1. op[s].i \in exact => e \in Filed
    BY <1>0, <1>1 DEF Mirrored, ListsCurrent
  <2>2. e \in Items
    BY <1>0, <1>1 DEF Running
  <2> QED BY <1>0, <2>1, <2>2 DEF Items
<1>4. \A i \in Instances, k \in ApiKeys :
         byKey'[i][k] = IF i = op[s].i /\ k = e[1] THEN e[2] ELSE byKey[i][k]
  BY <1>0, <1>1, <1>3 DEF StoreSet
<1>5. /\ op'[s] = [op[s] EXCEPT !.todo = op[s].todo \ {e}] /\ op'[s] \in Running
      /\ \A r \in Slots \ {s} : op'[r] = op[r]
  BY <1>0, <1>1, OpSets DEF TypeOK
<1>6. /\ op'[s].kind = op[s].kind /\ op'[s].i = op[s].i /\ op'[s].step = op[s].step
      /\ op'[s].todo = op[s].todo \ {e} /\ Busy(s)'
  BY <1>0, <1>5, RunningIsNotIdle DEF Running, Busy
<1>7. WritersAlone' /\ ListsCurrent'
  BY <1>0, <1>2, <1>5, <1>6 DEF Mirrored, WritersAlone, Writing, ListsCurrent, Busy
<1>8. ASSUME NEW i, Warming(i)
      PROVE  Warming(i)'
  <2>1. PICK r \in Slots : Busy(r) /\ op[r].kind = "warmup" /\ op[r].i = i
    BY <1>8 DEF Warming
  <2>2. Busy(r)' /\ op'[r].kind = "warmup" /\ op'[r].i = i
    BY <1>5, <1>6, <2>1 DEF Busy
  <2> QED BY <2>2 DEF Warming
<1>9. NothingStale'
  <2> SUFFICES ASSUME NEW i \in exact, NEW k \in ApiKeys
               PROVE  /\ <<i, k>> \notin notices'
                      /\ byKey'[i][k] # NoEntry => <<k, byKey'[i][k]>> \in Filed'
    BY <1>2 DEF NothingStale
  <2>1. i \in Instances /\ <<i, k>> \notin notices
        /\ (byKey[i][k] # NoEntry => <<k, byKey[i][k]>> \in Filed)
    BY <1>0 DEF Mirrored, NothingStale
  <2>2. CASE i = op[s].i /\ k = e[1]
    <3>1. byKey'[i][k] = e[2]
      BY <1>4, <2>1, <2>2
    <3> QED BY <1>2, <1>3, <2>1, <2>2, <3>1
  <2>3. CASE ~(i = op[s].i /\ k = e[1])
    BY <1>2, <1>4, <2>1, <2>3
  <2> QED BY <2>2, <2>3
<1>10. NothingMissing'
  <2>1. \A i \in Instances, k \in ApiKeys : byKey[i][k] # NoEntry => byKey'[i][k] # NoEntry
    BY <1>3, <1>4
  <2>2. \A d \in Wanted : d[1] \in ApiKeys
    BY FiledTypes DEF Items
  <2>3. (\A i \in exact : ~Warming(i) => \A d \in Wanted : byKey[i][d[1]] # NoEntry)'
    BY <1>0, <1>2, <1>8, <2>1, <2>2 DEF Mirrored, NothingMissing
  <2>4. byKey'[op[s].i][e[1]] # NoEntry
    BY <1>0, <1>3, <1>4
  <2>5. ASSUME op[s].kind = "warmup", op[s].i \in exact, NEW d \in Wanted
        PROVE  d \in op'[s].todo \/ byKey'[op[s].i][d[1]] # NoEntry
    BY <1>0, <1>6, <2>1, <2>2, <2>4, <2>5 DEF Mirrored, NothingMissing
  <2>6. ASSUME NEW r \in Slots \ {s}, Busy(r), op[r].kind = "warmup", op[r].step = "set",
               op[r].i \in exact, NEW d \in Wanted
        PROVE  d \in op[r].todo \/ byKey'[op[r].i][d[1]] # NoEntry
    BY <1>0, <2>1, <2>2, <2>6 DEF Mirrored, NothingMissing
  <2>7. (\A r \in Slots :
          Busy(r) /\ op[r].kind = "warmup" /\ op[r].step = "set" /\ op[r].i \in exact =>
              \A d \in Wanted : d \in op[r].todo \/ byKey[op[r].i][d[1]] # NoEntry)'
    <3> SUFFICES ASSUME NEW r \in Slots, Busy(r)', op'[r].kind = "warmup",
                        op'[r].step = "set", op'[r].i \in exact, NEW d \in Wanted
                 PROVE  d \in op'[r].todo \/ byKey'[op'[r].i][d[1]] # NoEntry
      BY <1>2
    <3>1. CASE r = s
      BY <1>6, <2>5, <3>1
    <3>2. CASE r # s
      <4>1. op'[r] = op[r] /\ Busy(r)
        BY <1>5, <3>2 DEF Busy
      <4> QED BY <2>6, <3>2, <4>1
    <3> QED BY <3>1, <3>2
  <2> QED BY <2>3, <2>7 DEF NothingMissing
<1> QED BY <1>7, <1>9, <1>10 DEF Mirrored

\* The event or the warm-up is done.
LEMMA DoneStep ==
    ASSUME TypeOK, Mirrored, NEW s \in Slots, op[s].kind \in Rereads, SetDone(s)
    PROVE  Mirrored'
<1>1. /\ Busy(s) /\ op'[s] = Idle /\ op[s].todo = {} /\ op[s].step = "set" /\ rows' = rows
      /\ byKey' = byKey /\ notices' = notices /\ exact' = exact
      /\ \A r \in Slots \ {s} : op'[r] = op[r]
  BY OpMoves DEF TypeOK, SetDone, At, world, storeVars
<1>2. Filed' = Filed /\ Wanted' = Wanted
  BY <1>1, ReadOffTable
<1>3. WritersAlone' /\ ListsCurrent'
  BY <1>1, <1>2 DEF Mirrored, WritersAlone, Writing, ListsCurrent, Busy
<1>4. NothingStale'
  BY <1>1, <1>2 DEF Mirrored, NothingStale
<1>5. NothingMissing'
  <2>1. ASSUME NEW i \in exact, ~Warming(i)', NEW e \in Wanted
        PROVE  byKey[i][e[1]] # NoEntry
    <3>1. CASE op[s].kind = "warmup" /\ op[s].i = i
      BY <1>1, <2>1, <3>1 DEF Mirrored, NothingMissing
    <3>2. CASE ~(op[s].kind = "warmup" /\ op[s].i = i)
      <4>1. ~Warming(i)
        BY <1>1, <2>1, <3>2 DEF Warming, Busy
      <4> QED BY <2>1, <4>1 DEF Mirrored, NothingMissing
    <3> QED BY <3>1, <3>2
  <2>2. (\A r \in Slots :
          Busy(r) /\ op[r].kind = "warmup" /\ op[r].step = "set" /\ op[r].i \in exact =>
              \A e \in Wanted : e \in op[r].todo \/ byKey[op[r].i][e[1]] # NoEntry)'
    BY <1>1, <1>2 DEF Mirrored, NothingMissing, Busy
  <2> QED BY <1>1, <1>2, <2>1, <2>2 DEF NothingMissing
<1> QED BY <1>3, <1>4, <1>5 DEF Mirrored

\* Steps of operations.
LEMMA OperationStep ==
    ASSUME TypeOK, ReadsOnly, Mirrored, NEW s \in Slots, OpStep(s)
    PROVE  Mirrored'
<1>0. Busy(s) /\ \A r \in Slots \ {s} : op'[r] = op[r]
  BY OthersWait
<1>1. CASE op[s].kind \notin Rereads
  BY <1>0, <1>1, WriterStep DEF Mirrored
<1>2. CASE op[s].kind \in Rereads
  <2>1. /\ op[s].step \in {"reread", "set"} \/ (op[s].kind = "refresh" /\ op[s].step = "drop")
        /\ op[s].kind \in {"refresh", "warmup"}
    BY <1>0, <1>2 DEF ReadsOnly, Rereads
  <2>2. ~WriteRow(s) /\ ~DropKey(s) /\ ~CheckSystem(s) /\ ~DropLicenses(s)
    BY <2>1 DEF WriteRow, DropKey, CheckSystem, DropLicenses, At
  <2>3. CASE SetEntry(s)
    BY <1>2, <2>3, FillStep
  <2>4. CASE SetDone(s)
    BY <1>2, <2>4, DoneStep
  <2>5. CASE ~SetEntry(s) /\ ~SetDone(s)
    <3>0. Reread(s) \/ DropTenant(s) \/ Fail(s)
      BY <2>2, <2>5 DEF OpStep
    <3>1. rows' = rows /\ byKey' = byKey /\ notices' = notices
      BY <3>0 DEF Reread, DropTenant, Fail, storeVars, world, StoreInvalidateByTenantID
    <3>2. CASE op'[s] = Idle
      <4>1. /\ op[s].kind = "warmup" => exact' = exact \ {op[s].i}
            /\ op[s].kind = "refresh" => exact' = exact
        <5>1. CASE Fail(s)
          BY <5>1 DEF Fail
        <5>2. CASE DropTenant(s)
          BY <2>1, <5>2 DEF DropTenant, At
        <5>3. CASE Reread(s)
          <6>1. exact' = exact
            BY <5>3 DEF Reread
          <6>2. ASSUME op[s].kind = "warmup"
                PROVE  FALSE
            <7>1. op' = [op EXCEPT ![s].step = IF op[s].kind = "suspend" THEN "drop" ELSE "set",
                                   ![s].todo = ToDo(s)]
              BY <5>3, <6>2 DEF Reread
            <7>2. op'[s] = [op[s] EXCEPT !.step = "set", !.todo = ToDo(s)]
              BY <6>2, <7>1 DEF TypeOK
            <7>3. op[s] \in Running /\ ToDo(s) \in SUBSET Items
              BY <1>0, <6>2, ToDoTypes, OthersWait
            <7>4. op'[s] \in Running
              BY <7>2, <7>3 DEF Running, Steps
            <7> QED BY <3>2, <7>4, RunningIsNotIdle
          <6> QED BY <6>1, <6>2
        <5> QED BY <3>0, <5>1, <5>2, <5>3
      <4> QED BY <1>0, <1>2, <2>1, <3>1, <3>2, <4>1, QuietStep
    <3>3. CASE op'[s] # Idle
      <4>1. /\ op'[s].kind = op[s].kind /\ op'[s].i = op[s].i
            /\ \/ op'[s].step # "set" /\ op'[s].todo \subseteq op[s].todo
               \/ op'[s].todo = ToDo(s) /\ (op[s].kind = "warmup" \/ Exists(op[s].t))
        BY <2>2, <2>5, <3>3, Moves
      <4>2. exact' = exact
        <5>1. CASE Fail(s)
          <6>1. ~End(s)
            BY <1>0, <3>3, OpMoves DEF TypeOK
          <6> QED BY <2>1, <5>1, <6>1 DEF Fail
        <5>2. CASE Reread(s) \/ DropTenant(s)
          BY <5>2 DEF Reread, DropTenant
        <5> QED BY <3>0, <5>1, <5>2
      <4> QED BY <1>0, <1>2, <3>1, <4>1, <4>2, QuietStep
    <3> QED BY <3>2, <3>3
  <2> QED BY <2>3, <2>4, <2>5
<1> QED BY <1>1, <1>2

\* Operations begin, messages come and get lost, entries leave, time passes.
LEMMA BeginStep ==
    ASSUME TypeOK, Mirrored,
           NEW s \in Slots, NEW kind \in Kinds, NEW i \in Instances, NEW t \in Tenants,
           Start(s, kind, i, t)
    PROVE  Mirrored'
<1>1. /\ op'[s] = [kind |-> kind, i |-> i, t |-> t, step |-> FirstStep(kind), todo |-> {}]
      /\ \A r \in Slots \ {s} : op'[r] = op[r]
      /\ ~Busy(s) /\ ~Warming(i)
  BY DEF Start, TypeOK
<1>2. /\ op'[s].kind = kind /\ op'[s].i = i /\ op'[s].todo = {} /\ Busy(s)'
      /\ kind \in Rereads => op'[s].step = "reread"
  BY <1>1 DEF FirstStep, Rereads, Busy, Idle
<1>3. Filed' = Filed /\ Wanted' = Wanted
  BY ReadOffTable DEF Start
<1>4. CASE kind \notin Rereads \/ Writing
  BY <1>4, NobodyExact DEF Start
<1>5. CASE kind \in Rereads /\ ~Writing
  <2>0. /\ byKey \in [Instances -> [ApiKeys -> TenantType \cup {NoEntry}]]
        /\ exact \subseteq Instances /\ kind \in {"refresh", "warmup"}
    BY <1>5 DEF TypeOK, StoreTypeOK, Rereads
  <2>1. /\ exact' \subseteq exact \cup {i}
        /\ kind = "refresh" => exact' = exact /\ byKey' = byKey /\ notices' = notices
        /\ kind = "warmup" => StoreRestart(i) /\ \A r \in Slots : Busy(r) => op[r].i # i
    BY <1>5 DEF Start, storeVars
  <2>2. kind = "warmup" => \A k \in ApiKeys : byKey'[i][k] = NoEntry /\ <<i, k>> \notin notices'
    BY <2>0, <2>1 DEF StoreRestart
  <2>3. \A j \in exact' :
           /\ j \in Instances
           /\ \/ j \in exact /\ byKey'[j] = byKey[j] /\ notices' \subseteq notices
              \/ kind = "warmup" /\ j = i
    <3>1. kind = "warmup" => /\ \A j \in Instances \ {i} : byKey'[j] = byKey[j]
                             /\ notices' \subseteq notices
      BY <2>0, <2>1 DEF StoreRestart
    <3>2. ASSUME NEW j \in exact'
          PROVE  /\ j \in Instances
                 /\ \/ j \in exact /\ byKey'[j] = byKey[j] /\ notices' \subseteq notices
                    \/ kind = "warmup" /\ j = i
      <4>1. CASE kind = "refresh"
        BY <2>0, <2>1, <3>2, <4>1
      <4>2. CASE kind = "warmup"
        BY <2>0, <2>1, <3>1, <3>2, <4>2
      <4> QED BY <2>0, <4>1, <4>2
    <3> QED BY <3>2
  <2>4. WritersAlone'
    BY <1>1, <1>2, <1>5 DEF WritersAlone, Writing, Busy
  <2>5. ListsCurrent'
    <3> SUFFICES ASSUME NEW r \in Slots, Busy(r)', op'[r].kind \in Rereads, op'[r].i \in exact'
                 PROVE  op'[r].todo \subseteq Filed
      BY <1>3 DEF ListsCurrent
    <3>1. CASE r = s
      BY <1>2, <3>1
    <3>2. CASE r # s
      <4>1. op'[r] = op[r] /\ Busy(r)
        BY <1>1, <3>2 DEF Busy
      <4>2. op[r].i \in exact
        BY <2>1, <2>3, <4>1
      <4> QED BY <4>1, <4>2 DEF Mirrored, ListsCurrent
    <3> QED BY <3>1, <3>2
  <2>6. NothingStale'
    <3> SUFFICES ASSUME NEW j \in exact', NEW k \in ApiKeys
                 PROVE  /\ <<j, k>> \notin notices'
                        /\ byKey'[j][k] # NoEntry => <<k, byKey'[j][k]>> \in Filed
      BY <1>3 DEF NothingStale
    <3>1. CASE kind = "warmup" /\ j = i
      BY <2>2, <3>1
    <3>2. CASE j \in exact /\ byKey'[j] = byKey[j] /\ notices' \subseteq notices
      BY <3>2 DEF Mirrored, NothingStale
    <3> QED BY <2>3, <3>1, <3>2
  <2>7. NothingMissing'
    <3>1. ASSUME NEW j \in exact', ~Warming(j)', NEW e \in Wanted
          PROVE  byKey'[j][e[1]] # NoEntry
      <4>1. j \in exact /\ byKey'[j] = byKey[j]
        BY <1>2, <2>3, <3>1 DEF Warming
      <4>2. ~Warming(j)
        BY <1>1, <3>1 DEF Warming, Busy
      <4> QED BY <3>1, <4>1, <4>2 DEF Mirrored, NothingMissing
    <3>2. ASSUME NEW r \in Slots, Busy(r)', op'[r].kind = "warmup", op'[r].step = "set",
                 op'[r].i \in exact', NEW e \in Wanted
          PROVE  e \in op'[r].todo \/ byKey'[op'[r].i][e[1]] # NoEntry
      <4>1. r # s
        BY <1>2, <1>5, <3>2
      <4>2. op'[r] = op[r] /\ Busy(r)
        BY <1>1, <3>2, <4>1 DEF Busy
      <4>3. op[r].i # i
        BY <1>1, <3>2, <4>2 DEF Warming
      <4>4. op[r].i \in exact /\ byKey'[op[r].i] = byKey[op[r].i]
        BY <2>3, <3>2, <4>2, <4>3
      <4> QED BY <3>2, <4>2, <4>4 DEF Mirrored, NothingMissing
    <3> QED BY <1>3, <3>1, <3>2 DEF NothingMissing
  <2> QED BY <2>4, <2>5, <2>6, <2>7 DEF Mirrored
<1> QED BY <1>4, <1>5

LEMMA OutsideStep ==
    ASSUME TypeOK, Mirrored, NEW i \in Instances, NEW k \in ApiKeys,
           rows' = rows, op' = op, notices' \subseteq notices, exact' \subseteq exact,
           \/ byKey' = byKey
           \/ /\ byKey' = [byKey EXCEPT ![i][k] = NoEntry]
              /\ <<i, k>> \in notices \/ i \notin exact'
    PROVE  Mirrored'
<1>1. Filed' = Filed /\ Wanted' = Wanted
  BY ReadOffTable
<1>2. /\ byKey \in [Instances -> [ApiKeys -> TenantType \cup {NoEntry}]]
      /\ exact \subseteq Instances
  BY DEF TypeOK, StoreTypeOK
<1>3. \A j \in exact' : byKey'[j] = byKey[j]
  <2>1. <<i, k>> \in notices => i \notin exact
    BY DEF Mirrored, NothingStale
  <2> QED BY <1>2, <2>1
<1>4. WritersAlone' /\ ListsCurrent'
  BY <1>1 DEF Mirrored, WritersAlone, Writing, ListsCurrent, Busy
<1>5. NothingStale'
  BY <1>1, <1>3 DEF Mirrored, NothingStale
<1>6. NothingMissing'
  <2>1. \A j : Warming(j)' <=> Warming(j)
    BY DEF Warming, Busy
  <2> QED BY <1>1, <1>3, <2>1 DEF Mirrored, NothingMissing, Busy
<1> QED BY <1>4, <1>5, <1>6 DEF Mirrored

LEMMA MirroredStep ==
    ASSUME TypeOK, ReadsOnly, Mirrored, [Next]_vars
    PROVE  Mirrored'
<1>1. ASSUME NEW s \in Slots, NEW kind \in Kinds, NEW i \in Instances, NEW t \in Tenants,
             Start(s, kind, i, t)
      PROVE  Mirrored'
  BY <1>1, BeginStep
<1>2. ASSUME NEW s \in Slots, OpStep(s)
      PROVE  Mirrored'
  BY <1>2, OperationStep
<1>3. ASSUME NEW i \in Instances, NEW k \in ApiKeys, Evict(i, k)
      PROVE  Mirrored'
  BY <1>3, OutsideStep DEF Evict, StoreEvict, world
<1>4. ASSUME NEW n \in notices, Deliver(n) \/ Lose(n)
      PROVE  Mirrored'
  <2>1. n[1] \in Instances /\ n[2] \in ApiKeys /\ <<n[1], n[2]>> \in notices
    BY DEF TypeOK, StoreTypeOK
  <2>2. UNCHANGED <<rows, op, exact>> /\ notices' \subseteq notices
    BY <1>4 DEF Deliver, Lose, DeliverNotice, world
  <2>3. byKey' = byKey \/ byKey' = [byKey EXCEPT ![n[1]][n[2]] = NoEntry]
    BY <1>4 DEF Deliver, Lose, DeliverNotice
  <2> QED BY <2>1, <2>2, <2>3, OutsideStep
<1>5. CASE Tick \/ UNCHANGED vars
  BY <1>5 DEF Tick, vars, storeVars, Mirrored, WritersAlone, Writing, ListsCurrent, NothingStale,
     NothingMissing, Warming, Busy, Filed, Wanted, Both, Current, Exists
<1> QED BY <1>1, <1>2, <1>3, <1>4, <1>5 DEF Next

\* An exact instance admits the good keys and no others.
LEMMA MirrorsAdmit ==
    ASSUME TypeOK, Owned, Warm
    PROVE  WarmIsExact
<1> SUFFICES ASSUME NEW i \in exact, NEW k \in ApiKeys, ~Warming(i)
             PROVE  Admits(i, k) <=> GoodKey(k)
  BY DEF WarmIsExact
<1>0. /\ i \in Instances /\ k # NoKey /\ NoTenant \notin Tenants
      /\ owner \in [ApiKeys -> Tenants \cup {NoTenant}]
  BY TenantAssumption, AccessAssumption DEF TypeOK
<1>1. \A t \in Tenants : <<k, rows[t]>> \in Both(t) <=> k = rows[t].key \/ k = rows[t].old
  BY <1>0 DEF Both, Current
<1>2. ASSUME NEW row, <<k, row>> \in Filed
      PROVE  owner[k] \in Tenants /\ row = rows[owner[k]] /\ Exists(owner[k])
  <2>1. PICK t \in Tenants : Exists(t) /\ <<k, row>> \in Both(t)
    BY <1>2 DEF Filed
  <2>2. row = rows[t] /\ (k = rows[t].key \/ k = rows[t].old)
    BY <2>1, <1>0 DEF Both, Current
  <2> QED BY <1>0, <2>1, <2>2 DEF Owned, RowsOwned
<1>3. byKey[i][k] # NoEntry => <<k, byKey[i][k]>> \in Filed
  BY DEF Warm, Mirrored, NothingStale
<1>4. ASSUME Admits(i, k)
      PROVE  GoodKey(k)
  <2>1. byKey[i][k] = rows[owner[k]] /\ owner[k] \in Tenants
    BY <1>2, <1>3, <1>4 DEF Admits, Found
  <2> QED BY <1>0, <1>4, <2>1 DEF Admits, Found, GoodKey
<1>5. ASSUME GoodKey(k)
      PROVE  Admits(i, k)
  <2>1. owner[k] \in Tenants /\ Exists(owner[k]) /\ ~IsSuspended(rows[owner[k]])
    BY <1>0, <1>5 DEF GoodKey, Warm, OwnersExist, IsSuspended
  <2>2. <<k, rows[owner[k]]>> \in Wanted
    BY <1>1, <1>5, <2>1 DEF GoodKey, AcceptsKey, Wanted
  <2>3. byKey[i][k] # NoEntry
    BY <2>2 DEF Warm, Mirrored, NothingMissing
  <2>4. byKey[i][k] = rows[owner[k]]
    BY <1>2, <1>3, <2>3
  <2> QED BY <1>5, <2>3, <2>4 DEF Admits, Found, GoodKey
<1> QED BY <1>4, <1>5

\* An instance that was warmed up, and since whose restart no operation that may
\* write was under way, admits a key if and only if the key is good now: through
\* refreshes, lost and late messages, evictions elsewhere, restarts, the end of a
\* grace period, and however events and warm-ups overlap.
THEOREM WarmedUpIsExact == Spec => []WarmIsExact
<1>1. Init => Owned /\ Warm
  <2>1. Init => Owned /\ OwnersExist /\ ReadsOnly
    BY AccessAssumption DEF Init, StoreInit, Owned, RowsOwned, ItemsOwned, KeyOpensOwnTenant,
       Exists, Busy, OwnersExist, ReadsOnly
  <2>2. Init => Mirrored
    BY DEF Init, StoreInit, Exists, Busy, Mirrored, WritersAlone, Writing, ListsCurrent,
       NothingStale, NothingMissing, Wanted
  <2> QED BY <2>1, <2>2 DEF Warm
<1>2. TypeOK /\ Owned /\ Warm /\ [Next]_vars => (Owned /\ Warm)'
  <2>1. TypeOK /\ Owned /\ [Next]_vars => Owned'
    BY RowsOwnedStep, ItemsOwnedStep, EntriesOwnedStep DEF Owned
  <2>2. TypeOK /\ Warm /\ [Next]_vars => Warm'
    BY OwnersExistStep, ReadsOnlyStep, MirroredStep DEF Warm
  <2> QED BY <2>1, <2>2
<1>3. TypeOK /\ Owned /\ Warm => WarmIsExact
  BY MirrorsAdmit
<1> QED BY <1>1, <1>2, <1>3, TenantTypeCorrect, PTL DEF Spec
=============================================================================
