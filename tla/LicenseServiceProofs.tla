------------------------ MODULE LicenseServiceProofs ------------------------
(***************************************************************************)
(* Proofs about LicenseService, for any number of instances, requests,     *)
(* clients and licenses, any workload and any contents of the licenses     *)
(* table, with faults and crashes.                                         *)
(***************************************************************************)
EXTENDS LicenseService, FiniteSetTheorems, TLAPS

-----------------------------------------------------------------------------
(* Types.                                                                  *)

\* Replacing one slot of a table keeps the type of the table.
LEMMA SlotType ==
    ASSUME NEW I, NEW K, NEW E, NEW f \in [I -> [K -> E]], NEW i, NEW k, NEW e \in E
    PROVE  [f EXCEPT ![i][k] = e] \in [I -> [K -> E]]
OBVIOUS

\* A request that answers, or goes on, keeps its locals typed.
LEMMA AnswerType ==
    ASSUME ReqTypeOK, NEW r \in Requests, NEW kind \in Kinds,
           NEW id \in Requests \cup {NoRequest}, Answer(r, kind, id)
    PROVE  ReqTypeOK'
BY DEF ReqTypeOK, Answer, Goto, Steps, RespType

LEMMA HoldType ==
    ASSUME ReqTypeOK, NEW r \in Requests, NEW lic \in LicenseType,
           NEW step \in Steps, Hold(r, lic, step)
    PROVE  ReqTypeOK'
BY DEF ReqTypeOK, Hold, Goto

LEMMA ContinueType ==
    ASSUME ReqTypeOK, NEW r \in Requests, NEW step \in Steps, Continue(r, step)
    PROVE  ReqTypeOK'
BY DEF ReqTypeOK, Continue, Goto

\* The locks keep their types.
LEMMA LockType ==
    ASSUME ReqTypeOK, LocalTypeOK, NEW r \in Requests,
           Lock(r) \/ Unlock(r) \/ UNCHANGED mutex, UNCHANGED <<idem, now, crashes>>
    PROVE  LocalTypeOK'
<1>1. ASSUME NEW h \in Requests \cup {NoRequest}
      PROVE  [mutex EXCEPT ![args[r].inst][LockSlot(r)] = h]
                \in [Instances -> [Shards -> Requests \cup {NoRequest}]]
      BY SlotType DEF LocalTypeOK
<1>2. CASE Lock(r)
      BY <1>1, <1>2 DEF LocalTypeOK, Lock
<1>3. CASE Unlock(r)
      BY <1>1, <1>3 DEF LocalTypeOK, Unlock
<1>4. CASE UNCHANGED mutex
      BY <1>4 DEF LocalTypeOK
<1>5. QED
      BY <1>2, <1>3, <1>4

LEMMA ArgsTyped ==
    ASSUME ReqTypeOK, NEW r \in Requests
    PROVE  /\ args[r].inst \in Instances
           /\ args[r].key \in Keys
           /\ args[r].client \in Clients
           /\ args[r].idem \in IdemKeys \cup {NoIdem}
           /\ args[r].terms \in TermsType
BY DEF ReqTypeOK, ArgsType

\* The cache operations keep the cache typed.
LEMMA StoreReadType ==
    ASSUME StoreTypeOK, NEW i \in Instances, NEW k \in Keys
    PROVE  /\ StoreGet(i, k) => StoreTypeOK'
           /\ StoreGetByGlobalKey(i, k) => StoreTypeOK'
           /\ IsHit(StoreLookup(i, k)) => StoreLookup(i, k) \in LicenseType
<1>1. /\ StoreLookup(i, k) \in EntryType
      /\ GlobalLookup(i, k) \in EntryType
      BY DEF StoreTypeOK, EntryType, StoreLookup, GlobalLookup
<1>2. ASSUME NEW e \in EntryType
      PROVE  /\ [l1 EXCEPT ![i][k] = e] \in [Instances -> [Keys -> EntryType]]
             /\ [gk EXCEPT ![i][k] = e] \in [Instances -> [Keys -> EntryType]]
      BY SlotType DEF StoreTypeOK
<1>3. StoreGet(i, k) => StoreTypeOK'
      BY <1>1, <1>2 DEF StoreTypeOK, StoreGet
<1>4. StoreGetByGlobalKey(i, k) => StoreTypeOK'
      BY <1>1, <1>2 DEF StoreTypeOK, StoreGetByGlobalKey
<1>5. IsHit(StoreLookup(i, k)) => StoreLookup(i, k) \in LicenseType
      BY <1>1 DEF EntryType, IsHit
<1>6. QED
      BY <1>3, <1>4, <1>5

LEMMA StoreWriteType ==
    ASSUME StoreTypeOK, NEW i \in Instances, NEW k \in Keys,
           NEW lic \in LicenseType \cup {NoEntry}
    PROVE  /\ StoreSet(i, k, lic) => StoreTypeOK'
           /\ StoreInvalidate(i, k) => StoreTypeOK'
           /\ DeliverInvalidation(i, k) => StoreTypeOK'
           /\ L1Evict(i, k) => StoreTypeOK'
<1>1. ASSUME NEW e \in LicenseType \cup {NoEntry}
      PROVE  /\ [l1 EXCEPT ![i][k] = e] \in [Instances -> [Keys -> EntryType]]
             /\ [gk EXCEPT ![i][k] = e] \in [Instances -> [Keys -> EntryType]]
             /\ [l2 EXCEPT ![k] = e] \in [Keys -> LicenseType \cup {NoEntry}]
      BY SlotType DEF StoreTypeOK, EntryType
<1>2. StoreSet(i, k, lic) => StoreTypeOK'
      BY <1>1 DEF StoreTypeOK, StoreSet
<1>3. StoreInvalidate(i, k) => StoreTypeOK'
      BY <1>1 DEF StoreTypeOK, StoreInvalidate
<1>4. DeliverInvalidation(i, k) => StoreTypeOK'
      BY <1>1 DEF StoreTypeOK, DeliverInvalidation
<1>5. L1Evict(i, k) => StoreTypeOK'
      <2>1. CASE l1' = [l1 EXCEPT ![i][k] = NoEntry] /\ UNCHANGED gk
            BY <1>1, <2>1 DEF StoreTypeOK, L1Evict
      <2>2. CASE gk' = [gk EXCEPT ![i][k] = NoEntry] /\ UNCHANGED l1
            BY <1>1, <2>2 DEF StoreTypeOK, L1Evict
      <2>3. QED
            BY <2>1, <2>2 DEF L1Evict
<1>6. QED
      BY <1>2, <1>3, <1>4, <1>5

LEMMA RowLicenseType ==
    ASSUME DBTypeOK, NEW k \in Keys, RowExists(k)
    PROVE  db[k] \in TermsType /\ RowLicense(k) \in LicenseType
BY DEF DBTypeOK, RowExists, RowLicense, LicenseType

\* The statements on the activations table keep it typed.
LEMMA ActivationsType ==
    ASSUME DBTypeOK
    PROVE  /\ \A r \in Requests, k \in Keys, c \in Clients :
                 InsertActivation(r, k, c) => acts' \subseteq ActivationType
           /\ \A k, c : ReleaseActivation(k, c) => acts' \subseteq ActivationType
<1>1. ASSUME NEW r \in Requests, NEW k \in Keys, NEW c \in Clients,
             InsertActivation(r, k, c)
      PROVE  acts' \subseteq ActivationType
      <2>1. [id |-> r, key |-> k, client |-> c, active |-> TRUE] \in ActivationType
            BY DEF ActivationType
      <2>2. QED
            BY <1>1, <2>1 DEF InsertActivation, DBTypeOK
<1>2. ASSUME NEW k, NEW c, ReleaseActivation(k, c)
      PROVE  acts' \subseteq ActivationType
      <2>1. \A a \in acts : /\ a \in ActivationType
                            /\ [a EXCEPT !.active = FALSE] \in ActivationType
            BY DEF DBTypeOK, ActivationType
      <2>2. QED
            BY <1>2, <2>1 DEF ReleaseActivation
<1>3. QED
      BY <1>1, <1>2

LEMMA StoreRestartType ==
    ASSUME StoreTypeOK, DBTypeOK, NEW i \in Instances,
           StoreRestart(i, [k \in WarmKeys |-> RowLicense(k)])
    PROVE  StoreTypeOK'
<1> DEFINE warm == [k \in WarmKeys |-> RowLicense(k)]
           refill == [k \in Keys |-> IF k \in DOMAIN warm THEN warm[k] ELSE NoEntry]
<1>1. refill \in [Keys -> LicenseType \cup {NoEntry}]
      BY RowLicenseType DEF WarmKeys
<1>2. l2' \in [Keys -> LicenseType \cup {NoEntry}]
      BY RowLicenseType DEF StoreRestart, StoreTypeOK, WarmKeys
<1>3. /\ l1' = [l1 EXCEPT ![i] = refill]
      /\ gk' = [gk EXCEPT ![i] = refill]
      /\ inbox' \subseteq inbox
      BY DEF StoreRestart
<1> HIDE DEF refill
<1>4. QED
      BY <1>1, <1>2, <1>3 DEF StoreTypeOK, EntryType

-----------------------------------------------------------------------------
LEMMA InitTypeOK == Init => TypeOK
<1> SUFFICES ASSUME Init PROVE TypeOK
    OBVIOUS
<1>1. DBTypeOK
      BY ServiceAssumption DEF Init, DBTypeOK
<1>2. WarmImage \in [Keys -> LicenseType \cup {NoEntry}]
      BY <1>1, RowLicenseType DEF WarmImage, WarmKeys
<1>3. StoreTypeOK
      BY <1>2 DEF Init, StoreTypeOK, EntryType
<1>4. ReqTypeOK
      BY ServiceAssumption DEF Init, ReqTypeOK, Steps, NoResp, RespType, Kinds
<1>5. LocalTypeOK
      BY DEF Init, LocalTypeOK, NoResp, RespType, Kinds
<1>6. QED
      BY <1>1, <1>3, <1>4, <1>5 DEF TypeOK

\* What the tests on a license answer.
LEMMA AnswerKinds ==
    ASSUME NEW r, NEW k, NEW entry
    PROVE  Verdict(entry) \in Kinds /\ Refusal(r) \in Kinds /\ RowRefusal(k) \in Kinds
BY DEF Verdict, Refusal, RowRefusal, Kinds

\* What a step leaves alone keeps its type.
LEMMA FrameType ==
    /\ StoreTypeOK /\ UNCHANGED storeVars => StoreTypeOK'
    /\ DBTypeOK /\ UNCHANGED dbVars => DBTypeOK'
    /\ ReqTypeOK /\ UNCHANGED reqVars => ReqTypeOK'
    /\ LocalTypeOK /\ UNCHANGED <<mutex, idem, now, crashes>> => LocalTypeOK'
<1>1. StoreTypeOK /\ UNCHANGED storeVars => StoreTypeOK'
      BY DEF StoreTypeOK, storeVars
<1>2. DBTypeOK /\ UNCHANGED dbVars => DBTypeOK'
      BY DEF DBTypeOK, dbVars
<1>3. ReqTypeOK /\ UNCHANGED reqVars => ReqTypeOK'
      BY DEF ReqTypeOK, reqVars
<1>4. LocalTypeOK /\ UNCHANGED <<mutex, idem, now, crashes>> => LocalTypeOK'
      BY DEF LocalTypeOK
<1>5. QED
      BY <1>1, <1>2, <1>3, <1>4

\* Every step of a request keeps the types.
LEMMA StartTypeOK ==
    ASSUME TypeOK, NEW r \in Requests, Start(r)
    PROVE  TypeOK'
<1> DEFINE i == args[r].inst
           k == args[r].key
<1> USE DEF TypeOK
<1>1. i \in Instances /\ k \in Keys /\ args[r].terms \in TermsType
      BY ArgsTyped
<1>2. {"resolve", "cacheSet", "reread"} \subseteq Steps
      BY DEF Steps
<1>3. {"ok", "license_not_found", "bad_request", "internal_error"} \subseteq Kinds
      BY DEF Kinds
<1>4. StoreTypeOK /\ UNCHANGED storeVars => StoreTypeOK'
      BY FrameType
<1>5. DBTypeOK /\ UNCHANGED dbVars => DBTypeOK'
      BY FrameType
<1>6. LocalTypeOK /\ UNCHANGED <<mutex, idem, now, crashes>> => LocalTypeOK'
      BY FrameType
<1> HIDE DEF i, k
<1>7. CASE Replay(r)
      <2>1. idem[i][args[r].idem].id \in Requests \cup {NoRequest}
            BY <1>1, <1>7, ArgsTyped DEF Replay, LocalTypeOK, RespType, i
      <2>2. ReqTypeOK'
            BY <1>3, <1>7, <2>1, AnswerType DEF Replay, i
      <2>3. QED
            BY <1>4, <1>5, <1>6, <1>7, <2>2 DEF Replay
<1>8. CASE BeginActivate(r)
      BY <1>2, <1>4, <1>5, <1>6, <1>8, ContinueType DEF BeginActivate
<1>9. CASE BeginDeactivate(r)
      BY <1>2, <1>4, <1>5, <1>6, <1>9, ContinueType DEF BeginDeactivate
<1>10. CASE BeginUsage(r)
      <2>1. ReqTypeOK'
            BY <1>2, <1>3, <1>10, ContinueType, AnswerType DEF BeginUsage
      <2>2. StoreTypeOK'
            BY <1>1, <1>10, StoreReadType DEF BeginUsage, i, k
      <2>3. QED
            BY <1>5, <1>6, <1>10, <2>1, <2>2 DEF BeginUsage
<1>11. CASE Validate(r)
      <2>1. ReqTypeOK'
            BY <1>11, AnswerKinds, AnswerType DEF Validate
      <2>2. StoreTypeOK'
            BY <1>1, <1>11, StoreReadType DEF Validate, i, k
      <2>3. QED
            BY <1>5, <1>6, <1>11, <2>1, <2>2 DEF Validate
<1>12. CASE CreateLicense(r)
      <2>1. [id |-> k, terms |-> args[r].terms] \in LicenseType
            BY <1>1 DEF LicenseType
      <2>2. ReqTypeOK'
            BY <1>2, <1>3, <1>12, <2>1, HoldType, AnswerType DEF CreateLicense, k
      <2>3. DBTypeOK'
            BY <1>1, <1>12 DEF CreateLicense, DBTypeOK, k
      <2>4. QED
            BY <1>4, <1>6, <1>12, <2>2, <2>3 DEF CreateLicense
<1>13. CASE UpdateLicense(r)
      <2>1. [id |-> NoID, terms |-> args[r].terms] \in LicenseType
            BY <1>1 DEF LicenseType
      <2>2. ReqTypeOK'
            BY <1>2, <1>3, <1>13, <2>1, HoldType, AnswerType DEF UpdateLicense
      <2>3. DBTypeOK'
            BY <1>1, <1>13 DEF UpdateLicense, UpdateRow, DBTypeOK, k
      <2>4. QED
            BY <1>4, <1>6, <1>13, <2>2, <2>3 DEF UpdateLicense
<1>14. CASE RevokeLicense(r)
      <2>1. ReqTypeOK'
            BY <1>2, <1>3, <1>14, ContinueType, AnswerType DEF RevokeLicense
      <2>2. RowExists(k) => [db[k] EXCEPT !.status = "revoked"] \in TermsType
            BY <1>1, RowLicenseType DEF TermsType, Statuses
      <2>3. DBTypeOK'
            BY <1>1, <1>14, <2>2 DEF RevokeLicense, RevokeRow, DBTypeOK, k
      <2>4. QED
            BY <1>4, <1>6, <1>14, <2>1, <2>3 DEF RevokeLicense
<1>15. QED
      BY <1>7, <1>8, <1>9, <1>10, <1>11, <1>12, <1>13, <1>14 DEF Start

LEMMA ProceedTypeOK ==
    ASSUME TypeOK, NEW r \in Requests, Proceed(r)
    PROVE  TypeOK'
<1> DEFINE i == args[r].inst
           k == args[r].key
           c == args[r].client
<1> USE DEF TypeOK
<1>1. i \in Instances /\ k \in Keys /\ c \in Clients
      BY ArgsTyped
<1>3. {"ok", "license_not_found", "seats_limit_exceeded", "internal_error"} \subseteq Kinds
      BY DEF Kinds
<1> HIDE DEF i, k, c
<1>4. CASE ResolveFromCache(r)
      <2>1. ReqTypeOK'
            BY <1>1, <1>4, HoldType, ContinueType, StoreReadType
            DEF ResolveFromCache, IsHit, Steps, i, k
      <2>2. StoreTypeOK'
            BY <1>1, <1>4, StoreReadType, FrameType DEF ResolveFromCache, i, k
      <2>3. QED
            BY <1>4, <2>1, <2>2, FrameType DEF ResolveFromCache
<1>5. CASE FindByKey(r)
      <2>1. ReqTypeOK'
            BY <1>1, <1>3, <1>5, HoldType, AnswerType, RowLicenseType
            DEF FindByKey, Steps, k
      <2>2. QED
            BY <1>5, <2>1, FrameType DEF FindByKey
<1>6. CASE FillCache(r)
      <2>1. ReqTypeOK'
            BY <1>6, ContinueType DEF FillCache, Steps
      <2>2. view[r] \in LicenseType \cup {NoEntry}
            BY DEF ReqTypeOK
      <2>3. StoreTypeOK'
            BY <1>1, <1>6, <2>2, StoreWriteType DEF FillCache, i, k
      <2>4. QED
            BY <1>6, <2>1, <2>3, FrameType DEF FillCache
<1>7. CASE Refuse(r)
      BY <1>7, AnswerKinds, AnswerType, FrameType DEF Refuse
<1>8. CASE AcquireMutex(r)
      <2>1. ReqTypeOK'
            BY <1>8, ContinueType DEF AcquireMutex, Steps
      <2>2. LocalTypeOK'
            BY <1>8, LockType DEF AcquireMutex
      <2>3. QED
            BY <1>8, <2>1, <2>2, FrameType DEF AcquireMutex
<1>9. CASE SelectForUpdate(r)
      <2>1. CASE RowRefusal(k) = "none"
            <3>1. RowExists(k)
                  BY <2>1 DEF RowRefusal
            <3>2. db[k].seats \in Int
                  BY <1>1, <3>1, RowLicenseType DEF TermsType
            <3>3. ReqTypeOK'
                  BY <1>9, <2>1, <3>2 DEF SelectForUpdate, ReqTypeOK, Goto, Steps, k
            <3>4. DBTypeOK'
                  BY <1>9, <2>1 DEF SelectForUpdate, LockRow, DBTypeOK, k
            <3>5. LocalTypeOK'
                  BY <1>9, <2>1, FrameType DEF SelectForUpdate, k
            <3>6. QED
                  BY <1>9, <3>3, <3>4, <3>5, FrameType DEF SelectForUpdate
      <2>2. CASE RowRefusal(k) # "none"
            <3>1. ReqTypeOK'
                  BY <1>9, <2>2, AnswerKinds, AnswerType DEF SelectForUpdate, k
            <3>2. DBTypeOK'
                  BY <1>9, <2>2, FrameType DEF SelectForUpdate, dbVars, k
            <3>3. LocalTypeOK'
                  BY <1>9, <2>2, LockType DEF SelectForUpdate, k
            <3>4. QED
                  BY <1>9, <3>1, <3>2, <3>3, FrameType DEF SelectForUpdate
      <2>3. QED
            BY <2>1, <2>2
<1>10. CASE CountSeats(r)
      <2>1. rowLock' \in [Keys -> Requests \cup {NoRequest}]
            BY <1>10 DEF CountSeats, UnlockRow, DBTypeOK
      <2>2. DBTypeOK'
            BY <1>10, <2>1 DEF CountSeats, DBTypeOK
      <2>3. LocalTypeOK'
            BY <1>10, LockType DEF CountSeats
      <2>4. ReqTypeOK'
            <3>1. CASE ActiveOf(k, c) # {}
                  <4>1. PICK a \in ActiveOf(k, c) :
                          /\ resp' = [resp EXCEPT ![r] = [kind |-> "ok", id |-> a.id]]
                          /\ Goto(r, "invalidate")
                          /\ UNCHANGED <<args, view, txn>>
                        BY <1>10, <3>1 DEF CountSeats, k, c
                  <4>2. [kind |-> "ok", id |-> a.id] \in RespType
                        BY <1>3 DEF ActiveOf, ActiveRows, DBTypeOK, ActivationType, RespType
                  <4>3. QED
                        BY <4>1, <4>2 DEF ReqTypeOK, Goto, Steps
            <3>2. CASE ActiveOf(k, c) = {}
                  BY <1>3, <1>10, <3>2, AnswerType, ContinueType
                  DEF CountSeats, Steps, k, c
            <3>3. QED
                  BY <3>1, <3>2
      <2>5. QED
            BY <1>10, <2>2, <2>3, <2>4, FrameType DEF CountSeats
<1>11. CASE InsertAndCommit(r)
      <2>1. acts' \subseteq ActivationType
            BY <1>1, <1>11, ActivationsType DEF InsertAndCommit, DBTypeOK, k, c
      <2>2. DBTypeOK'
            BY <1>11, <2>1 DEF InsertAndCommit, UnlockRow, DBTypeOK
      <2>3. LocalTypeOK'
            BY <1>11, LockType DEF InsertAndCommit
      <2>4. ReqTypeOK'
            <3>1. CASE UniqueViolation(k, c)
                  BY <1>3, <1>11, <3>1, AnswerType DEF InsertAndCommit, k, c
            <3>2. CASE ~UniqueViolation(k, c)
                  BY <1>3, <1>11, <3>2
                  DEF InsertAndCommit, ReqTypeOK, Goto, Steps, RespType, k, c
            <3>3. QED
                  BY <3>1, <3>2
      <2>5. QED
            BY <1>11, <2>2, <2>3, <2>4, FrameType DEF InsertAndCommit
<1>12. CASE ReleaseSeat(r)
      <2>1. CASE RowExists(k) /\ ActiveOf(k, c) # {}
            <3>1. acts' \subseteq ActivationType
                  BY <1>12, <2>1, ActivationsType DEF ReleaseSeat, k, c
            <3>2. DBTypeOK'
                  BY <1>12, <3>1 DEF ReleaseSeat, DBTypeOK
            <3>3. ReqTypeOK'
                  BY <1>3, <1>12, <2>1
                  DEF ReleaseSeat, ReqTypeOK, Goto, Steps, RespType, k, c
            <3>4. QED
                  BY <1>12, <2>1, <3>2, <3>3, FrameType DEF ReleaseSeat, k, c
      <2>2. CASE ~(RowExists(k) /\ ActiveOf(k, c) # {})
            <3>1. ReqTypeOK'
                  BY <1>3, <1>12, <2>2, AnswerType DEF ReleaseSeat, k, c
            <3>2. LocalTypeOK'
                  BY <1>12, <2>2, LockType DEF ReleaseSeat, k, c
            <3>3. QED
                  BY <1>12, <2>2, <3>1, <3>2, FrameType DEF ReleaseSeat, dbVars, k, c
      <2>3. QED
            BY <2>1, <2>2
<1>13. CASE InvalidateCache(r)
      <2>1. ReqTypeOK'
            BY <1>3, <1>13, ContinueType, AnswerType DEF InvalidateCache, Steps
      <2>2. StoreTypeOK'
            BY <1>1, <1>13, StoreWriteType DEF InvalidateCache, i, k
      <2>3. LocalTypeOK'
            BY <1>13, LockType DEF InvalidateCache
      <2>4. QED
            BY <1>13, <2>1, <2>2, <2>3, FrameType DEF InvalidateCache
<1>14. CASE ReplyActivate(r)
      <2>1. resp[r] \in RespType /\ resp[r].id \in Requests \cup {NoRequest}
            BY DEF ReqTypeOK, RespType
      <2>2. ReqTypeOK'
            BY <1>3, <1>14, <2>1, AnswerType DEF ReplyActivate
      <2>3. StoreTypeOK'
            BY <1>1, <1>14, StoreReadType DEF ReplyActivate, i, k
      <2>4. [idem EXCEPT ![i][args[r].idem] = resp[r]] \in [Instances -> [IdemKeys -> RespType]]
            BY <2>1, SlotType DEF LocalTypeOK
      <2>5. LocalTypeOK'
            BY <1>14, <2>4 DEF ReplyActivate, LocalTypeOK, i
      <2>6. QED
            BY <1>14, <2>2, <2>3, <2>5, FrameType DEF ReplyActivate
<1>15. CASE RecordUsage(r)
      <2>1. ReqTypeOK'
            BY <1>3, <1>15, AnswerType DEF RecordUsage
      <2>2. DBTypeOK'
            BY <1>1, <1>15 DEF RecordUsage, DBTypeOK, k
      <2>3. QED
            BY <1>15, <2>1, <2>2, FrameType DEF RecordUsage
<1>16. CASE RereadRevoked(r)
      <2>1. ReqTypeOK'
            BY <1>1, <1>3, <1>16, HoldType, AnswerType, RowLicenseType
            DEF RereadRevoked, Steps, k
      <2>2. QED
            BY <1>16, <2>1, FrameType DEF RereadRevoked
<1>17. CASE CacheSet(r)
      <2>1. ReqTypeOK'
            BY <1>3, <1>17, AnswerType DEF CacheSet
      <2>2. view[r] \in LicenseType \cup {NoEntry}
            BY DEF ReqTypeOK
      <2>3. StoreTypeOK'
            BY <1>1, <1>17, <2>2, StoreWriteType DEF CacheSet, i, k
      <2>4. QED
            BY <1>17, <2>1, <2>3, FrameType DEF CacheSet
<1>18. QED
      BY <1>4, <1>5, <1>6, <1>7, <1>8, <1>9, <1>10, <1>11, <1>12, <1>13,
         <1>14, <1>15, <1>16, <1>17 DEF Proceed

\* So do the faults and the environment.
LEMMA EnvironmentTypeOK ==
    ASSUME TypeOK
    PROVE  /\ \A r \in Requests : StatementFails(r) => TypeOK'
           /\ \A r \in Requests : CommitUnacknowledged(r) => TypeOK'
           /\ \A i \in Instances : CrashAndRestart(i) => TypeOK'
           /\ \A i \in Instances, x \in IdemKeys : IdemExpire(i, x) => TypeOK'
           /\ CacheMaintenance => TypeOK'
           /\ Tick => TypeOK'
<1> USE DEF TypeOK
<1>0. "internal_error" \in Kinds /\ NoResp \in RespType
      BY DEF Kinds, NoResp, RespType
<1>1. ASSUME NEW r \in Requests, StatementFails(r)
      PROVE  TypeOK'
      <2>1. ReqTypeOK'
            BY <1>0, <1>1, AnswerType DEF StatementFails
      <2>2. LocalTypeOK'
            BY <1>1, LockType DEF StatementFails
      <2>3. DBTypeOK'
            BY <1>1 DEF StatementFails, UnlockRow, DBTypeOK
      <2>4. QED
            BY <1>1, <2>1, <2>2, <2>3, FrameType DEF StatementFails
<1>2. ASSUME NEW r \in Requests, CommitUnacknowledged(r)
      PROVE  TypeOK'
      <2>1. ReqTypeOK'
            BY <1>0, <1>2, AnswerType DEF CommitUnacknowledged
      <2>2. LocalTypeOK'
            BY <1>2, LockType DEF CommitUnacknowledged
      <2>3. acts' \subseteq ActivationType
            BY <1>2, ArgsTyped, ActivationsType DEF CommitUnacknowledged
      <2>4. DBTypeOK'
            BY <1>2, <2>3 DEF CommitUnacknowledged, UnlockRow, DBTypeOK
      <2>5. QED
            BY <1>2, <2>1, <2>2, <2>4, FrameType DEF CommitUnacknowledged
<1>3. ASSUME NEW i \in Instances, CrashAndRestart(i)
      PROVE  TypeOK'
      <2>1. StoreTypeOK'
            BY <1>3, StoreRestartType DEF CrashAndRestart
      <2>2. DBTypeOK'
            BY <1>3 DEF CrashAndRestart, DBTypeOK
      <2>3. ReqTypeOK'
            BY <1>3 DEF CrashAndRestart, ReqTypeOK, Steps
      <2>4. LocalTypeOK'
            BY <1>0, <1>3 DEF CrashAndRestart, LocalTypeOK
      <2>5. QED
            BY <2>1, <2>2, <2>3, <2>4
<1>4. ASSUME NEW i \in Instances, NEW x \in IdemKeys, IdemExpire(i, x)
      PROVE  TypeOK'
      <2>1. idem' \in [Instances -> [IdemKeys -> RespType]]
            BY <1>0, <1>4, SlotType DEF IdemExpire, LocalTypeOK
      <2>2. LocalTypeOK'
            BY <1>4, <2>1 DEF IdemExpire, LocalTypeOK
      <2>3. QED
            BY <1>4, <2>2, FrameType DEF IdemExpire
<1>5. ASSUME CacheMaintenance
      PROVE  TypeOK'
      <2>1. ASSUME NEW i \in Instances, NEW k \in Keys,
                   DeliverInvalidation(i, k) \/ L1Evict(i, k)
            PROVE  StoreTypeOK'
            BY <2>1, StoreWriteType
      <2>2. ASSUME NEW k \in Keys, L2Expire(k)
            PROVE  StoreTypeOK'
            BY <2>2 DEF L2Expire, StoreTypeOK
      <2>3. QED
            BY <1>5, <2>1, <2>2, FrameType DEF CacheMaintenance
<1>6. ASSUME Tick
      PROVE  TypeOK'
      <2>1. LocalTypeOK'
            BY <1>6 DEF Tick, LocalTypeOK
      <2>2. QED
            BY <1>6, <2>1, FrameType DEF Tick
<1>7. QED
      BY <1>1, <1>2, <1>3, <1>4, <1>5, <1>6

\* A write that fails leaves the licenses alone or has taken effect, under the
\* conditions and with the effect of the statement.
WriteOutcome(r) ==
    LET k == args[r].key
        terms == args[r].terms
    IN  \/ UNCHANGED <<db, blankRid>>
        \/ /\ ~RowExists(k)
           /\ db' = [db EXCEPT ![k] = terms]
           /\ UNCHANGED blankRid
        \/ RowFree(k) /\ UpdateRow(k, terms)
        \/ RowFree(k) /\ RevokeRow(k) /\ UNCHANGED blankRid

LEMMA FailedWrite ==
    ASSUME NEW r, WriteFails(r)
    PROVE  WriteOutcome(r)
BY DEF WriteFails, WriteOutcome

\* So do the answers that get lost.
LEMMA LostAnswerTypeOK ==
    ASSUME TypeOK, NEW r \in Requests
    PROVE  /\ ReleaseUnacknowledged(r) => TypeOK'
           /\ UsageUnacknowledged(r) => TypeOK'
           /\ WriteFails(r) => TypeOK'
<1> USE DEF TypeOK
<1> DEFINE k == args[r].key
<1>0. "internal_error" \in Kinds
      BY DEF Kinds
<1>1. k \in Keys /\ args[r].terms \in TermsType
      BY ArgsTyped
<1>2. ASSUME ReleaseUnacknowledged(r)
      PROVE  TypeOK'
      <2>1. ReqTypeOK'
            BY <1>0, <1>2, AnswerType DEF ReleaseUnacknowledged
      <2>2. LocalTypeOK'
            BY <1>2, LockType DEF ReleaseUnacknowledged
      <2>3. acts' \subseteq ActivationType
            BY <1>2, ActivationsType DEF ReleaseUnacknowledged
      <2>4. DBTypeOK'
            BY <1>2, <2>3 DEF ReleaseUnacknowledged, DBTypeOK
      <2>5. QED
            BY <1>2, <2>1, <2>2, <2>4, FrameType DEF ReleaseUnacknowledged
<1>3. ASSUME UsageUnacknowledged(r)
      PROVE  TypeOK'
      <2>1. ReqTypeOK'
            BY <1>0, <1>3, AnswerType DEF UsageUnacknowledged
      <2>2. DBTypeOK'
            BY <1>1, <1>3 DEF UsageUnacknowledged, DBTypeOK
      <2>3. QED
            BY <1>3, <2>1, <2>2, FrameType DEF UsageUnacknowledged
<1>4. ASSUME WriteFails(r)
      PROVE  TypeOK'
      <2>1. ReqTypeOK'
            BY <1>0, <1>4, AnswerType DEF WriteFails
      <2>2. /\ UNCHANGED <<acts, rowLock, usage>>
            /\ UNCHANGED storeVars /\ UNCHANGED <<mutex, idem, now, crashes>>
            BY <1>4 DEF WriteFails
      <2>3. RowExists(k) => [db[k] EXCEPT !.status = "revoked"] \in TermsType
            BY <1>1, RowLicenseType DEF TermsType, Statuses
      <2>4. /\ db' \in [Keys -> TermsType \cup {NoRow}]
            /\ blankRid' \subseteq Keys
            BY <1>1, <1>4, <2>3, FailedWrite DEF WriteOutcome, UpdateRow, RevokeRow, DBTypeOK
      <2>5. DBTypeOK'
            BY <2>2, <2>4 DEF DBTypeOK
      <2>6. QED
            BY <2>1, <2>2, <2>5, FrameType
<1>5. QED
      BY <1>2, <1>3, <1>4

LEMMA NextTypeOK == TypeOK /\ [Next]_vars => TypeOK'
<1> SUFFICES ASSUME TypeOK, [Next]_vars
             PROVE  TypeOK'
    OBVIOUS
<1>1. CASE Next
      BY <1>1, StartTypeOK, ProceedTypeOK, EnvironmentTypeOK, LostAnswerTypeOK DEF Next
<1>2. CASE UNCHANGED vars
      BY <1>2, FrameType DEF TypeOK, vars
<1>3. QED
      BY <1>1, <1>2

\* Type correctness: whatever the workload, every request, lock and cache
\* slot always holds a value the code could hold there; in particular L2
\* never holds a negative entry and no request ever holds one as its license.
THEOREM TypeCorrect == Spec => []TypeOK
BY InitTypeOK, NextTypeOK, PTL DEF Spec

-----------------------------------------------------------------------------
(* Seats: SeatInv is inductive relative to TypeOK, the seat properties     *)
(* follow from it, and the service implements SeatLedger.                  *)
(*                                                                         *)
(* Most steps neither seat nor release anybody and leave the transactions  *)
(* alone that are still running after the step.                            *)

SeatFrame ==
    /\ UNCHANGED <<acts, args>>
    /\ \A q \in Requests : pc'[q] \in {"count", "insert"} =>
          /\ pc'[q] = pc[q]
          /\ txn'[q] = txn[q]
          /\ rowLock'[args[q].key] = rowLock[args[q].key]
          /\ db'[args[q].key] = db[args[q].key]
    /\ \A q \in Requests : pc[q] \in Settled => pc'[q] \in Settled

LEMMA SeatFrameStep ==
    ASSUME TypeOK, SeatInv, SeatFrame
    PROVE  SeatInv'
<1>1. ASSUME NEW q \in Requests
      PROVE  HoldsItsRow(q)'
      BY DEF SeatInv, SeatFrame, HoldsItsRow, InTransaction, RowExists
<1>2. ASSUME NEW q \in Requests
      PROVE  MaySeat(q)'
      BY DEF SeatInv, SeatFrame, MaySeat, ActiveOf, SeatLimitReached, ActiveRows
<1>3. \A a \in acts' : pc'[a.id] \in Settled
      BY DEF SeatInv, SeatFrame, TypeOK, DBTypeOK, ActivationType
<1>4. OneRowPerClient' /\ IsFiniteSet(acts')
      BY DEF SeatInv, SeatFrame, OneRowPerClient
<1>5. QED
      BY <1>1, <1>2, <1>3, <1>4 DEF SeatInv, SeatFrame

\* A request that goes on to a step outside the transaction, or answers,
\* and disturbs no row that another transaction holds.
LEMMA OwnStep ==
    ASSUME TypeOK, SeatInv, NEW r \in Requests, NEW step, NEW kind, NEW id, NEW lic,
           Answer(r, kind, id) \/ Hold(r, lic, step) \/ Continue(r, step),
           step \notin {"count", "insert"},
           pc[r] \in Settled => step \in Settled,
           UNCHANGED acts,
           \A q \in Requests \ {r} : InTransaction(q) =>
               /\ rowLock'[args[q].key] = rowLock[args[q].key]
               /\ db'[args[q].key] = db[args[q].key]
    PROVE  SeatInv'
<1>1. /\ args' = args
      /\ \A q \in Requests \ {r} : pc'[q] = pc[q] /\ txn'[q] = txn[q]
      /\ pc'[r] \in {step, "done"}
      BY DEF Answer, Hold, Continue, Goto, TypeOK, ReqTypeOK
<1>2. SeatFrame
      BY <1>1 DEF SeatFrame, InTransaction, Settled
<1>3. QED
      BY <1>2, SeatFrameStep

\* The same of a step that leaves the tables alone.
LEMMA QuietStep ==
    ASSUME TypeOK, SeatInv, NEW r \in Requests, UNCHANGED <<db, rowLock, acts>>
    PROVE  /\ \A kind, id : Answer(r, kind, id) => SeatInv'
           /\ \A step : /\ step \notin {"count", "insert"}
                        /\ pc[r] \in Settled => step \in Settled
                        => /\ Continue(r, step) => SeatInv'
                           /\ \A lic : Hold(r, lic, step) => SeatInv'
<1>1. \A kind, id : Answer(r, kind, id) => SeatInv'
      <2> SUFFICES ASSUME NEW kind, NEW id, Answer(r, kind, id)
                   PROVE  SeatInv'
          OBVIOUS
      <2>1. "done" \notin {"count", "insert"} /\ "done" \in Settled
            BY DEF Settled
      <2>2. QED
            BY <2>1, OwnStep
<1>2. ASSUME NEW step, step \notin {"count", "insert"},
             pc[r] \in Settled => step \in Settled
      PROVE  /\ Continue(r, step) => SeatInv'
             /\ \A lic : Hold(r, lic, step) => SeatInv'
      BY <1>2, OwnStep
<1>3. QED
      BY <1>1, <1>2

\* A row that a transaction holds is held by nobody else.
LEMMA RowsApart ==
    ASSUME TypeOK, SeatInv, NEW q \in Requests, InTransaction(q)
    PROVE  /\ rowLock[args[q].key] = q
           /\ ~RowFree(args[q].key)
           /\ RowExists(args[q].key)
BY DBAssumption DEF SeatInv, HoldsItsRow, RowFree

LEMMA StartSeatInv ==
    ASSUME TypeOK, SeatInv, NEW r \in Requests, Start(r)
    PROVE  SeatInv'
<1> DEFINE k == args[r].key
<1>1. pc[r] \notin Settled
      BY DEF Start, Replay, BeginActivate, BeginDeactivate, BeginUsage, Validate,
             CreateLicense, UpdateLicense, RevokeLicense, CanStart, Settled
<1>2. CASE Replay(r)
      BY <1>2, QuietStep DEF Replay, dbVars
<1>3. CASE BeginActivate(r)
      BY <1>1, <1>3, QuietStep DEF BeginActivate, dbVars
<1>4. CASE BeginDeactivate(r)
      BY <1>1, <1>4, QuietStep DEF BeginDeactivate, dbVars
<1>5. CASE BeginUsage(r)
      BY <1>1, <1>5, QuietStep DEF BeginUsage, dbVars
<1>6. CASE Validate(r)
      BY <1>6, QuietStep DEF Validate, dbVars
<1>7. CASE CreateLicense(r)
      <2>1. CASE ValidateHardRules(args[r].terms) /\ ~RowExists(k)
            <3>1. \A q \in Requests : InTransaction(q) => db'[args[q].key] = db[args[q].key]
                  BY <1>7, <2>1, RowsApart, ArgsTyped DEF CreateLicense, TypeOK, DBTypeOK
            <3>2. Hold(r, [id |-> k, terms |-> args[r].terms], "cacheSet")
                  BY <1>7, <2>1 DEF CreateLicense
            <3>3. QED
                  BY <1>1, <1>7, <3>1, <3>2, OwnStep DEF CreateLicense
      <2>2. CASE ~(ValidateHardRules(args[r].terms) /\ ~RowExists(k))
            BY <1>7, <2>2, QuietStep DEF CreateLicense
      <2>3. QED
            BY <2>1, <2>2
<1>8. CASE UpdateLicense(r)
      <2>1. CASE ValidateHardRules(args[r].terms) /\ ~RevocationIDTaken(k)
            <3>1. \A q \in Requests : InTransaction(q) => db'[args[q].key] = db[args[q].key]
                  BY <1>8, <2>1, RowsApart, ArgsTyped
                  DEF UpdateLicense, UpdateRow, TypeOK, DBTypeOK
            <3>2. Hold(r, [id |-> NoID, terms |-> args[r].terms], "cacheSet")
                  BY <1>8, <2>1 DEF UpdateLicense
            <3>3. QED
                  BY <1>1, <1>8, <3>1, <3>2, OwnStep DEF UpdateLicense
      <2>2. CASE ~(ValidateHardRules(args[r].terms) /\ ~RevocationIDTaken(k))
            BY <1>8, <2>2, QuietStep DEF UpdateLicense
      <2>3. QED
            BY <2>1, <2>2
<1>9. CASE RevokeLicense(r)
      <2>1. CASE SchemaComplete
            <3>1. \A q \in Requests : InTransaction(q) => db'[args[q].key] = db[args[q].key]
                  BY <1>9, <2>1, RowsApart, ArgsTyped
                  DEF RevokeLicense, RevokeRow, TypeOK, DBTypeOK
            <3>2. Continue(r, "reread") /\ UNCHANGED <<acts, rowLock>>
                  BY <1>9, <2>1 DEF RevokeLicense
            <3>3. QED
                  BY <1>1, <3>1, <3>2, OwnStep
      <2>2. CASE ~SchemaComplete
            BY <1>9, <2>2, QuietStep DEF RevokeLicense
      <2>3. QED
            BY <2>1, <2>2
<1>10. QED
      BY <1>2, <1>3, <1>4, <1>5, <1>6, <1>7, <1>8, <1>9 DEF Start

-----------------------------------------------------------------------------
(* The steps that seat and release.                                        *)

NewRow(r) == [id |-> r, key |-> args[r].key, client |-> args[r].client, active |-> TRUE]

\* An insert adds one active row of a client that had none.
LEMMA InsertRows ==
    ASSUME TypeOK, SeatInv, NEW r \in Requests,
           InsertActivation(r, args[r].key, args[r].client), UNCHANGED args
    PROVE  /\ acts' = acts \cup {NewRow(r)}
           /\ NewRow(r) \in ActivationType
           /\ ActiveRows(args[r].key)' = ActiveRows(args[r].key) \cup {NewRow(r)}
           /\ \A k : k # args[r].key => ActiveRows(k)' = ActiveRows(k)
<1>1. acts' = acts \cup {NewRow(r)}
      BY DEF InsertActivation, NewRow
<1>2. NewRow(r) \in ActivationType
      BY ArgsTyped DEF NewRow, ActivationType, TypeOK
<1>3. NewRow(r).key = args[r].key /\ NewRow(r).active
      BY DEF NewRow
<1>4. ActiveRows(args[r].key)' = ActiveRows(args[r].key) \cup {NewRow(r)}
      BY <1>1, <1>3 DEF ActiveRows
<1>5. \A k : k # args[r].key => ActiveRows(k)' = ActiveRows(k)
      BY <1>1, <1>3 DEF ActiveRows
<1>6. QED
      BY <1>1, <1>2, <1>4, <1>5

LEMMA InsertSeatInv ==
    ASSUME TypeOK, SeatInv, NEW r \in Requests, pc[r] = "insert",
           InsertActivation(r, args[r].key, args[r].client),
           UnlockRow(args[r].key), UNCHANGED <<db, args>>,
           pc'[r] \in Settled,
           \A q \in Requests \ {r} : pc'[q] = pc[q] /\ txn'[q] = txn[q]
    PROVE  SeatInv'
<1> DEFINE k == args[r].key
           c == args[r].client
<1>0. InTransaction(r) /\ k \in Keys
      BY ArgsTyped DEF InTransaction, TypeOK
<1>1. \A q \in Requests : InTransaction(q)' =>
          /\ q # r
          /\ InTransaction(q)
          /\ args[q].key # k
          /\ rowLock'[args[q].key] = rowLock[args[q].key]
      BY <1>0, RowsApart DEF InTransaction, Settled, UnlockRow, TypeOK, DBTypeOK
<1>2. ASSUME NEW q \in Requests
      PROVE  HoldsItsRow(q)'
      BY <1>1 DEF SeatInv, HoldsItsRow, InTransaction, RowExists
<1>3. ASSUME NEW q \in Requests
      PROVE  MaySeat(q)'
      <2> SUFFICES ASSUME pc'[q] = "insert"
                   PROVE  MaySeat(q)'
          BY DEF MaySeat
      <2>1. /\ q # r
            /\ pc[q] = "insert"
            /\ txn'[q] = txn[q]
            /\ ActiveRows(args[q].key)' = ActiveRows(args[q].key)
            BY <1>1, InsertRows DEF InTransaction
      <2>2. QED
            BY <2>1 DEF SeatInv, MaySeat, ActiveOf, SeatLimitReached
<1>4. \A a \in acts' : pc'[a.id] \in Settled
      <2>1. NewRow(r).id = r
            BY DEF NewRow
      <2>2. \A a \in acts : a.id \in Requests /\ pc[a.id] \in Settled
            BY DEF SeatInv, TypeOK, DBTypeOK, ActivationType
      <2>3. "insert" \notin Settled
            BY DEF Settled
      <2>4. QED
            BY <2>1, <2>2, <2>3, InsertRows
<1>5. OneRowPerClient'
      <2>1. \A a \in acts : a.active /\ a.key = k => a.client # c
            BY DEF SeatInv, MaySeat, ActiveOf, ActiveRows
      <2>2. NewRow(r).key = k /\ NewRow(r).client = c
            BY DEF NewRow
      <2>3. QED
            BY <2>1, <2>2, InsertRows DEF SeatInv, OneRowPerClient
<1>6. IsFiniteSet(acts')
      BY InsertRows, FS_AddElement DEF SeatInv
<1>7. QED
      BY <1>2, <1>3, <1>4, <1>5, <1>6 DEF SeatInv

\* A release takes away the active rows of one client.
LEMMA ReleaseRows ==
    ASSUME TypeOK, SeatInv, NEW k \in Keys, NEW c \in Clients, ReleaseActivation(k, c)
    PROVE  /\ \A l : ActiveRows(l)' = IF l = k THEN ActiveRows(k) \ ActiveOf(k, c)
                                              ELSE ActiveRows(l)
           /\ \A a \in acts' : a.active => a \in acts
           /\ \A a \in acts' : \E b \in acts : a.id = b.id
           /\ IsFiniteSet(acts')
<1> DEFINE Inactive(a) == [a EXCEPT !.active = FALSE]
           f == [a \in acts |-> IF a \in ActiveOf(k, c) THEN Inactive(a) ELSE a]
<1>1. acts' = {f[a] : a \in acts}
      BY DEF ReleaseActivation
<1>2. \A a \in acts : /\ f[a].id = a.id
                      /\ f[a].active => f[a] = a /\ a \notin ActiveOf(k, c)
                      /\ a \notin ActiveOf(k, c) => f[a] = a
      BY DEF TypeOK, DBTypeOK, ActivationType
<1>3. f \in Surjection(acts, acts')
      BY <1>1 DEF Surjection
<1>4. IsFiniteSet(acts')
      BY <1>3, FS_Surjection DEF SeatInv
<1> HIDE DEF f
<1>5. \A a \in acts' : a.active => a \in acts
      BY <1>1, <1>2
<1>6. \A a \in acts' : \E b \in acts : a.id = b.id
      BY <1>1, <1>2
<1>7. \A a : a \in acts' /\ a.active <=> a \in acts /\ a.active /\ a \notin ActiveOf(k, c)
      BY <1>1, <1>2
<1>8. \A l : ActiveRows(l)' = IF l = k THEN ActiveRows(k) \ ActiveOf(k, c)
                                      ELSE ActiveRows(l)
      BY <1>7 DEF ActiveRows, ActiveOf
<1>9. QED
      BY <1>4, <1>5, <1>6, <1>8

\* A release keeps the seat invariant, whatever comes of the request after it.
LEMMA ReleaseStep ==
    ASSUME TypeOK, SeatInv, NEW r \in Requests, NEW step \in Settled,
           ReleaseActivation(args[r].key, args[r].client),
           UNCHANGED <<args, db, rowLock>>,
           pc' = [pc EXCEPT ![r] = step],
           \A q \in Requests \ {r} : txn'[q] = txn[q]
    PROVE  SeatInv'
<1> DEFINE k == args[r].key
           c == args[r].client
<1>1. k \in Keys /\ c \in Clients
      BY ArgsTyped DEF TypeOK
<1>2. /\ \A q \in Requests : InTransaction(q)' => pc'[q] = pc[q] /\ txn'[q] = txn[q]
      /\ \A q \in Requests : pc[q] \in Settled => pc'[q] \in Settled
      BY DEF InTransaction, TypeOK, ReqTypeOK, Settled
<1>3. ASSUME NEW q \in Requests
      PROVE  HoldsItsRow(q)'
      BY <1>2 DEF SeatInv, HoldsItsRow, InTransaction, RowExists
<1>4. ASSUME NEW q \in Requests
      PROVE  MaySeat(q)'
      <2> SUFFICES ASSUME pc'[q] = "insert"
                   PROVE  MaySeat(q)'
          BY DEF MaySeat
      <2> DEFINE l == args[q].key
      <2>1. pc[q] = "insert" /\ args' = args /\ txn'[q] = txn[q]
            BY <1>2 DEF InTransaction
      <2>2. ActiveOf(l, args[q].client) = {} /\ ~SeatLimitReached(txn[q], l)
            BY <2>1 DEF SeatInv, MaySeat
      <2>3. ActiveRows(l)' \subseteq ActiveRows(l)
            BY <1>1, ReleaseRows
      <2>4. IsFiniteSet(ActiveRows(l))
            BY FS_Subset DEF SeatInv, ActiveRows
      <2>5. /\ Cardinality(ActiveRows(l)') <= Cardinality(ActiveRows(l))
            /\ Cardinality(ActiveRows(l)') \in Nat
            /\ Cardinality(ActiveRows(l)) \in Nat
            BY <2>3, <2>4, FS_Subset, FS_CardinalityType
      <2>6. txn[q] \in Int
            BY DEF TypeOK, ReqTypeOK
      <2>7. ActiveOf(l, args[q].client)' = {}
            BY <2>1, <2>2, <2>3 DEF ActiveOf
      <2>8. ~SeatLimitReached(txn[q], l)'
            BY <2>1, <2>2, <2>5, <2>6 DEF SeatLimitReached
      <2>9. QED
            BY <2>1, <2>7, <2>8 DEF MaySeat
<1>5. \A a \in acts' : pc'[a.id] \in Settled
      BY <1>1, <1>2, ReleaseRows DEF SeatInv, TypeOK, DBTypeOK, ActivationType
<1>6. OneRowPerClient' /\ IsFiniteSet(acts')
      BY <1>1, ReleaseRows DEF SeatInv, OneRowPerClient
<1>7. QED
      BY <1>3, <1>4, <1>5, <1>6 DEF SeatInv

LEMMA ReleaseSeatInv ==
    ASSUME TypeOK, SeatInv, NEW r \in Requests, ReleaseSeat(r)
    PROVE  SeatInv'
<1> DEFINE k == args[r].key
           c == args[r].client
<1>1. CASE RowExists(k) /\ ActiveOf(k, c) # {}
      <2>1. /\ ReleaseActivation(k, c)
            /\ UNCHANGED <<args, db, rowLock, txn>>
            /\ pc' = [pc EXCEPT ![r] = "invalidate"]
            BY <1>1 DEF ReleaseSeat, Goto
      <2>2. QED
            BY <2>1, ReleaseStep DEF Settled
<1>2. CASE ~(RowExists(k) /\ ActiveOf(k, c) # {})
      BY <1>2, QuietStep DEF ReleaseSeat
<1>3. QED
      BY <1>1, <1>2

LEMMA SelectSeatInv ==
    ASSUME TypeOK, SeatInv, NEW r \in Requests, SelectForUpdate(r)
    PROVE  SeatInv'
<1> DEFINE k == args[r].key
<1>1. CASE RowRefusal(k) = "none"
      <2>1. /\ rowLock' = [rowLock EXCEPT ![k] = r]
            /\ txn' = [txn EXCEPT ![r] = db[k].seats]
            /\ pc' = [pc EXCEPT ![r] = "count"]
            /\ pc[r] = "tx"
            /\ RowFree(k)
            /\ UNCHANGED <<args, db, acts>>
            BY <1>1 DEF SelectForUpdate, LockRow, Goto
      <2>2. k \in Keys /\ RowExists(k) /\ db[k].status = "active"
            BY <1>1, ArgsTyped DEF RowRefusal, TypeOK
      <2>3. ASSUME NEW q \in Requests
            PROVE  HoldsItsRow(q)'
            <3>1. CASE q = r
                  BY <2>1, <2>2, <3>1
                  DEF HoldsItsRow, RowExists, TypeOK, DBTypeOK, ReqTypeOK
            <3>2. CASE q # r
                  <4>1. /\ pc'[q] = pc[q]
                        /\ txn'[q] = txn[q]
                        /\ InTransaction(q) => rowLock'[args[q].key] = rowLock[args[q].key]
                        BY <2>1, <3>2, RowsApart DEF TypeOK, DBTypeOK, ReqTypeOK
                  <4>2. QED
                        BY <2>1, <4>1 DEF SeatInv, HoldsItsRow, InTransaction, RowExists
            <3>3. QED
                  BY <3>1, <3>2
      <2>4. ASSUME NEW q \in Requests
            PROVE  MaySeat(q)'
            BY <2>1 DEF SeatInv, MaySeat, ActiveOf, SeatLimitReached, ActiveRows,
                        TypeOK, ReqTypeOK
      <2>5. \A a \in acts' : pc'[a.id] \in Settled
            BY <2>1 DEF SeatInv, Settled, TypeOK, ReqTypeOK, DBTypeOK, ActivationType
      <2>6. OneRowPerClient' /\ IsFiniteSet(acts')
            BY <2>1 DEF SeatInv, OneRowPerClient
      <2>7. QED
            BY <2>3, <2>4, <2>5, <2>6 DEF SeatInv
<1>2. CASE RowRefusal(k) # "none"
      BY <1>2, QuietStep DEF SelectForUpdate
<1>3. QED
      BY <1>1, <1>2

\* Ending its transaction, a request disturbs no other transaction.
LEMMA EndTransaction ==
    ASSUME TypeOK, SeatInv, NEW r \in Requests, InTransaction(r),
           UnlockRow(args[r].key), NEW q \in Requests \ {r}, InTransaction(q)
    PROVE  rowLock'[args[q].key] = rowLock[args[q].key]
BY RowsApart DEF UnlockRow, TypeOK, DBTypeOK

LEMMA CountSeatInv ==
    ASSUME TypeOK, SeatInv, NEW r \in Requests, CountSeats(r)
    PROVE  SeatInv'
<1> DEFINE k == args[r].key
           c == args[r].client
<1>1. pc[r] = "count" /\ InTransaction(r) /\ UNCHANGED <<db, acts>>
      BY DEF CountSeats, InTransaction
<1>2. CASE ActiveOf(k, c) # {}
      <2>1. /\ UnlockRow(k)
            /\ pc' = [pc EXCEPT ![r] = "invalidate"]
            /\ UNCHANGED <<args, txn>>
            BY <1>2 DEF CountSeats, Goto
      <2>2. SeatFrame
            BY <1>1, <2>1, EndTransaction
            DEF SeatFrame, InTransaction, Settled, TypeOK, ReqTypeOK
      <2>3. QED
            BY <2>2, SeatFrameStep
<1>3. CASE ActiveOf(k, c) = {} /\ SeatLimitReached(txn[r], k)
      <2>1. /\ UnlockRow(k)
            /\ Answer(r, "seats_limit_exceeded", NoRequest)
            BY <1>3 DEF CountSeats
      <2>2. "done" \notin {"count", "insert"} /\ "done" \in Settled
            BY DEF Settled
      <2>3. QED
            BY <1>1, <2>1, <2>2, EndTransaction, OwnStep
<1>4. CASE ActiveOf(k, c) = {} /\ ~SeatLimitReached(txn[r], k)
      <2>1. /\ pc' = [pc EXCEPT ![r] = "insert"]
            /\ UNCHANGED <<args, txn, rowLock>>
            BY <1>4 DEF CountSeats, Continue, Goto
      <2>2. \A q \in Requests : pc'[q] = IF q = r THEN "insert" ELSE pc[q]
            BY <2>1 DEF TypeOK, ReqTypeOK
      <2>3. ASSUME NEW q \in Requests
            PROVE  HoldsItsRow(q)'
            BY <1>1, <2>1, <2>2 DEF SeatInv, HoldsItsRow, InTransaction, RowExists
      <2>4. ASSUME NEW q \in Requests
            PROVE  MaySeat(q)'
            BY <1>1, <1>4, <2>1, <2>2, ZenonT(60)
            DEF SeatInv, MaySeat, ActiveOf, SeatLimitReached, ActiveRows
      <2>5. \A a \in acts' : pc'[a.id] \in Settled
            BY <1>1, <2>2 DEF SeatInv, Settled, TypeOK, DBTypeOK, ActivationType
      <2>6. OneRowPerClient' /\ IsFiniteSet(acts')
            BY <1>1 DEF SeatInv, OneRowPerClient
      <2>7. QED
            BY <2>3, <2>4, <2>5, <2>6 DEF SeatInv
<1>5. QED
      BY <1>2, <1>3, <1>4

LEMMA ProceedSeatInv ==
    ASSUME TypeOK, SeatInv, NEW r \in Requests, Proceed(r)
    PROVE  SeatInv'
<1>1. CASE ResolveFromCache(r)
      BY <1>1, QuietStep DEF ResolveFromCache, Settled, dbVars
<1>2. CASE FindByKey(r)
      BY <1>2, QuietStep DEF FindByKey, Settled, dbVars
<1>3. CASE FillCache(r)
      BY <1>3, QuietStep DEF FillCache, Settled, dbVars
<1>4. CASE Refuse(r)
      BY <1>4, QuietStep DEF Refuse, dbVars
<1>5. CASE AcquireMutex(r)
      BY <1>5, QuietStep DEF AcquireMutex, Settled, dbVars
<1>6. CASE SelectForUpdate(r)
      BY <1>6, SelectSeatInv
<1>7. CASE CountSeats(r)
      BY <1>7, CountSeatInv
<1>8. CASE InsertAndCommit(r)
      <2>1. InTransaction(r) /\ ~UniqueViolation(args[r].key, args[r].client)
            BY <1>8 DEF InsertAndCommit, InTransaction, SeatInv, MaySeat, UniqueViolation
      <2>2. /\ pc[r] = "insert"
            /\ InsertActivation(r, args[r].key, args[r].client)
            /\ UnlockRow(args[r].key)
            /\ UNCHANGED <<db, args, txn>>
            /\ pc' = [pc EXCEPT ![r] = "invalidate"]
            BY <1>8, <2>1 DEF InsertAndCommit, Goto
      <2>3. QED
            BY <2>2, InsertSeatInv DEF TypeOK, ReqTypeOK, Settled
<1>9. CASE ReleaseSeat(r)
      BY <1>9, ReleaseSeatInv
<1>10. CASE InvalidateCache(r)
      BY <1>10, QuietStep DEF InvalidateCache, Settled, dbVars
<1>11. CASE ReplyActivate(r)
      BY <1>11, QuietStep DEF ReplyActivate, dbVars
<1>12. CASE RecordUsage(r)
      BY <1>12, QuietStep DEF RecordUsage
<1>13. CASE RereadRevoked(r)
      BY <1>13, QuietStep DEF RereadRevoked, Settled, dbVars
<1>14. CASE CacheSet(r)
      BY <1>14, QuietStep DEF CacheSet, dbVars
<1>15. QED
      BY <1>1, <1>2, <1>3, <1>4, <1>5, <1>6, <1>7, <1>8, <1>9, <1>10, <1>11,
         <1>12, <1>13, <1>14 DEF Proceed

LEMMA EnvironmentSeatInv ==
    ASSUME TypeOK, SeatInv
    PROVE  /\ \A r \in Requests : StatementFails(r) => SeatInv'
           /\ \A r \in Requests : CommitUnacknowledged(r) => SeatInv'
           /\ \A i \in Instances : CrashAndRestart(i) => SeatInv'
           /\ UNCHANGED <<dbVars, reqVars>> => SeatInv'
<1>1. ASSUME NEW r \in Requests, StatementFails(r)
      PROVE  SeatInv'
      <2>1. \A q \in Requests \ {r} : InTransaction(q) =>
                rowLock'[args[q].key] = rowLock[args[q].key]
            <3>1. \A k \in Keys : rowLock[k] # r => rowLock'[k] = rowLock[k]
                  BY <1>1 DEF StatementFails, UnlockRow, TypeOK, DBTypeOK
            <3>2. QED
                  BY <3>1, RowsApart, ArgsTyped DEF TypeOK
      <2>2. /\ Answer(r, "internal_error", NoRequest)
            /\ UNCHANGED <<db, acts>>
            BY <1>1 DEF StatementFails
      <2>3. "done" \notin {"count", "insert"} /\ "done" \in Settled
            BY DEF Settled
      <2>4. QED
            BY <2>1, <2>2, <2>3, OwnStep
<1>2. ASSUME NEW r \in Requests, CommitUnacknowledged(r)
      PROVE  SeatInv'
      <2>1. /\ pc[r] = "insert"
            /\ InsertActivation(r, args[r].key, args[r].client)
            /\ UnlockRow(args[r].key)
            /\ UNCHANGED <<db, args>>
            /\ pc' = [pc EXCEPT ![r] = "done"]
            /\ txn' = [txn EXCEPT ![r] = 0]
            BY <1>2 DEF CommitUnacknowledged, Answer, Goto
      <2>2. QED
            BY <2>1, InsertSeatInv DEF TypeOK, ReqTypeOK, Settled
<1>3. ASSUME NEW i \in Instances, CrashAndRestart(i)
      PROVE  SeatInv'
      <2> DEFINE lost == {r \in InFlight : args[r].inst = i}
      <2>1. /\ UNCHANGED <<acts, args, db>>
            /\ \A q \in Requests : pc'[q] = IF q \in lost THEN "dead" ELSE pc[q]
            /\ \A q \in Requests : q \notin lost => txn'[q] = txn[q]
            /\ \A k \in Keys : rowLock[k] \notin lost => rowLock'[k] = rowLock[k]
            BY <1>3 DEF CrashAndRestart
      <2> HIDE DEF lost
      <2>2. ASSUME NEW q \in Requests, pc'[q] \in {"count", "insert"}
            PROVE  /\ pc'[q] = pc[q]
                   /\ txn'[q] = txn[q]
                   /\ rowLock'[args[q].key] = rowLock[args[q].key]
            BY <2>1, <2>2, RowsApart, ArgsTyped DEF InTransaction, TypeOK
      <2>3. SeatFrame
            BY <2>1, <2>2 DEF SeatFrame, Settled
      <2>4. QED
            BY <2>3, SeatFrameStep
<1>4. ASSUME UNCHANGED <<dbVars, reqVars>>
      PROVE  SeatInv'
      BY <1>4, SeatFrameStep DEF SeatFrame, dbVars, reqVars
<1>5. QED
      BY <1>1, <1>2, <1>3, <1>4

LEMMA LostAnswerSeatInv ==
    ASSUME TypeOK, SeatInv, NEW r \in Requests
    PROVE  /\ ReleaseUnacknowledged(r) => SeatInv'
           /\ UsageUnacknowledged(r) => SeatInv'
           /\ WriteFails(r) => SeatInv'
<1>1. ASSUME ReleaseUnacknowledged(r)
      PROVE  SeatInv'
      <2>1. /\ ReleaseActivation(args[r].key, args[r].client)
            /\ UNCHANGED <<args, db, rowLock>>
            /\ pc' = [pc EXCEPT ![r] = "done"]
            /\ txn' = [txn EXCEPT ![r] = 0]
            BY <1>1 DEF ReleaseUnacknowledged, Answer, Goto
      <2>2. \A q \in Requests \ {r} : txn'[q] = txn[q]
            BY <2>1 DEF TypeOK, ReqTypeOK
      <2>3. QED
            BY <2>1, <2>2, ReleaseStep DEF Settled
<1>2. ASSUME UsageUnacknowledged(r)
      PROVE  SeatInv'
      BY <1>2, QuietStep DEF UsageUnacknowledged
<1>3. ASSUME WriteFails(r)
      PROVE  SeatInv'
      <2>1. Answer(r, "internal_error", NoRequest) /\ UNCHANGED <<acts, rowLock>>
            BY <1>3 DEF WriteFails
      <2>2. ASSUME NEW q \in Requests, InTransaction(q)
            PROVE  db'[args[q].key] = db[args[q].key]
            <3>1. /\ args[q].key \in Keys /\ args[r].key \in Keys
                  /\ RowExists(args[q].key) /\ ~RowFree(args[q].key)
                  BY <2>2, RowsApart, ArgsTyped DEF TypeOK
            <3>2. QED
                  BY <1>3, <3>1, FailedWrite
                  DEF WriteOutcome, UpdateRow, RevokeRow, TypeOK, DBTypeOK
      <2>3. "done" \notin {"count", "insert"} /\ "done" \in Settled
            BY DEF Settled
      <2>4. QED
            BY <2>1, <2>2, <2>3, OwnStep
<1>4. QED
      BY <1>1, <1>2, <1>3

LEMMA SeatInvInductive ==
    /\ Init => SeatInv
    /\ TypeOK /\ SeatInv /\ [Next]_vars => SeatInv'
<1>1. Init => SeatInv
      BY FS_EmptySet
      DEF Init, SeatInv, HoldsItsRow, MaySeat, InTransaction, OneRowPerClient
<1>2. ASSUME TypeOK, SeatInv, Next
      PROVE  SeatInv'
      BY <1>2, StartSeatInv, ProceedSeatInv, EnvironmentSeatInv, LostAnswerSeatInv
      DEF Next, IdemExpire, CacheMaintenance, Tick
<1>3. ASSUME TypeOK, SeatInv, UNCHANGED vars
      PROVE  SeatInv'
      BY <1>3, EnvironmentSeatInv DEF vars
<1>4. QED
      BY <1>1, <1>2, <1>3

\* The seat invariant holds of every behaviour: transactions hold their rows,
\* and no concurrent request, fault or crash takes the counted seat away.
THEOREM SeatInvariant == Spec => []SeatInv
BY TypeCorrect, SeatInvInductive, PTL DEF Spec

\* The unique index on active seats never fires, so the recovery branch of
\* ActivateWithLock behind it is dead code.
THEOREM UniqueIndexUnused == Spec => []UniqueIndexNeverFires
<1>1. SeatInv => UniqueIndexNeverFires
      BY DEF SeatInv, MaySeat, UniqueIndexNeverFires, UniqueViolation
<1>2. QED
      BY <1>1, SeatInvariant, PTL

-----------------------------------------------------------------------------
(* What a step can do to the seats, and the theorems that follow.          *)

\* The step inserts the seat of r, which it may.
Granted(r) ==
    /\ pc[r] = "insert"
    /\ InsertActivation(r, args[r].key, args[r].client)
    /\ UNCHANGED <<db, args>>

\* The step releases the seat of the client of r.
Released(r) ==
    /\ ActiveOf(args[r].key, args[r].client) # {}
    /\ ReleaseActivation(args[r].key, args[r].client)
    /\ UNCHANGED <<db, args>>

LEMMA SeatSteps ==
    ASSUME TypeOK, SeatInv, [Next]_vars
    PROVE  \/ UNCHANGED acts
           \/ \E r \in Requests : Granted(r) \/ Released(r)
<1>1. ASSUME NEW r \in Requests, Start(r)
      PROVE  UNCHANGED acts
      BY <1>1 DEF Start, Replay, BeginActivate, BeginDeactivate, BeginUsage, Validate,
                  CreateLicense, UpdateLicense, RevokeLicense, dbVars
<1>2. ASSUME NEW r \in Requests, Proceed(r)
      PROVE  UNCHANGED acts \/ Granted(r) \/ Released(r)
      <2>1. CASE InsertAndCommit(r)
            BY <2>1 DEF InsertAndCommit, Granted, Answer
      <2>2. CASE ReleaseSeat(r)
            BY <2>2 DEF ReleaseSeat, Released
      <2>3. CASE ~InsertAndCommit(r) /\ ~ReleaseSeat(r)
            BY <1>2, <2>3
            DEF Proceed, ResolveFromCache, FindByKey, FillCache, Refuse, AcquireMutex,
                SelectForUpdate, CountSeats, InvalidateCache, ReplyActivate,
                RecordUsage, RereadRevoked, CacheSet, dbVars
      <2>4. QED
            BY <2>1, <2>2, <2>3
<1>3. ASSUME NEW r \in Requests, CommitUnacknowledged(r)
      PROVE  Granted(r)
      BY <1>3 DEF CommitUnacknowledged, Granted, Answer
<1>4. ASSUME NEW r \in Requests,
             StatementFails(r) \/ UsageUnacknowledged(r) \/ WriteFails(r)
      PROVE  UNCHANGED acts
      BY <1>4 DEF StatementFails, UsageUnacknowledged, WriteFails
<1>5. ASSUME NEW i \in Instances, CrashAndRestart(i)
      PROVE  UNCHANGED acts
      BY <1>5 DEF CrashAndRestart
<1>6. UNCHANGED dbVars => UNCHANGED acts
      BY DEF dbVars
<1>7. ASSUME NEW r \in Requests, ReleaseUnacknowledged(r)
      PROVE  Released(r)
      BY <1>7 DEF ReleaseUnacknowledged, Released, Answer
<1>8. CASE Next
      BY <1>1, <1>2, <1>3, <1>4, <1>5, <1>6, <1>7, <1>8
      DEF Next, IdemExpire, CacheMaintenance, Tick
<1>9. CASE UNCHANGED vars
      BY <1>6, <1>9 DEF vars
<1>10. QED
      BY <1>8, <1>9

\* A granted seat is within the limit of an active license.
LEMMA GrantIsDue ==
    ASSUME TypeOK, SeatInv, NEW r \in Requests, Granted(r)
    PROVE  /\ RowExists(args[r].key)
           /\ db[args[r].key].status = "active"
           /\ db[args[r].key].seats \in Int
           /\ ActiveOf(args[r].key, args[r].client) = {}
           /\ IsFiniteSet(ActiveRows(args[r].key))
           /\ Cardinality(ActiveRows(args[r].key)) \in Nat
           /\ \/ db[args[r].key].seats = Unlimited
              \/ Cardinality(ActiveRows(args[r].key)) < db[args[r].key].seats
<1> DEFINE k == args[r].key
<1>1. pc[r] = "insert" /\ InTransaction(r) /\ k \in Keys
      BY ArgsTyped DEF Granted, InTransaction, TypeOK
<1>2. /\ RowExists(k)
      /\ db[k].status = "active"
      /\ txn[r] = db[k].seats
      /\ ActiveOf(k, args[r].client) = {}
      /\ ~SeatLimitReached(txn[r], k)
      BY <1>1 DEF SeatInv, HoldsItsRow, MaySeat
<1>3. db[k].seats \in Int
      BY <1>1, <1>2, RowLicenseType DEF TypeOK, TermsType
<1>4. IsFiniteSet(ActiveRows(k)) /\ Cardinality(ActiveRows(k)) \in Nat
      BY FS_Subset, FS_CardinalityType DEF SeatInv, ActiveRows
<1>5. db[k].seats = Unlimited \/ Cardinality(ActiveRows(k)) < db[k].seats
      BY <1>2, <1>3, <1>4 DEF SeatLimitReached
<1>6. QED
      BY <1>2, <1>3, <1>4, <1>5

\* A step that seats a client of k grants a seat of k.
LEMMA NewSeatIsGranted ==
    ASSUME TypeOK, SeatInv, [Next]_vars, NEW k \in Keys, NewSeat(k)
    PROVE  \E r \in Requests : Granted(r) /\ args[r].key = k
<1>1. acts' # acts
      BY DEF NewSeat, ActiveRows
<1>2. ASSUME NEW r \in Requests, Released(r)
      PROVE  FALSE
      BY <1>2, ReleaseRows, ArgsTyped DEF NewSeat, Released, TypeOK
<1>3. ASSUME NEW r \in Requests, Granted(r)
      PROVE  args[r].key = k
      BY <1>3, InsertRows DEF NewSeat, Granted
<1>4. QED
      BY <1>1, <1>2, <1>3, SeatSteps

\* A seat is granted within the seats_total of the row at that moment.
THEOREM SeatsWithinLimit == Spec => SeatGrantedWithinLimit
<1>1. ASSUME TypeOK, SeatInv, [Next]_vars, NEW k \in Keys, NewSeat(k)
      PROVE  \/ db'[k].seats = Unlimited
             \/ Cardinality(ActiveRows(k)') <= db'[k].seats
      <2>1. PICK r \in Requests : Granted(r) /\ args[r].key = k
            BY <1>1, NewSeatIsGranted
      <2>2. ActiveRows(k)' = ActiveRows(k) \cup {NewRow(r)} /\ db' = db
            BY <1>1, <2>1, InsertRows DEF Granted
      <2>3. /\ IsFiniteSet(ActiveRows(k))
            /\ Cardinality(ActiveRows(k)) \in Nat
            /\ db[k].seats \in Int
            /\ db[k].seats = Unlimited \/ Cardinality(ActiveRows(k)) < db[k].seats
            BY <1>1, <2>1, GrantIsDue
      <2>4. Cardinality(ActiveRows(k) \cup {NewRow(r)})
              \in {Cardinality(ActiveRows(k)), Cardinality(ActiveRows(k)) + 1}
            BY <2>3, FS_AddElement
      <2>5. QED
            BY <2>2, <2>3, <2>4
<1>2. TypeOK /\ SeatInv /\ [Next]_vars
        => [\A k \in Keys : NewSeat(k) =>
               \/ db'[k].seats = Unlimited
               \/ Cardinality(ActiveRows(k)') <= db'[k].seats]_vars
      BY <1>1
<1>3. QED
      BY <1>2, TypeCorrect, SeatInvariant, PTL DEF Spec, SeatGrantedWithinLimit

\* A seat is granted only on a license that is active at that moment.
THEOREM SeatsOnActiveLicense == Spec => SeatGrantedOnActiveLicense
<1>1. ASSUME TypeOK, SeatInv, [Next]_vars, NEW k \in Keys, NewSeat(k)
      PROVE  RowExists(k)' /\ db'[k].status = "active"
      <2>1. PICK r \in Requests : Granted(r) /\ args[r].key = k
            BY <1>1, NewSeatIsGranted
      <2>2. QED
            BY <1>1, <2>1, GrantIsDue DEF Granted, RowExists
<1>2. TypeOK /\ SeatInv /\ [Next]_vars
        => [\A k \in Keys : NewSeat(k) => RowExists(k)' /\ db'[k].status = "active"]_vars
      BY <1>1
<1>3. QED
      BY <1>2, TypeCorrect, SeatInvariant, PTL DEF Spec, SeatGrantedOnActiveLicense

-----------------------------------------------------------------------------
(* The service implements the seat ledger.                                 *)

Seated(k) == {a.client : a \in ActiveRows(k)}
SeatLimit(k) == IF RowExists(k) THEN db[k].seats ELSE 0
Open(k) == RowExists(k) /\ db[k].status = "active"

\* There are no more seated clients than active rows.
LEMMA SeatedBound ==
    ASSUME NEW k, IsFiniteSet(ActiveRows(k))
    PROVE  /\ Cardinality(Seated(k)) <= Cardinality(ActiveRows(k))
           /\ Cardinality(Seated(k)) \in Nat
<1> DEFINE f == [a \in ActiveRows(k) |-> a.client]
<1>1. f \in Surjection(ActiveRows(k), Seated(k))
      BY DEF Seated, Surjection
<1> HIDE DEF f
<1>2. QED
      BY <1>1, FS_Surjection, FS_CardinalityType

\* The ledger counts with the same Cardinality.
LEMMA LedgerCardinality == \A S : Ledger!Cardinality(S) = Cardinality(S)
BY DEF Ledger!Cardinality, Cardinality

Governed ==
    /\ [k \in Keys |-> SeatLimit(k)] \in [Keys -> Int]
    /\ [k \in Keys |-> Open(k)] \in [Keys -> BOOLEAN]

LEMMA GovernmentTyped == TypeOK => Governed
<1> SUFFICES ASSUME TypeOK
             PROVE  Governed
    OBVIOUS
<1>1. ASSUME NEW k \in Keys
      PROVE  SeatLimit(k) \in Int
      <2>1. CASE RowExists(k)
            <3>1. db[k].seats \in Int
                  BY <2>1, RowLicenseType DEF TypeOK, TermsType
            <3>2. QED
                  BY <2>1, <3>1 DEF SeatLimit
      <2>2. CASE ~RowExists(k)
            BY <2>2 DEF SeatLimit
      <2>3. QED
            BY <2>1, <2>2
<1>2. QED
      BY <1>1 DEF Governed, Open

LEMMA LedgerInitial == Init => Ledger!LedgerInit
<1> SUFFICES ASSUME Init PROVE Ledger!LedgerInit
    OBVIOUS
<1>1. \A k : Seated(k) = {}
      BY DEF Init, Seated, ActiveRows
<1>2. TypeOK
      BY InitTypeOK
<1>3. QED
      BY <1>1, <1>2, GovernmentTyped DEF Ledger!LedgerInit, Governed, Seated, SeatLimit, Open

\* A granted seat is a Claim.
LEMMA GrantIsClaim ==
    ASSUME TypeOK, SeatInv, NEW r \in Requests, Granted(r),
           NEW k \in Keys, NEW c \in Clients, k = args[r].key, c = args[r].client
    PROVE  Ledger!Claim(k, c)
<1>1. Open(k) /\ SeatLimit(k) = db[k].seats
      BY GrantIsDue DEF Open, SeatLimit
<1>2. c \notin Seated(k)
      BY GrantIsDue DEF Seated, ActiveOf
<1>3. SeatLimit(k) = -1 \/ Cardinality(Seated(k)) < SeatLimit(k)
      BY <1>1, GrantIsDue, SeatedBound DEF Unlimited
<1>4. ASSUME NEW l \in Keys
      PROVE  Seated(l)' = IF l = k THEN Seated(k) \cup {c} ELSE Seated(l)
      <2>1. NewRow(r).client = c
            BY DEF NewRow
      <2>2. ActiveRows(l)' = IF l = k THEN ActiveRows(k) \cup {NewRow(r)} ELSE ActiveRows(l)
            BY InsertRows DEF Granted
      <2>3. QED
            BY <2>1, <2>2 DEF Seated
<1>5. UNCHANGED db
      BY DEF Granted
<1>6. [l \in Keys |-> Seated(l)]' = [[l \in Keys |-> Seated(l)] EXCEPT ![k] = @ \cup {c}]
      BY <1>4
<1>7. /\ [l \in Keys |-> SeatLimit(l)]' = [l \in Keys |-> SeatLimit(l)]
      /\ [l \in Keys |-> Open(l)]' = [l \in Keys |-> Open(l)]
      BY <1>5 DEF SeatLimit, Open, RowExists
<1>8. QED
      BY <1>1, <1>2, <1>3, <1>6, <1>7, LedgerCardinality
      DEF Ledger!Claim, Seated, SeatLimit, Open

\* A released seat is given back.
LEMMA ReleaseIsGiveBack ==
    ASSUME TypeOK, SeatInv, NEW r \in Requests, Released(r),
           NEW k \in Keys, NEW c \in Clients, k = args[r].key, c = args[r].client
    PROVE  Ledger!GiveBack(k, c)
<1>1. c \in Seated(k)
      BY DEF Released, Seated, ActiveOf
<1>2. ASSUME NEW l \in Keys
      PROVE  Seated(l)' = IF l = k THEN Seated(k) \ {c} ELSE Seated(l)
      <2>1. ActiveRows(l)' = IF l = k THEN ActiveRows(k) \ ActiveOf(k, c) ELSE ActiveRows(l)
            BY ReleaseRows DEF Released
      <2>2. QED
            BY <2>1 DEF Seated, ActiveOf
<1>3. UNCHANGED db
      BY DEF Released
<1>4. QED
      BY <1>1, <1>2, <1>3 DEF Ledger!GiveBack, Seated, RowExists

\* Seen through its tables, the service is a seat ledger.
THEOREM ServiceImplementsLedger == Spec => ImplementsSeatLedger
<1>1. ASSUME TypeOK, TypeOK', SeatInv, [Next]_vars
      PROVE  [Ledger!LedgerNext]_(Ledger!ledgerVars)
      <2>1. CASE UNCHANGED acts
            <3>1. [k \in Keys |-> Seated(k)]' = [k \in Keys |-> Seated(k)]
                  BY <2>1 DEF Seated, ActiveRows
            <3>2. Governed'
                  BY <1>1, GovernmentTyped, PTL
            <3>3. Ledger!Govern
                  BY <3>1, <3>2 DEF Ledger!Govern, Governed, Seated, SeatLimit, Open
            <3>4. QED
                  BY <3>3 DEF Ledger!LedgerNext
      <2>2. ASSUME NEW r \in Requests, Granted(r) \/ Released(r)
            PROVE  Ledger!LedgerNext
            <3>1. PICK k \in Keys, c \in Clients : k = args[r].key /\ c = args[r].client
                  BY <1>1, ArgsTyped DEF TypeOK
            <3>2. Ledger!Claim(k, c) \/ Ledger!GiveBack(k, c)
                  BY <1>1, <2>2, <3>1, GrantIsClaim, ReleaseIsGiveBack
            <3>3. QED
                  BY <3>2 DEF Ledger!LedgerNext
      <2>3. QED
            BY <1>1, <2>1, <2>2, SeatSteps
<1>2. QED
      BY <1>1, LedgerInitial, TypeCorrect, SeatInvariant, PTL
      DEF Spec, ImplementsSeatLedger, Ledger!LedgerSpec

-----------------------------------------------------------------------------
(* The answers.                                                            *)

\* A request is only at steps of its own operation, and from the commit on its
\* answer is "ok".
StepFits(r) ==
    /\ pc[r] = "release" => args[r].op = "deactivate"
    /\ pc[r] \in {"reread", "cacheSet"} => args[r].op \in {"create", "update", "revoke"}
    /\ pc[r] \in {"tx", "count", "insert", "reply"} => args[r].op = "activate"
    /\ pc[r] \in {"invalidate", "reply"} => resp[r].kind = "ok"

StepsFit == \A r \in Requests : StepFits(r)

\* A step of one request.
LEMMA FitsMove ==
    ASSUME StepsFit, NEW r \in Requests, UNCHANGED args,
           \A q \in Requests \ {r} : pc'[q] = pc[q] /\ resp'[q] = resp[q],
           StepFits(r)'
    PROVE  StepsFit'
BY DEF StepsFit, StepFits

LEMMA FitsAnswer ==
    ASSUME TypeOK, StepsFit, NEW r \in Requests, NEW kind, NEW id, Answer(r, kind, id)
    PROVE  StepsFit'
<1>1. /\ UNCHANGED args /\ pc'[r] = "done"
      /\ \A q \in Requests \ {r} : pc'[q] = pc[q] /\ resp'[q] = resp[q]
      BY DEF Answer, Goto, TypeOK, ReqTypeOK
<1>2. QED
      BY <1>1, FitsMove DEF StepFits

LEMMA FitsGoOn ==
    ASSUME TypeOK, StepsFit, NEW r \in Requests, NEW lic, NEW step,
           Hold(r, lic, step) \/ Continue(r, step),
           step = "release" => args[r].op = "deactivate",
           step \in {"reread", "cacheSet"} => args[r].op \in {"create", "update", "revoke"},
           step \in {"tx", "count", "insert", "reply"} => args[r].op = "activate",
           step \in {"invalidate", "reply"} => resp[r].kind = "ok"
    PROVE  StepsFit'
<1>1. /\ UNCHANGED <<args, resp>> /\ pc'[r] = step
      /\ \A q \in Requests \ {r} : pc'[q] = pc[q]
      BY DEF Hold, Continue, Goto, TypeOK, ReqTypeOK
<1>2. QED
      BY <1>1, FitsMove DEF StepFits

LEMMA StartStepsFit ==
    ASSUME TypeOK, StepsFit, NEW r \in Requests, Start(r)
    PROVE  StepsFit'
<1>1. CASE Replay(r) \/ Validate(r)
      BY <1>1, FitsAnswer DEF Replay, Validate
<1>2. CASE BeginActivate(r) \/ BeginDeactivate(r)
      BY <1>2, FitsGoOn DEF BeginActivate, BeginDeactivate
<1>3. CASE BeginUsage(r)
      BY <1>3, FitsGoOn, FitsAnswer DEF BeginUsage
<1>4. CASE CreateLicense(r)
      BY <1>4, FitsGoOn, FitsAnswer DEF CreateLicense, CanStart
<1>5. CASE UpdateLicense(r)
      BY <1>5, FitsGoOn, FitsAnswer DEF UpdateLicense, CanStart
<1>6. CASE RevokeLicense(r)
      BY <1>6, FitsGoOn, FitsAnswer DEF RevokeLicense, CanStart
<1>7. QED
      BY <1>1, <1>2, <1>3, <1>4, <1>5, <1>6 DEF Start

LEMMA ProceedStepsFit ==
    ASSUME TypeOK, StepsFit, NEW r \in Requests, Proceed(r)
    PROVE  StepsFit'
<1>1. CASE ResolveFromCache(r)
      BY <1>1, FitsGoOn DEF ResolveFromCache
<1>2. CASE FindByKey(r)
      BY <1>2, FitsGoOn, FitsAnswer DEF FindByKey
<1>3. CASE FillCache(r)
      BY <1>3, FitsGoOn DEF FillCache
<1>4. CASE Refuse(r) \/ RecordUsage(r) \/ ReplyActivate(r) \/ CacheSet(r)
      BY <1>4, FitsAnswer DEF Refuse, RecordUsage, ReplyActivate, CacheSet
<1>5. CASE AcquireMutex(r)
      BY <1>5, FitsGoOn DEF AcquireMutex
\* The steps of a transaction that write the answer, or go on inside it.
<1>6. ASSUME UNCHANGED args, NEW step \in {"count", "invalidate"}, Goto(r, step),
             step = "count" => args[r].op = "activate" /\ UNCHANGED resp,
             step = "invalidate" => \E id : resp' = [resp EXCEPT ![r] = [kind |-> "ok", id |-> id]]
      PROVE  StepsFit'
      <2>1. /\ pc'[r] = step
            /\ \A q \in Requests \ {r} : pc'[q] = pc[q] /\ resp'[q] = resp[q]
            /\ step = "invalidate" => resp'[r].kind = "ok"
            BY <1>6 DEF Goto, TypeOK, ReqTypeOK
      <2>2. QED
            BY <1>6, <2>1, FitsMove DEF StepFits
<1>7. CASE SelectForUpdate(r)
      <2>1. args[r].op = "activate"
            BY <1>7 DEF SelectForUpdate, StepsFit, StepFits
      <2>2. QED
            BY <1>6, <1>7, <2>1, FitsAnswer DEF SelectForUpdate
<1>8. CASE CountSeats(r)
      <2>1. args[r].op = "activate"
            BY <1>8 DEF CountSeats, StepsFit, StepFits
      <2>2. CASE \E a \in ActiveOf(args[r].key, args[r].client) :
                    /\ resp' = [resp EXCEPT ![r] = [kind |-> "ok", id |-> a.id]]
                    /\ Goto(r, "invalidate")
                    /\ UNCHANGED args
            BY <1>6, <2>2
      <2>3. CASE Answer(r, "seats_limit_exceeded", NoRequest)
            BY <2>3, FitsAnswer
      <2>4. CASE Continue(r, "insert")
            BY <2>1, <2>4, FitsGoOn
      <2>5. QED
            BY <1>8, <2>2, <2>3, <2>4 DEF CountSeats
<1>9. CASE InsertAndCommit(r)
      BY <1>6, <1>9, FitsAnswer DEF InsertAndCommit
<1>10. CASE ReleaseSeat(r)
      BY <1>6, <1>10, FitsAnswer DEF ReleaseSeat
<1>11. CASE InvalidateCache(r)
      <2>1. resp[r].kind = "ok"
            BY <1>11 DEF InvalidateCache, StepsFit, StepFits
      <2>2. QED
            BY <1>11, <2>1, FitsGoOn, FitsAnswer DEF InvalidateCache
<1>12. CASE RereadRevoked(r)
      <2>1. args[r].op \in {"create", "update", "revoke"}
            BY <1>12 DEF RereadRevoked, StepsFit, StepFits
      <2>2. QED
            BY <1>12, <2>1, FitsGoOn, FitsAnswer DEF RereadRevoked
<1>13. QED
      BY <1>1, <1>2, <1>3, <1>4, <1>5, <1>7, <1>8, <1>9, <1>10, <1>11, <1>12 DEF Proceed

LEMMA NextStepsFit == TypeOK /\ StepsFit /\ [Next]_vars => StepsFit'
<1> SUFFICES ASSUME TypeOK, StepsFit, [Next]_vars
             PROVE  StepsFit'
    OBVIOUS
<1>1. ASSUME UNCHANGED <<args, resp>>, \A r \in Requests : pc'[r] \in {pc[r], "dead"}
      PROVE  StepsFit'
      BY <1>1 DEF StepsFit, StepFits
<1>2. ASSUME NEW r \in Requests,
             \/ StatementFails(r) \/ CommitUnacknowledged(r)
             \/ ReleaseUnacknowledged(r) \/ UsageUnacknowledged(r) \/ WriteFails(r)
      PROVE  StepsFit'
      BY <1>2, FitsAnswer DEF StatementFails, CommitUnacknowledged,
         ReleaseUnacknowledged, UsageUnacknowledged, WriteFails
<1>3. ASSUME NEW i \in Instances, CrashAndRestart(i)
      PROVE  StepsFit'
      BY <1>1, <1>3 DEF CrashAndRestart
<1>4. ASSUME NEW i \in Instances, NEW x \in IdemKeys, IdemExpire(i, x)
      PROVE  StepsFit'
      BY <1>1, <1>4 DEF IdemExpire, reqVars
<1>5. CASE CacheMaintenance \/ Tick \/ UNCHANGED vars
      BY <1>1, <1>5 DEF CacheMaintenance, Tick, vars, reqVars
<1>6. QED
      BY <1>2, <1>3, <1>4, <1>5, StartStepsFit, ProceedStepsFit DEF Next

LEMMA InitStepsFit == Init => StepsFit
BY DEF Init, StepsFit, StepFits

\* None of the steps of an activation but Replay, the commits and ReplyActivate
\* makes its answer "ok".
LEMMA AnswersOf ==
    ASSUME TypeOK, StepsFit, [Next]_vars, NEW q \in Requests,
           args[q].op = "activate", resp'[q] # resp[q], resp'[q].kind = "ok"
    PROVE  Replay(q) \/ CountSeats(q) \/ InsertAndCommit(q) \/ ReplyActivate(q)
<1>1. ASSUME NEW r \in Requests, NEW kind, NEW id, Answer(r, kind, id)
      PROVE  r = q /\ resp'[q].kind = kind
      BY <1>1 DEF Answer, TypeOK, ReqTypeOK
<1>2. ASSUME NEW r \in Requests, NEW kind, NEW id,
             resp' = [resp EXCEPT ![r] = [kind |-> kind, id |-> id]]
      PROVE  r = q /\ resp'[q].kind = kind
      BY <1>2 DEF TypeOK, ReqTypeOK
<1>3. ASSUME NEW r \in Requests, Start(r)
      PROVE  Replay(q)
      BY <1>1, <1>3 DEF Start, Replay, BeginActivate, BeginDeactivate, BeginUsage, Validate,
         CreateLicense, UpdateLicense, RevokeLicense, CanStart, Hold, Continue
<1>4. ASSUME NEW r \in Requests,
             \/ ResolveFromCache(r) \/ FillCache(r) \/ AcquireMutex(r)
      PROVE  FALSE
      BY <1>4 DEF ResolveFromCache, FillCache, AcquireMutex, Hold, Continue
<1>5. ASSUME NEW r \in Requests, FindByKey(r)
      PROVE  FALSE
      BY <1>1, <1>5 DEF FindByKey, Hold
<1>6. ASSUME NEW r \in Requests, Refuse(r) \/ RecordUsage(r)
      PROVE  FALSE
      BY <1>1, <1>6 DEF Refuse, Refusal, RecordUsage
<1>7. ASSUME NEW r \in Requests, SelectForUpdate(r)
      PROVE  FALSE
      BY <1>1, <1>7 DEF SelectForUpdate, RowRefusal
<1>8. ASSUME NEW r \in Requests, CountSeats(r)
      PROVE  CountSeats(q)
      BY <1>1, <1>2, <1>8 DEF CountSeats, Continue
<1>9. ASSUME NEW r \in Requests, InsertAndCommit(r)
      PROVE  InsertAndCommit(q)
      BY <1>1, <1>2, <1>9 DEF InsertAndCommit
<1>10. ASSUME NEW r \in Requests, ReplyActivate(r)
      PROVE  ReplyActivate(q)
      BY <1>1, <1>10 DEF ReplyActivate
<1>11. ASSUME NEW r \in Requests, InvalidateCache(r)
      PROVE  FALSE
      BY <1>1, <1>11 DEF InvalidateCache, Continue
<1>12. ASSUME NEW r \in Requests, ReleaseSeat(r) \/ RereadRevoked(r) \/ CacheSet(r)
      PROVE  FALSE
      <2>1. args[r].op # "activate"
            BY <1>12 DEF StepsFit, StepFits, ReleaseSeat, RereadRevoked, CacheSet
      <2>2. QED
            BY <1>1, <1>2, <1>12, <2>1 DEF ReleaseSeat, RereadRevoked, CacheSet, Hold
<1>13. ASSUME NEW r \in Requests,
              \/ StatementFails(r) \/ CommitUnacknowledged(r)
              \/ ReleaseUnacknowledged(r) \/ UsageUnacknowledged(r) \/ WriteFails(r)
      PROVE  FALSE
      BY <1>1, <1>13 DEF StatementFails, CommitUnacknowledged,
         ReleaseUnacknowledged, UsageUnacknowledged, WriteFails
<1>14. ASSUME \/ \E i \in Instances : CrashAndRestart(i)
              \/ \E i \in Instances, x \in IdemKeys : IdemExpire(i, x)
              \/ CacheMaintenance \/ Tick \/ UNCHANGED vars
      PROVE  FALSE
      BY <1>14 DEF CrashAndRestart, IdemExpire, CacheMaintenance, Tick, vars, reqVars
<1>15. QED
      BY <1>3, <1>4, <1>5, <1>6, <1>7, <1>8, <1>9, <1>10, <1>11, <1>12, <1>13, <1>14
      DEF Next, Proceed

\* A request at one of the steps that look the license up ends in
\* license_not_found by its own query or by the locked row.
LEMMA NotFoundBy ==
    ASSUME TypeOK, [Next]_vars, NEW q \in Requests,
           pc[q] \in {"resolve", "find", "tx"},
           resp'[q] # resp[q], resp'[q].kind = "license_not_found"
    PROVE  FindByKey(q) \/ SelectForUpdate(q)
<1>1. ASSUME NEW r \in Requests, NEW kind, NEW id, Answer(r, kind, id)
      PROVE  r = q /\ resp'[q].kind = kind
      BY <1>1 DEF Answer, TypeOK, ReqTypeOK
<1>2. ASSUME NEW r \in Requests, NEW kind, NEW id,
             resp' = [resp EXCEPT ![r] = [kind |-> kind, id |-> id]]
      PROVE  r = q
      BY <1>2 DEF TypeOK, ReqTypeOK
<1>3. ASSUME NEW r \in Requests, Start(r)
      PROVE  FALSE
      BY <1>1, <1>3 DEF Start, Replay, BeginActivate, BeginDeactivate, BeginUsage, Validate,
         CreateLicense, UpdateLicense, RevokeLicense, CanStart, Hold, Continue
<1>4. ASSUME NEW r \in Requests,
             \/ ResolveFromCache(r) \/ FillCache(r) \/ AcquireMutex(r) \/ Refuse(r)
             \/ RecordUsage(r) \/ ReplyActivate(r) \/ RereadRevoked(r) \/ CacheSet(r)
      PROVE  FALSE
      BY <1>1, <1>4 DEF ResolveFromCache, FillCache, AcquireMutex, Refuse, RecordUsage,
         ReplyActivate, RereadRevoked, CacheSet, Hold, Continue
<1>5. ASSUME NEW r \in Requests,
             CountSeats(r) \/ InsertAndCommit(r) \/ ReleaseSeat(r) \/ InvalidateCache(r)
      PROVE  FALSE
      BY <1>1, <1>2, <1>5 DEF CountSeats, InsertAndCommit, ReleaseSeat, InvalidateCache, Continue
<1>6. ASSUME NEW r \in Requests, FindByKey(r) \/ SelectForUpdate(r)
      PROVE  r = q
      BY <1>1, <1>6 DEF FindByKey, SelectForUpdate, Hold
<1>7. ASSUME NEW r \in Requests,
             \/ StatementFails(r) \/ CommitUnacknowledged(r)
             \/ ReleaseUnacknowledged(r) \/ UsageUnacknowledged(r) \/ WriteFails(r)
      PROVE  FALSE
      BY <1>1, <1>7 DEF StatementFails, CommitUnacknowledged,
         ReleaseUnacknowledged, UsageUnacknowledged, WriteFails
<1>8. ASSUME \/ \E i \in Instances : CrashAndRestart(i)
             \/ \E i \in Instances, x \in IdemKeys : IdemExpire(i, x)
             \/ CacheMaintenance \/ Tick \/ UNCHANGED vars
      PROVE  FALSE
      BY <1>8 DEF CrashAndRestart, IdemExpire, CacheMaintenance, Tick, vars, reqVars
<1>9. QED
      BY <1>3, <1>4, <1>5, <1>6, <1>7, <1>8 DEF Next, Proceed

\* A request that knows its tenant looks up in vain only a license that the
\* table does not have (KnownLicenseIsFound), on any instance, with the tenant
\* middleware or without it and whatever the caches hold: a miss, a negative
\* entry or an expired one is always followed by a query.
THEOREM KnownLicensesAreFound == Spec => KnownLicenseIsFound
<1>1. TypeOK /\ [Next]_vars =>
          \A r \in Requests :
              /\ TenantKnown(r)
              /\ pc[r] \in {"resolve", "find", "tx"}
              /\ resp'[r] # resp[r]
              /\ resp'[r].kind = "license_not_found"
              => ~RowExists(args[r].key)
      <2> SUFFICES ASSUME TypeOK, [Next]_vars, NEW r \in Requests, TenantKnown(r),
                          pc[r] \in {"resolve", "find", "tx"}, resp'[r] # resp[r],
                          resp'[r].kind = "license_not_found"
                   PROVE  ~RowExists(args[r].key)
          OBVIOUS
      <2>1. CASE FindByKey(r)
            BY <2>1 DEF FindByKey, Hold
      <2>2. CASE SelectForUpdate(r)
            BY <2>2 DEF SelectForUpdate, RowRefusal, Answer, TypeOK, ReqTypeOK
      <2>3. QED
            BY <2>1, <2>2, NotFoundBy
<1>2. QED
      BY <1>1, TypeCorrect, PTL DEF Spec, KnownLicenseIsFound

-----------------------------------------------------------------------------
\* No two clients or licenses share an Idempotency-Key.
IdemKeysApart ==
    \A w \in Workload : \A r, s \in Requests :
        /\ w[r].op = "activate" /\ w[s].op = "activate"
        /\ w[r].idem = w[s].idem /\ w[r].idem # NoIdem
        => w[r].key = w[s].key /\ w[r].client = w[s].client

\* There is a row with this ID of this license and client, active or not.
NamesRow(id, k, c) == \E a \in acts : a.id = id /\ a.key = k /\ a.client = c

\* What an idempotency cache holds is the answer to an activation under that
\* key, and names the row of its license and client.
IdemNamesRow ==
    \A i \in Instances, x \in IdemKeys : idem[i][x] # NoResp =>
        \E s \in Requests : /\ args[s].op = "activate" /\ args[s].idem = x
                            /\ NamesRow(idem[i][x].id, args[s].key, args[s].client)

OwnRowInv == args \in Workload /\ IdemNamesRow /\ AnswerNamesOwnRow

\* Rows are released, never deleted, and never change hands.
LEMMA RowsStay ==
    ASSUME TypeOK, [Next]_vars, NEW a \in acts
    PROVE  \E b \in acts' : b.id = a.id /\ b.key = a.key /\ b.client = a.client
<1>1. CASE acts \subseteq acts'
      BY <1>1
<1>2. ASSUME NEW k, NEW c, ReleaseActivation(k, c)
      PROVE  \E b \in acts' : b.id = a.id /\ b.key = a.key /\ b.client = a.client
      <2>1. a \in ActivationType
            BY DEF TypeOK, DBTypeOK
      <2>2. (IF a \in ActiveOf(k, c) THEN [a EXCEPT !.active = FALSE] ELSE a) \in acts'
            BY <1>2 DEF ReleaseActivation
      <2>3. LET b == [a EXCEPT !.active = FALSE]
            IN  b.id = a.id /\ b.key = a.key /\ b.client = a.client
            BY <2>1 DEF ActivationType
      <2>4. QED
            BY <2>2, <2>3
<1>3. ASSUME NEW r \in Requests, Start(r)
      PROVE  acts \subseteq acts'
      BY <1>3 DEF Start, Replay, BeginActivate, BeginDeactivate, BeginUsage, Validate,
         CreateLicense, UpdateLicense, RevokeLicense, dbVars
<1>4. ASSUME NEW r \in Requests,
             \/ ResolveFromCache(r) \/ FindByKey(r) \/ FillCache(r) \/ Refuse(r)
             \/ AcquireMutex(r) \/ SelectForUpdate(r) \/ CountSeats(r) \/ InvalidateCache(r)
             \/ ReplyActivate(r) \/ RecordUsage(r) \/ RereadRevoked(r) \/ CacheSet(r)
             \/ StatementFails(r) \/ UsageUnacknowledged(r) \/ WriteFails(r)
      PROVE  acts \subseteq acts'
      BY <1>4 DEF ResolveFromCache, FindByKey, FillCache, Refuse, AcquireMutex,
         SelectForUpdate, CountSeats, InvalidateCache, ReplyActivate, RecordUsage,
         RereadRevoked, CacheSet, StatementFails, UsageUnacknowledged, WriteFails, dbVars
<1>5. ASSUME NEW r \in Requests, InsertAndCommit(r) \/ CommitUnacknowledged(r)
      PROVE  acts \subseteq acts'
      BY <1>5 DEF InsertAndCommit, CommitUnacknowledged, InsertActivation
<1>6. ASSUME NEW r \in Requests, ReleaseSeat(r) \/ ReleaseUnacknowledged(r)
      PROVE  acts \subseteq acts' \/ ReleaseActivation(args[r].key, args[r].client)
      BY <1>6 DEF ReleaseSeat, ReleaseUnacknowledged
<1>7. ASSUME \/ \E i \in Instances : CrashAndRestart(i)
             \/ \E i \in Instances, x \in IdemKeys : IdemExpire(i, x)
             \/ CacheMaintenance \/ Tick \/ UNCHANGED vars
      PROVE  acts \subseteq acts'
      BY <1>7 DEF CrashAndRestart, IdemExpire, CacheMaintenance, Tick, vars, dbVars
<1>8. QED
      BY <1>1, <1>2, <1>3, <1>4, <1>5, <1>6, <1>7 DEF Next, Proceed

\* The parameters of the requests are fixed, and only ReplyActivate adds to an
\* idempotency cache.
LEMMA ArgsAndIdem ==
    ASSUME TypeOK, [Next]_vars
    PROVE  /\ args' = args
           /\ \/ \A i \in Instances, x \in IdemKeys : idem'[i][x] \in {idem[i][x], NoResp}
              \/ \E r \in Requests : ReplyActivate(r)
<1>1. ASSUME NEW r \in Requests, Start(r)
      PROVE  UNCHANGED <<args, idem>>
      BY <1>1 DEF Start, Replay, BeginActivate, BeginDeactivate, BeginUsage, Validate,
         CreateLicense, UpdateLicense, RevokeLicense, Answer, Hold, Continue
<1>2. ASSUME NEW r \in Requests, Proceed(r)
      PROVE  args' = args /\ (idem' = idem \/ ReplyActivate(r))
      <2>1. CASE ResolveFromCache(r) \/ FindByKey(r) \/ FillCache(r) \/ Refuse(r) \/ AcquireMutex(r)
            BY <2>1 DEF ResolveFromCache, FindByKey, FillCache, Refuse, AcquireMutex,
               Answer, Hold, Continue
      <2>2. CASE SelectForUpdate(r) \/ CountSeats(r) \/ InsertAndCommit(r) \/ ReleaseSeat(r)
            BY <2>2 DEF SelectForUpdate, CountSeats, InsertAndCommit, ReleaseSeat, Answer, Continue
      <2>3. CASE InvalidateCache(r) \/ ReplyActivate(r) \/ RecordUsage(r) \/ RereadRevoked(r)
                 \/ CacheSet(r)
            BY <2>3 DEF InvalidateCache, ReplyActivate, RecordUsage, RereadRevoked, CacheSet,
               Answer, Hold, Continue
      <2>4. QED
            BY <1>2, <2>1, <2>2, <2>3 DEF Proceed
<1>3. ASSUME NEW r \in Requests,
             \/ StatementFails(r) \/ CommitUnacknowledged(r)
             \/ ReleaseUnacknowledged(r) \/ UsageUnacknowledged(r) \/ WriteFails(r)
      PROVE  UNCHANGED <<args, idem>>
      BY <1>3 DEF StatementFails, CommitUnacknowledged,
         ReleaseUnacknowledged, UsageUnacknowledged, WriteFails, Answer
<1>4. ASSUME NEW j \in Instances, CrashAndRestart(j)
      PROVE  /\ args' = args
             /\ \A i \in Instances, x \in IdemKeys : idem'[i][x] \in {idem[i][x], NoResp}
      BY <1>4 DEF CrashAndRestart, TypeOK, LocalTypeOK
<1>5. ASSUME NEW j \in Instances, NEW y \in IdemKeys, IdemExpire(j, y)
      PROVE  /\ args' = args
             /\ \A i \in Instances, x \in IdemKeys : idem'[i][x] \in {idem[i][x], NoResp}
      BY <1>5 DEF IdemExpire, TypeOK, LocalTypeOK, reqVars
<1>6. CASE CacheMaintenance \/ Tick \/ UNCHANGED vars
      BY <1>6 DEF CacheMaintenance, Tick, vars, reqVars
<1>7. QED
      BY <1>1, <1>2, <1>3, <1>4, <1>5, <1>6 DEF Next

\* The answer of an activation that became "ok" names a row of its own.
LEMMA OkNamesRow ==
    ASSUME IdemKeysApart, TypeOK, StepsFit, OwnRowInv, [Next]_vars, NEW q \in Requests,
           args[q].op = "activate", resp'[q].kind = "ok"
    PROVE  \E a \in acts' : /\ a.id = resp'[q].id
                            /\ a.key = args[q].key
                            /\ a.client = args[q].client
<1>1. ASSUME NamesRow(resp'[q].id, args[q].key, args[q].client)
      PROVE  \E a \in acts' : /\ a.id = resp'[q].id
                              /\ a.key = args[q].key
                              /\ a.client = args[q].client
      <2>1. PICK a \in acts : /\ a.id = resp'[q].id
                              /\ a.key = args[q].key
                              /\ a.client = args[q].client
            BY <1>1 DEF NamesRow
      <2>2. QED
            BY <2>1, RowsStay
<1>2. CASE resp'[q] = resp[q]
      BY <1>1, <1>2 DEF OwnRowInv, AnswerNamesOwnRow, NamesRow
<1>3. CASE Replay(q)
      <2> DEFINE i == args[q].inst
                 x == args[q].idem
      <2>1. i \in Instances /\ x \in IdemKeys /\ idem[i][x] # NoResp
            BY <1>3, ArgsTyped DEF Replay, TypeOK
      <2>2. PICK s \in Requests :
                /\ args[s].op = "activate" /\ args[s].idem = x
                /\ NamesRow(idem[i][x].id, args[s].key, args[s].client)
            BY <2>1 DEF OwnRowInv, IdemNamesRow
      <2>3. args[s].key = args[q].key /\ args[s].client = args[q].client
            BY <1>3, <2>2 DEF Replay, OwnRowInv, IdemKeysApart
      <2>4. resp'[q].id = idem[i][x].id
            BY <1>3 DEF Replay, Answer, TypeOK, ReqTypeOK
      <2>5. QED
            BY <1>1, <2>2, <2>3, <2>4
<1>4. CASE CountSeats(q) /\ resp'[q] # resp[q]
      <2>1. PICK a \in ActiveOf(args[q].key, args[q].client) :
                resp' = [resp EXCEPT ![q] = [kind |-> "ok", id |-> a.id]]
            BY <1>4 DEF CountSeats, Answer, Continue, TypeOK, ReqTypeOK
      <2>2. resp'[q].id = a.id
            BY <2>1 DEF TypeOK, ReqTypeOK
      <2>3. QED
            BY <1>1, <2>2 DEF NamesRow, ActiveOf, ActiveRows
<1>5. CASE InsertAndCommit(q)
      <2>1. /\ InsertActivation(q, args[q].key, args[q].client)
            /\ resp' = [resp EXCEPT ![q] = [kind |-> "ok", id |-> q]]
            BY <1>5 DEF InsertAndCommit, Answer, TypeOK, ReqTypeOK
      <2>2. resp'[q].id = q
            BY <2>1 DEF TypeOK, ReqTypeOK
      <2>3. LET a == [id |-> q, key |-> args[q].key, client |-> args[q].client, active |-> TRUE]
            IN  a \in acts' /\ a.id = q /\ a.key = args[q].key /\ a.client = args[q].client
            BY <2>1 DEF InsertActivation
      <2>4. QED
            BY <2>2, <2>3
<1>6. CASE ReplyActivate(q)
      <2>1. resp[q].kind = "ok"
            BY <1>6 DEF ReplyActivate, StepsFit, StepFits
      <2>2. resp'[q].id = resp[q].id
            BY <1>6 DEF ReplyActivate, Answer, TypeOK, ReqTypeOK
      <2>3. QED
            BY <1>1, <2>1, <2>2 DEF OwnRowInv, AnswerNamesOwnRow, NamesRow
<1>7. QED
      BY <1>2, <1>3, <1>4, <1>5, <1>6, AnswersOf

LEMMA NextOwnRowInv ==
    ASSUME IdemKeysApart
    PROVE  TypeOK /\ StepsFit /\ OwnRowInv /\ [Next]_vars => OwnRowInv'
<1> SUFFICES ASSUME TypeOK, StepsFit, OwnRowInv, [Next]_vars
             PROVE  OwnRowInv'
    OBVIOUS
<1>1. args' = args
      BY ArgsAndIdem
<1>2. AnswerNamesOwnRow'
      BY <1>1, OkNamesRow DEF AnswerNamesOwnRow
\* An entry that stays keeps its row; a new one is an answer that names its own.
<1>3. ASSUME NEW i \in Instances, NEW x \in IdemKeys, idem'[i][x] # NoResp
      PROVE  \E s \in Requests :
                /\ args[s].op = "activate" /\ args[s].idem = x
                /\ \E a \in acts' : /\ a.id = idem'[i][x].id
                                    /\ a.key = args[s].key
                                    /\ a.client = args[s].client
      <2>1. CASE idem'[i][x] = idem[i][x]
            <3>1. PICK s \in Requests :
                      /\ args[s].op = "activate" /\ args[s].idem = x
                      /\ NamesRow(idem[i][x].id, args[s].key, args[s].client)
                  BY <1>3, <2>1 DEF OwnRowInv, IdemNamesRow
            <3>2. PICK a \in acts : /\ a.id = idem[i][x].id
                                    /\ a.key = args[s].key
                                    /\ a.client = args[s].client
                  BY <3>1 DEF NamesRow
            <3>3. QED
                  BY <2>1, <3>1, <3>2, RowsStay
      <2>2. CASE idem'[i][x] # idem[i][x]
            <3>1. PICK r \in Requests : ReplyActivate(r)
                  BY <1>3, <2>2, ArgsAndIdem
            <3>2. args[r].idem = x /\ idem'[i][x] = resp[r]
                  BY <2>2, <3>1 DEF ReplyActivate, TypeOK, LocalTypeOK
            <3>3. args[r].op = "activate" /\ resp[r].kind = "ok"
                  BY <3>1 DEF ReplyActivate, StepsFit, StepFits
            <3>4. PICK a \in acts : /\ a.id = resp[r].id
                                    /\ a.key = args[r].key
                                    /\ a.client = args[r].client
                  BY <3>3 DEF OwnRowInv, AnswerNamesOwnRow
            <3>5. QED
                  BY <3>2, <3>3, <3>4, RowsStay
      <2>3. QED
            BY <2>1, <2>2
<1>4. IdemNamesRow'
      BY <1>1, <1>3 DEF IdemNamesRow, NamesRow
<1>5. QED
      BY <1>1, <1>2, <1>4 DEF OwnRowInv

\* The activation_id of every answer to activate names a row of the request's
\* own license and client (AnswerNamesOwnRow): where clients do not share
\* Idempotency-Keys, through any replays, expiries, crashes and releases.
THEOREM AnswersNameOwnRows ==
    ASSUME IdemKeysApart
    PROVE  Spec => []AnswerNamesOwnRow
<1>1. Init => OwnRowInv
      BY DEF Init, OwnRowInv, IdemNamesRow, AnswerNamesOwnRow, NoResp
<1>2. QED
      BY <1>1, InitTypeOK, NextTypeOK, InitStepsFit, NextStepsFit, NextOwnRowInv, PTL
      DEF Spec, OwnRowInv
=============================================================================
