------------------------------ MODULE LicenseDB ------------------------------
(***************************************************************************)
(* The PostgreSQL tables behind licensing, as the repositories of          *)
(* internal/infrastructure/db use them: licenses, activations, and the     *)
(* running usage total.  A statement is atomic.  A transaction that        *)
(* selected a license row FOR UPDATE holds the row until it ends, and any  *)
(* statement that writes the row waits for it.                             *)
(***************************************************************************)
EXTENDS License, FiniteSets

CONSTANTS
    Requests,   \* requests to the service; an activation ID is named after
                \* the request that generated it with idgen.NewID
    Clients,    \* normalised client identifiers
    NoRow,      \* no licenses row
    NoRequest   \* nobody

ASSUME DBAssumption ==
    /\ NoRow \notin TermsType
    /\ NoRequest \notin Requests
    /\ IsFiniteSet(Requests)

VARIABLES
    db,        \* db[k]: the licenses row of k, or NoRow
    acts,      \* the rows of the activations table
    blankRid,  \* the licenses whose revocation_id is the empty string
    rowLock,   \* rowLock[k]: the request whose transaction holds row k
    usage      \* usage[k]: licenses.usage_used

dbVars == <<db, acts, blankRid, rowLock, usage>>

ActivationType == [id : Requests, key : Keys, client : Clients, active : BOOLEAN]

DBTypeOK ==
    /\ db \in [Keys -> TermsType \cup {NoRow}]
    /\ acts \in SUBSET ActivationType
    /\ blankRid \in SUBSET Keys
    /\ rowLock \in [Keys -> Requests \cup {NoRequest}]
    /\ usage \in [Keys -> Nat]

RowExists(k) == db[k] # NoRow

\* Slip: the row is selected without FOR UPDATE.
RowFree_NoForUpdate(k) == TRUE

RowFree(k) == rowLock[k] = NoRequest
RowLicense(k) == [id |-> k, terms |-> db[k]]       \* what FindByKey scans

\* SELECT ... WHERE license_id = k AND is_active = TRUE
ActiveRows(k) == {a \in acts : a.key = k /\ a.active}

\* Slip: the lookup of the existing activation forgets client_id.
ActiveOf_AnyClient(k, c) == ActiveRows(k)

ActiveOf(k, c) == {a \in ActiveRows(k) : a.client = c}

\* Slip: > for >=.
SeatLimitReached_OffByOne(seats, k) ==
    /\ seats # Unlimited
    /\ Cardinality(ActiveRows(k)) > seats

\* seatsTotal != -1 && activeCount >= seatsTotal
SeatLimitReached(seats, k) ==
    /\ seats # Unlimited
    /\ Cardinality(ActiveRows(k)) >= seats

\* The partial unique index on (license_id, client_id) WHERE is_active.
UniqueViolation(k, c) == ActiveOf(k, c) # {}

-----------------------------------------------------------------------------
\* SELECT ... FOR UPDATE, and the end of the transaction.
LockRow(k, r) == rowLock' = [rowLock EXCEPT ![k] = r]
UnlockRow(k) == rowLock' = [rowLock EXCEPT ![k] = NoRequest]

\* INSERT INTO activations ... TRUE
InsertActivation(r, k, c) ==
    acts' = acts \cup {[id |-> r, key |-> k, client |-> c, active |-> TRUE]}

\* Slip: the UPDATE forgets client_id.
ReleaseActivation_AllClients(k, c) ==
    acts' = {IF a \in ActiveRows(k) THEN [a EXCEPT !.active = FALSE] ELSE a
                 : a \in acts}

\* UPDATE activations SET is_active = FALSE of ReleaseByClient
ReleaseActivation(k, c) ==
    acts' = {IF a \in ActiveOf(k, c) THEN [a EXCEPT !.active = FALSE] ELSE a
                 : a \in acts}

\* UPDATE licenses SET ... of Update.  It is blind: no row is no error.  The
\* request carries no revocation ID, and COALESCE('', revocation_id) is '', so
\* the row's ID is blanked, which the unique index allows for one row only.
RevocationIDTaken(k) == RowExists(k) /\ blankRid \ {k} # {}

UpdateRow(k, terms) ==
    /\ db' = [db EXCEPT ![k] = IF RowExists(k) THEN terms ELSE NoRow]
    /\ blankRid' = IF RowExists(k) THEN blankRid \cup {k} ELSE blankRid

\* UPDATE licenses SET status = 'revoked' of Revoke: blind as well.
RevokeRow(k) ==
    db' = [db EXCEPT ![k] = IF RowExists(k)
                            THEN [db[k] EXCEPT !.status = "revoked"]
                            ELSE NoRow]
=============================================================================
