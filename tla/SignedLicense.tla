--------------------------- MODULE SignedLicense ---------------------------
(***************************************************************************)
(* Offline signed licenses: GET /licenses/:key/signed                      *)
(* (http/handlers/signed_license_handler.go, security/signer.go) for one   *)
(* license at one instance, next to the activations and the cache it reads.*)
(* Other instances show in the database only: their invalidations do not   *)
(* reach the key-only entry of this one.                                   *)
(*                                                                         *)
(* GetByGlobalKey hands out the object that the cache of the instance      *)
(* holds.  To bind the payload to a device the handler writes the ID of    *)
(* the activation and then the client into the metadata map of that        *)
(* object, and the signer reads them back from there, so requests that got *)
(* the same object share the two fields: those under way at the same time, *)
(* and those that come later, until the entry is replaced or dropped.      *)
(*                                                                         *)
(*   lookup -> find -> writeAct -> writeClient -> signAct -> signClient    *)
(*                                                                         *)
(* Go maps are not safe for concurrent use: the runtime may stop the       *)
(* process when it meets a write next to another access (MapFault); where  *)
(* it does not, the accesses behave as if in some order.                   *)
(*                                                                         *)
(* Metadata is never nil: the column is NOT NULL, and the database refuses *)
(* a license whose request body has none.  Nothing calls RegisterTenant,   *)
(* so every payload is signed with the key loaded at the start, which the  *)
(* model leaves out with the other fields that are copied as they are.     *)
(***************************************************************************)
EXTENDS Naturals

CONSTANTS
    Requests,    \* requests for the signed license
    Clients,     \* values of client_id
    NoClient,    \* no client_id
    MaxActs,     \* bound: activations of the license
    MaxCached,   \* bound: times the license is put into a cache
    BindingRequired   \* metadata.binding_required of the license

ActIDs == 1..MaxActs
NoAct == 0
Objects == 1..MaxCached
NoObject == 0

ASSUME SignedAssumption ==
    /\ NoClient \notin Clients
    /\ MaxActs \in Nat
    /\ MaxCached \in Nat
    /\ BindingRequired \in BOOLEAN

VARIABLES
    active,    \* active[c]: the activation of c whose is_active is set
    owner,     \* owner[a]: the client of activation a, NoClient before it is made
    owed,      \* what was committed here and has not invalidated the entry yet
    gk,        \* the object under "gk:"+key in the LRU
    heap,      \* the objects: the transient part of their metadata
    cached,    \* how many objects have been cached
    pc,        \* the next step of each request
    req,       \* its client_id, its object, what it has read
    payload,   \* the payload it has signed
    touched,   \* requests whose object another one wrote to after they did
    over,      \* activations whose release has been answered here
    barred,    \* barred[r]: those that were over when r came
    gone       \* gone[o]: the activations that were released before o was cached

actVars == <<active, owner, owed, over>>
cacheVars == <<gk, cached, gone>>
reqVars == <<pc, req, payload, touched, barred>>
signedVars == <<active, owner, owed, over, gk, cached, gone, heap,
                pc, req, payload, touched, barred>>

SignedSteps == {"idle", "lookup", "find", "writeAct", "writeClient", "signAct", "signClient",
                "signed", "refused", "lost"}
Writing == {"writeAct", "writeClient"}
Signing == {"signAct", "signClient"}
Underway == SignedSteps \ {"idle", "signed", "refused", "lost"}

AnyAct == ActIDs \cup {NoAct}
AnyClient == Clients \cup {NoClient}
Binding == [act : AnyAct, client : AnyClient]
RequestType == [client : AnyClient, obj : Objects \cup {NoObject},
                found : AnyAct, act : AnyAct]

SignedTypeOK ==
    /\ active \in [Clients -> AnyAct]
    /\ owner \in [ActIDs -> AnyClient]
    /\ owed \in SUBSET [act : ActIDs, release : BOOLEAN]
    /\ gk \in Objects \cup {NoObject}
    /\ heap \in [Objects -> Binding]
    /\ cached \in 0..MaxCached
    /\ pc \in [Requests -> SignedSteps]
    /\ req \in [Requests -> RequestType]
    /\ payload \in [Requests -> Binding]
    /\ touched \in SUBSET Requests
    /\ over \in SUBSET ActIDs
    /\ barred \in [Requests -> SUBSET ActIDs]
    /\ gone \in [Objects -> SUBSET ActIDs]

Unbound == [act |-> NoAct, client |-> NoClient]

SignedInit ==
    /\ active = [c \in Clients |-> NoAct]
    /\ owner = [a \in ActIDs |-> NoClient]
    /\ owed = {}
    /\ gk = NoObject
    /\ heap = [o \in Objects |-> Unbound]
    /\ cached = 0
    /\ pc = [r \in Requests |-> "idle"]
    /\ req \in [Requests -> [client : AnyClient, obj : {NoObject}, found : {NoAct}, act : {NoAct}]]
    /\ payload = [r \in Requests |-> Unbound]
    /\ touched = {}
    /\ over = {}
    /\ barred = [r \in Requests |-> {}]
    /\ gone = [o \in Objects |-> {}]

Goto(r, step) == pc' = [pc EXCEPT ![r] = step]

Released == {a \in ActIDs : owner[a] # NoClient /\ \A c \in Clients : active[c] # a}

-----------------------------------------------------------------------------
\* ActivateWithLock commits an activation of c, here or at another instance.
Activate(c, here) ==
    \E a \in ActIDs :
        /\ active[c] = NoAct
        /\ owner[a] = NoClient /\ \A b \in 1..(a - 1) : owner[b] # NoClient
        /\ active' = [active EXCEPT ![c] = a]
        /\ owner' = [owner EXCEPT ![a] = c]
        /\ owed' = owed \cup IF here THEN {[act |-> a, release |-> FALSE]} ELSE {}
        /\ UNCHANGED <<over, cacheVars, reqVars, heap>>

\* ReleaseByClient clears is_active.
Release(c, here) ==
    /\ active[c] # NoAct
    /\ active' = [active EXCEPT ![c] = NoAct]
    /\ owed' = owed \cup IF here THEN {[act |-> active[c], release |-> TRUE]} ELSE {}
    /\ UNCHANGED <<owner, over, cacheVars, reqVars, heap>>

\* Slip: the key-only entry is left to its TTL.
Invalidate_KeepsIndex(m) ==
    /\ m \in owed
    /\ owed' = owed \ {m}
    /\ over' = IF m.release THEN over \cup {m.act} ELSE over
    /\ UNCHANGED <<active, owner, cacheVars, reqVars, heap>>

\* store.Invalidate at the end of Activate and Deactivate.
Invalidate(m) ==
    /\ m \in owed
    /\ owed' = owed \ {m}
    /\ gk' = NoObject
    /\ over' = IF m.release THEN over \cup {m.act} ELSE over
    /\ UNCHANGED <<active, owner, cached, gone, reqVars, heap>>

\* A new object is put into the entry.
Place ==
    /\ cached < MaxCached
    /\ cached' = cached + 1
    /\ gk' = cached + 1
    /\ gone' = [gone EXCEPT ![cached + 1] = Released]
    /\ UNCHANGED <<actVars, reqVars>>

\* Slip: the metadata of the object that is replaced is taken over.
Cache_Merged ==
    /\ Place
    /\ heap' = IF gk = NoObject THEN heap
               ELSE [heap EXCEPT ![cached + 1] = heap[gk]]

\* LicenseStore.Set, after an update, by resolveLicense or by the warm-up: a
\* new object with the metadata of the row or the request body.
Cache ==
    /\ Place
    /\ UNCHANGED heap

\* The TTL runs out or the LRU evicts the entry.
Evict ==
    /\ gk # NoObject
    /\ gk' = NoObject
    /\ UNCHANGED <<actVars, cached, gone, reqVars, heap>>

-----------------------------------------------------------------------------
Arrive(r) ==
    /\ pc[r] = "idle"
    /\ barred' = [barred EXCEPT ![r] = over]
    /\ Goto(r, "lookup")
    /\ UNCHANGED <<actVars, cacheVars, req, payload, touched, heap>>

\* GetByGlobalKey: a miss is answered with 404.  The object decides whether
\* a client_id is required; without one the handler goes on to the signer.
Lookup(r) ==
    /\ pc[r] = "lookup"
    /\ LET o == gk IN
       /\ req' = [req EXCEPT ![r].obj = o]
       /\ Goto(r, IF o = NoObject THEN "refused"
                  ELSE IF req[r].client # NoClient THEN "find"
                  ELSE IF BindingRequired THEN "refused" ELSE "signAct")
    /\ UNCHANGED <<actVars, cacheVars, payload, barred, touched, heap>>

\* GetActiveByClient: the query; without an activation, or when it fails, the
\* handler goes on and binds nothing.
GetActiveByClient(r) ==
    /\ pc[r] = "find"
    /\ \E a \in {active[req[r].client], NoAct} :
           /\ req' = [req EXCEPT ![r].found = a]
           /\ Goto(r, IF a = NoAct THEN "signAct" ELSE "writeAct")
    /\ UNCHANGED <<actVars, cacheVars, payload, barred, touched, heap>>

\* Those who share the object of r and have begun to write to it.
Sharers(r) ==
    {s \in Requests \ {r} : req[s].obj = req[r].obj /\ req[s].found # NoAct
                            /\ pc[s] \in {"writeClient"} \cup Signing}

\* license.Metadata["_activation_id"] = act.ID
WriteActivationID(r) ==
    /\ pc[r] = "writeAct"
    /\ heap' = [heap EXCEPT ![req[r].obj].act = req[r].found]
    /\ touched' = touched \cup Sharers(r)
    /\ Goto(r, "writeClient")
    /\ UNCHANGED <<actVars, cacheVars, req, payload, barred>>

\* Slip: the client of an earlier binding is kept.
WriteClientID_IfUnset(r) ==
    /\ pc[r] = "writeClient"
    /\ heap' = [heap EXCEPT ![req[r].obj].client =
                    IF @ = NoClient THEN req[r].client ELSE @]
    /\ touched' = touched \cup Sharers(r)
    /\ Goto(r, "signAct")
    /\ UNCHANGED <<actVars, cacheVars, req, payload, barred>>

\* license.Metadata["_client_id"] = act.ClientID
WriteClientID(r) ==
    /\ pc[r] = "writeClient"
    /\ heap' = [heap EXCEPT ![req[r].obj].client = req[r].client]
    /\ touched' = touched \cup Sharers(r)
    /\ Goto(r, "signAct")
    /\ UNCHANGED <<actVars, cacheVars, req, payload, barred>>

\* Sign reads the activation from the map ...
SignActivationID(r) ==
    /\ pc[r] = "signAct"
    /\ req' = [req EXCEPT ![r].act = heap[req[r].obj].act]
    /\ Goto(r, "signClient")
    /\ UNCHANGED <<actVars, cacheVars, payload, barred, touched, heap>>

\* ... and then the client, and signs the payload.
SignClientID(r) ==
    /\ pc[r] = "signClient"
    /\ payload' = [payload EXCEPT ![r] =
           [act |-> req[r].act, client |-> heap[req[r].obj].client]]
    /\ Goto(r, "signed")
    /\ UNCHANGED <<actVars, cacheVars, req, barred, touched, heap>>

\* r writes to the map that s accesses.
Collide(r, s) ==
    /\ r # s
    /\ req[r].obj = req[s].obj
    /\ pc[r] \in Writing
    /\ pc[s] \in Writing \cup Signing

\* "fatal error: concurrent map writes", which nothing recovers: the process
\* ends with its cache and its requests, and with what it had yet to invalidate.
MapFault ==
    /\ \E r, s \in Requests : Collide(r, s)
    /\ gk' = NoObject
    /\ owed' = {}
    /\ pc' = [r \in Requests |-> IF pc[r] \in Underway THEN "lost" ELSE pc[r]]
    /\ UNCHANGED <<active, owner, over, cached, gone, req, payload, barred, touched, heap>>

Handle(r) ==
    \/ Lookup(r) \/ GetActiveByClient(r) \/ WriteActivationID(r) \/ WriteClientID(r)
    \/ SignActivationID(r) \/ SignClientID(r)

SignedNext ==
    \/ \E c \in Clients, here \in BOOLEAN : Activate(c, here) \/ Release(c, here)
    \/ \E m \in owed : Invalidate(m)
    \/ Cache \/ Evict \/ MapFault
    \/ \E r \in Requests : Arrive(r) \/ Handle(r)

SignedSpec == SignedInit /\ [][SignedNext]_signedVars

-----------------------------------------------------------------------------
\* A request that found the client's activation signs that activation and
\* that client, unless another request wrote to the same object after it.
BoundToRequester ==
    \A r \in Requests :
        pc[r] = "signed" /\ req[r].found # NoAct /\ r \notin touched =>
            payload[r].act = req[r].found /\ payload[r].client = req[r].client

\* What is signed for requests that come after the instance has answered
\* a deactivation does not name the activation that was released, although
\* earlier requests have left its ID in the object they shared.
ReleaseEndsBinding ==
    \A r \in Requests : pc[r] = "signed" => payload[r].act \notin barred[r]

\* Whatever binding a payload carries, its own or one left behind, the
\* activation was active at some time since the entry was cached: an update
\* or an invalidation clears what has gathered in the metadata.
BindingIsRecent ==
    \A r \in Requests : pc[r] = "signed" => payload[r].act \notin gone[req[r].obj]

\* The payload of a request names its own client or none: "if client_id is
\* provided and an active activation exists, include activation_id and
\* client_id" (signed_license_handler.go:33).
BindingIsOwn ==
    \A r \in Requests : pc[r] = "signed" => payload[r].client \in {req[r].client, NoClient}

\* The activation a payload names belongs to the client it names.
BindingIsAPair ==
    \A r \in Requests :
        pc[r] = "signed" /\ payload[r].act # NoAct => owner[payload[r].act] = payload[r].client

\* No two requests access one metadata map at a time while one of them writes.
NoMapRace == \A r, s \in Requests : ~Collide(r, s)
=============================================================================
