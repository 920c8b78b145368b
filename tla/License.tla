------------------------------ MODULE License ------------------------------
(***************************************************************************)
(* The license entity of internal/domain: the fields of domain.License     *)
(* that decide whether a license may be used, and the predicates computed  *)
(* from them.  The same struct is what the repository reads from the       *)
(* licenses table and what both cache levels hold, so the database module  *)
(* and the cache module share these definitions.                           *)
(***************************************************************************)
EXTENDS Integers

CONSTANTS
    Keys,      \* license keys; the key is globally unique (UNIQUE (key))
    NoID,      \* the empty License.ID of an object built from a request body
    NoExpiry   \* ExpiresAt = nil

ASSUME KeysAssumption == NoID \notin Keys
ASSUME NoExpiryAssumption == NoExpiry \notin Nat

Unlimited == -1       \* seats_total = -1

Statuses == {"active", "expired", "revoked"}

\* What an administrator decides about a license: one row of the licenses
\* table without its identity.
TermsType == [status  : Statuses,
              seats   : Int,              \* seats_total
              used    : Int,              \* seats_used
              expires : Nat \cup {NoExpiry}]

\* A *domain.License.  A row is identified by its key; the ID column is
\* represented by the key it belongs to, and NoID is the empty string.
LicenseType == [id : Keys \cup {NoID}, terms : TermsType]

IsRevoked(lic) == lic.terms.status = "revoked"

\* GracePeriodDays is not a column of the licenses table, so every license
\* read from the database has a grace period of zero days: IsExpired is a
\* comparison with ExpiresAt and IsInGracePeriod is never true.
IsExpired(lic, now) ==
    /\ lic.terms.expires # NoExpiry
    /\ now > lic.terms.expires

\* The seat test on the columns seats_total and seats_used.
SeatsExhausted(lic) ==
    /\ lic.terms.seats # Unlimited
    /\ lic.terms.used >= lic.terms.seats

\* ValidateHardRules restricted to the modelled fields; the CHECK
\* constraints of the licenses table repeat it, and bound seats_total below.
ValidateHardRules(terms) ==
    /\ terms.seats = Unlimited \/ terms.used <= terms.seats
    /\ terms.seats >= Unlimited
=============================================================================
