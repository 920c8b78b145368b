-------------------------- MODULE MCLicenseService --------------------------
(* Small instances of LicenseService for TLC.                              *)
EXTENDS LicenseService, TLC

CONSTANTS i1, i2, k1, k2, c1, c2, x1, r1, r2, r3

\* Terms an administrator writes in these models.
T(status, seats, used) ==
    [status |-> status, seats |-> seats, used |-> used, expires |-> NoExpiry]
OneSeat == T("active", 1, 0)
TwoSeats == T("active", 2, 0)
NoSeats == T("active", 0, 0)
Uncounted == T("active", Unlimited, 0)
Full == T("active", 1, 1)
Overfull == T("active", 1, 2)
Lapsing == [OneSeat EXCEPT !.expires = 0]

A(op, i, k, c, x, t) ==
    [op |-> op, inst |-> i, key |-> k, client |-> c, idem |-> x, terms |-> t]
Activate(i, c) == A("activate", i, k1, c, NoIdem, OneSeat)
ActivateOnce(i, c) == A("activate", i, k1, c, x1, OneSeat)
Deactivate(i, c) == A("deactivate", i, k1, c, NoIdem, OneSeat)
Update(i, t) == A("update", i, k1, c1, NoIdem, t)
Create(i, t) == A("create", i, k1, c1, NoIdem, t)
Plain(op, i) == A(op, i, k1, c1, NoIdem, OneSeat)

OneShard == [id \in Keys \cup {NoID} |-> "s1"]
\* The ID and the missing ID of k1 fall into different shards.
TwoShards == [id \in Keys \cup {NoID} |-> IF id = NoID THEN "s2" ELSE "s1"]

RequestSymmetry == Permutations(Requests)

\* Seats: two instances contend for one license.
SeatArgs == {Activate(i, c) : i \in {i1, i2}, c \in {c1, c2}}
            \cup {ActivateOnce(i1, c1), Deactivate(i2, c1)}
            \cup {Update(i1, t) : t \in {OneSeat, TwoSeats}}
            \cup {Plain("revoke", i1)}
SeatWorkload == [Requests -> SeatArgs]
SeatDB == {[k \in Keys |-> OneSeat], [k \in Keys |-> Uncounted]}

\* One instance that processes one request at a time; k1 is stored from the
\* start, k2 is not.
SequentialArgs == {Activate(i1, c1), Deactivate(i1, c1),
                   Update(i1, Full), Update(i1, Overfull), Update(i1, Lapsing)}
                  \cup {Plain(op, i1) : op \in {"usage", "validate", "revoke"}}
                  \cup {A(op, i1, k2, c1, NoIdem, OneSeat)
                            : op \in {"create", "activate"}}
SequentialWorkload == [Requests -> SequentialArgs]
SequentialDB == {k1 :> OneSeat @@ k2 :> NoRow}

\* Liveness: three requests that share the mutexes and the row.
LiveWorkload ==
    {(r1 :> Activate(i1, c1) @@ r2 :> b @@ r3 :> c) :
        b \in {Activate(i1, c2), Deactivate(i1, c1), Plain("revoke", i2)},
        c \in {Activate(i2, c1), Plain("usage", i1), Create(i2, OneSeat)}}
LiveDB == {[k \in Keys |-> OneSeat], [k \in Keys |-> NoRow]}

\* Two requests on a stored license, for the runs that look for a
\* disagreement with the documentation.
Both(a, b) == {r1 :> a @@ r2 :> b}
StoredDB == {[k \in Keys |-> OneSeat]}
EmptyDB == {[k \in Keys |-> NoRow]}
RevokeDuringActivate == Both(Activate(i1, c1), Plain("revoke", i1))
RevokeOnOneNode == Both(Plain("revoke", i1), Plain("validate", i2))
ActivateTwice == Both(Activate(i1, c1), Activate(i1, c2))
UsageAfterUpdate == Both(Update(i1, TwoSeats), Plain("usage", i1))
ValidateAfterActivate == Both(Activate(i1, c1), Plain("validate", i1))
UpdateAfterRevoke == Both(Plain("revoke", i1), Update(i1, TwoSeats))
UpdateTwoLicenses == Both(Update(i1, TwoSeats),
                          A("update", i1, k2, c1, NoIdem, TwoSeats))
RevokeAndValidate == Both(Plain("revoke", i1), Plain("validate", i1))
ValidateAfterUpdate == Both(Update(i1, OneSeat), Plain("validate", i1))

=============================================================================
