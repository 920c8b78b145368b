--------------------------- MODULE MCTenantAccess ---------------------------
(***************************************************************************)
(* Small instances of TenantAccess for TLC.                                *)
(***************************************************************************)
EXTENDS TenantAccess, TLC

CONSTANTS k1, k2, k3, i1, i2, t1, t2, s1, s2

\* Keys, instances, tenants and slots are interchangeable.
Symmetric == Permutations({k1, k2, k3}) \cup Permutations({i1, i2}) \cup Permutations({t1, t2})
                \cup Permutations({s1, s2})

\* Every kind of operation.
Everything == AllKinds

\* Every call can fail, only the query after the UPDATE of a suspension, or none.
AllFaults == AllKinds \X {"check", "db", "licenses", "reread"}
RereadFails == {<<"suspend", "reread">>}
NoFaults == {}
=============================================================================
