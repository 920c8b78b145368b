--------------------------- MODULE MCPlanCatalog ---------------------------
(***************************************************************************)
(* Small instances of PlanCatalog for TLC.                                 *)
(***************************************************************************)
EXTENDS PlanCatalog, TLC

CONSTANTS f1, f2, f3, q, i1, i2, t1, t2, s1, s2

\* Instances, tenants and slots are interchangeable.
Symmetric == Permutations({i1, i2}) \cup Permutations({t1, t2}) \cup Permutations({s1, s2})

\* Two plans to choose from, one with a product.
SomeContents ==
    {[features |-> {f1}, product |-> q, active |-> TRUE],
     [features |-> {f1, f2}, product |-> NoProduct, active |-> TRUE]}

Plain == [type |-> "plan", product |-> NoProduct, own |-> {}, add |-> {}, remove |-> {},
          trial |-> {}, trialEnds |-> 0]

\* A license of a plan with a trial and overrides that meet, one of a product,
\* and one that the hard rules refuse.
SomeTerms ==
    {[Plain EXCEPT !.trial = {f2}, !.trialEnds = 1, !.add = {f3}, !.remove = {f3}],
     [Plain EXCEPT !.type = "product", !.product = q, !.own = {f2}],
     [Plain EXCEPT !.own = {f1}]}

Everything == AllKinds
Faults == {"check", "upsert", "find", "write", "store", "read", "list"}
=============================================================================
