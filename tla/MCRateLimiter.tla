-------------------------- MODULE MCRateLimiter --------------------------
(***************************************************************************)
(* Small instances of RateLimiter for TLC.                                 *)
(***************************************************************************)
EXTENDS RateLimiter, TLC

CONSTANTS first, second, r1, r2, r3, r4

\* One request passes two buckets, as those for a license do; the others are
\* at the second bucket.
SomeWanted == [r \in Requests |-> IF r = r1 THEN <<first, second>> ELSE <<second>>]

\* The first gains a token a tick and holds one, the second half a token and
\* holds two.
SomeRps == (first :> 2 @@ second :> 1)
SomeBurst == (first :> 1 @@ second :> 2)

Alike == Permutations(Requests \ {r1})
==========================================================================
