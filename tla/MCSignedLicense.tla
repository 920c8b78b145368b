-------------------------- MODULE MCSignedLicense --------------------------
(* Two requests and two clients, who are interchangeable. *)
EXTENDS SignedLicense, TLC

CONSTANTS r1, r2, c1, c2

Symm == Permutations({r1, r2}) \cup Permutations({c1, c2})
=============================================================================
