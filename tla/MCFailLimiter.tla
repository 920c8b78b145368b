--------------------------- MODULE MCFailLimiter ---------------------------
(***************************************************************************)
(* Small instances of FailLimiter for TLC.                                 *)
(***************************************************************************)
EXTENDS FailLimiter, TLC

CONSTANTS r1, r2, i1, i2, key, ip

\* All requests are of one address and tenant.
OneKey == [r \in Requests |-> key]
OneIp == [r \in Requests |-> ip]

\* Nothing tells the clients apart, nor the instances, but who serves whom.
Alike == Permutations(Requests) \cup Permutations(Instances)

Elsewhere == [r \in Requests |-> IF r = r2 THEN i2 ELSE i1]
Here == [r \in Requests |-> i1]
Apart == [redis |-> TRUE, at |-> Elsewhere]
Together == [redis |-> TRUE, at |-> Here]
Single == [redis |-> FALSE, at |-> Here]
SomeSetups == {Apart, Together, Single}
Shared == {Apart}
Alone == {Single}

TwoBlocks == <<3, 4>>
============================================================================
