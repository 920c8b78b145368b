----------------------------- MODULE SeatLedger -----------------------------
(***************************************************************************)
(* What seat licensing promises, without requests, locks, caches or        *)
(* transactions: a license seats clients, one at a time, never beyond its  *)
(* limit and only while it is open; a seat can be given back; and the      *)
(* administrator may change the limit and close the license at any time,   *)
(* without unseating anybody.                                              *)
(***************************************************************************)
EXTENDS Integers, FiniteSets

CONSTANTS Licenses, Clients

VARIABLES
    seated,   \* seated[l]: the clients that have a seat of l
    limit,    \* limit[l]: how many seats l has, -1 for no limit
    open      \* open[l]: whether l accepts new clients

ledgerVars == <<seated, limit, open>>

LedgerInit ==
    /\ seated = [l \in Licenses |-> {}]
    /\ limit \in [Licenses -> Int]
    /\ open \in [Licenses -> BOOLEAN]

Claim(l, c) ==
    /\ open[l]
    /\ c \notin seated[l]
    /\ limit[l] = -1 \/ Cardinality(seated[l]) < limit[l]
    /\ seated' = [seated EXCEPT ![l] = @ \cup {c}]
    /\ UNCHANGED <<limit, open>>

GiveBack(l, c) ==
    /\ c \in seated[l]
    /\ seated' = [seated EXCEPT ![l] = @ \ {c}]
    /\ UNCHANGED <<limit, open>>

Govern ==
    /\ limit' \in [Licenses -> Int]
    /\ open' \in [Licenses -> BOOLEAN]
    /\ UNCHANGED seated

LedgerNext ==
    \/ \E l \in Licenses, c \in Clients : Claim(l, c) \/ GiveBack(l, c)
    \/ Govern

LedgerSpec == LedgerInit /\ [][LedgerNext]_ledgerVars
=============================================================================
