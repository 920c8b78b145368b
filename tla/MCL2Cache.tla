----------------------------- MODULE MCL2Cache -----------------------------
(* Small instances of L2Cache. *)
EXTENDS L2Cache
=============================================================================
