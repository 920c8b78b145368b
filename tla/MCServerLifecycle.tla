-------------------------- MODULE MCServerLifecycle --------------------------
(***************************************************************************)
(* Model values of the server's lifecycle for TLC: two jobs, one of which  *)
(* has a requester that closed its result channel, and an entry of an      *)
(* admin operation.                                                        *)
(***************************************************************************)
EXTENDS ServerLifecycle

CONSTANTS j1, j2, e1

MCJobs == {j1, j2}
MCEntries == {j1, j2, e1}
MCPoisoned == {j2}
=============================================================================
