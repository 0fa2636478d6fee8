----------------------------- MODULE MCConsole -----------------------------
(* Two slots for operations, for TLC.                                      *)
EXTENDS Console

CONSTANTS t1, t2
=============================================================================
