------------------------------- MODULE MCHmr -------------------------------
(* Small instances of Hmr.  The system stops when every thread has returned,   *)
(* or when a decrement of ready was lost.                                      *)
EXTENDS Hmr
=============================================================================
