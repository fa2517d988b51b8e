-------------------------- MODULE MCTicketSpinlock --------------------------
(* TicketSpinlock with a field so narrow that every ticket is in use when    *)
(* all threads wait, and wraps around many times.                            *)
EXTENDS TicketSpinlock
=============================================================================
