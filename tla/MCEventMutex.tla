---------------------------- MODULE MCEventMutex ----------------------------
(* Small instances of EventMutex.  A system whose threads have all done        *)
(* their rounds stops.                                                         *)
EXTENDS EventMutex
=============================================================================
