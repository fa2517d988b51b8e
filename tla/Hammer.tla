------------------------------- MODULE Hammer -------------------------------
(***************************************************************************)
(* What the models of hmr(), of the event mutex and of the ticket spinlock *)
(* share: the threads that LockHammer (apps/lockhammer/lockhammer.c) starts, *)
(* and where each of them is.                                              *)
(***************************************************************************)
EXTENDS Integers

CONSTANT NThreads   \* args.nthrds

ASSUME HammerAssumption == NThreads \in Nat \ {0}

Threads == 1 .. NThreads

VARIABLE pc

Goto(t, label) == pc' = [pc EXCEPT ![t] = label]
=============================================================================
