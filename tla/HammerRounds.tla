---------------------------- MODULE HammerRounds ----------------------------
(* The threads of Hammer, each of which acquires its lock a number of times. *)
EXTENDS Hammer

CONSTANT Rounds   \* args.nacqrs, the acquisitions per thread

ASSUME RoundsAssumption == Rounds \in Nat \ {0}
=============================================================================
