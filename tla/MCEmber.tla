------------------------------ MODULE MCEmber ------------------------------
(* A small grid for TLC.  VL sends a message as blocks, with the block loop   *)
(* outside of a sweep or halo round; Boost sends single doubles into a queue  *)
(* that grows; CAF and ZeroMQ send whole messages.  With blocks, one          *)
(* iteration is several rounds.                                               *)
EXTENDS Ember

Build(pattern, blocks, outside, capacity) ==
  [pattern |-> pattern, blocks |-> blocks, outside |-> outside, capacity |-> capacity]

VL(pattern, blocks) == Build(pattern, blocks, TRUE, 4)
Boost(pattern)      == Build(pattern, 2, FALSE, 100)
CAF(pattern)        == Build(pattern, 1, FALSE, 1)

SmallBuilds == {VL("sweep", 3), Boost("sweep"), CAF("sweep"),
                VL("halo", 2), CAF("halo"), CAF("incast"),
                Boost("outcast")}
=============================================================================
