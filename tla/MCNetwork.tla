------------------------------ MODULE MCNetwork ------------------------------
(* A pool of four packets, a bulk of two, every second packet spoilt; runs    *)
(* that ask for fewer packets than the pool has, for as many and for more.    *)
(* The pipeline's queues are as short as its third argument may make them     *)
(* without the pool outgrowing all four.  RaftLib's streams are longer or      *)
(* shorter than the pool.                                                     *)
EXTENDS Network

Firewall(numPackets, caf) ==
  [app |-> "firewall", numPackets |-> numPackets, capacity |-> 8, caf |-> caf,
   stage1 |-> 1, stage2 |-> 1]
Pipeline(numPackets, capacity, stage1, stage2) ==
  [app |-> "pipeline", numPackets |-> numPackets, capacity |-> capacity, caf |-> FALSE,
   stage1 |-> stage1, stage2 |-> stage2]

Raftlib(app, numPackets, capacity, stage1, stage2) ==
  [app |-> app, numPackets |-> numPackets, capacity |-> capacity, caf |-> FALSE,
   stage1 |-> stage1, stage2 |-> stage2]

SmallSetups == {Raftlib("rl_firewall", 6, 2, 1, 1), Raftlib("rl_firewall", 5, 4, 2, 1),
                Raftlib("rl_pipeline", 5, 1, 2, 2), Raftlib("rl_ember", 3, 2, 3, 1),
                Raftlib("rl_ember", 4, 2, 1, 3), Raftlib("rl_fir", 6, 2, 1, 1),
                Firewall(1, FALSE), Firewall(4, FALSE), Firewall(6, FALSE),
                Pipeline(5, 1, 2, 1), Pipeline(5, 1, 1, 2), Pipeline(2, 4, 1, 1)}
=============================================================================
