-------------------------- MODULE MCStreamCluster --------------------------
(* Two chunks of three points on a line.                                    *)
EXTENDS StreamCluster

TwoChunks == {<<<<0, 1, 3>>, <<2, 2, 0>>>>}
=============================================================================
