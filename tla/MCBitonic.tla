------------------------------ MODULE MCBitonic ------------------------------
(* Small instances of Bitonic.                                                 *)
EXTENDS Bitonic, TLC

\* By the 0-1 principle a schedule of comparators that sorts every array of
\* zeros and ones sorts every array: which tasks run does not depend on data.
ZeroOneArrays == [Indices -> {0, 1}]

==============================================================================
