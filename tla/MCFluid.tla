------------------------------ MODULE MCFluid ------------------------------
(* Four cells in a row, two threads, four particles, two frames.            *)
EXTENDS Fluid

Row(xs) == [p \in DOMAIN xs |-> <<xs[p], 0, 0>>]
RowStarts == {Row(<<1, 1, 1, 3>>)}
RowMoves == {<<-1, 0, 0>>, <<0, 0, 0>>, <<1, 0, 0>>}
=============================================================================
