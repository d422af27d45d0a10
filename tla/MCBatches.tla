----------------------------- MODULE MCBatches -----------------------------
(* Small instances of Batches for TLC. *)
EXTENDS Batches

CONSTANTS b1, b2, e1, e2

Attempts == Batch \X ExtId \X (1..4)

Any      == {<< >>, <<e1>>, <<e1, e2>>, <<e1, e1>>}
Pair     == {<<e1, e2>>}
Shared   == {<<e1>>, <<e1, e2>>}
=============================================================================
