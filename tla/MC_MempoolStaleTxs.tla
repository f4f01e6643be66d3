------------------------- MODULE MC_MempoolStaleTxs -------------------------
(* Instantiation of MempoolStaleTxs for TLC: two transactions, two         *)
(* concurrent streams, batches of one so that a stream has several.        *)
EXTENDS MempoolStaleTxs, TLC

CONSTANTS x1, x2, w1, w2

MCTxIds == {x1, x2}
MCWorkers == {w1, w2}

\* Streams are interchangeable; the records are not (SetToSeq chooses an order).
WorkerSymmetry == Permutations(MCWorkers)
=============================================================================
