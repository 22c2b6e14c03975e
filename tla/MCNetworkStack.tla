--------------------------- MODULE MCNetworkStack ---------------------------
(* Batches that the mux merges, leaves behind or takes over its limit, and    *)
(* that the demux takes whole or in two parts, equal or not.                   *)
EXTENDS NetworkStack

MCEval == [x \in Inputs |-> x + 10]
MCBatches == {<<1>>, <<2, 3>>, <<3, 2, 1, 2>>}
MCMerged == Batches \cup {a \o b : a, b \in Batches}
=============================================================================
