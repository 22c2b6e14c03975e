--------------------------- MODULE MCVirtualLoss ---------------------------
EXTENDS VirtualLoss, TLC

\* Two replies of the root that transpose into the same position.
DiamondEdges ==
    "root" :> <<"a", "b">> @@ "a" :> <<"x">> @@ "b" :> <<"x">> @@ "x" :> <<>>

WorkerSymmetry == Permutations(Workers)
=============================================================================
