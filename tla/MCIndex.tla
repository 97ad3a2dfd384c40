------------------------------ MODULE MCIndex ------------------------------
EXTENDS IndexDamage

LOCAL INSTANCE TLC

MCConfigs ==
    {[metric |-> "L2", normalize |-> FALSE, index |-> "Hnsw"],
     [metric |-> "Cosine", normalize |-> FALSE, index |-> "Flat"],
     [metric |-> "InnerProduct", normalize |-> FALSE, index |-> "Flat"],
     [metric |-> "L2", normalize |-> TRUE, index |-> "Flat"],
     [metric |-> "InnerProduct", normalize |-> TRUE, index |-> "Flat"]}
MCVals == {-1, 2}
MCQueries == {-2, 1}
MCSymmetry == Permutations(Ids)
=============================================================================
