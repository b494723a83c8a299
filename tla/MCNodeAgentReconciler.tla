------------------------ MODULE MCNodeAgentReconciler ------------------------
EXTENDS NodeAgentReconciler, TLC

CONSTANTS u1, gna, f1, b1, b2, d1

MCUnit == {u1, gna}
MCFile == {f1}
MCBody == {b1, b2}
MCData == {d1}

=============================================================================
