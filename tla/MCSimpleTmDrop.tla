--------------------------- MODULE MCSimpleTmDrop ---------------------------
EXTENDS SimpleTmDrop, TLC
CONSTANTS p1, p2, p3
MCPkts == {p1, p2, p3}
PktSymmetry == Permutations(Pkts)
=============================================================================
