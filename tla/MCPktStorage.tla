---------------------------- MODULE MCPktStorage ----------------------------
EXTENDS PktStorage, TLC
CONSTANTS p1, p2, p3
MCPkts == {p1, p2, p3}
MCTwoPkts == {p1, p2}
PktSymmetry == Permutations(Pkts)
=============================================================================
