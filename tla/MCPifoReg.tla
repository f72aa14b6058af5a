----------------------------- MODULE MCPifoReg -----------------------------
(* The register for TLC: four slots, three ranks, and enough packets to    *)
(* fill it, hold one back and push one out.                                *)
EXTENDS ComparatorTree, TLC

MetaSymmetry == Permutations(Metas)
=============================================================================
