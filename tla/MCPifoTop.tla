----------------------------- MODULE MCPifoTop -----------------------------
(* pifo_top.v for TLC: a register of two slots over one or two skip lists, *)
(* two ranks and enough packets to fill the register, the refill machine,  *)
(* the insertion machine and a skip list at once.                          *)
EXTENDS PifoTop, TLC

MetaSymmetry == Permutations(Metas)
=============================================================================
