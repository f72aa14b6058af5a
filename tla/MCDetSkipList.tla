--------------------------- MODULE MCDetSkipList ---------------------------
EXTENDS DetSkipList, TLC
(* The thresholds of the code, no higher than a register of two slots. *)
MCPrFillLevels == [i \in 0 .. 4 |-> IF i < REG_WIDTH THEN i ELSE REG_WIDTH]
MCMetas == 1 .. 7
=============================================================================
