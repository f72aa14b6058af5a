SPECIFICATION Spec
CONSTANTS
  REG_WIDTH = 4
  L2_REG_WIDTH = 2
  MAX_RANK = 2
  Metas = {m1, m2, m3, m4, m5, m6}
  NoEntry = NoEntry
SYMMETRY MetaSymmetry
INVARIANTS TypeOK FullExact LatchSafe ValidMeansEntry NeverStuck TreesFindExtremes
PROPERTY ImplementsPifo
