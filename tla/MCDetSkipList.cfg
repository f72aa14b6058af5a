CONSTANTS
  REG_WIDTH = 2
  MAX_RANK = 1
  Metas <- MCMetas
  NoEntry = NoEntry
  NUM_LVLS = 3
  MAX_SIZE = 16
  MAX_CONS_NODES = 3
  PrFillLevels <- MCPrFillLevels
  SEL_LATENCY = 2
SPECIFICATION Spec
INVARIANTS ListSound GapsBounded OneAtATime
PROPERTIES ImplementsPort
