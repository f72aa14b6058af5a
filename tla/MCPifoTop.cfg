SPECIFICATION FairSpec
CONSTANTS
  REG_WIDTH = 2
  MAX_RANK = 1
  Metas = {m1, m2, m3}
  NoEntry = NoEntry
  NUM_SKIP_LISTS = 1
  SL_SIZE = 2
INVARIANTS RegisterSafe NeverSearching LossOnlyByMisfiling
PROPERTIES RefillNotStarved InsertNotStarved
