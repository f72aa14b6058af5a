SPECIFICATION FairSpec
CONSTANTS
  MAX_DEPTH = 6
  MAX_PKTS = 3
  MAX_PKT_WORDS = 3
  MAX_LEN = 8
  MAX_BP = 2
  NUM_IDS = 4
  TRIM_STALLS = FALSE
INVARIANTS FramesIntact PacingKept
PROPERTIES InputNotBlocked
