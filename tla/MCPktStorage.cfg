CONSTANTS
  MAX_PKTS = 4
  p1 = p1
  p2 = p2
  p3 = p3
  Pkts <- MCTwoPkts
  MAX_WORDS = 5
  NoPkt = NoPkt
  MAX_STALL = 4
  CUT_THROUGH = {TRUE, FALSE}
  LEAD = 3
  MAX_PAUSE = 1
  EARLY_TRAFFIC = FALSE
SPECIFICATION FairSpec
INVARIANTS FreeOrTaken NoSegmentLeaks MetaSlotsExact DeliveredIntact
PROPERTIES ArrivesEntirely
