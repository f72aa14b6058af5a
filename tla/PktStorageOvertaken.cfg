CONSTANTS
  MAX_PKTS = 4
  p1 = p1
  p2 = p2
  p3 = p3
  Pkts <- MCTwoPkts
  MAX_WORDS = 4
  NoPkt = NoPkt
  MAX_STALL = 1
  CUT_THROUGH = {TRUE}
  LEAD = 3
  MAX_PAUSE = 2
  EARLY_TRAFFIC = FALSE
SPECIFICATION Spec
SYMMETRY PktSymmetry
INVARIANTS DeliveredIntact
