CONSTANTS
  MAX_PKTS = 4
  p1 = p1
  p2 = p2
  p3 = p3
  Pkts <- MCTwoPkts
  MAX_WORDS = 3
  NoPkt = NoPkt
  MAX_STALL = 6
  CUT_THROUGH = {FALSE}
  LEAD = 0
  MAX_PAUSE = 0
  EARLY_TRAFFIC = FALSE
SPECIFICATION Spec
SYMMETRY PktSymmetry
INVARIANTS DeliveredIntact
