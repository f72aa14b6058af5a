SPECIFICATION Spec
CONSTANTS
  SIZE = 18
  POS_INF = 1000
  MAX_SEGMENTS = 18
  MAX_PKTS = 18
  SETUPS <- Early
INVARIANT NodesToItself
CHECK_DEADLOCK FALSE
