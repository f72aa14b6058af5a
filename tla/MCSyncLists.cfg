SPECIFICATION Spec
CONSTANTS
  SIZE = 12
  POS_INF = 1000
  IMPLS = {"det", "node", "bram"}
  VALUES <- Values
  MAX_ENTRIES <- MaxEntries
INVARIANT NodesSound
PROPERTY ImplementsPifo
CHECK_DEADLOCK FALSE
