CONSTANTS
  STORAGE_MAX_PKTS = 12
  NUM_QUEUES = 2
  MAX_PKT_SIZE = 4
  PIFO_DEPTH = 2
  Q_SIZE_BITS = 3
  MAX_PAUSE = 1
  p1 = p1
  p2 = p2
  p3 = p3
  Pkts <- MCPkts
  NoPkt = NoPkt
SPECIFICATION Spec
SYMMETRY PktSymmetry
INVARIANTS QueueSizeExact NoWordLost PointersWithFirstWord NoPacketForgotten StorageClient
PROPERTIES RemovesApart
