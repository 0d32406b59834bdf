SPECIFICATION Spec
CONSTANTS
  NUM_WORKER_THREADS = 2
  NW_WLQ = 2
  wp = 2
  sp = 1
  MaxPane = 1
  MaxWindow = 1
  MaxParts = 1
  Totals <- AnyTotals
  MaxReconf = 0
  SizeT = 16
INVARIANT MergedAreFreed
