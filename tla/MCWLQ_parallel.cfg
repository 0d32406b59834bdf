SPECIFICATION FairSpec
CONSTANTS
  NUM_WORKER_THREADS = 3
  NW_WLQ = 3
  wp = 3
  sp = 2
  MaxPane = 3
  MaxWindow = 1
  MaxParts = 1
  Totals <- AnyTotals
  MaxReconf = 0
  SizeT = 16
PROPERTY EventuallyEnds
