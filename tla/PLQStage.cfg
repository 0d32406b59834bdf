SPECIFICATION FairSpec
CONSTANTS
  NUM_WORKER_THREADS = 2
  NW_PLQ = 2
  PaneLength = 1
  Builds = {FALSE, TRUE}
  MaxTs = 2
  MaxTuples = 3
  MaxReconf = 2
  Strategies = {"PB_RR", "TB_RR", "ADAPTIVE"}
  WarmupPanes = 0
INVARIANTS PaneComplete NothingAfterPunct ClosedIsSent FrozenIsEmpty NewInstFindsPane ActiveHolds
PROPERTIES RefinesPartitions EventuallyDelivered
