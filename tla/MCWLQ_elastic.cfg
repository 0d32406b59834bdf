SPECIFICATION Spec
CONSTANTS
  NUM_WORKER_THREADS = 2
  NW_WLQ = 1
  wp = 2
  sp = 1
  MaxPane = 2
  MaxWindow = 2
  MaxParts = 2
  Totals <- OneSplit
  MaxReconf = 2
  SizeT = 16
INVARIANTS ExclusiveUpdate ReadyWorkers PendingTasks DescriptorsExist PartitionsOnce FinalizedComplete EOSIsLast FrozenHasNoTask NoUseAfterFree
PROPERTY RefinesOrdered
CHECK_DEADLOCK FALSE
