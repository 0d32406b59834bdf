SPECIFICATION FairSpec
CONSTANTS
  NUM_WORKER_THREADS = 3
  NUM_WORKER_CORES = 3
  NW_PLQ = 1
  NW_WLQ = 1
  Builds = {TRUE, FALSE}
  Variation = {500, 750, 1000, 1250, 1500}
  MaxPending = 2
INVARIANTS Applicable ViewsAgree
PROPERTIES StagesAreElastic ResourcesReturned StatisticsInOrder
