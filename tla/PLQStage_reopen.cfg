SPECIFICATION Spec
CONSTANTS
  NUM_WORKER_THREADS = 2
  NW_PLQ = 2
  PaneLength = 1
  Builds = {FALSE}
  MaxTs = 2
  MaxTuples = 3
  MaxReconf = 2
  Strategies = {"ADAPTIVE"}
  WarmupPanes = 0
INVARIANT FilledPaneComplete
