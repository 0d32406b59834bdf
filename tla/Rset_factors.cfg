SPECIFICATION Spec
CONSTANTS
  DIM = 2
  Coordinate = {0, 1}
  Partitions = {p1, p2}
  Gathered = {w}
  MaxTuples = 3
  Queries = {"topd"}
INVARIANT FactorsExact
CHECK_DEADLOCK FALSE
