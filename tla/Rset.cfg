SPECIFICATION Spec
CONSTANTS
  DIM = 3
  Coordinate = {0, 1}
  Partitions = {p1, p2}
  Gathered = {w}
  MaxTuples = 4
  Queries = {"skyline", "topd"}
INVARIANTS SkylineExact FactorsBounded
CHECK_DEADLOCK FALSE
