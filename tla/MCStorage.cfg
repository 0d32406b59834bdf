SPECIFICATION Spec
CONSTANTS
  Capacity = 2
  Data <- MCData
  MaxBlocks = 3
  WriteThroughs = {TRUE, FALSE}
INVARIANTS BlocksAccounted BufferCoherent
PROPERTY RefinesPageStore
