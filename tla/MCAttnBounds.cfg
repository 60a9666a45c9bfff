SPECIFICATION AttnSpec
CONSTANTS
  HeadDim = 3
  AQ = 2
  PQ = 3
  MaxS = 6
  Limit = 13
  MaxIn = 3
  MaxSum = 6
INVARIANTS
  FitsInt32
  UnitSum
