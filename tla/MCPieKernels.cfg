SPECIFICATION Spec
CONSTANTS
  L = 2
  RU = 2
  DU = 2
  N = 4
  MaxCh = 3
  MaxRows = 2
  Fill <- MCFill
INVARIANTS
  Exact
  LoadsInBounds
