SPECIFICATION FairSpec
CONSTANTS
  Tests <- MCTests
  MaxProbe = 2
  None = None
INVARIANTS
  RowsIntact
PROPERTIES
  NetworkBetweenBursts
  NetworkRuns
