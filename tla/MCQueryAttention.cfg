SPECIFICATION QuerySpec
CONSTANTS
  Layers = 2
  KvHeads = 2
  Heads = 4
  HeadDim = 1
  MaxEnc = 4
  MaxGen = 3
  SpAlign = 2
  CapAlign = 2
  MaxQueries = 2
INVARIANTS
  AttentionIsOwn
  CrossReadsBack
  SelfReadsBack
