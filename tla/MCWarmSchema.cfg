SPECIFICATION Spec
CONSTANTS
  all6 = all6
  other6 = other6
  pair = pair
  ask1 = ask1
  ask2 = ask2
  askOther = askOther
  askPair = askPair
  plain = plain
  o1 = o1
  o2 = o2
  None = None
  Prompts <- MCPrompts
  Schemas <- MCSchemas
  NQ <- MCNQ
  Schema <- MCSchema
  NS <- MCNS
  Objs <- MCObjs
  MinNS = 2
  F = 2
  EncLayers = 3
  MaxRows = 4
INVARIANTS
  AttendsOwnLayer
  FullDepth
  OnePromptApart
  SelfWarmIsExact
  SlotComplete
  NoLeak
PROPERTIES
  SlotImmutable
