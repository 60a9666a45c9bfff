SPECIFICATION Spec
CONSTANTS
  Tensors <- MCTensors
  Needed <- MCNeeded
  Scalars = {"gate"}
  Widths = {8, 4}
  DModel = 8
  Chunk = 2
  Unit = 4
  HdrSize = 4
  RecSize = 8
  MaxRecs = 6
  PartSize = 150
  Word = 256
  Wide = 65536
INVARIANTS
  Laid
  WholeImage
  UpIsSound
