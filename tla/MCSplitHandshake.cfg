SPECIFICATION FairSpec
CONSTANTS
  console = console
  httpd = httpd
  gemv = gemv
  gemm = gemm
  norm = norm
  tiny = tiny
  None = None
  NoJob = NoJob
  Main = console
  Tasks <- MCTasks
  Jobs <- MCJobs
  Kind <- MCKind
  NRows <- MCNRows
  MaxRows = 3
  MinSplit = 2
INVARIANTS
  TypeOK
  WholeRange
  ClosedBetweenCalls
  WorkerOnCurrentJob
  DisjointHalves
  OneCaller
PROPERTIES
  CallsReturn
  ImplementsParallelFor
