\* Two tasks, four nodes of one element each, queues and semaphores of size 1.
CONSTANTS
  t1 = t1
  t2 = t2
  Main = Main
  None = None
  Tasks = {t1, t2}
  GridSize = 2
  BlockSize = 1
  MaxPending = 1
  Nodes <- MCNodes
  Threads <- MCThreads
  TaskSpec <- MCTaskSpec
SPECIFICATION FairSpec
INVARIANTS
  TypeOK
  DataRight
  Conservation
  NoReport
  BlocksRight
  ShutdownClean
  NobodyStuck
PROPERTY
  KeepsPromise
  EveryStepCounts
