\* Two datastores, two threads that may be any node's, one pending request.
CONSTANTS
  Nodes = {n1, n2}
  Threads = {a, b}
  MaxPending = 1
  None = None
SPECIFICATION StoreSpec
INVARIANTS
  SemaphoreExact
  StrayAccessReported
  SilenceMeansClean

