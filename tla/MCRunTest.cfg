\* Three runs of the test: the timer meets each of them.  Files with numbers of
\* nodes that are no squares, and with blocks too small for a task; random tests
\* of the smallest grid, with and without a task more than it has nodes.
CONSTANTS
  Times = 3
  None = None
  Text = Text
  FileValues <- MCFileValues
  RandomSides = {2}
  RandomBlocks = {3}
  RandomExtra = {0, 1}
SPECIFICATION RunSpec
INVARIANTS
  RunTypeOK
  TasksFit
  EachNodeHasATask
  OneResult
  FinishedIsFinal
PROPERTY
  AlwaysEnds
