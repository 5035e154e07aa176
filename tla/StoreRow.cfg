\* The last thumbnail of the first row and the first two of the second, two
\* lines each; lines of 20 bytes, the shortest there are.
CONSTANTS
  x = 1
  SPUs = {3, 4, 5}
  Chunks = 2
SPECIFICATION LineSpec
INVARIANTS
  PutsLegal
  LinesStored
