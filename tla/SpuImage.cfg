\* The four modes, the DMA list as long as in the code: images of seventeen
\* lines are two whole batches of the list and one line more.
CONSTANTS
  Images = 2
  Lines = 17
  NUM_LIST_ELEMS = 4
  Modes = {"simple", "2lines", "double", "dmalist"}
SPECIFICATION ImageSpec
INVARIANTS
  ImageTypeOK
  NoDataRace
  OthersStored
PROPERTY
  AllTransferred
