\* Two lines suffice: the put of the first is the one nobody waits for.
CONSTANTS
  Images = 1
  Lines = 2
  NUM_LIST_ELEMS = 1
  Modes = {"double"}
SPECIFICATION ImageSpec
INVARIANT
  DoneMeansStored
