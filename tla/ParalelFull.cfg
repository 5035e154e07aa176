\* As many SPEs as streams, as the program takes for granted; fewer, and more.
\* Thumbnails of two lines of two bytes, in two rows of two.
CONSTANTS
  NUM_IMAGES_WIDTH = 2
  NUM_IMAGES_HEIGHT = 2
  SCALE_FACTOR = 2
  NUM_CHANNELS = 1
  NumFrames = 3
  Width = 4
  Height = 4
  HeaderSize = 2
  UsableSPEs = {0, 3, 6}
  InMboxDepth = 2
SPECIFICATION BothSpec
INVARIANTS
  ParalelTypeOK
  ReadWhole
  BeginNeverDropped
  SPUsInsideFrame
  OnlyLastTorn
  EventsOwed
PROPERTY
  WritesPreview
