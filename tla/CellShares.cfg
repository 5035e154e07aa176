\* Three SPUs with a share of two images each and mailboxes of one entry, so
\* that the PPU blocks on a full mailbox as it does with one SPU and sixteen
\* streams.
CONSTANTS
  NumStreams = 6
  num_spu_threads = 3
  NumFrames = 2
  InMboxDepth = 1
SPECIFICATION CellSpec
INVARIANTS
  CellTypeOK
  SharesKept
  ImagesAlive
  FrameQuiescent
PROPERTIES
  WritesPreview
