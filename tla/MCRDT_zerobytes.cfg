SPECIFICATION FairSpec
CONSTANTS
  NumChunks = 2
  LastChunkEmpty = TRUE
  Cap = 3
  Reordering = FALSE
  Lossy = FALSE
PROPERTIES
  SenderFollows
