SPECIFICATION FairSpec
CONSTANTS
  NumChunks = 2
  LastChunkEmpty = FALSE
  Cap = 2
  Reordering = FALSE
  Lossy = TRUE
PROPERTIES
  HandshakeCompletes
