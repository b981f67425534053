\* Three chunks show both bits twice: a late segment of chunk 1 carries the bit
\* of chunk 3.  A direction holds an original, a duplicate and one more.
SPECIFICATION FairSpec
CONSTANTS
  NumChunks = 3
  LastChunkEmpty = FALSE
  Cap = 3
  Reordering = FALSE
  Lossy = TRUE
INVARIANTS
  TypeOK
  IInv
  OutputIsPrefix
  SendReturnsAfterDelivery
  CompleteAtTheEnd
  CloseIsAnswered
PROPERTIES
  AcceptsTheOutstandingChunk
  ImplementsFileTransfer
  EstablishedCompletes
