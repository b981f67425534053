\* Either each client asks once or one asks twice.  The answer to an unknown request fits
\* in the send buffer, a list or a song does not, and a chunk is neither: senders are
\* resumed, send parts of chunks, are replaced and dropped.
SPECIFICATION FairSpec
CONSTANTS
  Clients = {c1, c2}
  Commands = {"list", "unknown", "play", "stop"}
  MaxRequests = 2
  ListLen = 5
  InfoLen = 2
  SongLen = 5
  ChunkSize = 2
  Room = 3
  MayHangUp = TRUE
  MayPart = TRUE
INVARIANTS
  TypeOK
  SenderMatchesState
  TextInOrder
  AnswersInTurn
  SongOnlyMovesForward
  DownHasACause
PROPERTIES
  SmallAnswersArrive
