\* Three connections: two songs and a stop, or a text between them, or three songs at
\* once.  The info of a song, and the error text, fit in the send buffer; the list and
\* a song do not.
SPECIFICATION JukeboxSpec
CONSTANTS
  Clients = {1, 2, 3}
  Commands = {"list", "info", "play", "play_invalid", "stop"}
  MaxRequests = 3
  ListLen = 3
  InfoLen = 1
  SongLen = 2
  ChunkSize = 2
  Room = 2
  MayHangUp = TRUE
  MayPart = FALSE
INVARIANTS
  JukeboxTypeOK
  OrphanedByReplay
  PrintsWholeText
  EndedByLongAnswer
PROPERTIES
  CommandReturns
  StoppedSongEnds
