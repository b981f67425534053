SPECIFICATION ReadingSpec
CONSTANTS
  Clients = {c1}
  Commands = {"list"}
  MaxRequests = 1
  ListLen = 6
  InfoLen = 2
  SongLen = 2
  ChunkSize = 2
  Room = 2
  MayHangUp = FALSE
  MayPart = FALSE
PROPERTIES
  ListArrives
