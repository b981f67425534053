SPECIFICATION Spec
CONSTANTS
  Clients = {c1}
  Commands = {"play"}
  MaxRequests = 1
  ListLen = 2
  InfoLen = 2
  SongLen = 9
  ChunkSize = 2
  Room = 3
  MayHangUp = FALSE
  MayPart = FALSE
INVARIANTS
  SongInOrder
