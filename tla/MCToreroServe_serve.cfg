\* Three connections fill a buffer of two and leave one in the main thread's
\* hand; two workers race for them.
SPECIFICATION FairSpec
CONSTANTS
  Capacity = 2
  Workers = {w1, w2}
  Main = main
  NumClients = 3
  Requests = {"file", "listing", "opaque", "too_long"}
  MaxMishaps = 1
INVARIANTS
  TypeOK
  NoLostWakeup
  EachConnectionOnce
  OneWholeAnswer
  CrashHasACause
PROPERTIES
  ImplementsWorkerPool
  BufferedIsServed
