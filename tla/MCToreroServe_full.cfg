SPECIFICATION FairSpec
CONSTANTS
  Capacity = 1
  Workers = {w1}
  Main = main
  NumClients = 3
  Requests = {"file"}
  MaxMishaps = 0
PROPERTIES
  EveryoneIsServed
