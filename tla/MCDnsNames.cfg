SPECIFICATION Spec
CONSTANTS
  Hostnames <- MCHostnames
  Buffers <- MCBuffers
  QueryIds = {7}
  QueryTypes = {1}
  MaxDepth = 6
INVARIANTS
  TypeOK
  NameArrives
  RecursionOnlyInCircles
PROPERTIES
  DecodingEnds
CHECK_DEADLOCK FALSE
