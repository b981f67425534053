\* The transfer ends after its last chunk; with a timer of 0 and a lost segment
\* it stops before.
SPECIFICATION Spec
CONSTANTS
  Samples = {0, 1, 12, 40}
  Chunks = 34
CHECK_DEADLOCK FALSE
INVARIANTS
  RttTypeOK
  TimerOutlastsShortFile
  EstimateFollows
