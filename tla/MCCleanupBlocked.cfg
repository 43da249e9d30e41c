SPECIFICATION FairSpec
CONSTANTS
  Magnets = {m1}
  MaxBatches = 1
  MaxStops = 0
  NoBatch = NoBatch
PROPERTIES
  ExpiredIsRemoved
CHECK_DEADLOCK FALSE
