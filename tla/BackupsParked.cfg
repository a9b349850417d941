SPECIFICATION Spec
CONSTANTS
  Ids = {i1, i2}
  Jobs = {night}
  Nightly = night
  Keep = 2
  MaxStarts = 2
  MaxExtra = 0
  MaxFailures = 0
  MaxCrashes = 1
PROPERTIES
  ParkedIsAlwaysReclaimed
CHECK_DEADLOCK FALSE
