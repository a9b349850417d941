SPECIFICATION Spec
CONSTANTS
  Ids = {i1, i2}
  Jobs = {night, ops}
  Nightly = night
  Keep = 2
  MaxStarts = 3
  MaxExtra = 1
  MaxFailures = 1
  MaxCrashes = 1
INVARIANTS
  GoodOutlivesTorn
PROPERTIES
  ParkedIsReclaimed
  EventuallyBacked
CHECK_DEADLOCK FALSE
