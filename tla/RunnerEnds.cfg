SPECIFICATION FairSpec
CONSTANTS
  Failures = {f1, f2, f3}
  Inputs = {light, pilot}
  Climbing = {pilot}
  Declared = {}
  GateBudget = 1
  Ceiling = 2
  Suites = {"code"}
  Attached = FALSE
  Armed = TRUE
  Links = {}
  CollectAll = {TRUE, FALSE}
  MaxStarts = 1
  MaxCrashes = 0
  f1 = f1
  f2 = f2
  f3 = f3
  light = light
  pilot = pilot
INVARIANTS
  HeardBeforeStop
  ReworkBounded
PROPERTIES
  RunEnds
CHECK_DEADLOCK FALSE
