SPECIFICATION Spec
CONSTANTS
  Failures = {f1}
  Inputs = {light, pilot}
  Climbing = {pilot}
  Declared = {}
  GateBudget = 1
  Ceiling = 1
  Suites = {"code", "pilot"}
  Attached = TRUE
  Armed = TRUE
  Links = {"fresh"}
  CollectAll = {FALSE}
  MaxStarts = 2
  MaxCrashes = 1
  f1 = f1
  light = light
  pilot = pilot
INVARIANTS
  StandingIsJudged
  SuccessIsEarned
  PhasesStandOnJudgedWork
PROPERTIES
  KeepsPromise
  ResumeContinues
  HandoffIsNotRerun
CHECK_DEADLOCK FALSE
