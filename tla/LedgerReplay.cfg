SPECIFICATION Spec
CONSTANTS
  Failures = {f1}
  Inputs = {h1, h2}
  Roles = {"WRITER", "TESTER"}
  MaxEvents = 4
  f1 = f1
  h1 = h1
  h2 = h2
INVARIANTS
  CompletedIsTheLastAttempt
  VerdictIsTheLastWord
  BudgetIsCountedSinceReset
  RunStatusIsTheLastMarker
CHECK_DEADLOCK FALSE
