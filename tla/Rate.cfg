SPECIFICATION RateSpec
CONSTANTS
  Keys = {login, other, llm}
  Auth = {login, other}
  MaxAttempts <- MCLimit
  Window <- MCWindow
  MaxKeys = 2
  MaxTime = 6
  MaxRestarts = 1
INVARIANTS
  WindowBounded
  RefusedHasSpent
CHECK_DEADLOCK FALSE
