SPECIFICATION Spec
CONSTANTS
  Failures = {"store"}
  Inputs = {"bp"}
  Requests = {q1, q2}
  Workers = {w1, w2, w3}
  None = None
  MaxHandoffs = 2
  MaxRequests = 3
  MaxCrashes = 0
INVARIANTS
  SingleFlight
CHECK_DEADLOCK FALSE
