SPECIFICATION Spec
CONSTANTS
  Platforms = {p1, p2}
  Requests = {q1, q2}
  Builders = {w1, w2}
  None = None
  Limit = 1
  MaxAsked = 3
  MaxEvents = 2
  MaxCrashes = 1
INVARIANTS
  OverdraftBounded
  DeliveredIsPaid
  FailureFindsItsMarker
  RedeliveryIsSafe
SYMMETRY Interchangeable
CHECK_DEADLOCK FALSE
