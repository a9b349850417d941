SPECIFICATION FairSpec
CONSTANTS
  Failures = {"store"}
  Inputs = {"bp"}
  Requests = {q1}
  Workers = {w1, w2, w3}
  None = None
  MaxHandoffs = 2
  MaxRequests = 3
  MaxCrashes = 1
INVARIANTS
  OneWaiter
  OneRunnerByFloor
  NoBuildOnOpenHandoff
  AnswersItsHandoff
PROPERTIES
  HandoffIsAnswered
CHECK_DEADLOCK FALSE
