SPECIFICATION Spec
CONSTANTS
  Requests = {r1, r2, r3}
  MaxObjects = 3
  MaxFailures = 1
  MaxCrashes = 1
INVARIANTS
  UnownedIsGone
  AnsweredIsKept
  BusyIsProcessing
SYMMETRY Interchangeable
CHECK_DEADLOCK FALSE
