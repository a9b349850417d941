SPECIFICATION Spec
CONSTANTS
  Requests = {r1, r2}
  Nobody = Nobody
  MaxRuns = 3
  MaxBreaks = 2
INVARIANTS
  StagedIsGated
  WorkIsApproved
  MidwayOnlyByABreak
PROPERTY
  DecisionStands
CHECK_DEADLOCK FALSE
