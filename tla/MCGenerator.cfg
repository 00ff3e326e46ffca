SPECIFICATION Spec
CONSTANTS
  b1 = b1
  b2 = b2
  Type = {1, 2, 3}
  Template = {1, 2}
  Body = {b1, b2}
  Unrenderable = Unrenderable
  Plans <- MCPlans
  MaxRuns = 2
CHECK_DEADLOCK FALSE
INVARIANTS NothingLost RollbackTellsTruth
PROPERTY BackupsArchival
