SPECIFICATION MCSpec
CONSTANTS
  w1 = w1
  w2 = w2
  None = None
  Subjects = {"processing", "obligations", "commitments", "schedule"}
  Jobs <- OneSource
  Workers <- TwoWorkers
  Handles <- AllKinds
  Steady <- TwoWorkers
  MaxAttempts = 2
  MaxRetries = 1
  InFlight = TRUE
SYMMETRY Interchangeable
INVARIANTS TypesOK KeyedAndComplete ExactInTime NoWriteLost RowsAgreeWithMemory
PROPERTIES LedgerForward QueueUnderneath
