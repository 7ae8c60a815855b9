SPECIFICATION MCFairSpec
CONSTANTS
  w1 = w1
  w2 = w2
  None = None
  Jobs <- TwoJobs
  Workers <- TwoWorkers
  Handles <- SplitKinds
  Steady <- OneWorkerSteady
  MaxAttempts = 2
  MaxRetries = 1
INVARIANTS TypeOK LeaseFencesAttempts OneHandlerPerClaim BuriedOnlyWhenSpent
PROPERTIES KeepsPromise EverySteadyJobSettles
