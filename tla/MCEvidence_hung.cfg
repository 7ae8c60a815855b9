SPECIFICATION MCFairSpec
CONSTANTS
  w1 = w1
  w2 = w2
  None = None
  Subjects = {"processing"}
  Jobs <- OneSource
  Workers <- TwoWorkers
  Handles <- AllKinds
  Steady <- OneWorkerSteady
  MaxAttempts = 2
  MaxRetries = 0
  InFlight = FALSE
PROPERTIES EverySteadyJobSettles
