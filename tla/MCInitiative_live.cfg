SPECIFICATION MCFairSpec
CONSTANTS
  p1 = p1
  first = first
  moved = moved
  Gone = Gone
  Unset = Unset
  Workers <- OneWorker
  Watches <- TwoWatches
  States <- TwoStates
  Deadline <- Deadlines
  Day = 2
  RunAt = 1
  Cap = 1
  ScopeCap = 1
  Attempts = 2
  Horizon = 3
  Quiet = 1
  MaxMoves = 2
CHECK_DEADLOCK FALSE
PROPERTIES EverySituationAnswered
