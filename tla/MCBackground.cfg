SPECIFICATION MCSpec
CONSTANTS
  x1 = x1
  x2 = x2
  y1 = y1
  y2 = y2
  Gone = Gone
  None = None
  Sessions <- Two
  Pages = 2
  MaxPages = 2
  Unset = Unset
  Workers <- Two
  Watches = {1}
  States <- Others
  Deadline <- ThirdTick
  Day = 2
  RunAt = 1
  Cap = 1
  ScopeCap = 1
  Attempts = 2
  Horizon = 3
  Quiet = 1
  MaxMoves = 2
  Subjects = {"connector", "initiative"}
SYMMETRY Interchangeable
INVARIANTS TypesOK MailboxCovered RevokedBeforeRecorded ConsistentAlone AskedOnce BudgetApart
PROPERTIES DisconnectedForGood
