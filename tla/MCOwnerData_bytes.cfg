SPECIFICATION MCSpec
CONSTANTS
  correct = correct
  assert = assert
  unsure = unsure
  old = old
  new = new
  None = None
  Requests <- AllRequests
  Kind <- KindOf
  Target <- TargetOf
  Controls <- Screens
  Proposing <- Governed
  Values <- AllValues
  Sessions = {x1, x2}
  Feeds <- Both
  Limit = 1
  MaxClock = 4
  Two = {x1, x2}
  Three = {y1, y2, y3}
  Uploads = {y1, y2, y3}
  Keys = {x1, x2}
  Contents = {old, new}
  MaxFailures = 1
  Calls = {y1, y2, y3}
  Asked = {x1, x2}
  Questions = {1, 2}
  Eyes <- Visible
  Effects = {"confirm", "keep"}
  Visits = {x1, x2}
  MaxPieces <- OnceMore
  Day = 1
  Window = 2
  Cap = 1
  Horizon = 2
  MaxCards = 3
  MaxVisits = 4
  Null = Null
  Subjects = {"erasure"}
SYMMETRY Interchangeable
CHECK_DEADLOCK FALSE
INVARIANTS EveryLiveRowHasItsBytes
