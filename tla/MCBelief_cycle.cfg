SPECIFICATION MCSpec
CONSTANTS
  s1 = s1
  s2 = s2
  p1 = p1
  p2 = p2
  p3 = p3
  k1 = k1
  told = told
  elsewhere = elsewhere
  drawn = drawn
  echo = echo
  Changes = {1}
  Beliefs <- FourBeliefs
  Direct <- ToldBeliefs
  Inputs <- InputsOf
  Unadmitted = {elsewhere}
  Touched <- TouchedBeliefs
  Asks = {1}
  Erasures = {told}
  MaxAttempts = 2
  Absent = Absent
  None = None
  Propositions <- Three
  Claims <- OneClaim
  Slot <- SharedSlot
  Transactions <- All
  Edges <- EdgesOf
  Verdicts <- VerdictsOf
  Derives <- DerivesOf
  Suppresses <- SuppressesOf
  Allowed <- Permitted
  Sessions <- TwoSessions
  Subjects = {"governor"}
  Frames <- FiveFrames
  Existing <- OneFrame
  Slots <- FourSlots
  Values = {va, vb}
  Statements = {c1, c2}
  Writers = {w1}
  Assessable = {"ACCEPTED"}
INVARIANTS SupportAcyclic
