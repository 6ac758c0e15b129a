SPECIFICATION HSpec
CONSTANTS
  Clients = {g1, g2}
  MaxCallID = 3
  HandlersPanic = TRUE
  MaxClears = 2
  Names = {"n1", "n2"}
  Ports = {p1, p2}
  Profiles = {q1, q2}
  Calls = {c1, c2}
  AnyPort = any
  MaxGenerations = 3
  MaxNumber = 2
SYMMETRY Symmetry
CHECK_DEADLOCK FALSE
INVARIANT UniqueIDs
INVARIANT LosesOnlySlowCalls
INVARIANT NumbersUnique
INVARIANT NoCarryover
PROPERTY ImplementsLedger
