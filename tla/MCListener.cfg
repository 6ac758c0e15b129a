SPECIFICATION KindSpec
CONSTANTS
  Calls = {c1, c2}
  Managed = FALSE
  MaxCallID = 2
  MaxRuns = 2
  MaxFaults = 1
INVARIANT NoLateUse
INVARIANT GracefulKeepsAll
INVARIANT FewAreLost
PROPERTY StopEnds
