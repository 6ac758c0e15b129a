SPECIFICATION USpec
CONSTANTS
  Callbacks = {c1, c2}
  MaxLines = 2
  Nothing = Nothing
  r1 = r1
  r2 = r2
  Requests = {r1, r2}
  Addresses <- MCAddresses
CHECK_DEADLOCK FALSE
INVARIANT StallReported
INVARIANT PolicyHolds
PROPERTY ImplementsContent
PROPERTY StalledCallReturns
