SPECIFICATION SelectSpec
CONSTANTS
  Requests = {r1, r2, r3}
  Pair = {r1, r2}
  Ids = {"a"}
  Nobody = Nobody
  Scripts <- MCScripts
  Parts = {"profile"}
  FixtureSets <- MCFixtureSets
  Selectors <- MCSelectors
  MaxSwaps = 1
  Surfaces = {"fine", "bad section", "bad code", "bad signature"}
  MaxResultBytes = 2
  MaxChunks = 1
  Results <- MCResults
  Listeners = {l1, l2}
  Delays <- AllDelays
  Templates = {"fixed", "broken"}
  Width = 8
  Tick = 4
  MaxRequests = 3
  MaxPauses = 2
  MaxPuts = 4
CHECK_DEADLOCK FALSE
INVARIANT AnyPauseInRange
