SPECIFICATION SelectSpec
CONSTANTS
  Requests = {r1, r2, r3}
  Pair = {r1, r2}
  Ids = {"a"}
  Nobody = Nobody
  Scripts <- MCScripts
  Parts = {"script", "fixtures", "polls", "generator", "profile"}
  FixtureSets <- MCFixtureSets
  Selectors <- MCSelectors
  MaxSwaps = 1
  Surfaces = {"fine", "bad section", "bad code", "bad signature"}
  MaxResultBytes = 2
  MaxChunks = 1
  Results <- MCResults
  Listeners = {l1, l2}
  Delays <- SmallDelays
  Templates = {"fixed", "broken"}
  Width = 8
  Tick = 4
  MaxRequests = 3
  MaxPauses = 2
  MaxPuts = 4
SYMMETRY Symmetry
CHECK_DEADLOCK FALSE
INVARIANT OwnAnswer
INVARIANT SelectionIsRight
INVARIANT OneGeneration
INVARIANT GeneratesCleanly
INVARIANT SequenceHolds
PROPERTY ImplementsScript
