SPECIFICATION PartSpec
CONSTANTS
  Parts = {"args"}
  c1 = c1
  c2 = c2
  t1 = t1
  Calls = {c1, c2, c3}
  Tools = {t1}
  ToolOf <- MCToolOf
  MaxConcurrent = 1
  MaxWork = 1
  MaxWholeChecks = 1
  MaxWarned = 1
  Documents <- OneOfDocuments
  Instances = {}
  Names <- MCNames
  MaxVerifyDepth = 14
  MaxVerifyNodes = 600
  MaxFanOut = 3
  MaxDepth = 8
  MaxRecursion = 2
  MaxAbsNumber = 100
  MaxLeafCandidates = 8
  MaxBranchCandidates = 3
  MaxAttempts = 4
  MaxSimpleHops = 3
  MaxArrayItems = 4
  MaxListed = 2
  MaxOutput = 16
  MaxSimpleKeys = 2
  MaxSimpleWork = 20
CHECK_DEADLOCK FALSE
INVARIANT VerifiedIsValid
