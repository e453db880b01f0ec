CONSTANTS
  conf = conf
  site = site
  index = index
  stale = stale
  v1 = v1
  v2 = v2
  Source <- MCSource
  Shape <- MCShape
  Before <- MCBefore
  Operations <- MCOperations
  DestName = destName
  Old = old
  TornData = tornData
  MaxRuns = 3

SPECIFICATION Spec

INVARIANTS
  TypeOK
  OldOrNew
  NothingLost
  Succeeded

