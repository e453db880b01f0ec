SPECIFICATION Spec
CONSTANTS
  main = main
  a = a
  b = b
  c = c
  None = None
  Main = main
  Plan <- ThreePlans
  Trees <- ChainAndGroup
  NumWorkers = 3
  QueueCaps = {3}
INVARIANTS
  CompleteOnReturn
