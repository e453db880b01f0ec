SPECIFICATION FairSpec
CONSTANTS
  main = main
  a = a
  b = b
  c = c
  None = None
  Main = main
  Plan <- TwoPlans
  Trees <- TreesOfTwo
  NumWorkers = 1
  QueueCaps = {2}
PROPERTIES
  Returns
CHECK_DEADLOCK FALSE
