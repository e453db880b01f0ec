SPECIFICATION FairSpec
CONSTANTS
  main = main
  a = a
  b = b
  c = c
  None = None
  Main = main
  Plan <- ThreePlans
  Trees <- TwoAndThree
  NumWorkers = 2
  QueueCaps = {3}
PROPERTIES
  HangsOnlyWaiting
CHECK_DEADLOCK FALSE
