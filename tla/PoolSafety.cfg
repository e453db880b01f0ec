SPECIFICATION Spec
CONSTANTS
  main = main
  a = a
  b = b
  c = c
  None = None
  Main = main
  Plan <- FourPlans
  Trees <- ThreeAndBasic
  NumWorkers = 2
  QueueCaps = {2, 4}
INVARIANTS
  TypeOK
  CountExact
  OnePlace
  DepsFirst
  CompletionsKept
  NothingForgotten
  FullForOneMore
PROPERTIES
  Implements
CHECK_DEADLOCK FALSE
