CONSTANTS
  Part <- MCPart
  Rank <- MCRank
  Kinds = {"files"}
  KindTurn <- MCKindTurn
  MainFile = "polyester.sh"
  PlanFile = "plan.sh"
  PlansDir = "plans"
  Data = {1, 2, 3}
  AsRead <- MCAsRead
  Up = ".."
  Split <- MCSplit
  Dotted <- MCDotted
  Drives = {"c:"}
  Trees <- MCTrees
  Nil = nil

SPECIFICATION Spec

INVARIANTS
  TypeOK
  ReloadsNoInner
  ExtractsFlat
  ExtractsAll

PROPERTIES
  NoOverwrite
