CONSTANTS
  a = a
  b = b
  c = c
  web = web
  x = x
  y = y
  Dir <- MCDir
  Above <- MCAbove
  Op = {x, y}
  Plan <- MCPlan
  Main = main
  Contents <- MCContents
  KeyOf <- OwnKeys
  NoFile = noFile
  Torn = torn
  NoContent = noContent
  Commands <- MCCommands
  MaxEdits = 1

SPECIFICATION Spec

INVARIANTS
  TypeOK
  StateKept
  StateDropped
  NoTornRead
