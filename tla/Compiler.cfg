CONSTANTS
  a = a
  b = b
  Name <- MCName
  Root = root
  Main = main
  Missing = missing
  None = none
  Top = top
  Cap = 4
  MaxDepth = 6
  Sep = sep
  Scripts <- MCScripts

CHECK_DEADLOCK FALSE

SPECIFICATION Spec

INVARIANTS
  TypeOK
  EndsForAReason
  DependencyOrder

PROPERTIES
  Finishes
