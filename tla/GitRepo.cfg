CONSTANTS
  main = main
  stable = stable
  next = next
  Branch <- MCBranch
  Default = main
  RefName <- MCRefName
  MaxCommit = 2
  Tag = tag
  Tagged = 1
  NoRef = noRef
  HeadRef = headRef
  NoVersion = noVersion
  NoCommit = noCommit
  MaxPushes = 4

SPECIFICATION Spec

INVARIANTS
  TypeOK
  Follows
  Settles

PROPERTIES
  PinHeld
