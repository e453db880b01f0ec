SPECIFICATION Spec
CONSTANTS
  x = x
  y = y
  z = z
  w = w
  t = t
  u = u
  nowhere = nowhere
  args = args
  Null = Null
  Absent = Absent
  Cell <- Cells
  Value = {1, 2}
  Arguments = {args}
  MaxStamp = 18
  MaxChanges = 2
  Scripts <- SomeScripts
INVARIANTS
  TracksState
