CONSTANTS
  Absent = Absent
  None = None
  Undefined = Undefined
  Length = length
  Values = {x, Undefined}
  Functions = {g, Undefined}
  MaxLength = 1
  Depth = 1
  MayOmit = TRUE
SPECIFICATION Spec
INVARIANTS PromisesKept
