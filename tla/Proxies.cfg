CONSTANTS
  Absent = Absent
  None = None
  Undefined = Undefined
  Length = length
  Values = {x, Undefined}
  Functions = {g, Undefined}
  MaxLength = 2
  Depth = 2
  MayOmit = FALSE
SPECIFICATION Spec
INVARIANTS TypeOK LengthAboveIndices PromisesKept
PROPERTIES PermanentStays
