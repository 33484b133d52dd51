SPECIFICATION Spec
CONSTANTS
  a = a
  b = b
  c = c
  d = d
  NoModule = NoModule
  Modules = {a, b, c, d}
  Async = {b, c}
  Unlinkable = {d}
  Graphs <- OneShape
  MaxRequests = 2
  MaxRuns = 1
  MaxImports = 2
  MaxAwaits = 2
  MayStop = FALSE
PROPERTY EverythingImportingItWaits
CHECK_DEADLOCK FALSE
