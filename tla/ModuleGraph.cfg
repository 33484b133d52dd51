SPECIFICATION Spec
CONSTANTS
  a = a
  b = b
  c = c
  d = d
  NoModule = NoModule
  Modules = {a, b, c, d}
  Async = {b, c}
  Unlinkable = {d}
  Graphs <- AllShapes
  MaxRequests = 2
  MaxRuns = 2
  MaxImports = 2
  MaxAwaits = 2
  MayStop = TRUE
INVARIANT TypeOK
PROPERTY EachBodyOnce DependenciesFirst AnswersTellTheGraph EveryImportAnswered
CHECK_DEADLOCK FALSE
