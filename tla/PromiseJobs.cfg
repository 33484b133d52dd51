CONSTANTS
    Promises = {p1, p2, p3}
    Settlers = {s1, s2, s3, s4}
    UndefinedValue = undefined
    TypeError = typeError
    Primitives = {undefined, typeError}
    ScriptValues = {undefined}
    ForeignObject = foreign
    None = none
    MaxAwaits = 1
    MaxRuns = 2
SPECIFICATION FairSpec
INVARIANTS
    TypeOK
    OneResolver
    Answerable
    ReactionsFollow
PROPERTIES
    SettledOnce
    KeepsPromises
    NoReactionLost
    ReportIsExact
    AdoptionEnds
CHECK_DEADLOCK FALSE
