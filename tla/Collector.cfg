CONSTANTS
    Values = {o1, o2, o3}
    Kinds = {"plain", "weakMap", "weakRef", "registry"}
    None = none
    MaxGeneration = 1
    MaxSlots = 3
    MaxReferences = 2
    MaxCarried = 1
SPECIFICATION Spec
INVARIANTS
    
    OwnValueOrNothing
    NothingLeaks
PROPERTIES
    CollectsExactly
    EntriesFollowKeys
    GoneForGood
