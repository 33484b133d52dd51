CONSTANTS
  MaxRequests = 5
  MaxAwaits = 3
  MayIntrude = FALSE
SPECIFICATION FairSpec
INVARIANTS TypeOK QueueTellsState
PROPERTIES ServesInOrder EveryRequestAnswered
