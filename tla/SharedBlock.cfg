CONSTANTS
  a1 = a1
  a2 = a2
  a3 = a3
  v0 = v0
  v1 = v1
  Agents = {a1, a2, a3}
  CanBlock = {a1, a2, a3}
  Budgeted = {}
  Polling = {}
  SlotValues = {v0, v1}
  Zero = v0
  InitialLength = 1
  MaxLength = 1
  MaxWaits = 3
  MaxPromises = 0
SPECIFICATION BlockSpec
INVARIANTS CountedIsAnswered NoLostWakeup
PROPERTY OldestFirst
SYMMETRY Symmetric
