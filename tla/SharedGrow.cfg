CONSTANTS
  a1 = a1
  a2 = a2
  a3 = a3
  v0 = v0
  v1 = v1
  Agents = {a1, a2}
  CanBlock = {}
  Budgeted = {}
  Polling = {}
  SlotValues = {v0, v1}
  Zero = v0
  InitialLength = 1
  MaxLength = 3
  MaxWaits = 0
  MaxPromises = 0
SPECIFICATION BlockSpec
PROPERTY OnlyGrows
