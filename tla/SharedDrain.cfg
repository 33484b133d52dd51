CONSTANTS
  a1 = a1
  a2 = a2
  a3 = a3
  v0 = v0
  v1 = v1
  Agents = {a1, a2}
  CanBlock = {a1}
  Budgeted = {a2}
  Polling = {a1}
  SlotValues = {v0, v1}
  Zero = v0
  InitialLength = 1
  MaxLength = 1
  MaxWaits = 1
  MaxPromises = 1
SPECIFICATION FairSpec
PROPERTIES AnsweredOnce AnswersCome
