CONSTANTS
  Values = {v, w}
  Unheard = Unheard
  MaxElements = 3
SPECIFICATION Spec
INVARIANTS TypeOK CountIsOwed
PROPERTIES IteratorIsTold SettlesWhenDecided
CHECK_DEADLOCK FALSE
