CONSTANTS
  home = home
  other = other
  MaxActivations = 3
  MaxOpen = 2
  MaxReentries = 2
  Realms = {home, other}
  Features <- Everything
SPECIFICATION Spec
INVARIANTS StacksAreOwn GeneratorHasOneHome
           RegistersAreOwn
CHECK_DEADLOCK FALSE
