SPECIFICATION Spec
CONSTANTS
  Requests = {r1}
  r1 = r1
  MaxPairs = 2
  MaxLoads = 1
  Lossy = TRUE
INVARIANTS
  
  CookieCurrent
PROPERTIES
  RetryFresh
  GuardSettles
  WaitersReleased
CHECK_DEADLOCK FALSE
