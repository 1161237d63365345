SPECIFICATION Spec
CONSTANTS
  Requests = {r1}
  r1 = r1
  MaxPairs = 3
  MaxLoads = 1
  Lossy = FALSE
INVARIANT StaysLoggedIn
CHECK_DEADLOCK FALSE
