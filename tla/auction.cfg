SPECIFICATION Spec
CONSTANTS
  p1 = p1
  p2 = p2
  Providers = {p1, p2}
  Amounts = {1, 2}
  MaxEvents = 2
  MaxAttempts = 1
  MaxFaults = 1
INVARIANTS
  LowestAgrees
  BookCurrent
PROPERTY FeedOpens
CHECK_DEADLOCK FALSE
