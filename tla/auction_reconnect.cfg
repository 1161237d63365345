SPECIFICATION Spec
CONSTANTS
  p1 = p1
  p2 = p2
  Providers = {p1, p2}
  Amounts = {1, 2}
  MaxEvents = 0
  MaxAttempts = 1
  MaxFaults = 1
PROPERTY FeedReconnects
CHECK_DEADLOCK FALSE
