SPECIFICATION Spec
CONSTANTS
  Handlers = {h1, h2}
  Amount = 12
  Payout = 10
  Advances = 1
  Owed <- OwedThree
  RefundRequests = {0, 4}
  MaxReleases = 2
  MaxDisburse = 1
  MayFail = TRUE
SYMMETRY Interchangeable
INVARIANTS ReleasedWasTransferred RefundNeverOverstated RepaymentsAccounted ShortfallCredited
PROPERTIES AdvanceForward ImplementsLending
CHECK_DEADLOCK FALSE
