SPECIFICATION Spec
CONSTANTS
  Providers = {p1, p2}
  Handlers = {h1, h2}
  Scheduler = sched
  NoBid = nobid
  MaxAmount = 3
  StartingBid = 3
  OfferPrice = 2
  Live = FALSE
  EndsAt0 = 1
  Window = 1
  MaxNow = 2
  MayAbort = TRUE
SYMMETRY Interchangeable
INVARIANT TypeOK
CHECK_DEADLOCK FALSE
INVARIANTS AmountWithinCap HistoryKeepsOriginal OfferFlagHonest AwardPointsToWinner
PROPERTY NoComeback
