SPECIFICATION Spec
CONSTANTS
  Providers = {p1}
  Handlers = {h1, h2}
  Scheduler = sched
  NoBid = nobid
  MaxAmount = 3
  StartingBid = 3
  OfferPrice = 2
  Live = TRUE
  EndsAt0 = 1
  Window = 1
  MaxNow = 4
  MayAbort = FALSE
INVARIANTS
  DeadlineAccounted
  PublishedIsRecorded
CHECK_DEADLOCK FALSE
