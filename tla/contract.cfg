SPECIFICATION Spec
CONSTANTS
  Handlers = {h1, h2}
  Milestones = 2
  ByMilestone = TRUE
  MaxDisputes = 1
  MayAbort = TRUE
SYMMETRY Interchangeable
INVARIANTS NoStuckAcceptance NothingBeforeBothAccept StartedInOrder RevisionOverrun
PROPERTY ImplementsAgreement
CHECK_DEADLOCK FALSE
