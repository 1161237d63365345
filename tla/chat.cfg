SPECIFICATION Spec
CONSTANTS
  c1 = c1
  c2 = c2
  Channels = {c1, c2}
  None = None
  MaxSockets = 2
  MaxQueue = 2
  MaxBackoff = 1
INVARIANTS
  ActiveSubscribed
  QuietAfterDisconnect
  TypingHasTimer
PROPERTY Reconnects
CHECK_DEADLOCK FALSE
