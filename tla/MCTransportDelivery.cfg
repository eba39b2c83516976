SPECIFICATION Spec
CONSTANTS
  None = None
  Capacity = 2
  Window = 2
  StaleAfter = 1
  Threshold = 2
  MaxDelay = 1
  MaxAckDelay = 1
  MaxGeneration = 2
  MaxCounter = 3
  MaxTime = 3
CHECK_DEADLOCK FALSE
INVARIANT HonestPeerAccepted
INVARIANT DeliveredWasObserved
INVARIANT WindowIsExact
INVARIANT RttIsTransit
