SPECIFICATION FairSpec
CONSTANTS
    SeqSpace = 4
    MaxPending = 2
    None = None
    MaxMessages <- Lopsided
    MaxCopies = 1
INVARIANT InOrderDelivery
INVARIANT AckedIsDelivered
PROPERTY EveryMessageArrives
CHECK_DEADLOCK FALSE
