SPECIFICATION FairSpec
CONSTANTS
    SeqSpace = 8
    MaxPending = 1
    None = None
    MaxSession = 2
    MaxCopies = 1
INVARIANT ClientJoinsHost
INVARIANT NobodyRejected
PROPERTY HandshakeCompletes
CHECK_DEADLOCK FALSE
