SPECIFICATION Spec
CONSTANTS
  None = None
  Tokens = {t1}
  MaxGeneration = 2
  RequestIds = {q1}
  Losable = {"Probe"}
CHECK_DEADLOCK FALSE
INVARIANT Agreement
INVARIANT NoSplitBrain
INVARIANT CommitNeedsTwoWayProof
PROPERTY ImplementsHandoff
PROPERTY HandshakeCompletes
PROPERTY AttemptSettles
