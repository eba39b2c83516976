SPECIFICATION Spec
CONSTANTS
    None = None
    Devices = {d1}
    Families = {f1, f2}
    DeviceOf <- Shared
    MaxLive = 2
    MaxRetired = 2
    MaxTokens = 3
    MaxUpsets = 2
INVARIANT ChainNeverForks
INVARIANT CondemnedStaysDead
INVARIANT RevokedHoldsNothing
PROPERTY HonestIsNotCondemned
SYMMETRY FamilySymmetry
CHECK_DEADLOCK FALSE
