SPECIFICATION Spec
CONSTANTS
    None = None
    Guests = {g1, g2}
    MaxPending = 1
    MaxSockets <- SocketBound
SYMMETRY GuestSymmetry
INVARIANT PairSharesEpoch
INVARIANT PublishedIsServed
INVARIANT RelayFollowsOwner
PROPERTY FreshSocketFits
CHECK_DEADLOCK FALSE
