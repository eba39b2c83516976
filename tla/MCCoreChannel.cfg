SPECIFICATION Spec
CONSTANTS
    None = None
    SeqSpace = 9
    Depth = 2
    Cap = 1
    Channels = {control, video}
    Control = control
    Loads <- BothAndLong
    MaxAcks = 1
INVARIANT InOrder
INVARIANT RetiredWasSeen
CHECK_DEADLOCK FALSE
