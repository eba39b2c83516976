SPECIFICATION Spec
CONSTANTS
  None = None
  Guests = {g1, g2}
  Seats = {s1, s2}
  Slots = {f1, f2}
  Depth = 1
  SoundSlots = {}
  SoundDepth = 1
  MaxFrames = 4
  MaxPackets = 0
  MaxExits = 1
CHECK_DEADLOCK FALSE
SYMMETRY Symmetry
INVARIANT FramesIntact
INVARIANT ChainUnbroken
INVARIANT RosterIsSeated
PROPERTY GuestIsOnlyPopper
