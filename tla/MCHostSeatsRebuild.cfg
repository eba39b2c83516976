SPECIFICATION FairSpec
CONSTANTS
  None = None
  Guests = {g1, g2}
  Seats = {s1}
  Slots = {f1}
  Depth = 1
  SoundSlots = {p1}
  SoundDepth = 1
  MaxFrames = 1
  MaxPackets = 1
  MaxExits = 2
CHECK_DEADLOCK FALSE
INVARIANT HoldsCounted
PROPERTY GuestIsAdmitted
