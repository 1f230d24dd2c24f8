CONSTANTS
  SlotCount = 3
  Half = 4
  Reach = 1
  Rings = {"playback", "capture"}
  MaxBlocks <- BlocksOfEach
  None = None
SPECIFICATION FairSpec
INVARIANTS BlocksAreSound OrderIsKept
PROPERTIES ImplementsChannel StaleBlocksLeave
