CONSTANTS
  SlotCount = 3
  Half = 4
  Reach = 1
  Rings = {"capture"}
  MaxBlocks <- BlocksOfCapture
  None = None
SPECIFICATION Spec
INVARIANT CaptureInOrder
