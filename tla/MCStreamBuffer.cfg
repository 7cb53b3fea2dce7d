CONSTANTS
  Magic = 9
  Bytes = {0, 9}
  MaxLen = 2
  MaxPayload = 1
  ReadSize = 6
  MaxFrames = 3
  NoFrame = NoFrame
SPECIFICATION Spec
INVARIANTS BufferSound FramesIntact
PROPERTIES ParsesFrames
CHECK_DEADLOCK FALSE
