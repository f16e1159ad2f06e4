SPECIFICATION Spec
CONSTANTS
  Escape = 1
  BufSize = 6
  Sizes = {0, 1, 2}
  Messages <- MCMessages
  MaxSent = 2
INVARIANTS
  BufferBounded
  NoFrameWaits
PROPERTIES
  DeliversInOrder
  EachHandled
CHECK_DEADLOCK FALSE
