CONSTANTS
  MAX_MESSAGE_SIZE = 2
  U8MAX = 3
  Senders = {s1, s2}
  Receivers = {r1}
  Lengths = {1, 3}
  Capacity = 1
  MaxMessages = 2
  SendersMayCancel = FALSE
  Impatient = {}
  Closers = {}
SPECIFICATION Spec
INVARIANTS PacketsArePayloads
CHECK_DEADLOCK FALSE
