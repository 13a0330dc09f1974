CONSTANTS
  MAX_MESSAGE_SIZE = 2
  U8MAX = 3
  Senders = {s1}
  Receivers = {r1}
  Lengths = {1, 3, 5}
  Capacity = 1
  MaxMessages = 4
  SendersMayCancel = TRUE
  Impatient = {}
  Closers = {}
SPECIFICATION Spec
INVARIANTS DamageConfined
CHECK_DEADLOCK FALSE
