CONSTANTS
  MAX_MESSAGE_SIZE = 2
  U8MAX = 3
  Senders = {io}
  Receivers = {io}
  Writer = io
  Reader = io
  Lengths = {0, 3}
  Capacity = 1
  MaxMessages = 3
  SendersMayCancel = TRUE
  Impatient = {}
  Closers = {"snd", "rcv"}
SPECIFICATION IoFairSpec
INVARIANTS IoTypeOK FlushedIsSent ShutdownFlushes
PROPERTIES ByteStreamSpec FlushedArrives
CHECK_DEADLOCK FALSE
