CONSTANTS
  MAX_MESSAGE_SIZE = 2
  U8MAX = 3
  Senders = {s1}
  Receivers = {r1, r2}
  Lengths = {2, 5}
  Capacity = 1
  MaxMessages = 3
  SendersMayCancel = FALSE
  Impatient = {r2}
  Closers = {"snd", "rcv"}
SPECIFICATION FairSpec
INVARIANTS TypeOK Fifo HandledIsDelivered
PROPERTIES ChannelSpec OkSendsArrive SendsEnd
CHECK_DEADLOCK FALSE
