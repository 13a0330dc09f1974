CONSTANTS
  MAX_MESSAGE_SIZE = 2
  U8MAX = 3
  PeerCounts <- HonestCounts
  MaxFeeds = 6
SPECIFICATION Spec
INVARIANTS TypeOK PacketIsARun RunsAreDelivered OpenRun
CHECK_DEADLOCK FALSE
