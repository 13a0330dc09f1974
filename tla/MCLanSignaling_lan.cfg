CONSTANTS
  c = c
  s1 = s1
  s2 = s2
  Nodes = {c, s1, s2}
  HostOf <- Places
  Listening = {s1, s2}
  Serving = {s1}
  Callers = {c}
  Stopping = {s1}
  Subscriber = s1
  Signals = {4031, 4032}
  Pongs = {motd}
  MaxCopies = 2
  RingCapacity = 1
  ADDRESS_TIMEOUT = 2
  BROADCAST_INTERVAL = 1
SPECIFICATION FairSpec
INVARIANTS TypeOK AddressesAreFresh SignalsAreMeant
PROPERTIES FeedSpec ShutdownIsFinal SubscribersSeeTheEnd Discovers SignalsArrive
CHECK_DEADLOCK FALSE
