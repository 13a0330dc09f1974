CONSTANTS
  RingCapacity = 1
  MaxSignals = 2
  Candidates = {k1}
  StepsMayFail = FALSE
  SignalsMayEnd = FALSE
SPECIFICATION FairSpec
PROPERTIES SignalingTimesOut
CHECK_DEADLOCK FALSE
