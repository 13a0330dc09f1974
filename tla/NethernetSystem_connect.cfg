CONSTANTS
  RingCapacity = 2
  MaxSignals = 3
  Candidates = {k1}
  StepsMayFail = TRUE
  SignalsMayEnd = FALSE
  Connections = {c1}
  MaxOffers = 1
  MaxCandidates = 1
  Openers = {}
  OffersRepeat = FALSE
  OffersMayFail = TRUE
SPECIFICATION SysFairSpec
INVARIANTS SysTypeOK NoneMissed AddedAfterRemote AnswerIsServed
PROPERTIES OkIsAccepted ReturnsUnlessLost AnsweredReturns
CHECK_DEADLOCK FALSE
