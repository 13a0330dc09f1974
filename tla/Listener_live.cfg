CONSTANTS
  Connections = {c1}
  MaxOffers = 2
  MaxCandidates = 1
  Openers = {}
  OffersRepeat = TRUE
  OffersMayFail = TRUE
SPECIFICATION FairSpec
PROPERTIES AnsweredIsAccepted GoneIsCleanedUp DropEndsTheTask
CHECK_DEADLOCK FALSE
