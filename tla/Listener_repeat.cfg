CONSTANTS
  Connections = {c1}
  MaxOffers = 2
  MaxCandidates = 1
  Openers = {}
  OffersRepeat = TRUE
  OffersMayFail = FALSE
SPECIFICATION Spec
INVARIANTS KeepsRegistrations
CHECK_DEADLOCK FALSE
