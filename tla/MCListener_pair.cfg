CONSTANTS
  Connections = {c1, c2}
  MaxOffers = 2
  MaxCandidates = 2
  Openers = {1}
  OffersRepeat = FALSE
  OffersMayFail = FALSE
SYMMETRY ConnectionSymmetry
CONSTRAINT OneStaysUp
SPECIFICATION Spec
INVARIANTS TypeOK CandidatesAreAddable KeepsRegistrations WokenByOwnCandidate ReadyMeansConnected QueuedOnce
CHECK_DEADLOCK FALSE
