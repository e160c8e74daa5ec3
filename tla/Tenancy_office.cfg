SPECIFICATION Spec
CONSTANTS
  Workers = {w1, w2}
  Leases = {l1, l2, l3}
  Units = {u1, u2}
  Offers = {o1, o2}
  ForSale = u1
  LastDay = 2
  Scopes <- Desks
SYMMETRY Symmetry
CHECK_DEADLOCK FALSE
INVARIANTS
  TypeOK
  DoubleLettingNeedsRace
  LetUnitsAreOccupied
  OffersFitListing
  StampsFollowStatus
