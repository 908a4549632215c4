CONSTANTS
  ana = ana
  boris = boris
  vera = vera
  flat = flat
  loft = loft
  l1 = l1
  l2 = l2
  None = None
  Users = {boris, vera}
  Venues = {flat, loft}
  Listings = {l1, l2}
  StayIds = {i1, i2}
  BlockIds = {}
  ChangeIds = {}
  Requests = {r1}
  Sessions = {s1, s2}
  Owner <- Neighbours
  Admins = {}
  Dates <- OneRange
  Offers <- NeighbourOffers
  Catalogues <- NeighbourCatalogue
  Ops = {"book", "cancel"}
  BlockHorizon = 5
  LastDay = 0
SPECIFICATION Spec
INVARIANTS
  NoDeadlock
CHECK_DEADLOCK FALSE
