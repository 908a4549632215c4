CONSTANTS
  ana = ana
  boris = boris
  vera = vera
  flat = flat
  loft = loft
  l1 = l1
  l2 = l2
  None = None
  Users = {vera}
  Venues = {flat, loft}
  Listings = {l1, l2}
  StayIds = {}
  BlockIds = {b1}
  ChangeIds = {}
  Requests = {r1}
  Sessions = {s1, s2}
  Owner <- MCOwner
  Admins = {}
  Dates <- Range2
  Offers <- MoveOffers
  Catalogues <- SharedFlat
  Ops = {"block", "edit"}
  BlockHorizon = 5
  LastDay = 0
SPECIFICATION Spec
PROPERTIES
  BlockedVenueKeepsListings
CHECK_DEADLOCK FALSE
