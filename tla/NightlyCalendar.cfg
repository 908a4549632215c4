CONSTANTS
  ana = ana
  boris = boris
  vera = vera
  flat = flat
  loft = loft
  l1 = l1
  l2 = l2
  l3 = l3
  None = None
  Users <- MCUsers
  Venues = {flat, loft}
  Listings = {l1, l2, l3}
  StayIds = {i1, i2}
  BlockIds = {b1, b2}
  ChangeIds = {c1}
  Requests = {r1}
  Sessions = {s1, s2}
  Owner <- MCOwner
  Admins = {}
  Dates <- Range2
  Offers <- FlatOrLoft
  Catalogues <- OneFlatFirst
  Ops = {"book", "cancel", "propose", "accept", "block", "unblock",
         "list", "edit", "resource"}
  BlockHorizon = 5
  LastDay = 1
SPECIFICATION Spec
CONSTRAINT CatalogueFirst
SYMMETRY Alike
INVARIANTS
  TypeOK
  NoDoubleBooking
  StaysClearOfBlocks
  BlocksDisjoint
  InsertsNeverCollide
PROPERTIES
  ImplementsCalendar
CHECK_DEADLOCK FALSE
