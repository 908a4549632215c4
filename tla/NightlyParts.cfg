CONSTANTS
  ana = ana
  boris = boris
  vera = vera
  flat = flat
  loft = loft
  l1 = l1
  l2 = l2
  i1 = i1
  i2 = i2
  r1 = r1
  r2 = r2
  s1 = s1
  s2 = s2
  s3 = s3
  None = None
  Users <- MCUsers
  Venues = {flat, loft}
  Listings = {l1, l2}
  StayIds = {i1, i2}
  BlockIds = {b1}
  ChangeIds = {c1, c2}
  Requests = {r1, r2}
  Sessions = {s1, s2, s3}
  Owner <- MCOwner
  Admins = {boris}
  Dates <- AllDates
  Offers <- AllOffers
  Catalogues <- Starts
  Ops = {"book", "cancel", "propose", "accept", "decline", "withdraw",
         "block", "list", "edit", "resource"}
  BlockHorizon = 5
  LastDay = 1
SPECIFICATION PartsSpec
SYMMETRY Alike
INVARIANTS
  OnePendingChange
  ExclusiveInventory
  StaysOnListingVenue
  ChangesNeverDeadlock
PROPERTIES
  AgreedTermsOnly
  CancelledIsFinal
  GapRespected
CHECK_DEADLOCK FALSE
