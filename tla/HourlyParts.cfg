CONSTANTS
  ana = ana
  boris = boris
  court = court
  s1 = s1
  s2 = s2
  carl = carl
  dora = dora
  i1 = i1
  i2 = i2
  k1 = k1
  k2 = k2
  x1 = x1
  x2 = x2
  None = None
  Users = {ana}
  Resources = {court}
  Capacity <- TwoPlaces
  Rules <- AnyLength
  Rows = {i1}
  Keys = {}
  Checkouts = {k1, k2}
  Sessions = {s1, s2}
  Requests <- OneSlot
  Moves <- LaterSlots
  Parties = {1}
  Hold = 1
  FreePeriod = 1
  Early = 1
  Grace = 0
  LastTick = 3
  Ops = {"book", "move", "cancel", "pay", "checkout", "webhook", "expire", "checkin", "complete", "noshow", "confirm"}
  Customers = {carl, dora}
  Regulars = {carl}
  Hours = {1, 2}
  Wishes <- Competing
  PlainWishes <- OfTheBlocked
  Ids = {i1, i2}
  Stock = 1
  MaxRedemptions = 2
  MaxBlocks = 2
  Members = {ana, boris}
  Entries = {i1, i2}
  MaxBookings = 2
  Transferred = {i1, i2}
  Offers = {k1, k2}
  Limit = 1
  Guests = {carl}
  Reminded = {i1}
  Starts = {2, 3}
  First = 2
  Final = 1
  LastRun = 2
  MaxDismissals = 1
SPECIFICATION PartsSpec
SYMMETRY Swaps
INVARIANTS
  CompletedCheckedIn
  
  ToldOnce
PROPERTIES
  HoldHonoured
  AttendanceDecidedOnce
  BlockedNeverBook
  
  
CHECK_DEADLOCK FALSE
