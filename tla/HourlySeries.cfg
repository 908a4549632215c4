CONSTANTS
  ana = ana
  boris = boris
  vera = vera
  court = court
  s1 = s1
  s2 = s2
  None = None
  Users = {ana}
  Resources = {court}
  Capacity <- TwoPlaces
  Rules <- AnyLength
  Rows = {i1, i2}
  Keys = {}
  Checkouts = {}
  Sessions = {s1, s2}
  Requests <- OverlappingSeries
  Moves <- LaterSlots
  Parties = {1, 2}
  Hold = 1
  FreePeriod = 1
  Early = 1
  Grace = 0
  LastTick = 2
  Ops = {"book", "move", "series", "expire"}
SPECIFICATION LiveSpec
PROPERTIES
  HoldsEnd
CHECK_DEADLOCK FALSE
