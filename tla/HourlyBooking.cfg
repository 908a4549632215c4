CONSTANTS
  ana = ana
  boris = boris
  vera = vera
  court = court
  s1 = s1
  s2 = s2
  None = None
  Users = {ana, boris}
  Resources = {court}
  Capacity <- TwoPlaces
  Rules <- OneEach
  Rows = {i1, i2}
  Keys = {k1}
  Checkouts = {}
  Sessions = {s1, s2}
  Requests <- LongAndShort
  Moves <- NextSlot
  Parties = {1, 2}
  Hold = 1
  FreePeriod = 1
  Early = 1
  Grace = 0
  LastTick = 1
  Ops = {"book", "move", "confirm"}
SPECIFICATION Spec
SYMMETRY Interchangeable
INVARIANTS
  CapacityKept
  PeakIsHighest
  KeysNeverCollide
PROPERTIES
  LimitKept
CHECK_DEADLOCK FALSE
