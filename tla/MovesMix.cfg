CONSTANTS
  ana = ana
  boris = boris
  vera = vera
  court = court
  s1 = s1
  s2 = s2
  None = None
  Users = {ana}
  Resources = {court}
  Capacity <- TwoPlaces
  Rules <- AnyLength
  Rows = {i1}
  Keys = {}
  Checkouts = {}
  Sessions = {s1, s2}
  Requests <- LongSlot
  Moves <- EarlierOrLater
  Parties = {1}
  Hold = 1
  FreePeriod = 1
  Early = 1
  Grace = 0
  LastTick = 3
  Ops = {"book", "move"}
SPECIFICATION Spec
SYMMETRY Interchangeable
INVARIANTS
  BeginsBeforeItEnds
CHECK_DEADLOCK FALSE
