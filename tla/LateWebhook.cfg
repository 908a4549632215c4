CONSTANTS
  ana = ana
  boris = boris
  vera = vera
  court = court
  s1 = s1
  s2 = s2
  None = None
  Users = {ana}
  Resources = {court}
  Capacity <- TwoPlaces
  Rules <- AnyLength
  Rows = {i1}
  Keys = {}
  Checkouts = {c1}
  Sessions = {s1, s2}
  Requests <- OneSlot
  Moves <- NoMoves
  Parties = {1}
  Hold = 1
  FreePeriod = 1
  Early = 1
  Grace = 0
  LastTick = 3
  Ops = {"book", "checkout", "webhook"}
SPECIFICATION Spec
SYMMETRY Interchangeable
PROPERTIES
  ElapsedNeverConfirmed
CHECK_DEADLOCK FALSE
