CONSTANTS
  Admins = {adm}
  Sessions = {s1, s2}
  MaxMessages = 2
  MaxUpdates = 1
  None = None
SPECIFICATION Spec
PROPERTIES
  ClosedTakesNoMessages
CHECK_DEADLOCK FALSE
